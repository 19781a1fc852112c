--------------------------- MODULE ScreensProofs ---------------------------
(***************************************************************************)
(* Proofs about Screens, for any threads, slots and bounds: the types, and *)
(* that nothing uncommitted is on its way to a page or on it.  Both are    *)
(* inductive together: every step either leaves lastId or raises it before *)
(* it hands out the new id.                                                *)
(***************************************************************************)
EXTENDS Screens, TLAPS

IInv == TypeOK /\ OnlyCommittedShown

LEMMA InitInv == Init => IInv
<1> SUFFICES ASSUME Init PROVE IInv
  OBVIOUS
<1> USE ConstantsAssumption
<1>1. None \in Message /\ None.row = 0
  BY DEF None, Signal, Message, Kinds
<1>2. TypeOK
  <2>1. loads \in [Slots -> LoadType]
    <3>1. NoLoad \in LoadType /\ Asked \in LoadType
      BY DEF NoLoad, Asked, LoadType
    <3>2. PICK l \in Slots :
            loads = [k \in Slots |-> IF k = l THEN Asked ELSE NoLoad]
      BY DEF Init
    <3> QED BY <3>1, <3>2
  <2>2. serving \in [Threads -> [busy : BOOLEAN, event : Message, answer : Message]]
    BY <1>1 DEF Init, Free
  <2>3. lastId = 0 /\ today = 0 /\ swept = 0 /\ pending = {} /\ screen = {}
    BY DEF Init
  <2>4. joined \in BOOLEAN /\ catchup \in BOOLEAN
    BY Zenon DEF Init
  <2>5. inbox \in Seq(Message) /\ reply \in Message
    <3>1. inbox = <<>> /\ reply = None
      BY DEF Init
    <3> QED BY <1>1, <3>1
  <2> QED BY <2>1, <2>2, <2>3, <2>4, <2>5 DEF TypeOK, Ids
<1>3. OnlyCommittedShown
  BY <1>1 DEF Init, OnlyCommittedShown, Committed, Free, NoLoad, Asked, None, Signal
<1> QED BY <1>2, <1>3 DEF IInv

(* What a request thread may do to the server's state.                     *)
LEMMA ServerStep ==
  ASSUME IInv, lastId' \in 0..MaxId, lastId <= lastId', pending' \subseteq 1..lastId',
         today' \in 0..MaxId, swept' \in 0..MaxId,
         serving' \in [Threads -> [busy : BOOLEAN, event : Message, answer : Message]],
         \A t \in Threads : Committed(serving[t].event)' /\ Committed(serving[t].answer)',
         UNCHANGED page
  PROVE  IInv'
<1> USE ConstantsAssumption
<1>1. TypeOK'
  BY DEF IInv, TypeOK, page, Ids
<1>2. \A i \in 1..Len(inbox') : Committed(inbox[i])'
  <2> SUFFICES ASSUME NEW i \in 1..Len(inbox') PROVE Committed(inbox[i])'
    OBVIOUS
  <2>1. Committed(inbox[i]) /\ inbox[i] \in Message /\ inbox' = inbox
    BY DEF IInv, TypeOK, OnlyCommittedShown, page
  <2> QED BY <2>1 DEF IInv, TypeOK, Message, Committed
<1>3. Committed(reply)'
  BY DEF IInv, TypeOK, OnlyCommittedShown, Committed, Message, page
<1>4. screen' \subseteq 1..lastId' /\ \A l \in Slots : loads'[l].rows \subseteq 1..lastId'
  BY DEF IInv, TypeOK, OnlyCommittedShown, page
<1> QED
  BY <1>1, <1>2, <1>3, <1>4 DEF IInv, OnlyCommittedShown

LEMMA OwesCommitted ==
  ASSUME IInv, NEW t \in Threads, NEW event \in Message, NEW answer \in Message,
         lastId' \in 0..MaxId, lastId <= lastId',
         event.row <= lastId', event.kind = "new" => event.row # 0,
         answer.row <= lastId', answer.kind = "new" => answer.row # 0,
         Owes(t, event, answer)
  PROVE  /\ serving' \in [Threads -> [busy : BOOLEAN, event : Message, answer : Message]]
         /\ \A u \in Threads : Committed(serving[u].event)' /\ Committed(serving[u].answer)'
<1> USE ConstantsAssumption
<1>1. None \in Message /\ None.row = 0
  BY DEF None, Signal, Message, Kinds
<1>2. serving' \in [Threads -> [busy : BOOLEAN, event : Message, answer : Message]]
  BY <1>1 DEF Owes, IInv, TypeOK
<1>3. ASSUME NEW u \in Threads
      PROVE  Committed(serving[u].event)' /\ Committed(serving[u].answer)'
  <2>1. CASE u = t
    BY <1>1, <2>1 DEF Owes, IInv, TypeOK, Committed, None, Signal
  <2>2. CASE u # t
    <3>1. serving'[u] = serving[u]
      BY <2>2 DEF Owes, IInv, TypeOK
    <3>2. serving[u].event \in Message /\ serving[u].answer \in Message
      BY DEF IInv, TypeOK
    <3>3. Committed(serving[u].event) /\ Committed(serving[u].answer)
      BY DEF IInv, OnlyCommittedShown
    <3> QED BY <3>1, <3>2, <3>3 DEF Message, IInv, TypeOK, Committed
  <2> QED BY <2>1, <2>2
<1> QED BY <1>2, <1>3

LEMMA Messages ==
  /\ \A k \in Kinds : Signal(k) \in Message /\ Signal(k).row = 0 /\ Signal(k).kind = k
  /\ \A r \in Ids, t \in Threads :
       New(r, t) \in Message /\ New(r, t).row = r /\ New(r, t).row # 0
  /\ \A r \in Ids : Gone(r) \in Message /\ Gone(r).row = r /\ Gone(r).kind # "new"
  /\ None \in Message /\ None.row = 0 /\ None.kind = "none"
  BY ConstantsAssumption DEF Signal, New, Gone, None, Message, Kinds, Ids

(* One step per handler.                                                   *)
LEMMA HandlerInv ==
  ASSUME IInv, NEW t \in Threads, HandlerNext(t)
  PROVE  IInv'
<1> USE ConstantsAssumption
<1>0. /\ lastId \in 0..MaxId /\ pending \subseteq 1..lastId
      /\ today \in 0..MaxId /\ swept \in 0..MaxId
      /\ Listed \subseteq 1..lastId
      /\ {"none", "cleared", "moved"} \subseteq Kinds
  BY DEF IInv, TypeOK, OnlyCommittedShown, Listed, Kinds
<1>1. CASE ScanNew(t)
  <2>1. lastId' = lastId + 1 /\ lastId' \in 0..MaxId /\ lastId + 1 \in Ids
    BY <1>0, <1>1 DEF ScanNew, Ids
  <2>2. pending' \subseteq 1..lastId'
    BY <1>0, <1>1, <2>1 DEF ScanNew
  <2>3. /\ New(lastId + 1, t) \in Message /\ New(lastId + 1, t).row = lastId + 1
        /\ New(lastId + 1, t).row # 0
    BY <2>1, Messages
  <2>4. Owes(t, New(lastId + 1, t), New(lastId + 1, t))
    BY <1>1 DEF ScanNew
  <2>5. lastId <= lastId' /\ New(lastId + 1, t).row <= lastId'
    BY <1>0, <2>1, <2>3
  <2>6. /\ serving' \in [Threads -> [busy : BOOLEAN, event : Message, answer : Message]]
        /\ \A u \in Threads : Committed(serving[u].event)' /\ Committed(serving[u].answer)'
    BY <2>1, <2>3, <2>4, <2>5, OwesCommitted
  <2>7. UNCHANGED <<today, swept, page>>
    BY <1>1 DEF ScanNew
  <2> QED BY <1>0, <2>1, <2>2, <2>5, <2>6, <2>7, ServerStep
<1>2. CASE ScanPending(t)
  BY <1>0, <1>2, ServerStep DEF ScanPending, IInv, TypeOK, OnlyCommittedShown, Committed
<1>3. ASSUME NEW r \in Ids, MarkRestocked(t, r) PROVE IInv'
  <2>1. /\ Gone(r) \in Message /\ Gone(r).row <= lastId /\ lastId <= lastId
        /\ Gone(r).kind # "new"
    BY <1>0, <1>3, Messages DEF MarkRestocked, Ids
  <2>2. Owes(t, Gone(r), Gone(r)) /\ UNCHANGED <<lastId, today, swept, page>>
    BY <1>3 DEF MarkRestocked
  <2>3. /\ serving' \in [Threads -> [busy : BOOLEAN, event : Message, answer : Message]]
        /\ \A u \in Threads : Committed(serving[u].event)' /\ Committed(serving[u].answer)'
    BY <1>0, <2>1, <2>2, OwesCommitted
  <2>4. pending' \subseteq 1..lastId'
    BY <1>0, <1>3 DEF MarkRestocked
  <2> QED BY <1>0, <2>1, <2>2, <2>3, <2>4, ServerStep
<1>4. CASE UndoLast(t)
  <2>1. PICK r \in pending : pending' = pending \ {r} /\ Owes(t, Gone(r), Signal("moved"))
    BY <1>4 DEF UndoLast
  <2>2. UNCHANGED <<lastId, today, swept, page>>
    BY <1>4 DEF UndoLast
  <2>3. r \in Ids /\ r <= lastId /\ lastId <= lastId
    BY <1>0, <2>1 DEF Ids
  <2>4. /\ Gone(r) \in Message /\ Gone(r).row <= lastId
        /\ Gone(r).kind # "new" /\ Signal("moved").kind = "moved"
        /\ Signal("moved") \in Message /\ Signal("moved").row <= lastId
    BY <1>0, <2>3, Messages
  <2>5. /\ serving' \in [Threads -> [busy : BOOLEAN, event : Message, answer : Message]]
        /\ \A u \in Threads : Committed(serving[u].event)' /\ Committed(serving[u].answer)'
    BY <1>0, <2>1, <2>2, <2>3, <2>4, OwesCommitted
  <2>6. pending' \subseteq 1..lastId'
    BY <1>0, <2>1, <2>2
  <2> QED BY <1>0, <2>2, <2>3, <2>5, <2>6, ServerStep
<1>5. ASSUME NEW a \in {"none", "cleared", "moved"}, NEW b \in {"none", "cleared", "moved"},
             lastId' \in 0..MaxId, lastId <= lastId', pending' \subseteq 1..lastId',
             swept' \in 0..MaxId, Owes(t, Signal(a), Signal(b)), UNCHANGED <<today, page>>
      PROVE  IInv'
  <2>1. /\ Signal(a) \in Message /\ Signal(a).row <= lastId' /\ Signal(a).kind # "new"
        /\ Signal(b) \in Message /\ Signal(b).row <= lastId' /\ Signal(b).kind # "new"
    BY <1>0, <1>5, Messages
  <2>2. /\ serving' \in [Threads -> [busy : BOOLEAN, event : Message, answer : Message]]
        /\ \A u \in Threads : Committed(serving[u].event)' /\ Committed(serving[u].answer)'
    BY <1>5, <2>1, OwesCommitted
  <2> QED BY <1>0, <1>5, <2>2, ServerStep
<1>6. CASE ClearAll(t)
  BY <1>0, <1>5, <1>6 DEF ClearAll
<1>7. CASE ClearFails(t)
  <2>1. Owes(t, Signal("none"), Signal("cleared"))
    BY <1>7 DEF ClearFails, None
  <2>2. /\ lastId' \in 0..MaxId /\ lastId <= lastId' /\ pending' \subseteq 1..lastId'
        /\ swept' \in 0..MaxId /\ UNCHANGED <<today, page>>
    BY <1>0, <1>7 DEF ClearFails
  <2> QED BY <1>5, <2>1, <2>2
<1>8. CASE TransferToMorning(t)
  BY <1>0, <1>5, <1>8 DEF TransferToMorning
<1>9. ASSUME NEW n \in {0, 1}, TransferToSales(t, n) PROVE IInv'
  <2>1. /\ lastId' = lastId + n /\ lastId' \in 0..MaxId /\ lastId <= lastId'
        /\ UNCHANGED <<today, swept, page>>
    BY <1>0, <1>9 DEF TransferToSales
  <2>2. pending' \subseteq 1..lastId'
    BY <1>0, <1>9, <2>1 DEF TransferToSales
  <2>3. Owes(t, Signal("moved"), Signal("moved"))
    BY <1>9 DEF TransferToSales
  <2> QED BY <1>0, <1>5, <2>1, <2>2, <2>3
<1>10. CASE t # Own /\ Cleanup(t)
  <2>1. Owes(t, Signal("cleared"), Signal("none"))
    BY <1>10 DEF Cleanup, None
  <2>2. /\ lastId' \in 0..MaxId /\ lastId <= lastId' /\ pending' \subseteq 1..lastId'
        /\ swept' \in 0..MaxId /\ UNCHANGED <<today, page>>
    BY <1>0, <1>10 DEF Cleanup
  <2> QED BY <1>5, <2>1, <2>2
<1> QED
  BY <1>1, <1>2, <1>3, <1>4, <1>6, <1>7, <1>8, <1>9, <1>10 DEF HandlerNext, MarkMissing

LEMMA AdminInv ==
  ASSUME IInv, AdminAdd \/ (\E r \in Ids : AdminRestock(r)) \/ AdminClear \/ NewDay
  PROVE  IInv'
<1> USE ConstantsAssumption
<1>0. /\ lastId \in 0..MaxId /\ pending \subseteq 1..lastId
      /\ today \in 0..MaxId /\ swept \in 0..MaxId
  BY DEF IInv, TypeOK, OnlyCommittedShown
<1>1. /\ lastId' \in 0..MaxId /\ lastId <= lastId' /\ pending' \subseteq 1..lastId'
      /\ today' \in 0..MaxId /\ UNCHANGED <<swept, serving, page>>
  <2>1. CASE AdminAdd
    BY <1>0, <2>1 DEF AdminAdd
  <2>2. CASE \E r \in Ids : AdminRestock(r)
    BY <1>0, <2>2 DEF AdminRestock
  <2>3. CASE AdminClear
    BY <1>0, <2>3 DEF AdminClear
  <2>4. CASE NewDay
    BY <1>0, <2>4 DEF NewDay
  <2> QED BY <2>1, <2>2, <2>3, <2>4
<1>2. ASSUME NEW t \in Threads
      PROVE  Committed(serving[t].event)' /\ Committed(serving[t].answer)'
  <2>1. serving[t].event \in Message /\ serving[t].answer \in Message
    BY DEF IInv, TypeOK
  <2>2. Committed(serving[t].event) /\ Committed(serving[t].answer)
    BY DEF IInv, OnlyCommittedShown
  <2> QED BY <1>0, <1>1, <2>1, <2>2 DEF Committed, Message
<1>3. serving' \in [Threads -> [busy : BOOLEAN, event : Message, answer : Message]]
  BY <1>1 DEF IInv, TypeOK
<1> QED BY <1>0, <1>1, <1>2, <1>3, ServerStep

LEMMA FinishInv ==
  ASSUME IInv, NEW t \in Threads, LoseItem(t) \/ Emit(t)
  PROVE  IInv'
<1> USE ConstantsAssumption
<1>0. /\ serving[t].event \in Message /\ serving[t].answer \in Message
      /\ Committed(serving[t].event) /\ Committed(serving[t].answer)
      /\ lastId \in 0..MaxId /\ UNCHANGED <<lastId, today, swept, pending>>
  BY DEF IInv, TypeOK, OnlyCommittedShown, LoseItem, Emit
<1>1. /\ Free \in [busy : BOOLEAN, event : Message, answer : Message]
      /\ None.row = 0 /\ None.kind = "none"
  BY Messages DEF Free
<1>2. /\ serving' \in [Threads -> [busy : BOOLEAN, event : Message, answer : Message]]
      /\ serving' = [serving EXCEPT ![t] = Free]
  BY <1>1 DEF IInv, TypeOK, LoseItem, Emit
<1>3. ASSUME NEW u \in Threads
      PROVE  Committed(serving[u].event)' /\ Committed(serving[u].answer)'
  <2>1. CASE u = t
    <3>1. serving'[u] = Free
      BY <1>2, <2>1 DEF IInv, TypeOK
    <3> QED BY <1>0, <1>1, <3>1 DEF Free, Committed
  <2>2. CASE u # t
    BY <1>0, <1>2, <2>2 DEF IInv, TypeOK, OnlyCommittedShown, Committed
  <2> QED BY <2>1, <2>2
<1>4. CASE LoseItem(t)
  BY <1>0, <1>2, <1>3, <1>4, ServerStep DEF LoseItem, IInv, TypeOK, OnlyCommittedShown
<1>5. CASE Emit(t)
  <2>1. inbox \in Seq(Message) /\ \A i \in 1..Len(inbox) : Committed(inbox[i])
    BY DEF IInv, TypeOK, OnlyCommittedShown
  <2>2. inbox' \in Seq(Message) /\ \A i \in 1..Len(inbox') : Committed(inbox[i])'
    <3>1. CASE inbox' = Append(inbox, serving[t].event)
      <4>1. inbox' \in Seq(Message)
        BY <1>0, <2>1, <3>1
      <4>2. ASSUME NEW i \in 1..Len(inbox') PROVE Committed(inbox'[i])
        <5>1. CASE i = Len(inbox) + 1
          <6>1. inbox'[i] = serving[t].event
            BY <2>1, <3>1, <5>1
          <6> QED BY <1>0, <6>1 DEF Committed
        <5>2. CASE i # Len(inbox) + 1
          <6>1. i \in 1..Len(inbox) /\ inbox'[i] = inbox[i]
            BY <1>0, <2>1, <3>1, <4>2, <5>2
          <6> QED BY <2>1, <6>1
        <5> QED BY <5>1, <5>2
      <4> QED BY <1>0, <4>1, <4>2 DEF Committed
    <3>2. CASE inbox' = inbox
      BY <1>0, <2>1, <3>2 DEF Committed
    <3> QED BY <1>5, <3>1, <3>2 DEF Emit
  <2>3. reply' \in Message /\ Committed(reply)'
    BY <1>0, <1>5 DEF Emit, IInv, TypeOK, OnlyCommittedShown, Committed
  <2>4. UNCHANGED <<joined, catchup, loads, screen>>
    BY <1>5 DEF Emit
  <2>5. TypeOK'
    BY <1>0, <1>2, <2>2, <2>3, <2>4 DEF IInv, TypeOK
  <2> QED
    BY <1>0, <1>3, <2>2, <2>3, <2>4, <2>5 DEF IInv, OnlyCommittedShown
<1> QED BY <1>4, <1>5

-----------------------------------------------------------------------------
(* The page.                                                               *)

LEMMA PageStep ==
  ASSUME IInv, UNCHANGED server, joined' \in BOOLEAN, catchup' \in BOOLEAN,
         inbox' \in Seq(Message), \A i \in 1..Len(inbox') : Committed(inbox'[i]),
         loads' \in [Slots -> LoadType], \A l \in Slots : loads'[l].rows \subseteq 1..lastId,
         reply' \in Message, Committed(reply'), screen' \subseteq 1..lastId
  PROVE  IInv'
<1>1. TypeOK'
  BY ConstantsAssumption DEF IInv, TypeOK, OnlyCommittedShown, server, Ids
<1>2. OnlyCommittedShown'
  BY DEF IInv, OnlyCommittedShown, Committed, server
<1> QED BY <1>1, <1>2 DEF IInv

LEMMA StartTyped ==
  ASSUME IInv, NEW l \in Slots, Start(l)
  PROVE  /\ loads' \in [Slots -> LoadType]
         /\ \A k \in Slots : loads'[k].rows \subseteq 1..lastId
<1>1. Asked \in LoadType /\ Asked.rows = {}
  BY DEF Asked, LoadType
<1> QED BY <1>1 DEF IInv, TypeOK, OnlyCommittedShown, Start

LEMMA ShownCommitted ==
  ASSUME IInv, NEW m \in Message, Committed(m)
  PROVE  Shown(m) \subseteq 1..lastId
<1>1. screen \subseteq 1..lastId /\ lastId \in Nat
  BY ConstantsAssumption DEF IInv, TypeOK, OnlyCommittedShown
<1>2. m.kind = "new" => m.row \in 1..lastId
  BY <1>1 DEF Message, Committed
<1> QED BY <1>1, <1>2 DEF Shown

LEMMA PageInv ==
  ASSUME IInv, PageNext
  PROVE  IInv'
<1> USE ConstantsAssumption
<1>0. /\ joined \in BOOLEAN /\ catchup \in BOOLEAN
      /\ inbox \in Seq(Message) /\ \A i \in 1..Len(inbox) : Committed(inbox[i])
      /\ loads \in [Slots -> LoadType] /\ \A l \in Slots : loads[l].rows \subseteq 1..lastId
      /\ reply \in Message /\ Committed(reply) /\ screen \subseteq 1..lastId
      /\ None \in Message /\ Committed(None) /\ lastId \in Nat
  BY Messages DEF IInv, TypeOK, OnlyCommittedShown, Committed
<1>1. CASE Receive
  <2>1. Head(inbox) \in Message /\ Committed(Head(inbox))
    BY <1>0, <1>1 DEF Receive
  <2>2. inbox' \in Seq(Message) /\ \A i \in 1..Len(inbox') : Committed(inbox'[i])
    BY <1>0, <1>1 DEF Receive
  <2>3. screen' \subseteq 1..lastId
    BY <1>0, <1>1, <2>1, ShownCommitted DEF Receive
  <2>4. /\ loads' \in [Slots -> LoadType]
        /\ \A l \in Slots : loads'[l].rows \subseteq 1..lastId
    BY <1>0, <1>1, StartTyped DEF Receive, StartDirect, SyncRealtimeState
  <2>5. UNCHANGED server /\ joined' \in BOOLEAN /\ catchup' \in BOOLEAN /\ reply' = reply
    BY <1>0, <1>1 DEF Receive
  <2> QED BY <1>0, <2>2, <2>3, <2>4, <2>5, PageStep
<1>2. CASE ReceiveReply \/ LoseReply
  <2>1. screen' \subseteq 1..lastId
    BY <1>0, <1>2, ShownCommitted DEF ReceiveReply, LoseReply
  <2>2. /\ loads' \in [Slots -> LoadType]
        /\ \A l \in Slots : loads'[l].rows \subseteq 1..lastId
    BY <1>0, <1>2, StartTyped DEF ReceiveReply, LoseReply, StartDirect
  <2>3. reply' = None /\ UNCHANGED <<server, joined, catchup, inbox>>
    BY <1>2 DEF ReceiveReply, LoseReply
  <2> QED BY <1>0, <2>1, <2>2, <2>3, PageStep
<1>3. CASE Refresh \/ Foreground
  <2>1. /\ loads' \in [Slots -> LoadType]
        /\ \A l \in Slots : loads'[l].rows \subseteq 1..lastId
    BY <1>0, <1>3, StartTyped DEF Refresh, Foreground, StartDirect, SyncRealtimeState
  <2>2. UNCHANGED <<server, joined, catchup, inbox, reply, screen>>
    BY <1>3 DEF Refresh, Foreground
  <2> QED BY <1>0, <2>1, <2>2, PageStep
<1>4. ASSUME NEW l \in Slots, NEW rec \in LoadType, rec.rows \subseteq 1..lastId,
             loads' = [loads EXCEPT ![l] = rec], screen' \subseteq 1..lastId,
             UNCHANGED <<server, joined, catchup, inbox, reply>>
      PROVE  IInv'
  <2>1. loads' \in [Slots -> LoadType]
    BY <1>0, <1>4
  <2>2. \A k \in Slots : loads'[k].rows \subseteq 1..lastId
    BY <1>0, <1>4
  <2> QED BY <1>0, <1>4, <2>1, <2>2, PageStep
<1>5. /\ NoLoad \in LoadType /\ NoLoad.rows = {}
      /\ Ended \in LoadType /\ Ended.rows = {}
  BY DEF NoLoad, Ended, LoadType
<1>6. ASSUME NEW l \in Slots, ReadList(l) PROVE IInv'
  <2>1. Listed \subseteq 1..lastId /\ Listed \subseteq Ids
    BY DEF IInv, TypeOK, OnlyCommittedShown, Listed
  <2>2. [at |-> "read", rows |-> Listed] \in LoadType
    BY <2>1 DEF LoadType
  <2> QED BY <1>0, <1>4, <1>6, <2>1, <2>2 DEF ReadList
<1>7. ASSUME NEW l \in Slots, ShowList(l) \/ FailLoad(l) \/ ErrorList(l) PROVE IInv'
  <2>1. screen' \subseteq 1..lastId /\ UNCHANGED <<server, joined, catchup, inbox, reply>>
    BY <1>0, <1>7 DEF ShowList, FailLoad, ErrorList
  <2>2. loads' = [loads EXCEPT ![l] = IF l = Sync THEN Ended ELSE NoLoad]
    BY <1>7 DEF ShowList, FailLoad, ErrorList
  <2>3. CASE l = Sync
    BY <1>4, <1>5, <2>1, <2>2, <2>3
  <2>4. CASE l # Sync
    BY <1>4, <1>5, <2>1, <2>2, <2>4
  <2> QED BY <2>3, <2>4
<1>8. CASE EndSync
  BY <1>0, <1>4, <1>5, <1>8 DEF EndSync
<1>9. CASE Join \/ Disconnect
  <2>1. inbox' \in Seq(Message) /\ \A i \in 1..Len(inbox') : Committed(inbox'[i])
    <3>1. Signal("joined_branch") \in Message /\ Committed(Signal("joined_branch"))
      BY <1>0, Messages DEF Signal, Committed, Kinds
    <3>2. CASE Join
      <4>1. inbox' = <<Signal("joined_branch")>>
        BY <3>2 DEF Join
      <4> QED BY <3>1, <4>1
    <3>3. CASE Disconnect
      BY <3>3 DEF Disconnect
    <3> QED BY <1>9, <3>2, <3>3
  <2>2. /\ UNCHANGED <<server, loads, reply, screen>>
        /\ joined' \in BOOLEAN /\ catchup' \in BOOLEAN
    BY <1>0, <1>9 DEF Join, Disconnect
  <2> QED BY <1>0, <2>1, <2>2, PageStep
<1> QED
  BY <1>1, <1>2, <1>3, <1>6, <1>7, <1>8, <1>9 DEF PageNext

LEMMA NextInv == IInv /\ [Next]_vars => IInv'
<1> SUFFICES ASSUME IInv, [Next]_vars PROVE IInv'
  OBVIOUS
<1>1. CASE ServerNext
  BY <1>1, HandlerInv, FinishInv, AdminInv DEF ServerNext
<1>2. CASE PageNext
  BY <1>2, PageInv
<1>3. CASE UNCHANGED vars
  BY <1>3 DEF vars, server, page, IInv, TypeOK, OnlyCommittedShown, Committed, Listed
<1> QED BY <1>1, <1>2, <1>3 DEF Next

(* The state of the server and of a page keeps its types.                  *)
THEOREM TypeCorrect == Spec => []TypeOK
<1>1. IInv => TypeOK
  BY DEF IInv
<1> QED BY <1>1, InitInv, NextInv, PTL DEF Spec

(* No event, answer or list carries a row that was never committed, however *)
(* requests, events and loads overlap.                                     *)
THEOREM NothingUncommitted == Spec => []OnlyCommittedShown
<1>1. IInv => OnlyCommittedShown
  BY DEF IInv
<1> QED BY <1>1, InitInv, NextInv, PTL DEF Spec

=============================================================================
