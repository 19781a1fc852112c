------------------------------ MODULE Screens ------------------------------
(***************************************************************************)
(* The sales list as one page shows it.  The table missing_warehouse is    *)
(* changed by request threads; each commits, then sends its event to the   *)
(* branch's room and answers its device.  The page keeps _whItems, which   *)
(* events and answers edit and GET /api/missing-warehouse replaces.        *)
(* Devices share nothing but the server, so one page stands for all; the   *)
(* other devices and the admin are the other threads.                      *)
(***************************************************************************)
EXTENDS Integers, Sequences, FiniteSets

CONSTANTS
  Threads,    \* server threads
  Own,        \* the one that serves this page
  Slots,      \* loads of the list that may be in flight at once
  Sync,       \* the one that syncRealtimeState starts
  Corrected,  \* does the admin correct the list?
  MaxId,      \* bound: ids given to rows
  InboxSize   \* bound: events on their way to the page

ASSUME ConstantsAssumption ==
  /\ Own \in Threads
  /\ Sync \in Slots
  /\ Corrected \in BOOLEAN
  /\ MaxId \in Nat
  /\ InboxSize \in Nat \ {0}

VARIABLES
  lastId,    \* the identity sequence of missing_warehouse
  today,     \* rows 1..today were scanned on an earlier day
  swept,     \* rows 1..swept were deleted by the cleanup
  pending,   \* ids with status 'pending'
  serving,   \* per thread: the event and the answer it still has to send
  joined,    \* the socket is connected and in the branch's room
  catchup,   \* _realtimeNeedsCatchup
  inbox,     \* events on the socket
  loads,     \* GETs of the list in flight
  reply,     \* the answer to the page's last request, on its way
  screen     \* keys of _whItems

server == <<lastId, today, swept, pending, serving>>
page   == <<joined, catchup, inbox, loads, reply, screen>>
vars   == <<server, page>>

Ids   == 1..MaxId
Kinds == {"none", "new", "gone", "cleared", "moved", "joined_branch"}
Message == [kind : Kinds, row : 0..MaxId, own : BOOLEAN]

Signal(kind) == [kind |-> kind, row |-> 0, own |-> FALSE]
New(r, t)    == [kind |-> "new", row |-> r, own |-> t = Own]
Gone(r)      == [kind |-> "gone", row |-> r, own |-> FALSE]
None == Signal("none")

Free == [busy |-> FALSE, event |-> None, answer |-> None]
NoLoad == [at |-> "idle", rows |-> {}]
Asked  == [at |-> "asked", rows |-> {}]
Ended  == [at |-> "shown", rows |-> {}]

-----------------------------------------------------------------------------
(* The handlers, up to their commit.                                       *)

(* A thread takes a request; the page has one request open at a time.      *)
Idle(t) == ~ serving[t].busy /\ (t = Own => reply = None)

Owes(t, event, answer) ==
  serving' = [serving EXCEPT ![t] =
                [busy |-> TRUE, event |-> event,
                 answer |-> IF t = Own THEN answer ELSE None]]

Listed == {r \in pending : r > today}

(* Mutant: the event goes out although the commit fails.                   *)
ScanNew_Announced(t) ==
  /\ Idle(t)
  /\ lastId < MaxId
  /\ UNCHANGED <<pending, lastId>>
  /\ Owes(t, New(lastId + 1, t), New(lastId + 1, t))
  /\ UNCHANGED <<today, swept, page>>

(* A scan deletes the pending rows of earlier dates and announces nothing  *)
(* of it.                                                                  *)
ScanNew(t) ==
  /\ Idle(t)
  /\ lastId < MaxId
  /\ lastId' = lastId + 1
  /\ pending' = Listed \cup {lastId + 1}
  /\ Owes(t, New(lastId + 1, t), New(lastId + 1, t))
  /\ UNCHANGED <<today, swept, page>>

ScanPending(t) ==
  /\ Idle(t)
  /\ Listed # {}
  /\ pending' = Listed
  /\ UNCHANGED <<lastId, today, swept, serving, page>>

(* By id, whatever the status: a row that is no longer pending may still   *)
(* be in the table, as restocked or missing, or it is deleted and the      *)
(* request answers 404.  The model does not keep which.                    *)
MarkRestocked(t, r) ==
  /\ Idle(t)
  /\ r > swept /\ r <= lastId
  /\ t = Own => r \in screen
  /\ pending' = pending \ {r}
  /\ Owes(t, Gone(r), Gone(r))
  /\ UNCHANGED <<lastId, today, swept, page>>

MarkMissing(t, r) == r \in pending /\ MarkRestocked(t, r)

(* The page reloads the list after an undo and after a transfer.           *)
UndoLast(t) ==
  /\ Idle(t)
  /\ \E r \in pending :
       /\ \A q \in pending : q <= r
       /\ pending' = pending \ {r}
       /\ Owes(t, Gone(r), Signal("moved"))
  /\ UNCHANGED <<lastId, today, swept, page>>

ClearAll(t) ==
  /\ Idle(t)
  /\ pending' = {}
  /\ Owes(t, Signal("cleared"), Signal("cleared"))
  /\ UNCHANGED <<lastId, today, swept, page>>

(* clearMissingWh empties the page's list whatever the server answers.     *)
ClearFails(t) ==
  /\ t = Own
  /\ Idle(t)
  /\ Owes(t, None, Signal("cleared"))
  /\ UNCHANGED <<lastId, today, swept, pending, page>>

TransferToMorning(t) ==
  /\ Idle(t)
  /\ pending # {}
  /\ pending' = {}
  /\ Owes(t, Signal("moved"), Signal("moved"))
  /\ UNCHANGED <<lastId, today, swept, page>>

(* The moved cards may hold a variant that no pending row has.             *)
TransferToSales(t, n) ==
  /\ Idle(t)
  /\ lastId + n <= MaxId
  /\ lastId' = lastId + n
  /\ pending' = pending \cup (lastId + 1)..(lastId + n)
  /\ Owes(t, Signal("moved"), Signal("moved"))
  /\ UNCHANGED <<today, swept, page>>

(* When some row of an earlier day, pending or not, is there to delete, the *)
(* cleanup tells every screen to drop the whole list.                      *)
Cleanup(t) ==
  /\ Idle(t)
  /\ swept < today
  /\ swept' = today
  /\ pending' = Listed
  /\ Owes(t, Signal("cleared"), None)
  /\ UNCHANGED <<lastId, today, page>>

(* Corrections of the admin: no event is sent.                             *)
AdminAdd ==
  /\ Corrected
  /\ lastId < MaxId
  /\ lastId' = lastId + 1
  /\ pending' = pending \cup {lastId + 1}
  /\ UNCHANGED <<today, swept, serving, page>>

AdminRestock(r) ==
  /\ Corrected
  /\ r \in pending
  /\ pending' = pending \ {r}
  /\ UNCHANGED <<lastId, today, swept, serving, page>>

AdminClear ==
  /\ Corrected
  /\ pending # {}
  /\ pending' = {}
  /\ UNCHANGED <<lastId, today, swept, serving, page>>

(* Midnight and 06:00 are one moment here: BranchLists keeps them apart.   *)
NewDay ==
  /\ today < lastId
  /\ today' = lastId
  /\ UNCHANGED <<lastId, swept, pending, serving, page>>

-----------------------------------------------------------------------------
(* After the commit: the event, then the answer.                           *)

(* A scan reads its row back after the commit; if it is deleted by then    *)
(* the request fails and nobody is told.                                   *)
LoseItem(t) ==
  /\ serving[t].event.kind = "new"
  /\ serving[t].event.row \notin pending
  /\ serving' = [serving EXCEPT ![t] = Free]
  /\ UNCHANGED <<lastId, today, swept, pending, page>>

Emit(t) ==
  /\ serving[t].busy
  /\ IF joined /\ serving[t].event # None
     THEN /\ Len(inbox) < InboxSize
          /\ inbox' = Append(inbox, serving[t].event)
     ELSE UNCHANGED inbox
  /\ reply' = IF t = Own THEN serving[t].answer ELSE reply
  /\ serving' = [serving EXCEPT ![t] = Free]
  /\ UNCHANGED <<lastId, today, swept, pending>>
  /\ UNCHANGED <<joined, catchup, loads, screen>>

-----------------------------------------------------------------------------
(* The page.                                                               *)

Start(l) == loads' = [loads EXCEPT ![l] = Asked]

(* loadMissingWh, by the refresh button or after a transfer.               *)
StartDirect == \E l \in Slots \ {Sync} : loads[l] = NoLoad /\ Start(l)

(* syncRealtimeState({force:true}): joins the sync that is running.        *)
SyncRealtimeState ==
  IF loads[Sync] = NoLoad THEN Start(Sync) ELSE UNCHANGED loads

(* Mutant: what is not a removal is taken for a new row.                   *)
Shown_AnyIsNew(m) ==
  IF m.kind = "gone" THEN screen \ {m.row} ELSE screen \cup {m.row}

(* What a message does to the screen: an answer the same as an event.      *)
Shown(m) ==
  CASE m.kind = "new"     -> screen \cup {m.row}
    [] m.kind = "gone"    -> screen \ {m.row}
    [] m.kind = "cleared" -> {}
    [] OTHER              -> screen

(* The page's own scan is shown by its answer, not by its event.           *)
Receive ==
  /\ inbox # <<>>
  /\ inbox' = Tail(inbox)
  /\ LET m == Head(inbox)
     IN  /\ screen' = IF m.kind = "new" /\ m.own THEN screen ELSE Shown(m)
         /\ \/ m.kind = "moved" /\ StartDirect /\ UNCHANGED catchup
            \/ /\ m.kind = "joined_branch"
               /\ IF catchup THEN SyncRealtimeState ELSE UNCHANGED loads
               /\ catchup' = FALSE
            \/ m.kind \notin {"moved", "joined_branch"} /\ UNCHANGED <<loads, catchup>>
  /\ UNCHANGED <<server, joined, reply>>

ReceiveReply ==
  /\ reply # None
  /\ reply' = None
  /\ screen' = Shown(reply)
  /\ IF reply.kind = "moved" THEN StartDirect ELSE UNCHANGED loads
  /\ UNCHANGED <<server, joined, catchup, inbox>>

LoseReply ==
  /\ reply # None
  /\ reply' = None
  /\ UNCHANGED <<server, joined, catchup, inbox, loads, screen>>

Refresh ==
  /\ StartDirect
  /\ UNCHANGED <<server, joined, catchup, inbox, reply, screen>>

(* visibilitychange and online.                                            *)
Foreground ==
  /\ loads[Sync] = NoLoad
  /\ SyncRealtimeState
  /\ UNCHANGED <<server, joined, catchup, inbox, reply, screen>>

(* list_pending: only rows scanned since midnight.                         *)
ReadList(l) ==
  /\ loads[l].at = "asked"
  /\ loads' = [loads EXCEPT ![l] = [at |-> "read", rows |-> Listed]]
  /\ UNCHANGED <<server, joined, catchup, inbox, reply, screen>>

(* Mutant: a load adds its rows to those on the screen.                    *)
ShowList_Merges(l) ==
  /\ loads[l].at = "read"
  /\ screen' = screen \cup loads[l].rows
  /\ loads' = [loads EXCEPT ![l] = IF l = Sync THEN Ended ELSE NoLoad]
  /\ UNCHANGED <<server, joined, catchup, inbox, reply>>

ShowList(l) ==
  /\ loads[l].at = "read"
  /\ screen' = loads[l].rows
  /\ loads' = [loads EXCEPT ![l] = IF l = Sync THEN Ended ELSE NoLoad]
  /\ UNCHANGED <<server, joined, catchup, inbox, reply>>

(* The sync ends when the other lists' loads have ended, too.              *)
EndSync ==
  /\ loads[Sync].at = "shown"
  /\ loads' = [loads EXCEPT ![Sync] = NoLoad]
  /\ UNCHANGED <<server, joined, catchup, inbox, reply, screen>>

FailLoad(l) ==
  /\ loads[l].at \in {"asked", "read"}
  /\ loads' = [loads EXCEPT ![l] = IF l = Sync THEN Ended ELSE NoLoad]
  /\ UNCHANGED <<server, joined, catchup, inbox, reply, screen>>

(* An answer that is no list throws only after _whItems was emptied.       *)
ErrorList(l) ==
  /\ loads[l].at = "asked"
  /\ screen # {}
  /\ screen' = {}
  /\ loads' = [loads EXCEPT ![l] = IF l = Sync THEN Ended ELSE NoLoad]
  /\ UNCHANGED <<server, joined, catchup, inbox, reply>>

(* connect, join_branch, and the joined_branch that follows.               *)
Join ==
  /\ ~ joined
  /\ joined' = TRUE
  /\ inbox' = <<Signal("joined_branch")>>
  /\ UNCHANGED <<server, catchup, loads, reply, screen>>

Disconnect ==
  /\ joined
  /\ joined' = FALSE
  /\ catchup' = TRUE
  /\ inbox' = <<>>
  /\ UNCHANGED <<server, loads, reply, screen>>

-----------------------------------------------------------------------------
(* enterApp: the socket is opened and the first load asked for.            *)
Init ==
  /\ lastId = 0 /\ today = 0 /\ swept = 0
  /\ pending = {}
  /\ serving = [t \in Threads |-> Free]
  /\ joined = FALSE
  /\ catchup = FALSE
  /\ inbox = <<>>
  /\ \E l \in Slots \ {Sync} :
       loads = [k \in Slots |-> IF k = l THEN Asked ELSE NoLoad]
  /\ reply = None
  /\ screen = {}

HandlerNext(t) ==
  \/ ScanNew(t)
  \/ ScanPending(t)
  \/ \E r \in Ids : MarkRestocked(t, r)
  \/ \E r \in Ids : MarkMissing(t, r)
  \/ UndoLast(t)
  \/ ClearAll(t)
  \/ ClearFails(t)
  \/ TransferToMorning(t)
  \/ \E n \in {0, 1} : TransferToSales(t, n)
  \/ t # Own /\ Cleanup(t)

ServerNext ==
  \/ \E t \in Threads : HandlerNext(t) \/ LoseItem(t) \/ Emit(t)
  \/ AdminAdd
  \/ \E r \in Ids : AdminRestock(r)
  \/ AdminClear
  \/ NewDay

PageNext ==
  \/ Receive
  \/ ReceiveReply
  \/ LoseReply
  \/ Refresh
  \/ Foreground
  \/ \E l \in Slots : ReadList(l) \/ ShowList(l) \/ FailLoad(l) \/ ErrorList(l)
  \/ EndSync
  \/ Join
  \/ Disconnect

Next == ServerNext \/ PageNext

Spec == Init /\ [][Next]_vars

-----------------------------------------------------------------------------
LoadType == [at : {"idle", "asked", "read", "shown"}, rows : SUBSET Ids]

(* Every variable has its type.                                            *)
TypeOK ==
  /\ lastId \in 0..MaxId /\ today \in 0..MaxId /\ swept \in 0..MaxId
  /\ pending \subseteq Ids
  /\ serving \in [Threads -> [busy : BOOLEAN, event : Message, answer : Message]]
  /\ joined \in BOOLEAN /\ catchup \in BOOLEAN
  /\ inbox \in Seq(Message)
  /\ loads \in [Slots -> LoadType]
  /\ reply \in Message
  /\ screen \subseteq Ids

(* Nothing reaches a page, by event, answer or list, that a transaction    *)
(* has not committed: events are sent after the commit and carry its row.  *)
Committed(m) == m.row <= lastId /\ (m.kind = "new" => m.row # 0)
OnlyCommittedShown ==
  /\ screen \subseteq 1..lastId
  /\ \A i \in 1..Len(inbox) : Committed(inbox[i])
  /\ \A l \in Slots : loads[l].rows \subseteq 1..lastId
  /\ \A t \in Threads : Committed(serving[t].event) /\ Committed(serving[t].answer)
  /\ Committed(reply)
  /\ pending \subseteq 1..lastId

-----------------------------------------------------------------------------
(* Threads finish their requests, browsers deliver what arrives and retry  *)
(* the socket.  That the page goes on reloading the list, and that not all *)
(* its loads fail, is an assumption on its use: no timer of the page does. *)
Fairness ==
  /\ WF_vars(\E t \in Threads : Emit(t))
  /\ WF_vars(Receive \/ ReceiveReply \/ EndSync)
  /\ SF_vars(Refresh \/ Foreground)
  /\ SF_vars(\E l \in Slots : ReadList(l))
  /\ SF_vars(\E l \in Slots : ShowList(l))

FairSpec == Spec /\ Fairness

(* The server's error answers, which empty the screen, come to an end.     *)
ErrorsEnd == <>[][~ ClearFails(Own) /\ \A l \in Slots : ~ ErrorList(l)]_vars

(* Whatever was lost, late, out of order or answered by an error, a page   *)
(* that goes on refreshing shows the branch's list in the end: ids run     *)
(* out, so the list settles.                                               *)
ScreenConverges == ErrorsEnd => <>[](screen = Listed)

=============================================================================
