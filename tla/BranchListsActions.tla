------------------------- MODULE BranchListsActions -------------------------
(* What a step of BranchLists may never do to the cards: the action        *)
(* properties, from the invariant of BranchListsProofs.                    *)
EXTENDS BranchListsProofs

(* The invariant, in the form the lemmas about the helpers ask for.        *)
LEMMA Facts ==
  ASSUME IInv
  PROVE  /\ now \in Nat /\ catalog \in Catalogs /\ sessions \in SUBSET Session
         /\ floor \in Floors /\ OneOpen(sessions)
         /\ tx \in TxType /\ tx.sessions \in SUBSET Session /\ OneOpen(tx.sessions)
  BY DEF IInv, TypeOK, OneOpenSession, Catalogs, Floors, TxType

(* The steps that change cards.                                            *)
LEMMA CardSteps ==
  ASSUME [Next]_vars
  PROVE  \/ MorningNext \/ Cleanup \/ CommitToSales \/ CommitToMorning
         \/ UNCHANGED sessions
  <1>1. CASE UNCHANGED vars
    BY <1>1 DEF vars
  <1>2. CASE EnvironmentNext
    BY <1>2 DEF EnvironmentNext, AddBarcode, DeleteBarcode, PassTime
  <1>3. CASE FloorNext
    BY <1>3 DEF FloorNext, ResolveFloor, ClearFloor, AdminAddFloor
  <1>4. CASE SalesNext
    BY <1>4 DEF SalesNext, ScanSold, AdminAddSale, MarkRestocked, ReadForMissing,
                MarkMissing, FailMarkMissing, UndoLast, ClearAll
  <1>5. CASE TransferNext
    BY <1>5 DEF TransferNext, TransferStep, BeginToSales, BeginToMorning, MoveVariant,
                MoveRow, AbortTransfer
  <1> QED BY <1>1, <1>2, <1>3, <1>4, <1>5 DEF Next

LEMMA MorningUnlocked == ASSUME MorningNext PROVE Unlocked
  <1>1. \A m \in Models, x \in Sizes, full \in BOOLEAN : Scan(m, x, full) => Unlocked
    BY Zenon DEF Scan
  <1>2. ASSUME NEW s \in sessions, NEW x \in Sizes, NEW tick \in BOOLEAN,
               NEW auto \in BOOLEAN, TickSize(s, x, tick, auto)
        PROVE  Unlocked
    BY <1>2 DEF TickSize
  <1>3. \A s \in sessions : ApproveSession(s) => Unlocked
    BY Zenon DEF ApproveSession
  <1>4. GetSessions \/ ClearSessions => Unlocked
    BY Zenon DEF GetSessions, ClearSessions
  <1>5. \A m \in Models, x \in Sizes : AddManual(m, x) => Unlocked
    BY Zenon DEF AddManual
  <1> QED BY <1>1, <1>2, <1>3, <1>4, <1>5 DEF MorningNext

-----------------------------------------------------------------------------
(* The new transfer record, for each kind of step.                         *)
LEMMA BegunToSales ==
  ASSUME BeginToSales
  PROVE  /\ tx'.op = "to_sales" /\ tx'.rows = {} /\ tx'.taken = {} /\ tx'.inserted = {}
         /\ tx'.variants = UNION {{s.model} \X s.found : s \in Moving(sessions)}
         /\ tx'.sessions = sessions \ Moving(sessions)
  <1> DEFINE variants == UNION {{s.model} \X s.found : s \in Moving(sessions)}
             left     == sessions \ Moving(sessions)
  <1>1. tx' = [Idle EXCEPT !.op = "to_sales", !.variants = variants, !.sessions = left]
    BY DEF BeginToSales
  <1> HIDE DEF variants, left
  <1>2. /\ tx'.op = "to_sales" /\ tx'.rows = {} /\ tx'.taken = {} /\ tx'.inserted = {}
        /\ tx'.variants = variants /\ tx'.sessions = left
    BY <1>1 DEF Idle
  <1> QED BY <1>2 DEF variants, left

LEMMA BegunToMorning ==
  ASSUME BeginToMorning
  PROVE  /\ tx'.op = "to_morning" /\ tx'.variants = {} /\ tx'.inserted = {}
         /\ tx'.rows = pending /\ tx'.taken = pending /\ tx'.sessions = sessions
  BY DEF BeginToMorning, Idle

LEMMA MovedVariant ==
  ASSUME IInv, NEW v, MoveVariant(v)
  PROVE  /\ tx'.op = tx.op /\ tx'.rows = tx.rows /\ tx'.taken = tx.taken
         /\ tx'.sessions = tx.sessions /\ tx'.variants = tx.variants \ {v}
         /\ tx.inserted \subseteq tx'.inserted
         /\ \/ \E r \in pending \cup tx.inserted : Variant(r) = v
            \/ NewRow(v[1], v[2]) \in tx'.inserted
  <1> DEFINE row == NewRow(v[1], v[2])
  <1>1. \/ /\ \E r \in pending \cup tx.inserted : Variant(r) = v
           /\ tx' = [tx EXCEPT !.variants = @ \ {v}]
        \/ tx' = [tx EXCEPT !.variants = @ \ {v}, !.inserted = @ \cup {row}]
    BY DEF MoveVariant
  <1> HIDE DEF row
  <1>2. tx \in TxType
    BY Facts
  <1>3. CASE /\ \E r \in pending \cup tx.inserted : Variant(r) = v
             /\ tx' = [tx EXCEPT !.variants = @ \ {v}]
    BY <1>2, <1>3 DEF TxType
  <1>4. CASE tx' = [tx EXCEPT !.variants = @ \ {v}, !.inserted = @ \cup {row}]
    <2>1. row \in tx'.inserted
      BY <1>2, <1>4 DEF TxType
    <2>2. NewRow(v[1], v[2]) \in tx'.inserted
      BY <2>1 DEF row
    <2> QED BY <1>2, <1>4, <2>2 DEF TxType
  <1> QED BY <1>1, <1>3, <1>4

LEMMA MovedRow ==
  ASSUME IInv, NEW r, MoveRow(r)
  PROVE  /\ tx'.op = tx.op /\ tx'.variants = tx.variants /\ tx'.taken = tx.taken
         /\ tx'.inserted = tx.inserted /\ tx'.rows = tx.rows \ {r}
         /\ tx'.sessions = UpsertSession(tx.sessions, catalog, r.model, r.size)
         /\ tx'.approved = tx.approved \cup Completed(tx.sessions, catalog, r.model, r.size)
  <1> DEFINE after    == UpsertSession(tx.sessions, catalog, r.model, r.size)
             resolves == UpsertResolves(tx.sessions, catalog, r.model, r.size)
             resolved == tx.resolved \cup {v \in resolves : floor[v] # Absent}
             approved == tx.approved \cup Completed(tx.sessions, catalog, r.model, r.size)
  <1>1. tx' = [tx EXCEPT !.rows = tx.rows \ {r}, !.sessions = after,
                         !.resolved = resolved, !.approved = approved]
    BY DEF MoveRow
  <1>2. tx \in TxType
    BY Facts
  <1> HIDE DEF after, resolved, approved
  <1>3. /\ tx'.op = tx.op /\ tx'.variants = tx.variants /\ tx'.taken = tx.taken
        /\ tx'.inserted = tx.inserted /\ tx'.rows = tx.rows \ {r} /\ tx'.sessions = after
        /\ tx'.approved = approved
    BY <1>1, <1>2 DEF TxType
  <1> QED BY <1>3 DEF after, approved

-----------------------------------------------------------------------------
(* Which cards survive the rewriting of one card.                          *)

LEMMA OthersStay ==
  ASSUME NEW S, NEW old, NEW s, NEW t \in Open(S), t # old
  PROVE  t \in Open((S \ {old}) \cup {s}) /\ t \in Open(ApproveRow(S, old, s))
  BY DEF Open, ApproveRow, ResetDayIfEmpty

LEMMA ApprovedLeaves ==
  ASSUME NEW S, NEW old, NEW s \in Session, NEW t \in Open(ApproveRow(S, old, s))
  PROVE  t \in Open(S) /\ t # old
  <1>1. [s EXCEPT !.approved = TRUE].approved
    BY DEF Session
  <1> QED BY <1>1 DEF Open, ApproveRow, ResetDayIfEmpty

(* A scan adds to the found sizes of the card it finds, and keeps others.  *)
LEMMA UpsertKeepsFound ==
  ASSUME NEW S \in SUBSET Session, NEW m \in Models, NEW x \in Sizes,
         NEW cat \in Catalogs, OneOpen(S), now \in Nat,
         NEW s \in Open(S), NEW t \in Open(UpsertSession(S, cat, m, x)),
         s.model = t.model
  PROVE  s.found \subseteq t.found
  <1> DEFINE old == Target(S, m)
             all == SessionSizes(cat, m, old.all \cup old.found \cup {x})
             new == Found(S, cat, m, x)
  <1>1. old \in Session /\ old.model = m /\ \A u \in Open(S) : u.model = m => u = old
    BY TargetType DEF Open
  <1>2. new \in Session /\ new.model = m
    BY FoundType
  <1>3. old.found \subseteq new.found
    <2>1. new = [old EXCEPT !.all = all, !.found = old.found \cup {x}]
      BY DEF Found
    <2> HIDE DEF old, all, new
    <2> QED BY <1>1, <2>1 DEF Session
  <1>4. t \in Open(S) => s = t
    BY DEF OneOpen, Open
  <1>5. \/ UpsertSession(S, cat, m, x) = S
        \/ UpsertSession(S, cat, m, x) = ApproveRow(S, old, new)
        \/ UpsertSession(S, cat, m, x) = (S \ {old}) \cup {new}
    <2> HIDE DEF old, new
    <2> QED BY DEF UpsertSession, old, new
  <1> HIDE DEF old, new
  <1>6. t \in Open(S) \/ t = new
    BY <1>2, <1>5, ApprovedLeaves DEF Open
  <1> QED BY <1>1, <1>2, <1>3, <1>4, <1>6

-----------------------------------------------------------------------------
(* The step form of FoundSizesKept for a handler, for one open card before *)
(* and after.                                                              *)
FoundKept(s, t) ==
  \A x \in s.found \ t.found :
    \/ GetSessions /\ x \notin catalog[s.model]
    \/ \E auto \in BOOLEAN : TickSize(s, x, FALSE, auto)

LEMMA MorningKeepsFound ==
  ASSUME IInv, MorningNext, NEW s \in Open(sessions), NEW t \in Open(sessions'),
         s.model = t.model
  PROVE  FoundKept(s, t)
  <1>0. /\ now \in Nat /\ catalog \in Catalogs /\ sessions \in SUBSET Session
        /\ OneOpen(sessions) /\ s \in Session /\ s \in sessions /\ ~ s.approved
    BY Facts DEF Open
  <1>a. t \in Open(sessions) => s = t
    BY <1>0 DEF OneOpen, Open
  <1>b. s.found \subseteq t.found => FoundKept(s, t)
    BY DEF FoundKept
  <1>1. ASSUME NEW m \in Models, NEW x \in Sizes, NEW full \in BOOLEAN, Scan(m, x, full)
        PROVE  FoundKept(s, t)
    BY <1>0, <1>1, <1>b, LearnType, UpsertKeepsFound DEF Scan
  <1>2. ASSUME NEW q \in sessions, NEW x \in Sizes, NEW tick \in BOOLEAN,
               NEW auto \in BOOLEAN, TickSize(q, x, tick, auto)
        PROVE  FoundKept(s, t)
    <2> DEFINE found == IF tick THEN q.found \cup {x} ELSE q.found \ {x}
               all   == SessionSizes(catalog, q.model, q.all \cup found)
               new   == [q EXCEPT !.found = found, !.all = all]
    <2>0. q \in Session
      BY <1>0
    <2>1. found \in SUBSET Sizes
      BY <2>0 DEF Session
    <2>2. all \in SUBSET Sizes
      BY <1>0, <2>0, <2>1, SizesType DEF Session
    <2>3. /\ new \in Session /\ new.model = q.model /\ new.approved = q.approved
          /\ new.found = found
      <3> HIDE DEF found, all
      <3> QED BY <2>0, <2>1, <2>2 DEF Session
    <2>4. sessions' = ApproveRow(sessions, q, new) \/ sessions' = (sessions \ {q}) \cup {new}
      BY <1>2 DEF TickSize
    <2>5. t \in Open(sessions) \/ t = new
      <3> HIDE DEF new
      <3> QED BY <2>3, <2>4, ApprovedLeaves DEF Open
    <2>6. ASSUME t = new, ~ (t \in Open(sessions)) PROVE FoundKept(s, t)
      <3>1. s = q
        <4>1. ~ q.approved /\ q.model = s.model
          BY <2>3, <2>6 DEF Open
        <4> QED BY <1>0, <4>1 DEF OneOpen
      <3>2. CASE tick
        BY <1>b, <2>3, <2>6, <3>1, <3>2
      <3>3. CASE ~ tick
        <4>1. tick = FALSE
          BY <3>3
        <4>2. s.found \ t.found \subseteq {x}
          BY <2>3, <2>6, <3>1, <4>1
        <4>3. TickSize(s, x, FALSE, auto)
          BY <1>2, <3>1, <4>1
        <4> QED BY <4>2, <4>3 DEF FoundKept
      <3> QED BY <3>2, <3>3
    <2> HIDE DEF new
    <2> QED BY <1>a, <1>b, <2>5, <2>6
  <1>3. ASSUME NEW q \in sessions, ApproveSession(q)
        PROVE  FoundKept(s, t)
    <2>1. Normalized(catalog, q) \in Session
      BY <1>0, NormalizedType
    <2>2. sessions' = ApproveRow(sessions, q, Normalized(catalog, q))
      BY <1>3 DEF ApproveSession
    <2>3. t \in Open(sessions)
      BY <2>1, <2>2, ApprovedLeaves
    <2> QED BY <1>a, <1>b, <2>3
  <1>4. CASE GetSessions
    <2> DEFINE normal == {Normalized(catalog, u) : u \in Open(sessions)}
               done   == {u \in normal : Missing(u) = {}}
               closed == {[u EXCEPT !.approved = TRUE] : u \in done}
               rows   == (sessions \ Open(sessions)) \cup (normal \ done) \cup closed
    <2>1. \A u \in Open(sessions) : /\ Normalized(catalog, u) \in Session
                                    /\ Normalized(catalog, u).model = u.model
      <3> TAKE u \in Open(sessions)
      <3>1. u \in Session
        BY <1>0 DEF Open
      <3> QED BY <1>0, <3>1, NormalizedType DEF Normalized, Session
    <2>2. \A c \in closed : c.approved
      <3>1. \A u \in done : u \in Session
        BY <2>1
      <3> QED BY <3>1 DEF Session
    <2>3. sessions' = rows \/ sessions' = ResetDayIfEmpty(rows)
      BY <1>4 DEF GetSessions
    <2>4. t \in rows /\ ~ t.approved
      <3> HIDE DEF rows
      <3> QED BY <2>3 DEF ResetDayIfEmpty, Open
    <2>5. t \in normal
      BY <2>2, <2>4 DEF Open
    <2>6. PICK u \in Open(sessions) : t = Normalized(catalog, u)
      BY <2>5
    <2>7. u = s
      BY <1>0, <2>1, <2>6 DEF OneOpen, Open
    <2>8. t.found = s.found \cap SessionSizes(catalog, s.model, s.all \cup s.found)
      <3> DEFINE all == SessionSizes(catalog, s.model, s.all \cup s.found)
      <3>1. t = [s EXCEPT !.all = all, !.found = s.found \cap all]
        BY <2>6, <2>7 DEF Normalized
      <3> HIDE DEF all
      <3>2. t.found = s.found \cap all
        BY <1>0, <3>1 DEF Session
      <3> QED BY <3>2 DEF all
    <2> QED BY <1>4, <2>8 DEF FoundKept, SessionSizes
  <1>5. ASSUME NEW m \in Models, NEW x \in Sizes, AddManual(m, x)
        PROVE  FoundKept(s, t)
    <2> DEFINE old == Target(sessions, m)
               all == SessionSizes(catalog, m, old.all \cup old.found \cup {x})
               new == [old EXCEPT !.all = all]
    <2>1. old \in Session /\ old.model = m
          /\ \A u \in Open(sessions) : u.model = m => u = old
      BY <1>0, TargetType DEF Open
    <2>2. new.found = old.found /\ new.model = m
      <3> HIDE DEF old, all
      <3> QED BY <2>1 DEF Session
    <2>3. t \in Open(sessions) \/ t = new
      <3>1. sessions' = (sessions \ {old}) \cup {new}
        BY <1>5 DEF AddManual
      <3> HIDE DEF old, new
      <3> QED BY <3>1 DEF Open
    <2> HIDE DEF old, new
    <2> QED BY <1>a, <1>b, <2>1, <2>2, <2>3
  <1>6. CASE ClearSessions
    BY <1>6 DEF ClearSessions, Open
  <1> QED BY <1>1, <1>2, <1>3, <1>4, <1>5, <1>6 DEF MorningNext

(* A transfer commits a copy of the cards that it took many steps before.  *)
(* It may do so because no handler writes a card meanwhile, because the    *)
(* copy to the sales list only loses cards, and because the copy to the    *)
(* morning list only gains sizes: an open card has its counterpart in the  *)
(* copy, with all it has found, or the transfer has approved its model.    *)
TxApproved(m) == \E a \in tx.approved : a.model = m
CopyKeepsFound ==
  /\ tx.op = "to_sales" => tx.sessions \subseteq sessions
  /\ tx.op = "to_morning" =>
       \A s \in Open(sessions) :
         \/ TxApproved(s.model)
         \/ \E t \in Open(tx.sessions) : s.model = t.model /\ s.found \subseteq t.found

LEMMA InitCopyKeepsFound == Init => CopyKeepsFound
  BY DEF Init, Idle, CopyKeepsFound

(* What the scan of one row does to an open card of the copy: it is the    *)
(* card completed, or it is still open with all it has found.              *)
LEMMA ScanOfCopy ==
  ASSUME NEW S \in SUBSET Session, NEW m \in Models, NEW x \in Sizes,
         NEW cat \in Catalogs, OneOpen(S), now \in Nat, Startable(S, m)
  PROVE  LET new == Found(S, cat, m, x)
         IN  /\ new.model = m /\ x \in new.found
             /\ new \in Completed(S, cat, m, x) \/ new \in Open(UpsertSession(S, cat, m, x))
             /\ \A s \in OpenOf(S, m) : s.found \subseteq new.found
  <1> DEFINE old == Target(S, m)
             all == SessionSizes(cat, m, old.all \cup old.found \cup {x})
             new == Found(S, cat, m, x)
  <1>1. old \in Session /\ \A u \in OpenOf(S, m) : u = old
    BY TargetType DEF Open, OpenOf
  <1>2. new \in Session /\ new.model = m /\ ~ new.approved
    BY FoundType
  <1>3. new.found = old.found \cup {x}
    <2>1. new = [old EXCEPT !.all = all, !.found = old.found \cup {x}]
      BY DEF Found
    <2> HIDE DEF old, all, new
    <2> QED BY <1>1, <2>1 DEF Session
  <1>4. new \in Completed(S, cat, m, x) \/ UpsertSession(S, cat, m, x) = (S \ {old}) \cup {new}
    BY DEF UpsertSession, Completed
  <1> HIDE DEF old, new
  <1>5. new \in Completed(S, cat, m, x) \/ new \in Open(UpsertSession(S, cat, m, x))
    BY <1>2, <1>4 DEF Open
  <1> QED BY <1>1, <1>2, <1>3, <1>5 DEF new

LEMMA OthersInCopy ==
  ASSUME NEW S \in SUBSET Session, NEW m \in Models, NEW x \in Sizes,
         NEW cat \in Catalogs, OneOpen(S), now \in Nat,
         NEW t \in Open(S), t.model # m \/ ~ Startable(S, m)
  PROVE  t \in Open(UpsertSession(S, cat, m, x))
  <1> DEFINE old == Target(S, m)
             new == Found(S, cat, m, x)
  <1>1. old.model = m
    BY TargetType
  <1>2. \/ UpsertSession(S, cat, m, x) = S
        \/ /\ Startable(S, m)
           /\ \/ UpsertSession(S, cat, m, x) = ApproveRow(S, old, new)
              \/ UpsertSession(S, cat, m, x) = (S \ {old}) \cup {new}
    <2> HIDE DEF old, new
    <2> QED BY DEF UpsertSession, old, new
  <1> HIDE DEF old, new
  <1> QED BY <1>1, <1>2, OthersStay

LEMMA MoveRowKeepsFound ==
  ASSUME IInv, CopyKeepsFound, NEW r \in tx.rows, MoveRow(r)
  PROVE  CopyKeepsFound'
  <1> DEFINE m == r.model  x == r.size
             new == Found(tx.sessions, catalog, m, x)
             after == UpsertSession(tx.sessions, catalog, m, x)
  <1>0. /\ now \in Nat /\ catalog \in Catalogs /\ m \in Models /\ x \in Sizes
        /\ tx.sessions \in SUBSET Session /\ OneOpen(tx.sessions)
    BY Facts DEF TxType, Row
  <1>1. /\ tx.op = "to_morning" /\ tx'.op = "to_morning" /\ sessions' = sessions
        /\ tx'.sessions = after
        /\ tx'.approved = tx.approved \cup Completed(tx.sessions, catalog, m, x)
    BY MovedRow DEF MoveRow
  <1> SUFFICES ASSUME NEW s \in Open(sessions)
               PROVE  \/ TxApproved(s.model)'
                      \/ \E t \in Open(after) : s.model = t.model /\ s.found \subseteq t.found
    BY <1>1 DEF CopyKeepsFound, Open, TxApproved
  <1>2. CASE TxApproved(s.model)
    BY <1>1, <1>2 DEF TxApproved
  <1>3. ASSUME NEW t \in Open(tx.sessions), s.model = t.model, s.found \subseteq t.found
        PROVE  \/ TxApproved(s.model)'
               \/ \E u \in Open(after) : s.model = u.model /\ s.found \subseteq u.found
    <2>1. CASE t.model # m \/ ~ Startable(tx.sessions, m)
      <3>1. t \in Open(after)
        BY <1>0, <2>1, OthersInCopy
      <3> QED BY <1>3, <3>1
    <2>2. CASE t.model = m /\ Startable(tx.sessions, m)
      <3>1. /\ new.model = m
            /\ new \in Completed(tx.sessions, catalog, m, x) \/ new \in Open(after)
            /\ \A u \in OpenOf(tx.sessions, m) : u.found \subseteq new.found
        BY <1>0, <2>2, ScanOfCopy
      <3>2. s.found \subseteq new.found /\ s.model = m
        BY <1>3, <2>2, <3>1 DEF OpenOf
      <3> HIDE DEF new, after
      <3> QED BY <1>1, <3>1, <3>2 DEF TxApproved
    <2> QED BY <2>1, <2>2
  <1> QED BY <1>1, <1>2, <1>3 DEF CopyKeepsFound

LEMMA NextCopyKeepsFound == IInv /\ CopyKeepsFound /\ [Next]_vars => CopyKeepsFound'
  <1> SUFFICES ASSUME IInv, CopyKeepsFound, [Next]_vars PROVE CopyKeepsFound'
    OBVIOUS
  <1>1. CASE MorningNext
    <2>1. tx' = tx /\ tx.op = "idle"
      BY <1>1, MorningStep, MorningUnlocked DEF MorningOK, Unlocked
    <2> QED BY <2>1 DEF CopyKeepsFound
  <1>2. ASSUME UNCHANGED <<sessions, tx>> PROVE CopyKeepsFound'
    BY <1>2 DEF CopyKeepsFound, TxApproved, Open
  <1>3. CASE FloorNext
    BY <1>2, <1>3 DEF FloorNext, ResolveFloor, ClearFloor, AdminAddFloor
  <1>4. CASE SalesNext
    BY <1>2, <1>4 DEF SalesNext, ScanSold, AdminAddSale, MarkRestocked, ReadForMissing,
                MarkMissing, FailMarkMissing, UndoLast, ClearAll
  <1>5. CASE EnvironmentNext
    <2>1. UNCHANGED <<sessions, tx>> \/ (tx' = tx /\ tx.op = "idle")
      BY <1>5 DEF EnvironmentNext, Cleanup, AddBarcode, DeleteBarcode, PassTime, Unlocked
    <2> QED BY <1>2, <2>1 DEF CopyKeepsFound
  <1>6. CASE BeginToSales
    <2>1. tx'.op = "to_sales" /\ tx'.sessions \subseteq sessions /\ sessions' = sessions
      BY <1>6, BegunToSales DEF BeginToSales
    <2> QED BY <2>1 DEF CopyKeepsFound
  <1>7. CASE BeginToMorning
    <2>1. tx'.op = "to_morning" /\ tx'.sessions = sessions /\ sessions' = sessions
      BY <1>7, BegunToMorning DEF BeginToMorning
    <2> QED BY <2>1 DEF CopyKeepsFound, Open
  <1>8. ASSUME NEW v \in tx.variants, MoveVariant(v) PROVE CopyKeepsFound'
    <2>1. tx'.op = "to_sales" /\ tx.op = "to_sales" /\ tx'.sessions = tx.sessions
          /\ sessions' = sessions
      BY <1>8, MovedVariant DEF MoveVariant
    <2> QED BY <2>1 DEF CopyKeepsFound
  <1>9. ASSUME NEW r \in tx.rows, MoveRow(r) PROVE CopyKeepsFound'
    BY <1>9, MoveRowKeepsFound
  <1>10. CASE CommitToSales \/ CommitToMorning \/ AbortTransfer
    BY <1>10 DEF CommitToSales, CommitToMorning, AbortTransfer, Idle, CopyKeepsFound
  <1>11. CASE UNCHANGED vars
    BY <1>2, <1>11 DEF vars
  <1> QED BY <1>1, <1>3, <1>4, <1>5, <1>6, <1>7, <1>8, <1>9, <1>10, <1>11
          DEF Next, TransferNext, TransferStep

LEMMA StepKeepsFound ==
  IInv /\ CopyKeepsFound /\ [Next]_vars =>
    \A s \in Open(sessions), t \in Open(sessions') :
      s.model = t.model => FoundKept(s, t) \/ (CommitToMorning /\ TxApproved(s.model))
  <1> SUFFICES ASSUME IInv, CopyKeepsFound, [Next]_vars,
                      NEW s \in Open(sessions), NEW t \in Open(sessions'),
                      s.model = t.model
               PROVE  FoundKept(s, t) \/ (CommitToMorning /\ TxApproved(s.model))
    OBVIOUS
  <1>1. CASE MorningNext
    BY <1>1, MorningKeepsFound
  <1>2. ASSUME t \in Open(sessions) PROVE FoundKept(s, t)
    <2>1. s = t
      BY <1>2, Facts DEF OneOpen, Open
    <2> QED BY <2>1 DEF FoundKept
  <1>3. CASE Cleanup \/ UNCHANGED sessions
    BY <1>2, <1>3 DEF Cleanup, Open
  <1>4. CASE CommitToSales
    BY <1>2, <1>4 DEF CommitToSales, CopyKeepsFound, Open
  <1>5. CASE CommitToMorning /\ ~ TxApproved(s.model)
    <2>1. tx.op = "to_morning" /\ sessions' = tx.sessions
      BY <1>5 DEF CommitToMorning
    <2>2. PICK u \in Open(tx.sessions) : s.model = u.model /\ s.found \subseteq u.found
      BY <1>5, <2>1 DEF CopyKeepsFound
    <2>3. u = t
      BY <2>1, <2>2, Facts DEF OneOpen, Open
    <2> QED BY <2>2, <2>3 DEF FoundKept
  <1> QED BY <1>1, <1>3, <1>4, <1>5, CardSteps

(* Whatever writes an open card, the sizes found on it stay found: also    *)
(* when a transfer replaces all cards by the copy it has worked on, which  *)
(* has the sizes found so far or has approved the card.  Excepted are the  *)
(* one size of an untick and what a list request drops because the catalog *)
(* does not have it.                                                       *)
THEOREM FoundSizesStay == Spec => FoundSizesKept
  <1>1. IInv /\ CopyKeepsFound /\ [Next]_vars =>
          [\A s \in Open(sessions), t \in Open(sessions') :
             s.model = t.model =>
               \A x \in s.found \ t.found :
                 \/ GetSessions /\ x \notin catalog[s.model]
                 \/ \E auto \in BOOLEAN : TickSize(s, x, FALSE, auto)
                 \/ CommitToMorning /\ \E a \in tx.approved : a.model = s.model]_vars
    BY StepKeepsFound DEF FoundKept, TxApproved
  <1> QED BY <1>1, InitIInv, NextIInv, InitCopyKeepsFound, NextCopyKeepsFound, PTL
          DEF Spec, FoundSizesKept

-----------------------------------------------------------------------------
(* Finished cards go with the last open card.                              *)

LEMMA ResetNeverDone == ASSUME NEW S PROVE ~ DayDone(ResetDayIfEmpty(S))
  BY DEF DayDone, ResetDayIfEmpty

LEMMA UpsertNeverDone ==
  ASSUME NEW S \in SUBSET Session, NEW m \in Models, NEW x \in Sizes,
         NEW cat \in Catalogs, OneOpen(S), now \in Nat,
         DayDone(UpsertSession(S, cat, m, x))
  PROVE  DayDone(S)
  <1> DEFINE new == Found(S, cat, m, x)
             old == Target(S, m)
  <1>1. ~ new.approved
    BY FoundType
  <1>2. \/ UpsertSession(S, cat, m, x) = S
        \/ UpsertSession(S, cat, m, x) = ApproveRow(S, old, new)
        \/ UpsertSession(S, cat, m, x) = (S \ {old}) \cup {new}
    <2> HIDE DEF old, new
    <2> QED BY DEF UpsertSession, old, new
  <1>3. ~ DayDone((S \ {old}) \cup {new})
    BY <1>1 DEF DayDone, Open
  <1>4. ~ DayDone(ApproveRow(S, old, new))
    BY ResetNeverDone DEF ApproveRow
  <1> HIDE DEF old, new
  <1> QED BY <1>2, <1>3, <1>4

LEMMA MorningNeverDone ==
  ASSUME IInv, MorningNext, DayDone(sessions')
  PROVE  DayDone(sessions)
  <1>0. /\ now \in Nat /\ catalog \in Catalogs /\ sessions \in SUBSET Session
        /\ OneOpen(sessions)
    BY Facts
  <1>1. ASSUME NEW m \in Models, NEW x \in Sizes, NEW full \in BOOLEAN, Scan(m, x, full)
        PROVE  DayDone(sessions)
    BY <1>0, <1>1, LearnType, UpsertNeverDone DEF Scan
  <1>2. ASSUME NEW q \in sessions, NEW x \in Sizes, NEW tick \in BOOLEAN,
               NEW auto \in BOOLEAN, TickSize(q, x, tick, auto)
        PROVE  DayDone(sessions)
    <2> DEFINE found == IF tick THEN q.found \cup {x} ELSE q.found \ {x}
               all   == SessionSizes(catalog, q.model, q.all \cup found)
               new   == [q EXCEPT !.found = found, !.all = all]
    <2>1. new.approved = q.approved
      <3> HIDE DEF found, all
      <3> QED BY <1>0 DEF Session
    <2>2. sessions' = ApproveRow(sessions, q, new) \/ sessions' = (sessions \ {q}) \cup {new}
      BY <1>2 DEF TickSize
    <2> HIDE DEF new
    <2>3. sessions' = (sessions \ {q}) \cup {new}
      BY <2>2, ResetNeverDone DEF ApproveRow
    <2> QED BY <1>2, <2>1, <2>3 DEF DayDone, Open
  <1>3. ASSUME NEW q \in sessions, ApproveSession(q)
        PROVE  DayDone(sessions)
    BY <1>3, ResetNeverDone DEF ApproveSession, ApproveRow
  <1>4. CASE GetSessions
    <2> DEFINE normal == {Normalized(catalog, u) : u \in Open(sessions)}
               done   == {u \in normal : Missing(u) = {}}
               closed == {[u EXCEPT !.approved = TRUE] : u \in done}
               rows   == (sessions \ Open(sessions)) \cup (normal \ done) \cup closed
    <2>1. done = {} /\ sessions' = rows
      BY <1>4, ResetNeverDone DEF GetSessions
    <2>2. \A u \in Open(sessions) : ~ Normalized(catalog, u).approved
      <3> TAKE u \in Open(sessions)
      <3>1. u \in Session /\ ~ u.approved
        BY <1>0 DEF Open
      <3> QED BY <1>0, <3>1 DEF Normalized, Session
    <2>3. \A u \in Open(sessions) : Normalized(catalog, u) \in Open(sessions')
      <3> TAKE u \in Open(sessions)
      <3>1. Normalized(catalog, u) \in normal \ done
        BY <2>1
      <3> QED BY <2>1, <2>2, <3>1 DEF Open
    <2>4. Open(sessions) = {}
      BY <2>3 DEF DayDone
    <2>5. sessions' \subseteq sessions
      BY <2>1, <2>4
    <2> QED BY <2>4, <2>5 DEF DayDone
  <1>5. ASSUME NEW m \in Models, NEW x \in Sizes, AddManual(m, x)
        PROVE  DayDone(sessions)
    <2> DEFINE old == Target(sessions, m)
               all == SessionSizes(catalog, m, old.all \cup old.found \cup {x})
               new == [old EXCEPT !.all = all]
    <2>1. ~ new.approved
      <3>1. old \in Session /\ ~ old.approved
        BY <1>0, TargetType
      <3> HIDE DEF old, all
      <3> QED BY <3>1 DEF Session
    <2>2. new \in sessions'
      BY <1>5 DEF AddManual
    <2> HIDE DEF new
    <2> QED BY <2>1, <2>2 DEF DayDone, Open
  <1>6. CASE ClearSessions
    BY <1>6 DEF ClearSessions, DayDone
  <1> QED BY <1>1, <1>2, <1>3, <1>4, <1>5, <1>6 DEF MorningNext

(* A transfer to the morning list commits the cards it worked on, so what  *)
(* holds between two commits has to hold of its copy: the copy has         *)
(* finished cards only, if the cards it was taken from had.  No handler    *)
(* writes the cards while the transfer has the lock.                       *)
CopyNotDone == tx.op = "to_morning" /\ DayDone(tx.sessions) => DayDone(sessions)

LEMMA InitCopyNotDone == Init => CopyNotDone
  BY DEF Init, Idle, CopyNotDone

LEMMA NextCopyNotDone == IInv /\ CopyNotDone /\ [Next]_vars => CopyNotDone'
  <1> SUFFICES ASSUME IInv, CopyNotDone, [Next]_vars,
                      tx'.op = "to_morning", DayDone(tx'.sessions)
               PROVE  DayDone(sessions')
    BY DEF CopyNotDone, DayDone, Open
  <1>0. tx \in TxType /\ now \in Nat /\ catalog \in Catalogs
        /\ tx.sessions \in SUBSET Session /\ OneOpen(tx.sessions) /\ Idle \in TxType
    BY Facts DEF Idle, TxType
  <1>1. CASE MorningNext
    <2>1. tx' = tx
      BY <1>1, MorningStep DEF MorningOK
    <2>2. Unlocked
      BY <1>1, MorningUnlocked
    <2> QED BY <2>1, <2>2 DEF Unlocked
  <1>2. CASE FloorNext
    BY <1>2 DEF FloorNext, ResolveFloor, ClearFloor, AdminAddFloor, CopyNotDone
  <1>3. CASE SalesNext
    <2>1. UNCHANGED <<sessions, tx>>
      BY <1>3 DEF SalesNext, ScanSold, AdminAddSale, MarkRestocked, ReadForMissing,
                  MarkMissing, FailMarkMissing, UndoLast, ClearAll
    <2> QED BY <2>1 DEF CopyNotDone
  <1>4. CASE EnvironmentNext
    BY <1>4 DEF EnvironmentNext, Cleanup, AddBarcode, DeleteBarcode, PassTime, Unlocked,
                CopyNotDone
  <1>5. CASE BeginToSales
    <2> DEFINE variants == UNION {{s.model} \X s.found : s \in Moving(sessions)}
               left     == sessions \ Moving(sessions)
    <2>1. tx' = [Idle EXCEPT !.op = "to_sales", !.variants = variants, !.sessions = left]
      BY <1>5 DEF BeginToSales
    <2> HIDE DEF variants, left
    <2> QED BY <1>0, <2>1 DEF TxType
  <1>6. ASSUME NEW v \in tx.variants, MoveVariant(v) PROVE FALSE
    <2> DEFINE row == NewRow(v[1], v[2])
    <2>1. \/ tx' = [tx EXCEPT !.variants = @ \ {v}]
          \/ tx' = [tx EXCEPT !.variants = @ \ {v}, !.inserted = @ \cup {row}]
      BY <1>6 DEF MoveVariant
    <2> HIDE DEF row
    <2>2. tx'.op = tx.op
      BY <1>0, <2>1 DEF TxType
    <2> QED BY <1>6, <2>2 DEF MoveVariant
  <1>7. CASE CommitToSales \/ CommitToMorning \/ AbortTransfer
    BY <1>7 DEF CommitToSales, CommitToMorning, AbortTransfer, Idle
  <1>8. CASE BeginToMorning
    <2>1. tx'.sessions = sessions /\ sessions' = sessions
      BY <1>0, <1>8 DEF BeginToMorning, TxType
    <2> QED BY <2>1
  <1>9. ASSUME NEW r \in tx.rows, MoveRow(r) PROVE DayDone(sessions')
    <2> DEFINE after == UpsertSession(tx.sessions, catalog, r.model, r.size)
    <2>1. r.model \in Models /\ r.size \in Sizes
      BY <1>0 DEF TxType, Row
    <2>3. tx'.sessions = after
      BY <1>9, MovedRow
    <2>4. DayDone(tx.sessions)
      BY <1>0, <2>1, <2>3, UpsertNeverDone
    <2> QED BY <1>9, <2>4 DEF MoveRow, CopyNotDone
  <1>10. CASE UNCHANGED vars
    BY <1>10 DEF vars, CopyNotDone
  <1> QED BY <1>1, <1>2, <1>3, <1>4, <1>5, <1>6, <1>7, <1>8, <1>9, <1>10
          DEF Next, TransferNext, TransferStep

LEMMA StepKeepsDay ==
  IInv /\ CopyNotDone /\ [Next]_vars =>
    (DayDone(sessions') => DayDone(sessions) \/ tx.op = "to_sales")
  <1> SUFFICES ASSUME IInv, CopyNotDone, [Next]_vars, DayDone(sessions')
               PROVE  DayDone(sessions) \/ tx.op = "to_sales"
    OBVIOUS
  <1>1. CASE MorningNext
    BY <1>1, MorningNeverDone
  <1>2. CASE Cleanup
    <2>1. sessions' \subseteq sessions /\ Open(sessions) \subseteq Open(sessions')
      BY <1>2 DEF Cleanup, Open
    <2> QED BY <2>1 DEF DayDone
  <1>3. CASE CommitToSales
    BY <1>3 DEF CommitToSales
  <1>4. CASE CommitToMorning
    BY <1>4 DEF CommitToMorning, CopyNotDone
  <1>5. CASE UNCHANGED sessions
    BY <1>5
  <1> QED BY <1>1, <1>2, <1>3, <1>4, <1>5, CardSteps

(* The day is never left with finished cards only, except by a transfer to *)
(* the sales list, whatever handler, transfer or cleanup takes the last    *)
(* open card.                                                              *)
THEOREM DayIsCleared == Spec => DayStaysClear
  <1>1. IInv /\ CopyNotDone /\ [Next]_vars =>
          [DayDone(sessions') => DayDone(sessions) \/ tx.op = "to_sales"]_vars
    BY StepKeepsDay
  <1> QED BY <1>1, InitIInv, NextIInv, InitCopyNotDone, NextCopyNotDone, PTL
          DEF Spec, DayStaysClear

-----------------------------------------------------------------------------
(* What a closed card says is on the missing-floor list.                   *)

LEMMA ResolveAt ==
  ASSUME NEW F, NEW V, NEW v \in Variants
  PROVE  /\ v \in V => Resolve(F, V)[v] = Absent
         /\ v \notin V => Resolve(F, V)[v] = F[v]
  BY DEF Resolve

LEMMA AddMissingAt ==
  ASSUME NEW F, NEW V, NEW v \in Variants, now \in Nat
  PROVE  /\ v \in V => AddMissing(F, V)[v] # Absent
         /\ v \notin V => AddMissing(F, V)[v] = F[v]
  BY DEF AddMissing, Absent

LEMMA ApprovedFloorAt ==
  ASSUME NEW F, NEW m \in Models, NEW s, s.model = m, NEW x \in Sizes, now \in Nat
  PROVE  /\ x \in Missing(s) => ApprovedFloor(F, s)[<<m, x>>] # Absent
         /\ x \in s.found => ApprovedFloor(F, s)[<<m, x>>] = Absent
  <1>1. <<m, x>> \in Variants
    BY DEF Variants
  <1> DEFINE R == Resolve(F, {m} \X s.found)
             A == {m} \X Missing(s)
  <1>2. ApprovedFloor(F, s) = AddMissing(R, A)
    BY DEF ApprovedFloor
  <1>3. x \in Missing(s) => AddMissing(R, A)[<<m, x>>] # Absent
    BY <1>1, AddMissingAt
  <1>4. ASSUME x \in s.found PROVE AddMissing(R, A)[<<m, x>>] = Absent
    <2>1. <<m, x>> \notin A
      BY <1>4 DEF Missing
    <2>2. R[<<m, x>>] = Absent
      BY <1>1, <1>4, ResolveAt
    <2> QED BY <1>1, <2>1, <2>2, AddMissingAt
  <1> QED BY <1>2, <1>3, <1>4

(* With more sizes seen, a card's size list is at least as long.           *)
LEMMA SizesGrow ==
  ASSUME NEW cat, NEW m, NEW d, NEW e, d \subseteq e
  PROVE  SessionSizes(cat, m, d) \subseteq SessionSizes(cat, m, e)
  BY DEF SessionSizes

(* The step form of ApprovalSettles, for one card.                         *)
FoundOff(s) ==
  \A x \in SessionSizes(catalog', s.model, s.all) \cap s.found :
    floor'[<<s.model, x>>] = Absent
MissingOn(s) ==
  \A x \in SessionSizes(catalog', s.model, s.all) \ s.found :
    floor'[<<s.model, x>>] # Absent
OneLeft(s) ==
  \E x \in Sizes : SessionSizes(catalog', s.model, s.all) \ s.found = {x}
Settled(s) == FoundOff(s) /\ (MissingOn(s) \/ (~ ApproveSession(s) /\ OneLeft(s)))

(* A request that completes a card reports at most one size of it.         *)
LEMMA LastSize ==
  ASSUME NEW s, NEW x \in Sizes,
         SessionSizes(catalog', s.model, s.all) \subseteq s.found \cup {x}
  PROVE  MissingOn(s) \/ OneLeft(s)
  BY DEF MissingOn, OneLeft

LEMMA ApproveSettles ==
  ASSUME IInv, NEW s \in sessions, ApproveSession(s)
  PROVE  FoundOff(s) /\ MissingOn(s)
  <1> DEFINE m   == s.model
             all == SessionSizes(catalog, m, s.all \cup s.found)
             few == SessionSizes(catalog, m, s.all)
             new == Normalized(catalog, s)
  <1>1. s \in Session /\ m \in Models /\ catalog \in Catalogs /\ now \in Nat
    BY Facts DEF Session
  <1>2. few \in SUBSET Sizes
    BY <1>1, SizesType DEF Session
  <1>3. /\ new.model = m /\ new.found = s.found \cap all
        /\ Missing(new) = all \ (s.found \cap all)
    <2>1. new = [s EXCEPT !.all = all, !.found = s.found \cap all]
      BY DEF Normalized
    <2> HIDE DEF all, new
    <2>2. new.model = m /\ new.found = s.found \cap all /\ new.all = all
      BY <1>1, <2>1 DEF Session
    <2> QED BY <2>2 DEF Missing
  <1>4. few \subseteq all
    BY SizesGrow
  <1>5. catalog' = catalog /\ floor' = ApprovedFloor(floor, new)
    BY DEF ApproveSession
  <1> HIDE DEF all, few, new, m
  <1>6. \A x \in few \cap s.found : floor'[<<m, x>>] = Absent
    BY <1>1, <1>2, <1>3, <1>4, <1>5, ApprovedFloorAt
  <1>7. \A x \in few \ s.found : floor'[<<m, x>>] # Absent
    BY <1>1, <1>2, <1>3, <1>4, <1>5, ApprovedFloorAt
  <1> QED BY <1>5, <1>6, <1>7 DEF FoundOff, MissingOn, few, m

LEMMA ScanSettles ==
  ASSUME IInv, NEW s \in Open(sessions), NEW m \in Models, NEW x \in Sizes,
         NEW full \in BOOLEAN, Scan(m, x, full), OpenOf(sessions', s.model) = {}
  PROVE  FoundOff(s) /\ (MissingOn(s) \/ OneLeft(s))
  <1> DEFINE cat == Learn(m, x, full)
             old == Target(sessions, m)
             all == SessionSizes(cat, m, old.all \cup old.found \cup {x})
             new == Found(sessions, cat, m, x)
  <1>1. /\ now \in Nat /\ catalog \in Catalogs /\ sessions \in SUBSET Session
        /\ OneOpen(sessions) /\ s \in Session /\ s \in sessions /\ ~ s.approved
        /\ s \notin Open(sessions')
    BY Facts DEF Open, OpenOf
  <1>2. cat \in Catalogs
    BY <1>1, LearnType
  <1>3. /\ old \in Session /\ old.model = m
        /\ \A u \in Open(sessions) : u.model = m => u = old
    BY <1>1, TargetType DEF Open
  <1>4. new \in Session /\ new.model = m /\ ~ new.approved
    BY <1>1, <1>2, FoundType
  <1>5. new.found = old.found \cup {x} /\ new.all = all
    <2>1. new = [old EXCEPT !.all = all, !.found = old.found \cup {x}]
      BY DEF Found
    <2> HIDE DEF old, all, new
    <2> QED BY <1>3, <2>1 DEF Session
  <1>6. /\ sessions' = UpsertSession(sessions, cat, m, x) /\ catalog' = cat
        /\ floor' = Resolve(floor, UpsertResolves(sessions, cat, m, x))
    BY DEF Scan
  <1>7. /\ Startable(sessions, m) /\ sessions' # sessions
        /\ \/ Missing(new) = {} /\ sessions' = ApproveRow(sessions, old, new)
           \/ Missing(new) # {} /\ sessions' = (sessions \ {old}) \cup {new}
    <2> HIDE DEF cat, old, new
    <2> QED BY <1>1, <1>6 DEF UpsertSession, old, new
  <1>8. s = old
    <2> HIDE DEF old, new
    <2> QED BY <1>1, <1>7, OthersStay
  <1>9. Missing(new) = {}
    <2> HIDE DEF old, new
    <2> QED BY <1>3, <1>4, <1>7, <1>8 DEF OpenOf, Open
  <1>10. UpsertResolves(sessions, cat, m, x) = {m} \X new.found
    BY <1>7, <1>9 DEF UpsertResolves
  <1>11. all \subseteq old.found \cup {x}
    BY <1>5, <1>9 DEF Missing
  <1>12. SessionSizes(cat, m, old.all) \subseteq all
    BY SizesGrow
  <1>13. MissingOn(s) \/ OneLeft(s)
    <2> HIDE DEF old, all, cat
    <2> QED BY <1>3, <1>6, <1>8, <1>11, <1>12, LastSize
  <1>14. FoundOff(s)
    <2> HIDE DEF old, all, cat, new
    <2> SUFFICES ASSUME NEW y \in s.found PROVE floor'[<<s.model, y>>] = Absent
      BY DEF FoundOff
    <2>1. y \in Sizes
      BY <1>1 DEF Session
    <2>2. <<m, y>> \in Variants /\ <<m, y>> \in {m} \X new.found
      BY <1>5, <1>8, <2>1 DEF Variants
    <2> QED BY <1>3, <1>6, <1>8, <1>10, <2>2, ResolveAt
  <1> QED BY <1>13, <1>14

LEMMA TickSettles ==
  ASSUME IInv, NEW s \in Open(sessions), NEW q \in sessions, NEW x \in Sizes,
         NEW tick \in BOOLEAN, NEW auto \in BOOLEAN, TickSize(q, x, tick, auto),
         OpenOf(sessions', s.model) = {}
  PROVE  FoundOff(s) /\ (MissingOn(s) \/ OneLeft(s))
  <1> DEFINE found == IF tick THEN q.found \cup {x} ELSE q.found \ {x}
             all   == SessionSizes(catalog, q.model, q.all \cup found)
             new   == [q EXCEPT !.found = found, !.all = all]
             base  == Resolve(floor, IF tick THEN {<<q.model, x>>} ELSE {})
             few   == SessionSizes(catalog, s.model, s.all)
  <1>1. /\ now \in Nat /\ catalog \in Catalogs /\ sessions \in SUBSET Session
        /\ s \in Session /\ s \in sessions /\ ~ s.approved /\ s \notin Open(sessions')
        /\ q \in Session
    BY Facts DEF Open, OpenOf
  <1>2. found \in SUBSET Sizes /\ found \subseteq q.found \cup {x}
    BY <1>1 DEF Session
  <1>3. all \in SUBSET Sizes
    BY <1>1, <1>2, SizesType DEF Session
  <1>4. /\ new \in Session /\ new.model = q.model /\ new.approved = q.approved
        /\ Missing(new) = all \ found /\ new.found = found
    <2> HIDE DEF found, all
    <2>1. /\ new \in Session /\ new.model = q.model /\ new.approved = q.approved
          /\ new.found = found /\ new.all = all
      BY <1>1, <1>2, <1>3 DEF Session
    <2> QED BY <2>1 DEF Missing
  <1>5. /\ catalog' = catalog
        /\ \/ /\ Missing(new) = {}
              /\ sessions' = ApproveRow(sessions, q, new) /\ floor' = ApprovedFloor(base, new)
           \/ sessions' = (sessions \ {q}) \cup {new}
    BY DEF TickSize
  <1>6. s = q
    <2> HIDE DEF new, base
    <2> QED BY <1>1, <1>5, OthersStay
  <1>7. Missing(new) = {} /\ floor' = ApprovedFloor(base, new)
    <2> HIDE DEF new, base
    <2> QED BY <1>1, <1>4, <1>5, <1>6 DEF OpenOf, Open
  <1>8. all \subseteq found
    <2> HIDE DEF all, found, new
    <2> QED BY <1>4, <1>7
  <1>9. few \subseteq found
    BY <1>6, <1>8, SizesGrow
  <1>10. MissingOn(s) \/ OneLeft(s)
    <2>1. few \subseteq s.found \cup {x}
      <3> HIDE DEF found, few
      <3> QED BY <1>2, <1>6, <1>9
    <2> QED BY <1>5, <2>1, LastSize
  <1>11. FoundOff(s)
    <2> HIDE DEF found, all, new, base
    <2> SUFFICES ASSUME NEW y \in few PROVE floor'[<<s.model, y>>] = Absent
      BY <1>5 DEF FoundOff
    <2>1. y \in found /\ y \in Sizes
      BY <1>2, <1>9
    <2>2. s.model \in Models
      BY <1>1 DEF Session
    <2> QED BY <1>1, <1>4, <1>6, <1>7, <2>1, <2>2, ApprovedFloorAt
  <1> QED BY <1>10, <1>11

LEMMA ListSettles ==
  ASSUME IInv, NEW s \in Open(sessions), GetSessions, OpenOf(sessions', s.model) = {}
  PROVE  FoundOff(s) /\ MissingOn(s)
  <1> DEFINE normal == {Normalized(catalog, u) : u \in Open(sessions)}
             done   == {u \in normal : Missing(u) = {}}
             closed == {[u EXCEPT !.approved = TRUE] : u \in done}
             rows   == (sessions \ Open(sessions)) \cup (normal \ done) \cup closed
             all    == SessionSizes(catalog, s.model, s.all \cup s.found)
             few    == SessionSizes(catalog, s.model, s.all)
             new    == Normalized(catalog, s)
             off    == UNION {{u.model} \X u.found : u \in done}
  <1>1. s \in Session /\ ~ s.approved /\ s.model \in Models /\ catalog \in Catalogs
    BY Facts DEF Open, Session
  <1>2. few \in SUBSET Sizes /\ few \subseteq all
    BY <1>1, SizesType, SizesGrow DEF Session
  <1>3. /\ new.model = s.model /\ ~ new.approved
        /\ new.found = s.found \cap all /\ Missing(new) = all \ (s.found \cap all)
    <2>1. new = [s EXCEPT !.all = all, !.found = s.found \cap all]
      BY DEF Normalized
    <2> HIDE DEF all, new
    <2>2. /\ new.model = s.model /\ ~ new.approved
          /\ new.found = s.found \cap all /\ new.all = all
      BY <1>1, <2>1 DEF Session
    <2> QED BY <2>2 DEF Missing
  <1>4. /\ catalog' = catalog /\ floor' = Resolve(floor, off)
        /\ sessions' = rows \/ sessions' = ResetDayIfEmpty(rows)
    BY DEF GetSessions
  <1>5. new \in normal
    OBVIOUS
  <1>6. new \in done
    <2> SUFFICES ASSUME new \notin done PROVE FALSE
      OBVIOUS
    <2>1. new \in rows
      BY <1>5
    <2>2. new \in Open(rows)
      <3> HIDE DEF rows, new
      <3> QED BY <1>3, <2>1 DEF Open
    <2>3. new \in Open(sessions')
      <3> HIDE DEF rows, new
      <3> QED BY <1>4, <2>2 DEF ResetDayIfEmpty
    <2> HIDE DEF new
    <2> QED BY <1>3, <2>3 DEF OpenOf
  <1>7. all \subseteq s.found
    <2> HIDE DEF all, normal, new
    <2> QED BY <1>3, <1>6
  <1>8. MissingOn(s)
    <2> HIDE DEF all, few
    <2>1. few \ s.found = {}
      BY <1>2, <1>7
    <2> QED BY <1>4, <2>1 DEF MissingOn, few
  <1>9. FoundOff(s)
    <2> SUFFICES ASSUME NEW y \in few PROVE floor'[<<s.model, y>>] = Absent
      BY <1>4 DEF FoundOff
    <2>1. y \in new.found /\ <<s.model, y>> \in Variants
      <3> HIDE DEF all, few, new
      <3> QED BY <1>1, <1>2, <1>3, <1>7 DEF Variants
    <2>2. <<s.model, y>> \in off
      <3> HIDE DEF done, new
      <3> QED BY <1>3, <1>6, <2>1
    <2> HIDE DEF off
    <2> QED BY <1>4, <2>1, <2>2, ResolveAt
  <1> QED BY <1>8, <1>9

LEMMA ManualNeverCloses ==
  ASSUME IInv, NEW s \in Open(sessions), NEW m \in Models, NEW x \in Sizes,
         AddManual(m, x)
  PROVE  OpenOf(sessions', s.model) # {}
  <1> DEFINE old == Target(sessions, m)
             all == SessionSizes(catalog, m, old.all \cup old.found \cup {x})
             new == [old EXCEPT !.all = all]
  <1>1. /\ old \in Session /\ old.model = m /\ ~ old.approved
        /\ \A u \in Open(sessions) : u.model = m => u = old
    BY Facts, TargetType DEF Open
  <1>2. new.model = m /\ ~ new.approved
    <2> HIDE DEF old, all
    <2> QED BY <1>1 DEF Session
  <1>3. sessions' = (sessions \ {old}) \cup {new}
    BY DEF AddManual
  <1> HIDE DEF old, new
  <1> QED BY <1>1, <1>2, <1>3, OthersStay DEF OpenOf, Open

LEMMA StepSettles ==
  IInv /\ [Next]_vars =>
    \A s \in sessions : Closes(s) => Settled(s)
  <1> SUFFICES ASSUME IInv, [Next]_vars, NEW s \in sessions, Closes(s)
               PROVE  Settled(s)
    OBVIOUS
  <1>1. CASE ApproveSession(s)
    <2>1. FoundOff(s) /\ MissingOn(s)
      BY <1>1, ApproveSettles
    <2> QED BY <2>1 DEF Settled
  <1> SUFFICES ASSUME ~ ApproveSession(s), s \in Open(sessions), Unlocked,
                      OpenOf(sessions', s.model) = {}, ~ ClearSessions
               PROVE  Settled(s)
    BY <1>1 DEF Closes, Open
  <1>2. CASE MorningNext /\ ~ ApproveSession(s)
    <2>1. s \notin Open(sessions')
      BY DEF OpenOf
    <2>2. ASSUME NEW q \in sessions, ApproveSession(q) PROVE FALSE
      <3>1. sessions' = ApproveRow(sessions, q, Normalized(catalog, q))
        BY <2>2 DEF ApproveSession
      <3>2. s # q
        BY <1>2, <2>2
      <3> QED BY <2>1, <3>1, <3>2, OthersStay
    <2>3. FoundOff(s) /\ (MissingOn(s) \/ OneLeft(s))
      BY <1>2, <2>2, ScanSettles, TickSettles, ListSettles, ManualNeverCloses DEF MorningNext
    <2> QED BY <1>2, <2>3 DEF Settled
  <1>3. ~ Cleanup /\ ~ UNCHANGED sessions
    BY DEF Cleanup, OpenOf, Open
  <1>4. ~ CommitToSales /\ ~ CommitToMorning
    BY DEF Unlocked, CommitToSales, CommitToMorning
  <1> QED BY <1>1, <1>2, <1>3, <1>4, CardSteps

(* Whichever handler closes a card, or approves it once more, its found    *)
(* sizes are then off the missing-floor list and its missing sizes on it,  *)
(* all but the one size that the closing request itself reported.          *)
THEOREM ClosedCardsSettled == Spec => ApprovalSettles
  <1>1. IInv /\ [Next]_vars =>
          [\A s \in sessions :
             LET m    == s.model
                 all  == SessionSizes(catalog', m, s.all)
                 miss == all \ s.found
             IN  Closes(s) =>
                   /\ \A x \in all \cap s.found : floor'[<<m, x>>] = Absent
                   /\ \/ \A x \in miss : floor'[<<m, x>>] # Absent
                      \/ ~ ApproveSession(s) /\ \E x \in Sizes : miss = {x}]_vars
    BY StepSettles DEF Settled, FoundOff, MissingOn, OneLeft
  <1> QED BY <1>1, InitIInv, NextIInv, PTL DEF Spec, ApprovalSettles

-----------------------------------------------------------------------------
(* A transfer fills only the fields of its own direction, and nothing      *)
(* without one is left behind: what a transfer to the sales list has to    *)
(* carry is not in rows, and what one to the morning list has is not in    *)
(* variants or inserted.                                                   *)
TxShape ==
  /\ tx.op = "idle" => tx = Idle
  /\ tx.op = "to_sales" => tx.rows = {} /\ tx.taken = {}
  /\ tx.op = "to_morning" => tx.variants = {} /\ tx.inserted = {}

LEMMA InitTxShape == Init => TxShape
  BY DEF Init, Idle, TxShape

LEMMA NextTxShape == IInv /\ TxShape /\ [Next]_vars => TxShape'
  <1> SUFFICES ASSUME IInv, TxShape, [Next]_vars PROVE TxShape'
    OBVIOUS
  <1>1. CASE MorningNext
    BY <1>1, MorningStep DEF MorningOK, TxShape
  <1>2. CASE FloorNext \/ SalesNext \/ EnvironmentNext
    <2>1. tx' = tx
      BY <1>2 DEF FloorNext, ResolveFloor, ClearFloor, AdminAddFloor, SalesNext, ScanSold,
                  AdminAddSale, MarkRestocked, ReadForMissing, MarkMissing, FailMarkMissing,
                  UndoLast, ClearAll, EnvironmentNext, Cleanup, AddBarcode, DeleteBarcode,
                  PassTime
    <2> QED BY <2>1 DEF TxShape
  <1>3. CASE BeginToSales
    BY <1>3, BegunToSales DEF TxShape
  <1>4. CASE BeginToMorning
    BY <1>4, BegunToMorning DEF TxShape
  <1>5. ASSUME NEW v \in tx.variants, MoveVariant(v) PROVE TxShape'
    BY <1>5, MovedVariant DEF TxShape, MoveVariant
  <1>6. ASSUME NEW r \in tx.rows, MoveRow(r) PROVE TxShape'
    BY <1>6, MovedRow DEF TxShape, MoveRow
  <1>7. CASE CommitToSales \/ CommitToMorning \/ AbortTransfer
    BY <1>7 DEF CommitToSales, CommitToMorning, AbortTransfer, Idle, TxShape
  <1>8. CASE UNCHANGED vars
    BY <1>8 DEF vars, TxShape
  <1> QED BY <1>1, <1>2, <1>3, <1>4, <1>5, <1>6, <1>7, <1>8 DEF Next, TransferNext, TransferStep

LEMMA StepCarries ==
  ASSUME IInv, TxShape, TransferNext, ~ AbortTransfer,
         NEW m \in Models, NEW x \in Sizes, Carried(m, x)
  PROVE  Carried(m, x)' \/ DoneWith(m, x)' \/ Rejects(m, x)
  <1>0. /\ tx \in TxType /\ now \in Nat /\ catalog \in Catalogs
        /\ tx.sessions \in SUBSET Session /\ OneOpen(tx.sessions)
    BY Facts
  <1>1. CASE BeginToSales
    <2>1. tx = Idle /\ Cards = sessions /\ pending' = pending
      BY <1>1 DEF BeginToSales, Unlocked, TxShape, Cards
    <2>2. CASE \E r \in pending : Variant(r) = <<m, x>>
      BY <1>1, <2>1, <2>2, BegunToSales DEF Carried
    <2>3. CASE \E s \in OpenOf(sessions, m) : x \in s.found
      <3>1. PICK s \in OpenOf(sessions, m) : x \in s.found
        BY <2>3
      <3>2. s \in Moving(sessions) /\ <<m, x>> \in {s.model} \X s.found
        BY <3>1 DEF Moving, OpenOf
      <3>3. <<m, x>> \in tx'.variants
        BY <1>1, <3>2, BegunToSales
      <3> QED BY <3>3 DEF Carried
    <2> QED BY <2>1, <2>2, <2>3 DEF Carried, Idle
  <1>2. CASE BeginToMorning
    <2>1. tx = Idle /\ Cards = sessions /\ Cards' = sessions /\ pending' = pending
      BY <1>2, BegunToMorning DEF BeginToMorning, Unlocked, TxShape, Cards
    <2>2. CASE \E r \in pending : Variant(r) = <<m, x>>
      BY <1>2, <2>1, <2>2, BegunToMorning DEF Carried
    <2>3. CASE \E s \in OpenOf(sessions, m) : x \in s.found
      BY <2>1, <2>3 DEF Carried, OpenOf, Open
    <2> QED BY <2>1, <2>2, <2>3 DEF Carried, Idle
  <1>3. ASSUME NEW v \in tx.variants, MoveVariant(v) PROVE Carried(m, x)'
    <2>1. /\ tx.op = "to_sales" /\ tx'.op = "to_sales" /\ tx.taken = {} /\ tx.rows = {}
          /\ pending' = pending /\ sessions' = sessions
      BY <1>3, MovedVariant DEF MoveVariant, TxShape
    <2>2. CASE <<m, x>> \in tx.variants \ {v}
      BY <1>3, <2>2, MovedVariant DEF Carried
    <2>3. CASE <<m, x>> = v
      <3>1. CASE \E r \in pending \cup tx.inserted : Variant(r) = v
        BY <1>3, <2>1, <2>3, <3>1, MovedVariant DEF Carried
      <3>2. CASE NewRow(v[1], v[2]) \in tx'.inserted
        <4>1. Variant(NewRow(v[1], v[2])) = <<m, x>>
          BY <2>3 DEF Variant, NewRow
        <4> QED BY <3>2, <4>1 DEF Carried
      <3> QED BY <1>3, <3>1, <3>2, MovedVariant
    <2>4. CASE \E r \in pending \cup tx.inserted : Variant(r) = <<m, x>>
      BY <1>3, <2>1, <2>4, MovedVariant DEF Carried
    <2>5. CASE \E s \in OpenOf(Cards, m) : x \in s.found
      <3>1. Cards' = Cards
        BY <1>3, <2>1, MovedVariant DEF Cards, Unlocked
      <3> QED BY <2>5, <3>1 DEF Carried, OpenOf, Open
    <2> QED BY <2>1, <2>2, <2>3, <2>4, <2>5 DEF Carried
  <1>4. CASE CommitToSales
    <2>1. /\ tx.op = "to_sales" /\ tx.taken = {} /\ tx.rows = {} /\ tx.variants = {}
          /\ tx' = Idle /\ sessions' = tx.sessions /\ pending' = pending \cup tx.inserted
      BY <1>4 DEF CommitToSales, TxShape
    <2>2. Cards = tx.sessions /\ Cards' = tx.sessions
      BY <2>1 DEF Cards, Unlocked, Idle
    <2>3. CASE \E r \in pending \cup tx.inserted : Variant(r) = <<m, x>>
      BY <2>1, <2>3 DEF Carried, Idle
    <2>4. CASE \E s \in OpenOf(Cards, m) : x \in s.found
      BY <2>2, <2>4 DEF Carried, OpenOf, Open
    <2> QED BY <2>1, <2>3, <2>4 DEF Carried
  <1>5. ASSUME NEW r \in tx.rows, MoveRow(r)
        PROVE  Carried(m, x)' \/ DoneWith(m, x)' \/ Rejects(m, x)
    <2> DEFINE new   == Found(tx.sessions, catalog, r.model, r.size)
               done  == Completed(tx.sessions, catalog, r.model, r.size)
               after == UpsertSession(tx.sessions, catalog, r.model, r.size)
    <2>1. /\ tx.op = "to_morning" /\ tx'.op = "to_morning"
          /\ tx.variants = {} /\ tx.inserted = {} /\ pending' = pending
          /\ r.model \in Models /\ r.size \in Sizes
      BY <1>0, <1>5, MovedRow DEF MoveRow, TxShape, TxType, Row
    <2>2. Cards = tx.sessions /\ Cards' = after /\ tx'.approved = tx.approved \cup done
      BY <1>5, <2>1, MovedRow DEF Cards, Unlocked
    <2>3. CASE \E q \in (pending \ tx.taken) \cup (tx.rows \ {r}) : Variant(q) = <<m, x>>
      BY <1>5, <2>1, <2>3, MovedRow DEF Carried
    <2>4. ASSUME r.model = m, Startable(tx.sessions, m), x \in new.found
          PROVE  Carried(m, x)' \/ DoneWith(m, x)'
      <3>1. new.model = m /\ (new \in done \/ new \in Open(after))
        BY <1>0, <2>1, <2>4, ScanOfCopy
      <3> HIDE DEF new, done, after
      <3>2. CASE new \in done
        BY <2>2, <2>4, <3>1, <3>2 DEF DoneWith
      <3>3. CASE new \in Open(after)
        <4>1. new \in OpenOf(Cards, m)'
          BY <2>2, <3>1, <3>3 DEF OpenOf, Open
        <4> QED BY <2>4, <4>1 DEF Carried
      <3> QED BY <3>1, <3>2, <3>3
    <2>5. CASE Variant(r) = <<m, x>>
      <3>1. r.model = m /\ r.size = x
        BY <2>5 DEF Variant
      <3>2. CASE Startable(tx.sessions, m)
        <4>1. x \in new.found
          BY <1>0, <2>1, <3>1, <3>2, ScanOfCopy
        <4> QED BY <2>4, <3>1, <3>2, <4>1
      <3>3. CASE ~ Startable(tx.sessions, m)
        BY <1>5, <2>5, <3>3 DEF Rejects
      <3> QED BY <3>2, <3>3
    <2>6. CASE \E s \in OpenOf(Cards, m) : x \in s.found
      <3>1. PICK s \in OpenOf(Cards, m) : x \in s.found
        BY <2>6
      <3>2. s \in Open(tx.sessions) /\ s.model = m
        BY <2>2, <3>1 DEF OpenOf
      <3>3. CASE r.model = m
        <4>1. Startable(tx.sessions, m)
          BY <2>2, <3>1 DEF Startable
        <4>2. x \in new.found
          BY <1>0, <2>1, <2>2, <3>1, <3>3, <4>1, ScanOfCopy
        <4> QED BY <2>4, <3>3, <4>1, <4>2
      <3>4. CASE r.model # m
        <4>1. s \in Open(after)
          BY <1>0, <2>1, <3>2, <3>4, OthersInCopy
        <4>2. s \in OpenOf(Cards, m)'
          BY <2>2, <3>2, <4>1 DEF OpenOf, Open
        <4> QED BY <3>1, <4>2 DEF Carried
      <3> QED BY <3>3, <3>4
    <2> QED BY <2>1, <2>3, <2>5, <2>6 DEF Carried
  <1>6. CASE CommitToMorning
    <2>1. /\ tx.op = "to_morning" /\ tx.rows = {} /\ tx.variants = {} /\ tx.inserted = {}
          /\ tx' = Idle /\ sessions' = tx.sessions /\ pending' = pending \ tx.taken
      BY <1>6 DEF CommitToMorning, TxShape
    <2>2. Cards = tx.sessions /\ Cards' = tx.sessions
      BY <2>1 DEF Cards, Unlocked, Idle
    <2>3. CASE \E r \in pending \ tx.taken : Variant(r) = <<m, x>>
      BY <2>1, <2>3 DEF Carried, Idle
    <2>4. CASE \E s \in OpenOf(Cards, m) : x \in s.found
      BY <2>2, <2>4 DEF Carried, OpenOf, Open
    <2> QED BY <2>1, <2>3, <2>4 DEF Carried
  <1> QED BY <1>1, <1>2, <1>3, <1>4, <1>5, <1>6 DEF TransferNext, TransferStep

(* No step of a transfer drops a variant between the two lists, whatever   *)
(* the handlers that take no lock do meanwhile: it is carried on, found on *)
(* a card this transfer has completed, or scanned in that very step for a  *)
(* model whose card was finished before, the one case in which the code    *)
(* deletes a row it has put nowhere.                                       *)
THEOREM TransfersLoseNothing == Spec => TransferLosesNothing
  <1>1. IInv /\ TxShape /\ [Next]_vars =>
          [TransferNext /\ ~ AbortTransfer =>
             \A m \in Models, x \in Sizes :
               Carried(m, x) => Carried(m, x)' \/ DoneWith(m, x)' \/ Rejects(m, x)]_vars
    BY StepCarries
  <1> QED BY <1>1, InitIInv, NextIInv, InitTxShape, NextTxShape, PTL
          DEF Spec, TransferLosesNothing

=============================================================================
