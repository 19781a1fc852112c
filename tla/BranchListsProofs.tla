------------------------- MODULE BranchListsProofs -------------------------
(* Type correctness of BranchLists and the uniqueness of the open card.    *)
EXTENDS BranchLists, TLAPS

Floors   == [Variants -> Nat \cup {Absent}]
Catalogs == [Models -> SUBSET Sizes]

-----------------------------------------------------------------------------
(* What the helpers return.                                                *)

LEMMA FloorHelpers ==
  ASSUME NEW F \in Floors, NEW V, now \in Nat
  PROVE  Resolve(F, V) \in Floors /\ AddMissing(F, V) \in Floors
  BY DEF Floors, Resolve, AddMissing, Absent

LEMMA SizesType ==
  ASSUME NEW cat \in Catalogs, NEW m \in Models, NEW e \in SUBSET Sizes
  PROVE  SessionSizes(cat, m, e) \in SUBSET Sizes
  BY DEF Catalogs, SessionSizes

LEMMA NormalizedType ==
  ASSUME NEW cat \in Catalogs, NEW s \in Session
  PROVE  Normalized(cat, s) \in Session
  <1>1. SessionSizes(cat, s.model, s.all \cup s.found) \in SUBSET Sizes
    BY SizesType DEF Session
  <1> QED BY <1>1 DEF Normalized, Session

LEMMA LearnType ==
  ASSUME catalog \in Catalogs, NEW m \in Models, NEW x \in Sizes, NEW full \in BOOLEAN
  PROVE  Learn(m, x, full) \in Catalogs
  BY DEF Catalogs, Learn

LEMMA ApproveRowType ==
  ASSUME NEW S \in SUBSET Session, NEW old, NEW s \in Session
  PROVE  ApproveRow(S, old, s) \in SUBSET Session
  BY DEF ApproveRow, ResetDayIfEmpty, Session

LEMMA ApprovedFloorType ==
  ASSUME NEW F \in Floors, NEW s, now \in Nat
  PROVE  ApprovedFloor(F, s) \in Floors
  BY FloorHelpers DEF ApprovedFloor

(* Timestamps are natural numbers, so the newest open card need not be     *)
(* unique here: any choice among the open cards has the type.              *)
LEMMA NewestOpen ==
  ASSUME NEW S \in SUBSET Session, NEW m, OneOpen(S), OpenOf(S, m) # {}
  PROVE  Target(S, m) \in OpenOf(S, m)
  <1>1. PICK s \in OpenOf(S, m) : TRUE
    OBVIOUS
  <1>2. \A t \in OpenOf(S, m) : t = s
    BY <1>1 DEF OneOpen, OpenOf, Open
  <1>3. s.at \in Nat
    BY <1>1 DEF OpenOf, Open, Session
  <1>4. \A t \in OpenOf(S, m) : t.at <= s.at
    BY <1>2, <1>3
  <1> QED BY <1>1, <1>4 DEF Target

LEMMA TargetType ==
  ASSUME NEW S \in SUBSET Session, NEW m \in Models, OneOpen(S), now \in Nat
  PROVE  /\ Target(S, m) \in Session
         /\ Target(S, m).model = m
         /\ ~ Target(S, m).approved
         /\ \A s \in S : s.model = m /\ ~ s.approved => s = Target(S, m)
  <1>1. CASE OpenOf(S, m) = {}
    BY <1>1 DEF Target, OpenOf, Open, Session
  <1>2. CASE OpenOf(S, m) # {}
    <2>1. Target(S, m) \in OpenOf(S, m)
      BY <1>2, NewestOpen
    <2> QED BY <2>1 DEF OneOpen, OpenOf, Open
  <1> QED BY <1>1, <1>2

LEMMA FoundType ==
  ASSUME NEW S \in SUBSET Session, NEW m \in Models, NEW x \in Sizes,
         NEW cat \in Catalogs, OneOpen(S), now \in Nat
  PROVE  /\ Found(S, cat, m, x) \in Session
         /\ Found(S, cat, m, x).model = m
         /\ ~ Found(S, cat, m, x).approved
  <1> DEFINE old == Target(S, m)
             all == SessionSizes(cat, m, old.all \cup old.found \cup {x})
  <1>1. old \in Session /\ old.model = m /\ ~ old.approved
    BY TargetType
  <1>2. all \in SUBSET Sizes
    BY <1>1, SizesType DEF Session
  <1>3. Found(S, cat, m, x) = [old EXCEPT !.all = all, !.found = old.found \cup {x}]
    BY DEF Found
  <1> QED BY <1>1, <1>2, <1>3 DEF Session

-----------------------------------------------------------------------------
(* Replacing the open card of a model by another card of that model, or    *)
(* approving it, leaves at most one open card.                             *)

LEMMA ReplaceOneOpen ==
  ASSUME NEW S \in SUBSET Session, OneOpen(S), NEW old, NEW s \in Session,
         \/ old \in S /\ s.model = old.model /\ (old.approved => s.approved)
         \/ \A t \in S \ {old} : t.model = s.model => t.approved
  PROVE  OneOpen((S \ {old}) \cup {s})
  BY DEF OneOpen, Session

LEMMA ApproveOneOpen ==
  ASSUME NEW S \in SUBSET Session, OneOpen(S), NEW old, NEW s \in Session
  PROVE  OneOpen(ApproveRow(S, old, s))
  <1>1. [s EXCEPT !.approved = TRUE].approved
    BY DEF Session
  <1> QED BY <1>1 DEF OneOpen, ApproveRow, ResetDayIfEmpty

LEMMA UpsertKeeps ==
  ASSUME NEW S \in SUBSET Session, NEW m \in Models, NEW x \in Sizes,
         NEW cat \in Catalogs, OneOpen(S), now \in Nat
  PROVE  UpsertSession(S, cat, m, x) \in SUBSET Session
         /\ OneOpen(UpsertSession(S, cat, m, x))
  <1> DEFINE old == Target(S, m)
             new == Found(S, cat, m, x)
  <1>1. new \in Session /\ new.model = m
    BY FoundType
  <1>2. \A t \in S \ {old} : t.model = m => t.approved
    BY TargetType
  <1>3. OneOpen((S \ {old}) \cup {new})
    BY <1>1, <1>2, ReplaceOneOpen
  <1>4. ApproveRow(S, old, new) \in SUBSET Session /\ OneOpen(ApproveRow(S, old, new))
    BY <1>1, ApproveRowType, ApproveOneOpen
  <1> HIDE DEF old, new
  <1> QED BY <1>1, <1>3, <1>4 DEF UpsertSession, old, new

-----------------------------------------------------------------------------
(* The inductive invariant: the working copy of a running transfer has the *)
(* type and the uniqueness of the committed rows.                          *)
IInv == TypeOK /\ OneOpenSession

LEMMA InitIInv == Init => IInv
  BY DEF Init, IInv, TypeOK, OneOpenSession, OneOpen, Idle, TxType, Absent

(* What the handlers of the morning list establish about the variables     *)
(* they change.                                                            *)
MorningOK ==
  /\ catalog' \in Catalogs
  /\ sessions' \in SUBSET Session
  /\ floor' \in Floors
  /\ OneOpen(sessions')
  /\ UNCHANGED <<now, pending, nextId, marking, tx>>

LEMMA MorningStep == IInv /\ MorningNext => MorningOK
  <1> SUFFICES ASSUME IInv, MorningNext PROVE MorningOK
    OBVIOUS
  <1>0. /\ now \in Nat /\ catalog \in Catalogs /\ sessions \in SUBSET Session
        /\ floor \in Floors /\ OneOpen(sessions)
    BY DEF IInv, TypeOK, Catalogs, Floors, OneOpenSession
  <1>1. ASSUME NEW m \in Models, NEW x \in Sizes, NEW full \in BOOLEAN, Scan(m, x, full)
        PROVE  MorningOK
    <2>1. Learn(m, x, full) \in Catalogs
      BY <1>0, LearnType
    <2>2. UpsertSession(sessions, Learn(m, x, full), m, x) \in SUBSET Session
          /\ OneOpen(UpsertSession(sessions, Learn(m, x, full), m, x))
      BY <1>0, <2>1, UpsertKeeps
    <2> QED BY <1>0, <1>1, <2>1, <2>2, FloorHelpers DEF Scan, MorningOK
  <1>2. ASSUME NEW s \in sessions, NEW x \in Sizes, NEW tick \in BOOLEAN,
               NEW auto \in BOOLEAN, TickSize(s, x, tick, auto)
        PROVE  MorningOK
    <2> DEFINE found == IF tick THEN s.found \cup {x} ELSE s.found \ {x}
               all   == SessionSizes(catalog, s.model, s.all \cup found)
               new   == [s EXCEPT !.found = found, !.all = all]
               base  == Resolve(floor, IF tick THEN {<<s.model, x>>} ELSE {})
    <2>0. s \in Session
      BY <1>0
    <2>1. found \in SUBSET Sizes
      BY <2>0 DEF Session
    <2>2. all \in SUBSET Sizes
      BY <1>0, <2>0, <2>1, SizesType DEF Session
    <2>3. new \in Session /\ new.model = s.model /\ new.approved = s.approved
      BY <2>0, <2>1, <2>2 DEF Session
    <2>4. base \in Floors /\ ApprovedFloor(base, new) \in Floors
      BY <1>0, FloorHelpers, ApprovedFloorType
    <2>5. ApproveRow(sessions, s, new) \in SUBSET Session
          /\ OneOpen(ApproveRow(sessions, s, new))
      BY <1>0, <2>3, ApproveRowType, ApproveOneOpen
    <2>6. OneOpen((sessions \ {s}) \cup {new}) /\ (sessions \ {s}) \cup {new} \in SUBSET Session
      BY <1>0, <2>3, ReplaceOneOpen
    <2>7. /\ UNCHANGED <<now, catalog, pending, nextId, marking, tx>>
          /\ \/ sessions' = ApproveRow(sessions, s, new) /\ floor' = ApprovedFloor(base, new)
             \/ sessions' = (sessions \ {s}) \cup {new} /\ floor' = base
      BY <1>2 DEF TickSize
    <2> HIDE DEF new, base
    <2> QED BY <1>0, <2>4, <2>5, <2>6, <2>7 DEF MorningOK
  <1>3. ASSUME NEW s \in sessions, ApproveSession(s)
        PROVE  MorningOK
    <2> DEFINE new == Normalized(catalog, s)
    <2>1. new \in Session
      BY <1>0, NormalizedType
    <2>2. ApproveRow(sessions, s, new) \in SUBSET Session
          /\ OneOpen(ApproveRow(sessions, s, new))
      BY <1>0, <2>1, ApproveRowType, ApproveOneOpen
    <2>3. ApprovedFloor(floor, new) \in Floors
      BY <1>0, ApprovedFloorType
    <2> QED BY <1>0, <1>3, <2>2, <2>3 DEF ApproveSession, MorningOK
  <1>4. CASE GetSessions
    <2> DEFINE normal == {Normalized(catalog, s) : s \in Open(sessions)}
               done   == {s \in normal : Missing(s) = {}}
               closed == {[s EXCEPT !.approved = TRUE] : s \in done}
               rows   == (sessions \ Open(sessions)) \cup (normal \ done) \cup closed
    <2>1. \A s \in Open(sessions) : /\ Normalized(catalog, s) \in Session
                                    /\ Normalized(catalog, s).model = s.model
                                    /\ ~ Normalized(catalog, s).approved
      <3> TAKE s \in Open(sessions)
      <3>1. s \in Session /\ ~ s.approved
        BY <1>0 DEF Open
      <3> QED BY <1>0, <3>1, NormalizedType DEF Normalized, Session
    <2>2. normal \in SUBSET Session
      BY <2>1
    <2>3. closed \in SUBSET Session /\ \A c \in closed : c.approved
      BY <2>2 DEF Session
    <2>4. rows \in SUBSET Session
      BY <1>0, <2>2, <2>3
    <2>5. \A s, t \in normal : s.model = t.model => s = t
      BY <1>0, <2>1 DEF OneOpen, Open
    <2>6. \A s \in rows : ~ s.approved => s \in normal
      BY <1>0, <2>3 DEF Open
    <2>7. OneOpen(rows)
      BY <2>5, <2>6 DEF OneOpen
    <2>8. sessions' = rows \/ sessions' = ResetDayIfEmpty(rows)
      BY <1>4 DEF GetSessions
    <2>9. sessions' \in SUBSET Session /\ OneOpen(sessions')
      <3> HIDE DEF rows
      <3> QED BY <2>4, <2>7, <2>8 DEF ResetDayIfEmpty, OneOpen
    <2> QED BY <1>0, <1>4, <2>9, FloorHelpers DEF GetSessions, MorningOK
  <1>5. ASSUME NEW m \in Models, NEW x \in Sizes, AddManual(m, x)
        PROVE  MorningOK
    <2> DEFINE old == Target(sessions, m)
               all == SessionSizes(catalog, m, old.all \cup old.found \cup {x})
               new == [old EXCEPT !.all = all]
    <2>1. /\ old \in Session /\ old.model = m /\ ~ old.approved
          /\ \A t \in sessions \ {old} : t.model = m => t.approved
      BY <1>0, TargetType
    <2>2. all \in SUBSET Sizes
      BY <1>0, <2>1, SizesType DEF Session
    <2>3. new \in Session /\ new.model = m
      BY <2>1, <2>2 DEF Session
    <2>4. OneOpen((sessions \ {old}) \cup {new})
      BY <1>0, <2>1, <2>3, ReplaceOneOpen
    <2>5. sessions' = (sessions \ {old}) \cup {new}
      BY <1>5 DEF AddManual
    <2> QED BY <1>0, <1>5, <2>3, <2>4, <2>5 DEF AddManual, MorningOK
  <1>6. CASE ClearSessions
    BY <1>0, <1>6 DEF ClearSessions, MorningOK, OneOpen
  <1> QED BY <1>1, <1>2, <1>3, <1>4, <1>5, <1>6 DEF MorningNext

-----------------------------------------------------------------------------
(* The other handlers, which leave the cards alone.                        *)

LEMMA FloorStep == IInv /\ FloorNext => IInv'
  <1> SUFFICES ASSUME IInv, FloorNext PROVE IInv'
    OBVIOUS
  <1>1. floor' \in Floors
    <2>1. now \in Nat /\ floor \in Floors
      BY DEF IInv, TypeOK, Floors
    <2> QED BY <2>1, FloorHelpers DEF FloorNext, ResolveFloor, ClearFloor, AdminAddFloor
  <1>2. UNCHANGED <<now, catalog, sessions, pending, nextId, marking, tx>>
    BY DEF FloorNext, ResolveFloor, ClearFloor, AdminAddFloor
  <1> QED BY <1>1, <1>2 DEF IInv, TypeOK, OneOpenSession, OneOpen, Floors

LEMMA NewRowType ==
  ASSUME now \in Nat, nextId \in Nat, NEW m \in Models, NEW x \in Sizes
  PROVE  NewRow(m, x) \in Row /\ nextId + 1 \in Nat
  BY DEF NewRow, Row

LEMMA SalesStep == IInv /\ SalesNext => IInv'
  <1> SUFFICES ASSUME IInv, SalesNext PROVE IInv'
    OBVIOUS
  <1> DEFINE SalesOK == /\ catalog' \in Catalogs /\ floor' \in Floors
                        /\ pending' \in SUBSET Row /\ marking' \in SUBSET Row
                        /\ nextId' \in Nat /\ UNCHANGED <<now, sessions, tx>>
  <1>0. /\ now \in Nat /\ nextId \in Nat /\ catalog \in Catalogs /\ floor \in Floors
        /\ pending \in SUBSET Row /\ marking \in SUBSET Row
    BY DEF IInv, TypeOK, Catalogs, Floors
  <1>1. ASSUME NEW m \in Models, NEW x \in Sizes, NEW full \in BOOLEAN, ScanSold(m, x, full)
        PROVE  SalesOK
    BY <1>0, <1>1, LearnType, NewRowType DEF ScanSold
  <1>2. ASSUME NEW m \in Models, NEW x \in Sizes, AdminAddSale(m, x)
        PROVE  SalesOK
    BY <1>0, <1>2, NewRowType DEF AdminAddSale
  <1>3. ASSUME NEW r \in pending, MarkRestocked(r) \/ ReadForMissing(r) \/ UndoLast(r)
        PROVE  SalesOK
    BY <1>0, <1>3 DEF MarkRestocked, ReadForMissing, UndoLast
  <1>4. ASSUME NEW r \in marking, MarkMissing(r) \/ FailMarkMissing(r)
        PROVE  SalesOK
    BY <1>0, <1>4, FloorHelpers DEF MarkMissing, FailMarkMissing
  <1>5. ASSUME ClearAll PROVE SalesOK
    BY <1>0, <1>5 DEF ClearAll
  <1>6. SalesOK
    <2> HIDE DEF SalesOK
    <2> QED BY <1>1, <1>2, <1>3, <1>4, <1>5 DEF SalesNext
  <1> QED BY <1>6 DEF IInv, TypeOK, OneOpenSession, OneOpen, Catalogs, Floors

(* The transfers work on a copy of the cards and commit it as a whole.     *)
LEMMA TransferStepKeeps == IInv /\ TransferNext => IInv'
  <1> SUFFICES ASSUME IInv, TransferNext PROVE IInv'
    OBVIOUS
  <1>0. /\ now \in Nat /\ nextId \in Nat /\ catalog \in Catalogs /\ floor \in Floors
        /\ sessions \in SUBSET Session /\ pending \in SUBSET Row /\ tx \in TxType
        /\ OneOpen(sessions) /\ OneOpen(tx.sessions) /\ tx.sessions \in SUBSET Session
    BY DEF IInv, TypeOK, OneOpenSession, Catalogs, Floors, TxType
  <1>a. Idle \in TxType /\ OneOpen(Idle.sessions)
    BY DEF Idle, TxType, OneOpen
  <1>b. SUFFICES /\ nextId' \in Nat /\ sessions' \in SUBSET Session /\ floor' \in Floors
                 /\ pending' \in SUBSET Row /\ tx' \in TxType
                 /\ OneOpen(sessions') /\ OneOpen(tx'.sessions)
                 /\ UNCHANGED <<now, catalog, marking>>
    BY <1>0 DEF IInv, TypeOK, OneOpenSession, OneOpen, Floors
  <1>1. CASE BeginToSales
    <2> DEFINE variants == UNION {{s.model} \X s.found : s \in Moving(sessions)}
               left     == sessions \ Moving(sessions)
    <2>1. variants \in SUBSET Variants
      BY <1>0 DEF Moving, Open, Session, Variants
    <2>2. left \in SUBSET Session /\ OneOpen(left)
      BY <1>0 DEF OneOpen
    <2>3. tx' = [Idle EXCEPT !.op = "to_sales", !.variants = variants, !.sessions = left]
      BY <1>1 DEF BeginToSales
    <2>4. tx' \in TxType /\ tx'.sessions = left
      <3> HIDE DEF variants, left
      <3> QED BY <1>a, <2>1, <2>2, <2>3 DEF TxType
    <2> QED BY <1>0, <1>1, <2>2, <2>4 DEF BeginToSales
  <1>2. ASSUME NEW v \in tx.variants, MoveVariant(v)
        PROVE  /\ tx' \in TxType /\ tx'.sessions = tx.sessions /\ nextId' \in Nat
               /\ UNCHANGED <<now, catalog, sessions, floor, pending, marking>>
    <2>1. v[1] \in Models /\ v[2] \in Sizes
      BY <1>0 DEF TxType, Variants
    <2>2. NewRow(v[1], v[2]) \in Row
      BY <1>0, <2>1, NewRowType
    <2>3. CASE tx' = [tx EXCEPT !.variants = @ \ {v}] /\ UNCHANGED nextId
      BY <1>0, <1>2, <2>3 DEF TxType, MoveVariant
    <2>4. CASE /\ tx' = [tx EXCEPT !.variants = @ \ {v},
                                   !.inserted = @ \cup {NewRow(v[1], v[2])}]
               /\ nextId' = nextId + 1
      <3> DEFINE row == NewRow(v[1], v[2])
      <3>1. row \in Row /\ nextId' \in Nat
        BY <1>0, <2>2, <2>4
      <3>2. tx' = [tx EXCEPT !.variants = @ \ {v}, !.inserted = @ \cup {row}]
        BY <2>4
      <3>3. tx' \in TxType /\ tx'.sessions = tx.sessions
        <4> HIDE DEF row
        <4> QED BY <1>0, <3>1, <3>2 DEF TxType
      <3> QED BY <1>2, <3>1, <3>3 DEF MoveVariant
    <2> QED BY <1>2, <2>3, <2>4 DEF MoveVariant
  <1>3. CASE CommitToSales
    BY <1>0, <1>a, <1>3 DEF CommitToSales, TxType
  <1>4. CASE BeginToMorning
    <2>1. tx' = [Idle EXCEPT !.op = "to_morning", !.rows = pending,
                             !.taken = pending, !.sessions = sessions]
      BY <1>4 DEF BeginToMorning
    <2>2. tx' \in TxType /\ tx'.sessions = sessions
      BY <1>0, <1>a, <2>1 DEF TxType
    <2> QED BY <1>0, <1>4, <2>2 DEF BeginToMorning
  <1>5. ASSUME NEW r \in tx.rows, MoveRow(r)
        PROVE  /\ tx' \in TxType /\ OneOpen(tx'.sessions)
               /\ UNCHANGED <<now, catalog, sessions, floor, pending, nextId, marking>>
    <2> DEFINE after    == UpsertSession(tx.sessions, catalog, r.model, r.size)
               resolves == UpsertResolves(tx.sessions, catalog, r.model, r.size)
               resolved == tx.resolved \cup {v \in resolves : floor[v] # Absent}
               approved == tx.approved \cup Completed(tx.sessions, catalog, r.model, r.size)
    <2>1. r.model \in Models /\ r.size \in Sizes
      BY <1>0 DEF TxType, Row
    <2>2. after \in SUBSET Session /\ OneOpen(after)
      BY <1>0, <2>1, UpsertKeeps
    <2>a. approved \in SUBSET Session
      <3>1. Completed(tx.sessions, catalog, r.model, r.size) \in SUBSET Session
        BY <1>0, <2>1, FoundType DEF Completed
      <3> QED BY <1>0, <3>1 DEF TxType
    <2>3. resolves \in SUBSET Variants
      <3>1. Found(tx.sessions, catalog, r.model, r.size).found \in SUBSET Sizes
        BY <1>0, <2>1, FoundType DEF Session
      <3> QED BY <2>1, <3>1 DEF UpsertResolves, Variants
    <2>4. resolved \in SUBSET Variants
      BY <1>0, <2>3 DEF TxType
    <2>5. tx' = [tx EXCEPT !.rows = tx.rows \ {r}, !.sessions = after,
                           !.resolved = resolved, !.approved = approved]
      BY <1>5 DEF MoveRow
    <2>6. tx' \in TxType /\ tx'.sessions = after
      <3> HIDE DEF after, resolved, approved
      <3> QED BY <1>0, <2>2, <2>a, <2>4, <2>5 DEF TxType
    <2> QED BY <1>5, <2>2, <2>6 DEF MoveRow
  <1>6. CASE CommitToMorning
    BY <1>0, <1>a, <1>6, FloorHelpers DEF CommitToMorning, TxType
  <1>7. CASE AbortTransfer
    BY <1>0, <1>a, <1>7 DEF AbortTransfer
  <1> QED BY <1>0, <1>1, <1>2, <1>3, <1>4, <1>5, <1>6, <1>7 DEF TransferNext, TransferStep

LEMMA EnvironmentStep == IInv /\ EnvironmentNext => IInv'
  <1> SUFFICES ASSUME IInv, EnvironmentNext PROVE IInv'
    OBVIOUS
  <1>0. /\ now \in Nat /\ catalog \in Catalogs /\ floor \in Floors
        /\ sessions \in SUBSET Session /\ pending \in SUBSET Row /\ OneOpen(sessions)
    BY DEF IInv, TypeOK, OneOpenSession, Catalogs, Floors
  <1> SUFFICES /\ now' \in Nat /\ catalog' \in Catalogs /\ floor' \in Floors
               /\ sessions' \in SUBSET Session /\ pending' \in SUBSET Row
               /\ OneOpen(sessions') /\ UNCHANGED <<nextId, marking, tx>>
    BY DEF IInv, TypeOK, OneOpenSession, OneOpen, Catalogs, Floors
  <1>1. CASE Cleanup
    BY <1>0, <1>1, FloorHelpers DEF Cleanup, OneOpen
  <1>2. ASSUME NEW m \in Models, NEW x \in Sizes, AddBarcode(m, x) \/ DeleteBarcode(m, x)
        PROVE  catalog' \in Catalogs
               /\ UNCHANGED <<now, floor, sessions, pending, nextId, marking, tx>>
    BY <1>0, <1>2 DEF AddBarcode, DeleteBarcode, Catalogs
  <1>3. CASE PassTime
    BY <1>0, <1>3 DEF PassTime
  <1> QED BY <1>0, <1>1, <1>2, <1>3 DEF EnvironmentNext

-----------------------------------------------------------------------------
LEMMA NextIInv == IInv /\ [Next]_vars => IInv'
  <1> SUFFICES ASSUME IInv, [Next]_vars PROVE IInv'
    OBVIOUS
  <1>1. CASE MorningNext
    <2>1. MorningOK
      BY <1>1, MorningStep
    <2> QED BY <2>1 DEF MorningOK, IInv, TypeOK, OneOpenSession, OneOpen, Catalogs, Floors
  <1>2. CASE UNCHANGED vars
    BY <1>2 DEF vars, IInv, TypeOK, OneOpenSession, OneOpen
  <1> QED BY <1>1, <1>2, FloorStep, SalesStep, TransferStepKeeps, EnvironmentStep DEF Next

(* Every behaviour keeps the types, and never shows one model on two open  *)
(* cards, neither committed nor in a running transfer.                     *)
THEOREM TypeCorrect == Spec => []TypeOK
  <1>1. IInv => TypeOK
    BY DEF IInv
  <1> QED BY <1>1, InitIInv, NextIInv, PTL DEF Spec

THEOREM OneOpenCard == Spec => []OneOpenSession
  <1>1. IInv => OneOpenSession
    BY DEF IInv
  <1> QED BY <1>1, InitIInv, NextIInv, PTL DEF Spec

-----------------------------------------------------------------------------
(* No card without sizes: the types and the uniqueness of the open card    *)
(* tell which card a handler rewrites, and each rewrite keeps a size.      *)

LEMMA SizesStay ==
  ASSUME NEW cat, NEW m, NEW e, e # {}
  PROVE  SessionSizes(cat, m, e) # {}
  BY DEF SessionSizes

LEMMA NormalizedSizes ==
  ASSUME NEW cat \in Catalogs, NEW s \in Session, s.all # {}
  PROVE  Normalized(cat, s).all # {}
  <1>1. SessionSizes(cat, s.model, s.all \cup s.found) # {}
    BY SizesStay
  <1> QED BY <1>1 DEF Normalized, Session

LEMMA ApproveSizes ==
  ASSUME NEW S \in SUBSET Session, HaveSizes(S), NEW old, NEW s \in Session, s.all # {}
  PROVE  HaveSizes(ApproveRow(S, old, s))
  <1>1. [s EXCEPT !.approved = TRUE].all # {}
    BY DEF Session
  <1> QED BY <1>1 DEF HaveSizes, ApproveRow, ResetDayIfEmpty

LEMMA UpsertSizes ==
  ASSUME NEW S \in SUBSET Session, NEW m \in Models, NEW x \in Sizes,
         NEW cat \in Catalogs, OneOpen(S), HaveSizes(S), now \in Nat
  PROVE  HaveSizes(UpsertSession(S, cat, m, x))
  <1> DEFINE old == Target(S, m)
             all == SessionSizes(cat, m, old.all \cup old.found \cup {x})
             new == Found(S, cat, m, x)
  <1>1. old \in Session
    BY TargetType
  <1>2. new = [old EXCEPT !.all = all, !.found = old.found \cup {x}]
    BY DEF Found
  <1>3. all # {}
    BY SizesStay
  <1>4. new.all # {}
    <2> HIDE DEF all, old, new
    <2> QED BY <1>1, <1>2, <1>3 DEF Session
  <1>5. new \in Session
    BY FoundType
  <1>6. HaveSizes((S \ {old}) \cup {new})
    BY <1>4 DEF HaveSizes
  <1>7. HaveSizes(ApproveRow(S, old, new))
    BY <1>4, <1>5, ApproveSizes
  <1> HIDE DEF old, new
  <1> QED BY <1>6, <1>7 DEF UpsertSession, old, new

LEMMA MorningSizes == IInv /\ SessionsHaveSizes /\ MorningNext => HaveSizes(sessions')
  <1> SUFFICES ASSUME IInv, SessionsHaveSizes, MorningNext PROVE HaveSizes(sessions')
    OBVIOUS
  <1>0. /\ now \in Nat /\ catalog \in Catalogs /\ sessions \in SUBSET Session
        /\ OneOpen(sessions) /\ HaveSizes(sessions)
    BY DEF IInv, TypeOK, Catalogs, OneOpenSession, SessionsHaveSizes
  <1>1. ASSUME NEW m \in Models, NEW x \in Sizes, NEW full \in BOOLEAN, Scan(m, x, full)
        PROVE  HaveSizes(sessions')
    BY <1>0, <1>1, LearnType, UpsertSizes DEF Scan
  <1>2. ASSUME NEW s \in sessions, NEW x \in Sizes, NEW tick \in BOOLEAN,
               NEW auto \in BOOLEAN, TickSize(s, x, tick, auto)
        PROVE  HaveSizes(sessions')
    <2> DEFINE found == IF tick THEN s.found \cup {x} ELSE s.found \ {x}
               all   == SessionSizes(catalog, s.model, s.all \cup found)
               new   == [s EXCEPT !.found = found, !.all = all]
    <2>0. s \in Session /\ s.all # {}
      BY <1>0 DEF HaveSizes
    <2>1. found \in SUBSET Sizes
      BY <2>0 DEF Session
    <2>2. all \in SUBSET Sizes /\ all # {}
      BY <1>0, <2>0, <2>1, SizesType, SizesStay DEF Session
    <2>3. new \in Session /\ new.all # {}
      <3> HIDE DEF all, found
      <3> QED BY <2>0, <2>1, <2>2 DEF Session
    <2>4. HaveSizes(ApproveRow(sessions, s, new)) /\ HaveSizes((sessions \ {s}) \cup {new})
      <3> HIDE DEF new
      <3> QED BY <1>0, <2>3, ApproveSizes DEF HaveSizes
    <2>5. sessions' = ApproveRow(sessions, s, new) \/ sessions' = (sessions \ {s}) \cup {new}
      BY <1>2 DEF TickSize
    <2> QED BY <2>4, <2>5
  <1>3. ASSUME NEW s \in sessions, ApproveSession(s)
        PROVE  HaveSizes(sessions')
    <2>1. Normalized(catalog, s) \in Session /\ Normalized(catalog, s).all # {}
      BY <1>0, NormalizedType, NormalizedSizes DEF HaveSizes
    <2> QED BY <1>0, <1>3, <2>1, ApproveSizes DEF ApproveSession
  <1>4. CASE GetSessions
    <2> DEFINE normal == {Normalized(catalog, s) : s \in Open(sessions)}
               done   == {s \in normal : Missing(s) = {}}
               closed == {[s EXCEPT !.approved = TRUE] : s \in done}
               rows   == (sessions \ Open(sessions)) \cup (normal \ done) \cup closed
    <2>1. \A s \in normal : s \in Session /\ s.all # {}
      BY <1>0, NormalizedType, NormalizedSizes DEF HaveSizes, Open
    <2>2. \A s \in closed : s.all # {}
      BY <2>1 DEF Session
    <2>3. HaveSizes(rows)
      BY <1>0, <2>1, <2>2 DEF HaveSizes
    <2>4. sessions' = rows \/ sessions' = ResetDayIfEmpty(rows)
      BY <1>4 DEF GetSessions
    <2> HIDE DEF rows
    <2> QED BY <2>3, <2>4 DEF ResetDayIfEmpty, HaveSizes
  <1>5. ASSUME NEW m \in Models, NEW x \in Sizes, AddManual(m, x)
        PROVE  HaveSizes(sessions')
    <2> DEFINE old == Target(sessions, m)
               all == SessionSizes(catalog, m, old.all \cup old.found \cup {x})
               new == [old EXCEPT !.all = all]
    <2>1. old \in Session /\ all # {}
      BY <1>0, TargetType, SizesStay
    <2>2. new.all # {}
      <3> HIDE DEF old, all
      <3> QED BY <2>1 DEF Session
    <2>3. sessions' = (sessions \ {old}) \cup {new}
      BY <1>5 DEF AddManual
    <2> QED BY <1>0, <2>2, <2>3 DEF HaveSizes
  <1>6. CASE ClearSessions
    BY <1>6 DEF ClearSessions, HaveSizes
  <1> QED BY <1>1, <1>2, <1>3, <1>4, <1>5, <1>6 DEF MorningNext

LEMMA TransferSizes == IInv /\ SessionsHaveSizes /\ TransferNext => SessionsHaveSizes'
  <1> SUFFICES ASSUME IInv, SessionsHaveSizes, TransferNext
               PROVE  HaveSizes(sessions') /\ HaveSizes(tx'.sessions)
    BY DEF SessionsHaveSizes, HaveSizes
  <1>0. /\ now \in Nat /\ catalog \in Catalogs /\ sessions \in SUBSET Session
        /\ tx \in TxType /\ tx.sessions \in SUBSET Session /\ OneOpen(tx.sessions)
        /\ HaveSizes(sessions) /\ HaveSizes(tx.sessions)
    BY DEF IInv, TypeOK, OneOpenSession, SessionsHaveSizes, Catalogs, TxType
  <1>a. HaveSizes(Idle.sessions) /\ Idle \in TxType
    BY DEF Idle, HaveSizes, TxType
  <1>1. CASE BeginToSales
    <2> DEFINE variants == UNION {{s.model} \X s.found : s \in Moving(sessions)}
               left     == sessions \ Moving(sessions)
    <2>1. tx' = [Idle EXCEPT !.op = "to_sales", !.variants = variants, !.sessions = left]
      BY <1>1 DEF BeginToSales
    <2>2. tx'.sessions = left
      <3> HIDE DEF variants, left
      <3> QED BY <1>a, <2>1 DEF TxType
    <2> QED BY <1>0, <1>1, <2>2 DEF BeginToSales, HaveSizes
  <1>2. ASSUME NEW v \in tx.variants, MoveVariant(v)
        PROVE  tx'.sessions = tx.sessions /\ sessions' = sessions
    <2> DEFINE row == NewRow(v[1], v[2])
    <2>1. \/ tx' = [tx EXCEPT !.variants = @ \ {v}]
          \/ tx' = [tx EXCEPT !.variants = @ \ {v}, !.inserted = @ \cup {row}]
      BY <1>2 DEF MoveVariant
    <2> HIDE DEF row
    <2> QED BY <1>0, <1>2, <2>1 DEF MoveVariant, TxType
  <1>3. CASE CommitToSales \/ CommitToMorning \/ AbortTransfer
    BY <1>0, <1>a, <1>3 DEF CommitToSales, CommitToMorning, AbortTransfer
  <1>4. CASE BeginToMorning
    <2>1. tx'.sessions = sessions
      BY <1>a, <1>4 DEF BeginToMorning, TxType
    <2> QED BY <1>0, <1>4, <2>1 DEF BeginToMorning
  <1>5. ASSUME NEW r \in tx.rows, MoveRow(r)
        PROVE  HaveSizes(tx'.sessions) /\ sessions' = sessions
    <2> DEFINE after    == UpsertSession(tx.sessions, catalog, r.model, r.size)
               resolves == UpsertResolves(tx.sessions, catalog, r.model, r.size)
               resolved == tx.resolved \cup {v \in resolves : floor[v] # Absent}
               approved == tx.approved \cup Completed(tx.sessions, catalog, r.model, r.size)
    <2>1. r.model \in Models /\ r.size \in Sizes
      BY <1>0 DEF TxType, Row
    <2>2. HaveSizes(after)
      BY <1>0, <2>1, UpsertSizes
    <2>3. tx' = [tx EXCEPT !.rows = tx.rows \ {r}, !.sessions = after,
                           !.resolved = resolved, !.approved = approved]
      BY <1>5 DEF MoveRow
    <2>4. tx'.sessions = after
      <3> HIDE DEF after, resolved, approved
      <3> QED BY <1>0, <2>3 DEF TxType
    <2> QED BY <1>5, <2>2, <2>4 DEF MoveRow
  <1> QED BY <1>0, <1>1, <1>2, <1>3, <1>4, <1>5 DEF TransferNext, TransferStep

LEMMA NextSizes == IInv /\ SessionsHaveSizes /\ [Next]_vars => SessionsHaveSizes'
  <1> SUFFICES ASSUME IInv, SessionsHaveSizes, [Next]_vars PROVE SessionsHaveSizes'
    OBVIOUS
  <1>1. CASE MorningNext
    <2>1. HaveSizes(sessions') /\ tx' = tx
      BY <1>1, MorningSizes, MorningStep DEF MorningOK
    <2> QED BY <2>1 DEF SessionsHaveSizes, HaveSizes
  <1>2. CASE FloorNext
    BY <1>2 DEF FloorNext, ResolveFloor, ClearFloor, AdminAddFloor, SessionsHaveSizes, HaveSizes
  <1>3. CASE SalesNext
    <2>1. UNCHANGED <<sessions, tx>>
      BY <1>3 DEF SalesNext, ScanSold, AdminAddSale, MarkRestocked, ReadForMissing,
                  MarkMissing, FailMarkMissing, UndoLast, ClearAll
    <2> QED BY <2>1 DEF SessionsHaveSizes, HaveSizes
  <1>4. CASE EnvironmentNext
    <2>1. sessions' \subseteq sessions /\ tx' = tx
      BY <1>4 DEF EnvironmentNext, Cleanup, AddBarcode, DeleteBarcode, PassTime
    <2> QED BY <2>1 DEF SessionsHaveSizes, HaveSizes
  <1>5. CASE UNCHANGED vars
    BY <1>5 DEF vars, SessionsHaveSizes, HaveSizes
  <1> QED BY <1>1, <1>2, <1>3, <1>4, <1>5, TransferSizes DEF Next

(* A card always has a size, so "nothing is missing" never holds           *)
(* vacuously and no list request approves an empty card.                   *)
THEOREM CardsHaveSizes == Spec => []SessionsHaveSizes
  <1>1. Init => SessionsHaveSizes
    BY DEF Init, Idle, SessionsHaveSizes, HaveSizes
  <1> QED BY <1>1, InitIInv, NextIInv, NextSizes, PTL DEF Spec

=============================================================================
