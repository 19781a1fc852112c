--------------------------- MODULE ConnPoolProofs ---------------------------
(***************************************************************************)
(* Proofs about ConnPool for any number of threads and any pool size.      *)
(* NeverExhausted compares a slot with the length of the native pool, so   *)
(* the invariant counts both: SlotsAccounted counts the slots, and         *)
(* ConnsAccounted the native connections.                                  *)
(***************************************************************************)
EXTENDS ConnPool, FiniteSetTheorems, TLAPS

States == {"out", "asking", "slot", "using", "closing", "closed"}

Counters == slots \in Nat /\ used \in Nat /\ lost \in Nat

(* Every entry of the native pool's _used is in use or was dropped.        *)
ConnsAccounted == used = Cardinality(Borrowed) + lost

IInv ==
  /\ pc \in [Threads -> States]
  /\ Counters
  /\ SlotsAccounted
  /\ ConnsAccounted

(* Both counts are natural numbers, and a borrower holds a slot.           *)
LEMMA Counts ==
  ASSUME IInv
  PROVE  /\ IsFiniteSet(Holding) /\ IsFiniteSet(Borrowed)
         /\ Cardinality(Holding) \in Nat /\ Cardinality(Borrowed) \in Nat
         /\ Borrowed \subseteq Holding
         /\ Cardinality(Borrowed) <= Cardinality(Holding)
<1>1. Holding \subseteq Threads /\ Borrowed \subseteq Holding
  BY DEF Holding, Borrowed
<1>2. IsFiniteSet(Holding)
  BY <1>1, FS_Subset, PoolAssumption
<1>3. IsFiniteSet(Borrowed) /\ Cardinality(Borrowed) <= Cardinality(Holding)
  BY <1>1, <1>2, FS_Subset
<1> QED
  BY <1>1, <1>2, <1>3, FS_CardinalityType

LEMMA InvImpliesType == IInv => TypeOK
<1> SUFFICES ASSUME IInv PROVE TypeOK
  OBVIOUS
<1>1. pc \in [Threads -> States]
  BY DEF IInv
<1>2. slots \in 0..MaxConn /\ used \in 0..MaxConn /\ lost \in 0..MaxConn
  BY Counts, PoolAssumption DEF IInv, Counters, SlotsAccounted, ConnsAccounted
<1> QED
  BY <1>1, <1>2 DEF TypeOK, States

(* A thread with a slot and no connection makes the first count larger.    *)
LEMMA InvImpliesNeverExhausted == IInv => NeverExhausted
<1> SUFFICES ASSUME IInv, NEW t \in Threads, pc[t] = "slot"
             PROVE  used < MaxConn
  BY DEF NeverExhausted
<1>1. t \in Holding /\ t \notin Borrowed
  BY DEF Holding, Borrowed
<1>2. Cardinality(Borrowed) # Cardinality(Holding)
  BY <1>1, Counts, FS_Subset
<1> QED
  BY <1>2, Counts, PoolAssumption DEF IInv, Counters, SlotsAccounted, ConnsAccounted

LEMMA InitInv == Init => IInv
<1> SUFFICES ASSUME Init PROVE IInv
  OBVIOUS
<1>1. Holding = {} /\ Borrowed = {}
  BY DEF Init, Holding, Borrowed
<1>2. Cardinality(Holding) = 0 /\ Cardinality(Borrowed) = 0
  BY <1>1, FS_EmptySet
<1>3. SlotsAccounted /\ ConnsAccounted
  BY <1>2, PoolAssumption DEF Init, SlotsAccounted, ConnsAccounted
<1> QED
  BY <1>3, PoolAssumption DEF Init, IInv, Counters, States

(* How a change of one thread's state changes the two sets.                *)
LEMMA Moves ==
  ASSUME IInv, NEW t \in Threads, NEW state \in States, To(t, state)
  PROVE  /\ pc' \in [Threads -> States]
         /\ Holding' = IF state \in {"slot", "using", "closing"}
                       THEN Holding \cup {t} ELSE Holding \ {t}
         /\ Borrowed' = IF state = "using"
                        THEN Borrowed \cup {t} ELSE Borrowed \ {t}
         /\ t \in Holding <=> pc[t] \in {"slot", "using", "closing"}
         /\ t \in Borrowed <=> pc[t] = "using"
  BY DEF IInv, To, Holding, Borrowed, States

LEMMA ThreadInv ==
  ASSUME IInv, NEW t \in Threads, ThreadNext(t)
  PROVE  IInv'
<1> USE Counts, PoolAssumption
<1> DEFINE H == Cardinality(Holding)
           B == Cardinality(Borrowed)
<1>0. /\ Cardinality(Holding \cup {t}) = IF t \in Holding THEN H ELSE H + 1
      /\ Cardinality(Holding \ {t}) = IF t \in Holding THEN H - 1 ELSE H
      /\ Cardinality(Borrowed \cup {t}) = IF t \in Borrowed THEN B ELSE B + 1
      /\ Cardinality(Borrowed \ {t}) = IF t \in Borrowed THEN B - 1 ELSE B
  BY FS_AddElement, FS_RemoveElement
<1>1. CASE Ask(t)
  <2>1. To(t, "asking") /\ pc[t] \in {"out", "closed"} /\ "asking" \in States
    BY <1>1 DEF Ask, States
  <2>2. Cardinality(Holding)' = H /\ Cardinality(Borrowed)' = B
    BY <1>0, <2>1, Moves
  <2> QED
    BY <1>1, <2>1, <2>2, Moves DEF Ask, IInv, Counters, SlotsAccounted, ConnsAccounted
<1>2. CASE TakeSlot(t)
  <2>1. To(t, "slot") /\ pc[t] = "asking" /\ "slot" \in States
    BY <1>2 DEF TakeSlot, States
  <2>2. Cardinality(Holding)' = H + 1 /\ Cardinality(Borrowed)' = B
    BY <1>0, <2>1, Moves
  <2> QED
    BY <1>2, <2>1, <2>2, Moves DEF TakeSlot, IInv, Counters, SlotsAccounted, ConnsAccounted
<1>3. CASE Busy(t)
  <2>1. PICK state \in {"out", "closed"} : To(t, state)
    BY <1>3 DEF Busy
  <2>2. pc[t] = "asking" /\ state \in States
    BY <1>3 DEF Busy, States
  <2>3. Cardinality(Holding)' = H /\ Cardinality(Borrowed)' = B
    BY <1>0, <2>1, <2>2, Moves
  <2> QED
    BY <1>3, <2>1, <2>2, <2>3, Moves DEF Busy, IInv, Counters, SlotsAccounted, ConnsAccounted
<1>4. CASE GetConn(t)
  <2>1. To(t, "using") /\ pc[t] = "slot" /\ "using" \in States
    BY <1>4 DEF GetConn, States
  <2>2. Cardinality(Holding)' = H /\ Cardinality(Borrowed)' = B + 1
    BY <1>0, <2>1, Moves
  <2> QED
    BY <1>4, <2>1, <2>2, Moves DEF GetConn, IInv, Counters, SlotsAccounted, ConnsAccounted
<1>5. CASE ConnectFails(t)
  <2>1. PICK state \in {"out", "closed"} : To(t, state)
    BY <1>5 DEF ConnectFails
  <2>2. pc[t] = "slot" /\ state \in States
    BY <1>5 DEF ConnectFails, States
  <2>3. Cardinality(Holding)' = H - 1 /\ Cardinality(Borrowed)' = B
    BY <1>0, <2>1, <2>2, Moves
  <2> QED
    BY <1>5, <2>1, <2>2, <2>3, Moves DEF ConnectFails, IInv, Counters, SlotsAccounted, ConnsAccounted
<1>6. CASE PutConn(t)
  <2>1. To(t, "closing") /\ pc[t] = "using" /\ "closing" \in States
    BY <1>6 DEF PutConn, States
  <2>2. Cardinality(Holding)' = H /\ Cardinality(Borrowed)' = B - 1
    BY <1>0, <2>1, Moves
  <2>3. B > 0
    BY <1>0, <2>1, <2>2, Moves, FS_RemoveElement, FS_CardinalityType
  <2> QED
    BY <1>6, <2>1, <2>2, <2>3, Moves DEF PutConn, IInv, Counters, SlotsAccounted, ConnsAccounted
<1>7. CASE ReleaseSlot(t)
  <2>1. PICK state \in {"out", "closed"} : To(t, state)
    BY <1>7 DEF ReleaseSlot
  <2>2. pc[t] = "closing" /\ state \in States
    BY <1>7 DEF ReleaseSlot, States
  <2>3. Cardinality(Holding)' = H - 1 /\ Cardinality(Borrowed)' = B
    BY <1>0, <2>1, <2>2, Moves
  <2> QED
    BY <1>7, <2>1, <2>2, <2>3, Moves DEF ReleaseSlot, IInv, Counters, SlotsAccounted, ConnsAccounted
<1>8. CASE Teardown(t)
  <2>1. To(t, "out") /\ pc[t] = "closed" /\ "out" \in States
    BY <1>8 DEF Teardown, States
  <2>2. Cardinality(Holding)' = H /\ Cardinality(Borrowed)' = B
    BY <1>0, <2>1, Moves
  <2> QED
    BY <1>8, <2>1, <2>2, Moves DEF Teardown, IInv, Counters, SlotsAccounted, ConnsAccounted
<1>9. CASE LoseConn(t)
  <2>1. To(t, "out") /\ pc[t] = "using" /\ "out" \in States
    BY <1>9 DEF LoseConn, States
  <2>2. Cardinality(Holding)' = H - 1 /\ Cardinality(Borrowed)' = B - 1
    BY <1>0, <2>1, Moves
  <2> QED
    BY <1>9, <2>1, <2>2, Moves DEF LoseConn, IInv, Counters, SlotsAccounted, ConnsAccounted
<1>10. CASE SetupFails(t)
  <2>1. PICK state \in {"out", "closed"} : To(t, state)
    BY <1>10 DEF SetupFails
  <2>2. pc[t] = "slot" /\ state \in States
    BY <1>10 DEF SetupFails, States
  <2>3. Cardinality(Holding)' = H - 1 /\ Cardinality(Borrowed)' = B
    BY <1>0, <2>1, <2>2, Moves
  <2> QED
    BY <1>10, <2>1, <2>2, <2>3, Moves DEF SetupFails, IInv, Counters, SlotsAccounted, ConnsAccounted
<1> QED
  BY <1>1, <1>2, <1>3, <1>4, <1>5, <1>6, <1>7, <1>8, <1>9, <1>10 DEF ThreadNext

LEMMA NextInv == IInv /\ [Next]_vars => IInv'
<1> SUFFICES ASSUME IInv, [Next]_vars PROVE IInv'
  OBVIOUS
<1>1. CASE Next
  BY <1>1, ThreadInv DEF Next
<1>2. CASE UNCHANGED vars
  BY <1>2 DEF vars, IInv, Counters, SlotsAccounted, ConnsAccounted, Holding, Borrowed
<1> QED
  BY <1>1, <1>2

LEMMA Inductive == Spec => []IInv
  BY InitInv, NextInv, PTL DEF Spec

(* The semaphore never passes its bound, and no counter goes negative.     *)
THEOREM TypeCorrect == Spec => []TypeOK
  BY Inductive, InvImpliesType, PTL

(* No slot is lost or invented by any interleaving of borrowers.           *)
THEOREM SlotsAreAccounted == Spec => []SlotsAccounted
<1>1. IInv => SlotsAccounted
  BY DEF IInv
<1> QED
  BY <1>1, Inductive, PTL

(* A slot is a promise of a native connection.                             *)
THEOREM PoolNeverExhausted == Spec => []NeverExhausted
  BY Inductive, InvImpliesNeverExhausted, PTL

-----------------------------------------------------------------------------
(* The pool implements BoundedPool: a step of a thread is one step of the  *)
(* promise, or none.                                                       *)

LEMMA InitRefines == Init => Promise!Init
<1> SUFFICES ASSUME Init PROVE Promise!Init
  OBVIOUS
<1>1. Holding = {} /\ {t \in Threads : pc[t] = "asking"} = {} /\ slots = MaxConn
  BY DEF Init, Holding
<1> QED
  BY <1>1 DEF Promise!Init

LEMMA NextRefines ==
  IInv /\ [Next]_vars
    => [Promise!Next]_<<{t \in Threads : pc[t] = "asking"}, Holding, slots>>
<1> DEFINE Asking == {t \in Threads : pc[t] = "asking"}
<1> SUFFICES ASSUME IInv, [Next]_vars
             PROVE  Promise!Next \/ UNCHANGED <<Asking, Holding, slots>>
  OBVIOUS
<1>1. CASE UNCHANGED vars
  BY <1>1 DEF vars, Holding
<1>2. ASSUME NEW t \in Threads, ThreadNext(t)
      PROVE  Promise!Next \/ UNCHANGED <<Asking, Holding, slots>>
  <2> USE DEF To, Holding, IInv, States, Counters
  <2>1. CASE Ask(t)
    <3>1. Promise!Ask(t)
      BY <2>1 DEF Ask, Promise!Ask
    <3> QED BY <3>1 DEF Promise!Next
  <2>2. CASE TakeSlot(t)
    <3>1. Promise!Lend(t)
      BY <2>2 DEF TakeSlot, Promise!Lend
    <3> QED BY <3>1 DEF Promise!Next
  <2>3. CASE Busy(t)
    <3>1. Promise!TurnAway(t)
      BY <2>3 DEF Busy, Promise!TurnAway
    <3> QED BY <3>1 DEF Promise!Next
  <2>4. CASE GetConn(t)
    BY <2>4 DEF GetConn
  <2>5. CASE ConnectFails(t)
    <3>1. Promise!GiveBack(t)
      BY <2>5 DEF ConnectFails, Promise!GiveBack
    <3> QED BY <3>1 DEF Promise!Next
  <2>6. CASE PutConn(t)
    BY <2>6 DEF PutConn
  <2>7. CASE ReleaseSlot(t)
    <3>1. Promise!GiveBack(t)
      BY <2>7 DEF ReleaseSlot, Promise!GiveBack
    <3> QED BY <3>1 DEF Promise!Next
  <2>8. CASE Teardown(t)
    BY <2>8 DEF Teardown
  <2>9. CASE LoseConn(t)
    <3>1. Promise!Lose(t)
      BY <2>9 DEF LoseConn, Promise!Lose
    <3> QED BY <3>1 DEF Promise!Next
  <2>10. CASE SetupFails(t)
    <3>1. Promise!Lose(t)
      BY <2>10 DEF SetupFails, Promise!Lose
    <3> QED BY <3>1 DEF Promise!Next
  <2> QED
    BY <1>2, <2>1, <2>2, <2>3, <2>4, <2>5, <2>6, <2>7, <2>8, <2>9, <2>10 DEF ThreadNext
<1> QED
  BY <1>1, <1>2 DEF Next

(* Callers see one bounded pool, although it takes two resources.          *)
THEOREM Refinement == Spec => KeepsPromise
  BY Inductive, InitRefines, NextRefines, PTL DEF Spec, KeepsPromise, Promise!Spec

=============================================================================
