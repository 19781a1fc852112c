-------------------------- MODULE BranchLocksProofs --------------------------
(***************************************************************************)
(* Proofs about BranchLocks for any threads, branches and pool size, and   *)
(* whether or not a branch has the id of the cleanup's own lock.           *)
(*                                                                         *)
(* Why nobody waits in a circle: a handler that has a lock and waits has   *)
(* its morning lock and waits for the warehouse lock of the same branch;   *)
(* no handler that has a warehouse lock waits, so the cleanup has it; and  *)
(* a cleanup that has a warehouse lock waits for no morning lock.          *)
(***************************************************************************)
EXTENDS BranchLocks, TLAPS

States == {"out", "asking", "slot", "using", "closing", "closed"}
Jobs == {"none", "handler", "claim", "waiting", "listing", "done"} \cup Cleanup

(* What a handler has and wants.                                           *)
HandlerPlan(t) ==
  \/ held[t] = {} /\ todo[t] = {}
  \/ \E b \in Branches :
       /\ held[t] \subseteq {Morning(b), Warehouse(b)}
       /\ todo[t] \subseteq {Morning(b), Warehouse(b)}
       /\ Warehouse(b) \in held[t] => todo[t] = {}

(* What a cleanup has and wants, before and after it has read the rows.    *)
ElectorPlan(t) == todo[t] # {} => held[t] = {}
CleanupPlan(t) ==
  (\E b \in Branches : Warehouse(b) \in held[t])
    => \A b \in Branches \cup {Elector} : Morning(b) \notin todo[t]

Plan(t) ==
  /\ job[t] = "handler" => HandlerPlan(t)
  /\ job[t] = "cleanup" => ElectorPlan(t) /\ held[t] \cup todo[t] \subseteq {Morning(Elector)}
  /\ job[t] = "deleting" => CleanupPlan(t)
  /\ job[t] \notin {"handler", "cleanup", "deleting"} => held[t] = {} /\ todo[t] = {}

Place(t) ==
  /\ held[t] # {} => pc[t] = "using"
  /\ job[t] = "waiting" => pc[t] \in {"out", "closed"}
  /\ pc[t] = "closing" => job[t] \in {"done", "cleaned", "broken"}

Types ==
  /\ pc \in [Threads -> States]
  /\ job \in [Threads -> Jobs]
  /\ todo \in [Threads -> SUBSET Locks]
  /\ held \in [Threads -> SUBSET Locks]

Exclusive == \A t, u \in Threads : t # u => held[t] \cap held[u] = {}
OneInside == \A t, u \in Inside : t = u

LInv ==
  /\ Types
  /\ Exclusive
  /\ OneInside
  /\ \A t \in Threads : Plan(t) /\ Place(t)

LEMMA InvImpliesLocksType == LInv => LocksTypeOK
  BY DEF LInv, Types, Exclusive, Place, LocksTypeOK, Jobs

LEMMA LockIds ==
  /\ \A b \in Branches : Morning(b) \in Locks /\ Warehouse(b) \in Locks /\ Location(b) \in Locks
  /\ Morning(Elector) \in Locks
  BY DEF Locks, Morning, Warehouse, Location

LEMMA InitLInv == LocksInit => LInv
<1> SUFFICES ASSUME LocksInit PROVE LInv
  OBVIOUS
<1>1. Types
  BY DEF LocksInit, Init, Types, States, Jobs
<1>2. Exclusive /\ OneInside
  BY DEF LocksInit, Exclusive, OneInside, Inside, Cleanup
<1>3. \A t \in Threads : Plan(t) /\ Place(t)
  BY DEF LocksInit, Init, Plan, Place
<1> QED
  BY <1>1, <1>2, <1>3 DEF LInv

-----------------------------------------------------------------------------
(* Each step of a thread is a step of the pool, or leaves the pool alone.  *)

LEMMA JobIsPool ==
  ASSUME NEW t \in Threads, JobNext(t)
  PROVE  ThreadNext(t) \/ UNCHANGED vars
  BY DEF JobNext, StartHandler, StartClaim, EnterCleanup, TakeGuard, Throttled, ListMissing,
         Borrow, NotBorrowed, Close, Closed, EndRequest, ClaimBreaks, TakeLock, Select,
         Finish, Abort, ThreadNext

LEMMA NextIsPool == [LocksNext]_lvars => [Next]_vars
  BY JobIsPool DEF LocksNext, Next, lvars, vars

(* The threads use the pool as ConnPool says, so what is proved of the     *)
(* pool holds beneath the locks.                                           *)
THEOREM UsesPool == LocksSpec => Spec
<1>1. LocksInit => Init
  BY DEF LocksInit
<1> QED
  BY <1>1, NextIsPool, PTL DEF LocksSpec, Spec

-----------------------------------------------------------------------------
(* A step that changes only thread t's entries preserves LInv when t's new *)
(* entries are in order.                                                   *)
LEMMA OneThread ==
  ASSUME LInv, NEW t \in Threads,
         NEW p \in States, NEW j \in Jobs, NEW wants \in SUBSET Locks, NEW has \in SUBSET Locks,
         pc' = [pc EXCEPT ![t] = p],
         job' = [job EXCEPT ![t] = j],
         todo' = [todo EXCEPT ![t] = wants],
         held' = [held EXCEPT ![t] = has],
         \A u \in Threads \ {t} : has \cap held[u] = {},
         j \in Cleanup => Inside \subseteq {t},
         Plan(t)', Place(t)'
  PROVE  LInv'
<1>1. Types'
  BY DEF LInv, Types
<1>2. Exclusive'
  BY DEF LInv, Types, Exclusive
<1>3. OneInside'
  <2>1. Inside' = IF j \in Cleanup THEN Inside \cup {t} ELSE Inside \ {t}
    BY DEF LInv, Types, Inside
  <2> QED
    BY <2>1 DEF LInv, OneInside
<1>4. ASSUME NEW u \in Threads, u # t PROVE Plan(u)' /\ Place(u)'
  <2>1. Plan(u) /\ Place(u)
    BY DEF LInv
  <2>2. pc'[u] = pc[u] /\ job'[u] = job[u] /\ todo'[u] = todo[u] /\ held'[u] = held[u]
    BY <1>4 DEF LInv, Types
  <2>3. Place(u)'
    BY <2>1, <2>2 DEF Place
  <2>4. Plan(u)'
    BY <2>1, <2>2 DEF Plan, HandlerPlan, ElectorPlan, CleanupPlan
  <2> QED
    BY <2>3, <2>4
<1> QED
  BY <1>1, <1>2, <1>3, <1>4 DEF LInv

LEMMA JobInv ==
  ASSUME LInv, NEW t \in Threads, JobNext(t)
  PROVE  LInv'
<1> DEFINE P == pc[t]
           J == job[t]
           W == todo[t]
           H == held[t]
<1>0. /\ P \in States /\ J \in Jobs /\ W \in SUBSET Locks /\ H \in SUBSET Locks
      /\ pc = [pc EXCEPT ![t] = P] /\ job = [job EXCEPT ![t] = J]
      /\ todo = [todo EXCEPT ![t] = W] /\ held = [held EXCEPT ![t] = H]
      /\ \A u \in Threads \ {t} : H \cap held[u] = {} /\ {} \cap held[u] = {}
      /\ Plan(t) /\ Place(t)
      /\ J \in Cleanup => Inside \subseteq {t}
  BY DEF LInv, Types, Exclusive, OneInside, Inside
<1>00. /\ \A p \in {"out", "asking", "slot", "using", "closing", "closed"} : p \in States
       /\ \A j \in {"none", "handler", "claim", "waiting", "listing", "done", "cleanup",
                     "deleting", "cleaned", "broken"} : j \in Jobs
       /\ \A j \in {"none", "handler", "claim", "waiting", "listing", "done"} : j \notin Cleanup
       /\ \A j \in {"cleanup", "deleting", "cleaned", "broken"} : j \in Cleanup
  BY DEF States, Jobs, Cleanup
<1>01. pc \in [Threads -> States] /\ job \in [Threads -> Jobs]
       /\ todo \in [Threads -> SUBSET Locks] /\ held \in [Threads -> SUBSET Locks]
  BY DEF LInv, Types
(* Entering a job: no lock is held, and none but a plan is wanted.         *)
<1>1. CASE StartHandler(t)
  <2>1. PICK plan \in Plans : todo' = [todo EXCEPT ![t] = plan]
    BY <1>1 DEF StartHandler
  <2>2. plan \in SUBSET Locks
    BY LockIds DEF Plans
  <2>3. H = {} /\ pc' = [pc EXCEPT ![t] = "asking"] /\ job' = [job EXCEPT ![t] = "handler"]
        /\ held' = [held EXCEPT ![t] = H]
    BY <1>0, <1>1 DEF StartHandler, Ask, To, Becomes, Plan
  <2>4. Plan(t)'
    <3>1. held'[t] = {} /\ todo'[t] = plan /\ job'[t] = "handler"
      BY <1>01, <2>1, <2>2, <2>3
    <3>2. HandlerPlan(t)'
      BY <3>1 DEF HandlerPlan, Plans
    <3> QED BY <3>1, <3>2 DEF Plan
  <2>5. Place(t)'
    BY <1>01, <2>3 DEF Place
  <2> QED
    BY <1>0, <1>00, <2>1, <2>2, <2>3, <2>4, <2>5, OneThread
<1>2. CASE StartClaim(t)
  <2>1. H = {} /\ W = {} /\ pc' = [pc EXCEPT ![t] = "asking"] /\ job' = [job EXCEPT ![t] = "claim"]
        /\ todo' = [todo EXCEPT ![t] = W] /\ held' = [held EXCEPT ![t] = H]
    BY <1>0, <1>2 DEF StartClaim, Ask, To, Becomes, Plan
  <2>2. Plan(t)' /\ Place(t)'
    BY <1>01, <2>1 DEF Plan, Place
  <2> QED
    BY <1>0, <1>00, <2>1, <2>2, OneThread
<1>3. CASE EnterCleanup(t)
  <2>1. H = {} /\ W = {} /\ P \in {"out", "closed"} /\ job' = [job EXCEPT ![t] = "waiting"]
        /\ pc' = [pc EXCEPT ![t] = P]
        /\ todo' = [todo EXCEPT ![t] = W] /\ held' = [held EXCEPT ![t] = H]
    BY <1>0, <1>3 DEF EnterCleanup, Becomes, Plan, vars
  <2>2. Plan(t)' /\ Place(t)'
    BY <1>01, <2>1 DEF Plan, Place
  <2> QED
    BY <1>0, <1>00, <2>1, <2>2, OneThread
<1>4. CASE TakeGuard(t)
  <2>1. H = {} /\ pc' = [pc EXCEPT ![t] = "asking"] /\ job' = [job EXCEPT ![t] = "cleanup"]
        /\ todo' = [todo EXCEPT ![t] = {Morning(Elector)}] /\ held' = [held EXCEPT ![t] = H]
        /\ Inside = {}
    BY <1>0, <1>4 DEF TakeGuard, Ask, To, Becomes, Plan
  <2>2. Plan(t)' /\ Place(t)'
    BY <1>01, <2>1, LockIds DEF Plan, Place, ElectorPlan
  <2>3. {Morning(Elector)} \in SUBSET Locks
    BY LockIds
  <2> QED
    BY <1>0, <1>00, <2>1, <2>2, <2>3, OneThread
<1>5. CASE Throttled(t) \/ ListMissing(t)
  <2>1. H = {} /\ W = {} /\ pc' = [pc EXCEPT ![t] = "asking"] /\ job' = [job EXCEPT ![t] = "handler"]
        /\ todo' = [todo EXCEPT ![t] = W] /\ held' = [held EXCEPT ![t] = H]
    BY <1>0, <1>5 DEF Throttled, ListMissing, Ask, To, Becomes, Plan
  <2>2. Plan(t)' /\ Place(t)'
    BY <1>01, <2>1 DEF Plan, Place, HandlerPlan
  <2> QED
    BY <1>0, <1>00, <2>1, <2>2, OneThread
(* The pool: the job's locks stay as they are, and there are none before   *)
(* the connection and after it.                                            *)
<1>6. CASE Borrow(t)
  <2>1. PICK p \in {"slot", "using"} : pc' = [pc EXCEPT ![t] = p]
    BY <1>6 DEF Borrow, TakeSlot, GetConn, To
  <2>2. P \notin {"using", "out", "closed"} /\ job' = [job EXCEPT ![t] = J]
        /\ todo' = [todo EXCEPT ![t] = W] /\ held' = [held EXCEPT ![t] = H]
    BY <1>0, <1>6 DEF Borrow, TakeSlot, GetConn
  <2>3. job'[t] = J /\ todo'[t] = W /\ held'[t] = H /\ pc'[t] = p
    BY <1>01, <2>1, <2>2
  <2>4. Plan(t)'
    BY <1>0, <2>3 DEF Plan, HandlerPlan, ElectorPlan, CleanupPlan
  <2>5. Place(t)'
    BY <1>0, <2>2, <2>3 DEF Place
  <2> QED
    BY <1>0, <1>00, <2>1, <2>2, <2>4, <2>5, OneThread
<1>7. CASE NotBorrowed(t)
  <2>1. PICK p \in {"out", "closed"} : pc' = [pc EXCEPT ![t] = p]
    BY <1>7 DEF NotBorrowed, Busy, ConnectFails, SetupFails, To
  <2>2. job' = [job EXCEPT ![t] = "none"] /\ todo' = [todo EXCEPT ![t] = {}]
        /\ held' = [held EXCEPT ![t] = {}]
    BY <1>7 DEF NotBorrowed, Becomes, NoLocks
  <2>3. Plan(t)' /\ Place(t)'
    BY <1>01, <2>1, <2>2 DEF Plan, Place
  <2> QED
    BY <1>0, <1>00, <2>1, <2>2, <2>3, OneThread
<1>8. CASE Close(t)
  <2>1. H = {} /\ W = {} /\ J \in {"done", "cleaned", "broken"}
        /\ pc' = [pc EXCEPT ![t] = "closing"] /\ job' = [job EXCEPT ![t] = J]
        /\ todo' = [todo EXCEPT ![t] = W] /\ held' = [held EXCEPT ![t] = H]
    BY <1>0, <1>8 DEF Close, PutConn, To, Plan
  <2>2. Plan(t)' /\ Place(t)'
    BY <1>01, <2>1 DEF Plan, Place
  <2> QED
    BY <1>0, <1>00, <2>1, <2>2, OneThread
<1>9. CASE Closed(t)
  <2>1. PICK p \in {"out", "closed"} : pc' = [pc EXCEPT ![t] = p]
    BY <1>9 DEF Closed, ReleaseSlot, To
  <2>2. PICK j \in {"listing", "none"} : job' = [job EXCEPT ![t] = j]
    BY <1>9 DEF Closed, Becomes
  <2>3. P = "closing" /\ todo' = [todo EXCEPT ![t] = W] /\ held' = [held EXCEPT ![t] = H]
    BY <1>0, <1>9 DEF Closed, ReleaseSlot
  <2>4. H = {} /\ W = {}
    BY <1>0, <2>3 DEF Place, Plan
  <2>5. Plan(t)' /\ Place(t)'
    BY <1>01, <2>1, <2>2, <2>3, <2>4 DEF Plan, Place
  <2> QED
    BY <1>0, <1>00, <2>1, <2>2, <2>3, <2>5, OneThread
<1>10. CASE EndRequest(t)
  <2>1. H = {} /\ W = {} /\ J = "none"
        /\ pc' = [pc EXCEPT ![t] = "out"] /\ job' = [job EXCEPT ![t] = J]
        /\ todo' = [todo EXCEPT ![t] = W] /\ held' = [held EXCEPT ![t] = H]
    BY <1>0, <1>10 DEF EndRequest, Teardown, To, Plan
  <2>2. Plan(t)' /\ Place(t)'
    BY <1>01, <2>1 DEF Plan, Place
  <2> QED
    BY <1>0, <1>00, <2>1, <2>2, OneThread
<1>11. CASE ClaimBreaks(t)
  <2>1. H = {} /\ W = {}
        /\ pc' = [pc EXCEPT ![t] = "out"] /\ job' = [job EXCEPT ![t] = "none"]
        /\ todo' = [todo EXCEPT ![t] = W] /\ held' = [held EXCEPT ![t] = H]
    BY <1>0, <1>11 DEF ClaimBreaks, LoseConn, To, Becomes, Plan
  <2>2. Plan(t)' /\ Place(t)'
    BY <1>01, <2>1 DEF Plan, Place
  <2> QED
    BY <1>0, <1>00, <2>1, <2>2, OneThread
(* The locks: here the order matters.                                      *)
<1>12. CASE TakeLock(t)
  <2>1. PICK l \in Locks :
          /\ Awaits(t, l)
          /\ \A u \in Threads \ {t} : l \notin held[u]
          /\ todo' = [todo EXCEPT ![t] = W \ {l}]
          /\ held' = [held EXCEPT ![t] = H \cup {l}]
    BY <1>12 DEF TakeLock
  <2>2. P = "using" /\ pc' = [pc EXCEPT ![t] = P] /\ job' = [job EXCEPT ![t] = J] /\ l \in W
    BY <1>0, <1>12, <2>1 DEF TakeLock, Awaits, vars
  <2>3. job'[t] = J /\ todo'[t] = W \ {l} /\ held'[t] = H \cup {l} /\ pc'[t] = P
    BY <1>01, <2>1, <2>2
  <2>4. Place(t)'
    BY <1>0, <2>2, <2>3 DEF Place
  <2>5. ASSUME J = "handler" PROVE Plan(t)'
    <3>1. PICK b \in Branches :
            /\ H \subseteq {Morning(b), Warehouse(b)}
            /\ W \subseteq {Morning(b), Warehouse(b)}
      BY <1>0, <2>2, <2>5 DEF Plan, HandlerPlan
    <3>2. ~Before(Warehouse(b), Morning(b)) /\ Morning(b) # Warehouse(b)
      BY DEF Before, Position, Morning, Warehouse
    <3>3. Warehouse(b) \in H => W = {}
      BY <1>0, <2>2, <2>5 DEF Plan, HandlerPlan, Morning, Warehouse
    <3>4. Warehouse(b) = l => W = {l}
      BY <2>1, <3>1, <3>2 DEF Awaits
    <3>5. HandlerPlan(t)'
      BY <2>2, <2>3, <3>1, <3>3, <3>4 DEF HandlerPlan
    <3> QED
      BY <2>3, <2>5, <3>5 DEF Plan
  <2>6. ASSUME J = "cleanup" PROVE Plan(t)'
    BY <1>0, <2>2, <2>3, <2>6 DEF Plan, ElectorPlan
  <2>7. ASSUME J = "deleting" PROVE Plan(t)'
    <3>1. ASSUME NEW b \in Branches, l = Warehouse(b), NEW c \in Branches \cup {Elector}
          PROVE  Morning(c) \notin W
      BY <2>1, <3>1 DEF Awaits, Before, Position, Morning, Warehouse
    <3>2. CleanupPlan(t)'
      BY <1>0, <2>3, <2>7, <3>1 DEF Plan, CleanupPlan
    <3> QED
      BY <2>3, <2>7, <3>2 DEF Plan
  <2>8. ASSUME J \notin {"handler", "cleanup", "deleting"} PROVE Plan(t)'
    BY <1>0, <2>2, <2>8 DEF Plan
  <2>9. \A u \in Threads \ {t} : (H \cup {l}) \cap held[u] = {}
    BY <1>0, <2>1
  <2>10. W \ {l} \in SUBSET Locks /\ H \cup {l} \in SUBSET Locks
    BY <1>0
  <2>11. Plan(t)'
    BY <2>5, <2>6, <2>7, <2>8
  <2> QED
    BY <1>0, <2>1, <2>2, <2>4, <2>9, <2>10, <2>11, OneThread
<1>13. CASE Select(t)
  <2>1. PICK morning \in SUBSET Branches, warehouse \in SUBSET Branches,
             location \in SUBSET Located :
          todo' = [todo EXCEPT ![t] =
            {Morning(b) : b \in morning} \cup {Warehouse(b) : b \in warehouse}
              \cup {Location(b) : b \in location}]
    BY <1>13 DEF Select
  <2> DEFINE plan == {Morning(b) : b \in morning} \cup {Warehouse(b) : b \in warehouse}
                       \cup {Location(b) : b \in location}
  <2>2. plan \in SUBSET Locks
    BY LockIds, LocksAssumption
  <2>3. P = "using" /\ J = "cleanup" /\ H \subseteq {Morning(Elector)}
        /\ pc' = [pc EXCEPT ![t] = P] /\ job' = [job EXCEPT ![t] = "deleting"]
        /\ held' = [held EXCEPT ![t] = H]
    BY <1>0, <1>13 DEF Select, Becomes, vars, Plan
  <2>4. job'[t] = "deleting" /\ held'[t] = H /\ pc'[t] = P
    BY <1>01, <2>3
  <2>5. Plan(t)'
    <3>1. \A b \in Branches : Warehouse(b) \notin held'[t]
      BY <2>3, <2>4 DEF Morning, Warehouse
    <3> QED
      BY <2>4, <3>1 DEF Plan, CleanupPlan
  <2>6. Place(t)'
    BY <2>3, <2>4 DEF Place
  <2> HIDE DEF plan
  <2>7. todo' = [todo EXCEPT ![t] = plan]
    BY <2>1 DEF plan
  <2> QED
    BY <1>0, <1>00, <2>2, <2>3, <2>5, <2>6, <2>7, OneThread
<1>14. CASE Finish(t) \/ Abort(t)
  <2>1. PICK j \in {"cleaned", "done", "broken"} : job' = [job EXCEPT ![t] = j] /\ (j \in Cleanup => J \in Cleanup)
    BY <1>00, <1>14 DEF Finish, Abort, Becomes
  <2>2. P = "using" /\ pc' = [pc EXCEPT ![t] = P]
        /\ todo' = [todo EXCEPT ![t] = {}] /\ held' = [held EXCEPT ![t] = {}]
    BY <1>0, <1>14 DEF Finish, Abort, NoLocks, vars
  <2>3. Plan(t)' /\ Place(t)'
    BY <1>01, <2>1, <2>2 DEF Plan, Place
  <2> QED
    BY <1>0, <1>00, <2>1, <2>2, <2>3, OneThread
<1> QED
  BY <1>1, <1>2, <1>3, <1>4, <1>5, <1>6, <1>7, <1>8, <1>9, <1>10, <1>11, <1>12, <1>13, <1>14
  DEF JobNext

LEMMA NextLInv == LInv /\ [LocksNext]_lvars => LInv'
<1> SUFFICES ASSUME LInv, [LocksNext]_lvars PROVE LInv'
  OBVIOUS
<1>1. CASE LocksNext
  BY <1>1, JobInv DEF LocksNext
<1>2. CASE UNCHANGED lvars
  BY <1>2 DEF lvars, LInv, Types, Exclusive, OneInside, Inside, Plan, HandlerPlan, ElectorPlan,
              CleanupPlan, Place
<1> QED
  BY <1>1, <1>2

LEMMA LInductive == LocksSpec => []LInv
  BY InitLInv, NextLInv, PTL DEF LocksSpec

(* An advisory lock has one owner, and no connection goes back with one.   *)
THEOREM LocksTypeCorrect == LocksSpec => []LocksTypeOK
  BY LInductive, InvImpliesLocksType, PTL

-----------------------------------------------------------------------------
(* A handler of the circle that has a lock waits for a cleanup.            *)
LEMMA HandlerWaitsForCleanup ==
  ASSUME LInv, NEW D \in SUBSET Threads, Stuck(D),
         NEW t \in D, held[t] # {}, job[t] = "handler"
  PROVE  \E b \in Branches, c \in D :
           /\ held[t] = {Morning(b)} /\ Warehouse(b) \in held[c]
           /\ job[c] = "deleting"
<1>1. Plan(t) /\ Place(t)
  BY DEF LInv
<1>2. PICK l \in Locks, c \in D \ {t} : Awaits(t, l) /\ l \in held[c]
  BY <1>1 DEF Stuck, Place
<1>3. PICK b \in Branches :
        /\ held[t] \subseteq {Morning(b), Warehouse(b)}
        /\ todo[t] \subseteq {Morning(b), Warehouse(b)}
        /\ Warehouse(b) \in held[t] => todo[t] = {}
  BY <1>1, <1>2 DEF Plan, HandlerPlan, Awaits
<1>4. l \in todo[t] /\ held[t] = {Morning(b)}
  BY <1>2, <1>3 DEF Awaits
<1>5. l = Warehouse(b)
  BY <1>2, <1>3, <1>4 DEF LInv, Exclusive
<1>6. Plan(c) /\ Place(c)
  BY DEF LInv
<1>7. PICK k \in Locks : Awaits(c, k)
  BY <1>2, <1>6 DEF Stuck, Place
<1>8. todo[c] # {}
  BY <1>7 DEF Awaits
<1>9. job[c] # "handler"
  BY <1>2, <1>5, <1>6, <1>8 DEF Plan, HandlerPlan, Morning, Warehouse
<1>10. job[c] # "cleanup"
  BY <1>2, <1>6, <1>8 DEF Plan, ElectorPlan
<1>11. job[c] = "deleting"
  BY <1>2, <1>6, <1>9, <1>10 DEF Plan
<1> QED
  BY <1>2, <1>4, <1>5, <1>11

(* missing_warehouse.py takes both locks in one order so that "two         *)
(* simultaneous corrections cannot deadlock one another": no circle of     *)
(* waits forms, among handlers, or between them and the cleanup.           *)
LEMMA InvImpliesNoCircle == LInv => NoCircularWait
<1> SUFFICES ASSUME LInv, NEW D \in SUBSET Threads, D # {}, Stuck(D)
             PROVE  FALSE
  BY DEF NoCircularWait
<1>0. \A t \in Threads : Plan(t) /\ Place(t)
  BY DEF LInv
(* Some thread of D has a lock: who is inside the guard does not wait for  *)
(* the guard, and who has a slot does not wait for a slot.                 *)
<1>1. PICK t \in D, l \in Locks : Awaits(t, l)
  <2>1. ASSUME NEW t \in D, pc[t] = "asking" PROVE \E u \in D, l \in Locks : Awaits(u, l)
    <3>1. PICK u \in Holding : u \in D
      BY <1>0, <2>1 DEF Stuck, Place, Awaits
    <3>2. pc[u] # "asking" /\ job[u] # "waiting"
      BY <1>0, <3>1 DEF Holding, Place
    <3> QED
      BY <3>1, <3>2 DEF Stuck
  <2>2. ASSUME NEW t \in D, job[t] = "waiting" PROVE \E u \in D, l \in Locks : Awaits(u, l)
    <3>1. PICK u \in Inside : u \in D
      BY <1>0, <2>2 DEF Stuck, Place, Awaits
    <3>2. job[u] # "waiting"
      BY <3>1 DEF Inside, Cleanup
    <3> QED
      BY <2>1, <3>1, <3>2 DEF Stuck
  <2> QED
    BY <2>1, <2>2 DEF Stuck
<1>2. PICK u \in D : held[u] # {}
  BY <1>0, <1>1 DEF Stuck, Place, Awaits
<1>3. PICK k \in Locks : Awaits(u, k)
  BY <1>0, <1>2 DEF Stuck, Place
(* So a cleanup of D has locks; another thread of D has what it awaits.    *)
<1>4. job[u] \in {"handler", "deleting"}
  BY <1>0, <1>2, <1>3 DEF Plan, ElectorPlan, Awaits
<1>5. PICK c \in D : job[c] = "deleting" /\ held[c] # {}
  BY <1>2, <1>4, HandlerWaitsForCleanup
<1>6. PICK m \in Locks, v \in D \ {c} : Awaits(c, m) /\ m \in held[v]
  BY <1>0, <1>5 DEF Stuck, Place
<1>7. PICK n \in Locks : Awaits(v, n)
  BY <1>0, <1>6 DEF Stuck, Place
<1>8. job[v] \notin Cleanup
  BY <1>5, <1>6 DEF LInv, OneInside, Inside, Cleanup
<1>9. job[v] = "handler"
  BY <1>0, <1>6, <1>8 DEF Plan, Cleanup
(* That thread waits for the same cleanup, and its lock is a morning lock: *)
(* the cleanup would take a morning lock after a warehouse lock.           *)
<1>10. PICK b \in Branches, d \in D :
         held[v] = {Morning(b)} /\ Warehouse(b) \in held[d] /\ job[d] = "deleting"
  BY <1>6, <1>9, HandlerWaitsForCleanup
<1>11. d = c
  BY <1>5, <1>10 DEF LInv, OneInside, Inside, Cleanup
<1>12. Morning(b) \in todo[c] /\ Warehouse(b) \in held[c]
  BY <1>6, <1>10, <1>11 DEF Awaits
<1> QED
  BY <1>0, <1>5, <1>12 DEF Plan, CleanupPlan

(* No circle of waits ever forms.                                          *)
THEOREM NoDeadlock == LocksSpec => []NoCircularWait
  BY LInductive, InvImpliesNoCircle, PTL

=============================================================================
