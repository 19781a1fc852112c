----------------------------- MODULE BranchLocks -----------------------------
(***************************************************************************)
(* What the threads of the server wait for: the guard of the daily         *)
(* cleanup, a slot of the connection pool and PostgreSQL's advisory locks, *)
(* one per list and branch, which a transaction keeps to its end.  The     *)
(* pool is ConnPool; a thread's job says when it borrows and gives back.   *)
(*                                                                         *)
(* What a transaction reads and writes is in BranchLists; here the sets of *)
(* branches a cleanup finds expired rows in are any sets.                  *)
(***************************************************************************)
EXTENDS ConnPool

CONSTANTS
  Branches,  \* ids of branches
  Located,   \* those that keep warehouse locations
  Elector    \* the cleanup's own lock is the morning lock of this id (600)

ASSUME LocksAssumption ==
  /\ Branches \subseteq Nat /\ Elector \in Nat
  /\ Located \subseteq Branches

Morning(b)   == <<"morning", b>>    \* 127836
Warehouse(b) == <<"warehouse", b>>  \* 127837
Location(b)  == <<"location", b>>   \* 127838

Locks == {"morning", "warehouse", "location"} \X (Branches \cup {Elector})

VARIABLES
  job,   \* what each thread works on
  todo,  \* the advisory locks it still has to take
  held   \* the advisory locks its transaction has

lvars == <<pc, slots, used, lost, job, todo, held>>

Becomes(t, kind) == job' = [job EXCEPT ![t] = kind]
NoLocks(t) ==
  /\ todo' = [todo EXCEPT ![t] = {}]
  /\ held' = [held EXCEPT ![t] = {}]

(* The threads inside `with _cleanup_guard_lock`.                          *)
Cleanup == {"cleanup", "deleting", "cleaned", "broken"}
Inside  == {t \in Threads : job[t] \in Cleanup}

-----------------------------------------------------------------------------
(* Handlers.  A scan, a tick, an approval, a reload take the morning lock, *)
(* a sale or an undo the warehouse lock, both transfers take both, all     *)
(* others none.                                                            *)
Plans ==
  {{}} \cup {{Morning(b)} : b \in Branches} \cup {{Warehouse(b)} : b \in Branches}
       \cup {{Morning(b), Warehouse(b)} : b \in Branches}

StartHandler(t) ==
  /\ t \notin Workers /\ job[t] = "none"
  /\ Ask(t)
  /\ Becomes(t, "handler")
  /\ \E plan \in Plans : todo' = [todo EXCEPT ![t] = plan]
  /\ UNCHANGED held

(* The claim of a queue worker.                                            *)
StartClaim(t) ==
  /\ t \in Workers /\ job[t] = "none"
  /\ Ask(t)
  /\ Becomes(t, "claim")
  /\ UNCHANGED <<todo, held>>

(* list_missing and the worker at 06:00 go for the guard without a         *)
(* connection: the one of require_branch is closed.                        *)
EnterCleanup(t) ==
  /\ job[t] = "none" /\ pc[t] \in {"out", "closed"}
  /\ Becomes(t, "waiting")
  /\ UNCHANGED <<vars, todo, held>>

TakeGuard(t) ==
  /\ job[t] = "waiting" /\ Inside = {}
  /\ Ask(t)
  /\ Becomes(t, "cleanup")
  /\ todo' = [todo EXCEPT ![t] = {Morning(Elector)}]
  /\ UNCHANGED held

(* The last cleanup is less than 30 seconds ago: list_missing goes on.     *)
Throttled(t) ==
  /\ t \notin Workers
  /\ job[t] = "waiting" /\ Inside = {}
  /\ Ask(t)
  /\ Becomes(t, "handler")
  /\ UNCHANGED <<todo, held>>

(* After its cleanup list_missing borrows a second time.                   *)
ListMissing(t) ==
  /\ job[t] = "listing"
  /\ Ask(t)
  /\ Becomes(t, "handler")
  /\ UNCHANGED <<todo, held>>

-----------------------------------------------------------------------------
(* The pool, as the job goes.                                              *)

Borrow(t) ==
  /\ TakeSlot(t) \/ GetConn(t)
  /\ UNCHANGED <<job, todo, held>>

(* Mutant: acquire and release of the guard without a finally.             *)
NotBorrowed_KeepsGuard(t) ==
  /\ Busy(t) \/ ConnectFails(t) \/ SetupFails(t)
  /\ Becomes(t, IF job[t] = "cleanup" THEN "broken" ELSE "none")
  /\ NoLocks(t)

(* The exception ends the request; a cleanup leaves its guard.             *)
NotBorrowed(t) ==
  /\ Busy(t) \/ ConnectFails(t) \/ SetupFails(t)
  /\ Becomes(t, "none")
  /\ NoLocks(t)

Close(t) ==
  /\ job[t] \in {"done", "cleaned", "broken"}
  /\ PutConn(t)
  /\ UNCHANGED <<job, todo, held>>

(* The end of the cleanup's with block, or of the handler.                 *)
Closed(t) ==
  /\ ReleaseSlot(t)
  /\ Becomes(t, IF job[t] = "cleaned" /\ t \notin Workers THEN "listing" ELSE "none")
  /\ UNCHANGED <<todo, held>>

EndRequest(t) ==
  /\ job[t] = "none"
  /\ Teardown(t)
  /\ UNCHANGED <<job, todo, held>>

ClaimBreaks(t) ==
  /\ job[t] = "claim"
  /\ LoseConn(t)
  /\ Becomes(t, "none")
  /\ UNCHANGED <<todo, held>>

-----------------------------------------------------------------------------
(* Advisory locks.  A plan is taken in the order of the code: morning      *)
(* locks before warehouse locks before location locks, each by branch id.  *)

Position(l) == CASE l[1] = "morning" -> 0 [] l[1] = "warehouse" -> 1 [] OTHER -> 2

Before(k, l) ==
  \/ Position(k) < Position(l)
  \/ k[1] = l[1] /\ k[2] < l[2]

(* Mutant: transfers take the warehouse lock first.                        *)
Awaits_SalesFirst(t, l) ==
  /\ pc[t] = "using" /\ l \in todo[t]
  /\ \A k \in todo[t] :
       \/ k = l
       \/ IF job[t] = "handler" THEN Before(k, l) ELSE Before(l, k)

Awaits(t, l) ==
  /\ pc[t] = "using" /\ l \in todo[t]
  /\ \A k \in todo[t] : k = l \/ Before(l, k)

(* Mutant: pg_try_advisory_xact_lock, whose answer nobody reads.           *)
TakeLock_Tried(t) ==
  /\ \E l \in Locks :
       /\ Awaits(t, l)
       /\ todo' = [todo EXCEPT ![t] = @ \ {l}]
       /\ held' = [held EXCEPT ![t] = @ \cup {l}]
  /\ UNCHANGED <<vars, job>>

(* Locks are per session: one it has already is granted again.             *)
TakeLock(t) ==
  /\ \E l \in Locks :
       /\ Awaits(t, l)
       /\ \A u \in Threads \ {t} : l \notin held[u]
       /\ todo' = [todo EXCEPT ![t] = @ \ {l}]
       /\ held' = [held EXCEPT ![t] = @ \cup {l}]
  /\ UNCHANGED <<vars, job>>

(* The cleanup reads which branches have expired rows, before it waits for *)
(* their locks.                                                            *)
Select(t) ==
  /\ pc[t] = "using" /\ job[t] = "cleanup" /\ todo[t] = {}
  /\ \E morning, warehouse \in SUBSET Branches, location \in SUBSET Located :
       todo' = [todo EXCEPT ![t] =
         {Morning(b) : b \in morning} \cup {Warehouse(b) : b \in warehouse}
           \cup {Location(b) : b \in location}]
  /\ Becomes(t, "deleting")
  /\ UNCHANGED <<vars, held>>

(* Commit, or the handler's early return: the transaction's locks go.      *)
Finish(t) ==
  /\ pc[t] = "using" /\ todo[t] = {}
  /\ \/ job[t] = "deleting" /\ Becomes(t, "cleaned")
     \/ job[t] \in {"handler", "claim"} /\ Becomes(t, "done")
  /\ NoLocks(t)
  /\ UNCHANGED vars

(* A statement fails; the rollback, or the close in the teardown, takes    *)
(* the locks.                                                              *)
Abort(t) ==
  /\ pc[t] = "using" /\ job[t] \in {"handler", "claim", "cleanup", "deleting"}
  /\ Becomes(t, IF job[t] \in Cleanup THEN "broken" ELSE "done")
  /\ NoLocks(t)
  /\ UNCHANGED vars

-----------------------------------------------------------------------------
LocksInit ==
  /\ Init
  /\ job = [t \in Threads |-> "none"]
  /\ todo = [t \in Threads |-> {}]
  /\ held = [t \in Threads |-> {}]

JobNext(t) ==
  \/ StartHandler(t) \/ StartClaim(t) \/ EnterCleanup(t) \/ TakeGuard(t)
  \/ Throttled(t) \/ ListMissing(t)
  \/ Borrow(t) \/ NotBorrowed(t) \/ Close(t) \/ Closed(t) \/ EndRequest(t)
  \/ ClaimBreaks(t)
  \/ TakeLock(t) \/ Select(t) \/ Finish(t) \/ Abort(t)

LocksNext == \E t \in Threads : JobNext(t)

LocksSpec == LocksInit /\ [][LocksNext]_lvars

(* A thread goes on; a waiter for a slot gets one or gives up in time;     *)
(* PostgreSQL grants a lock in the order it was asked for.  Starting,      *)
(* failing and entering the guard are promised to nobody.                  *)
FairLocksSpec ==
  /\ LocksSpec
  /\ \A t \in Threads :
       /\ WF_lvars(Borrow(t) \/ NotBorrowed(t) \/ Close(t) \/ Closed(t) \/ Select(t) \/ Finish(t))
       /\ SF_lvars(TakeLock(t))

-----------------------------------------------------------------------------
(* Types.  Only a thread with a connection has locks, and no lock is had   *)
(* twice.                                                                  *)
LocksTypeOK ==
  /\ job \in [Threads -> {"none", "handler", "claim", "waiting", "listing", "done"} \cup Cleanup]
  /\ todo \in [Threads -> SUBSET Locks]
  /\ held \in [Threads -> SUBSET Locks]
  /\ \A t \in Threads : held[t] # {} => pc[t] = "using"
  /\ \A t, u \in Threads : t # u => held[t] \cap held[u] = {}

(* D waits for itself: none of its threads can go on before another of     *)
(* them does, save for a timeout.  Slots that are lost are not waited for. *)
Stuck(D) == \A t \in D :
  \/ job[t] = "waiting" /\ Inside # {} /\ Inside \subseteq D
  \/ pc[t] = "asking" /\ slots = 0 /\ Holding # {} /\ Holding \subseteq D
  \/ \E l \in Locks : Awaits(t, l) /\ \E u \in D \ {t} : l \in held[u]

(* missing_warehouse.py says of its two locks that "two simultaneous       *)
(* corrections cannot deadlock one another"; neither can they with the     *)
(* cleanup, which waits for a slot inside its guard and for the locks of   *)
(* many branches behind one that may belong to a branch itself.            *)
NoCircularWait == \A D \in SUBSET Threads : D # {} => ~Stuck(D)

(* Whoever is inside the cleanup leaves it again, also when it gets no     *)
(* connection or a statement fails: list_missing of every branch waits     *)
(* for it without a timeout.                                               *)
GuardLetGo == \A t \in Threads : t \in Inside ~> t \notin Inside

=============================================================================
