------------------------------ MODULE ConnPool ------------------------------
(***************************************************************************)
(* The PostgreSQL connection pool of db.py: a semaphore of MaxConn slots   *)
(* in front of psycopg2's ThreadedConnectionPool, CompatConnection.close,  *)
(* and the teardown that closes whatever a request has borrowed.  Request  *)
(* threads and the background workers share it.                            *)
(*                                                                         *)
(* A slot and a native connection are two resources, taken and given back  *)
(* in separate steps.                                                      *)
(***************************************************************************)
EXTENDS Integers, FiniteSets

CONSTANTS
  Threads,  \* all threads that borrow
  Workers,  \* those that are no requests: nothing tears them down
  MaxConn   \* POSTGRES_POOL_MAX_CONN

ASSUME PoolAssumption ==
  /\ IsFiniteSet(Threads)
  /\ Workers \subseteq Threads
  /\ MaxConn \in Nat \ {0}

VARIABLES
  pc,     \* what each thread is doing
  slots,  \* the value of _postgres_pool_slots
  used,   \* length of the native pool's _used
  lost    \* connections that nobody will give back

vars == <<pc, slots, used, lost>>

To(t, state) == pc' = [pc EXCEPT ![t] = state]

-----------------------------------------------------------------------------
(* get_connection.                                                         *)

Ask(t) ==
  /\ pc[t] \in {"out", "closed"}
  /\ To(t, "asking")
  /\ UNCHANGED <<slots, used, lost>>

TakeSlot(t) ==
  /\ pc[t] = "asking" /\ slots > 0
  /\ To(t, "slot")
  /\ slots' = slots - 1
  /\ UNCHANGED <<used, lost>>

(* Mutant: the wait gives up although a slot is free.                      *)
Busy_Early(t) ==
  /\ pc[t] = "asking"
  /\ To(t, IF t \in Workers THEN "out" ELSE "closed")
  /\ UNCHANGED <<slots, used, lost>>

(* POSTGRES_POOL_WAIT_SECONDS have passed: DatabaseBusyError, a 503.       *)
Busy(t) ==
  /\ pc[t] = "asking" /\ slots = 0
  /\ To(t, IF t \in Workers THEN "out" ELSE "closed")
  /\ UNCHANGED <<slots, used, lost>>

(* The native pool hands out an idle connection or opens one.              *)
GetConn(t) ==
  /\ pc[t] = "slot" /\ used < MaxConn
  /\ To(t, "using")
  /\ used' = used + 1
  /\ UNCHANGED <<slots, lost>>

(* Mutant: a failure to connect keeps the slot.                            *)
ConnectFails_KeepsSlot(t) ==
  /\ pc[t] = "slot"
  /\ To(t, IF t \in Workers THEN "out" ELSE "closed")
  /\ UNCHANGED <<slots, used, lost>>

(* The database refuses, or the native pool is exhausted.                  *)
ConnectFails(t) ==
  /\ pc[t] = "slot"
  /\ To(t, IF t \in Workers THEN "out" ELSE "closed")
  /\ slots' = slots + 1
  /\ UNCHANGED <<used, lost>>

(* Setting autocommit raises, outside the try and before anything knows    *)
(* the connection: neither it nor the slot is given back.                  *)
SetupFails(t) ==
  /\ pc[t] = "slot" /\ used < MaxConn
  /\ To(t, IF t \in Workers THEN "out" ELSE "closed")
  /\ used' = used + 1
  /\ lost' = lost + 1
  /\ UNCHANGED slots

-----------------------------------------------------------------------------
(* CompatConnection.close: by the handler, by a worker's finally, or by    *)
(* close_request_connections after an exception.                           *)

(* Mutant: putconn raises half way and keeps its entry; the finally in     *)
(* _release_postgres_connection releases the slot all the same.            *)
PutConn_Raises(t) ==
  /\ pc[t] = "using"
  /\ To(t, "closing")
  /\ UNCHANGED <<slots, used, lost>>

PutConn(t) ==
  /\ pc[t] = "using"
  /\ To(t, "closing")
  /\ used' = used - 1
  /\ UNCHANGED <<slots, lost>>

ReleaseSlot(t) ==
  /\ pc[t] = "closing"
  /\ To(t, IF t \in Workers THEN "out" ELSE "closed")
  /\ slots' = slots + 1
  /\ UNCHANGED <<used, lost>>

(* Mutant: closing twice releases twice.                                   *)
Teardown_ClosesAgain(t) ==
  /\ pc[t] = "closed"
  /\ To(t, "out")
  /\ slots' = slots + 1
  /\ UNCHANGED <<used, lost>>

(* Teardown closes every connection of the request; _closed makes that     *)
(* nothing for those the handler has closed.                               *)
Teardown(t) ==
  /\ pc[t] = "closed"
  /\ To(t, "out")
  /\ UNCHANGED <<slots, used, lost>>

(* A claim fails on a broken connection: its rollback raises as well, and  *)
(* the close after it is never reached.                                    *)
LoseConn(t) ==
  /\ t \in Workers
  /\ pc[t] = "using"
  /\ To(t, "out")
  /\ lost' = lost + 1
  /\ UNCHANGED <<slots, used>>

-----------------------------------------------------------------------------
Init ==
  /\ pc = [t \in Threads |-> "out"]
  /\ slots = MaxConn
  /\ used = 0
  /\ lost = 0

ThreadNext(t) ==
  \/ Ask(t) \/ TakeSlot(t) \/ Busy(t) \/ GetConn(t) \/ ConnectFails(t) \/ SetupFails(t)
  \/ PutConn(t) \/ ReleaseSlot(t) \/ Teardown(t) \/ LoseConn(t)

Next == \E t \in Threads : ThreadNext(t)

Spec == Init /\ [][Next]_vars

-----------------------------------------------------------------------------
Holding  == {t \in Threads : pc[t] \in {"slot", "using", "closing"}}
Borrowed == {t \in Threads : pc[t] = "using"}

(* Types; the semaphore is bounded, so a release above MaxConn raises.     *)
TypeOK ==
  /\ pc \in [Threads -> {"out", "asking", "slot", "using", "closing", "closed"}]
  /\ slots \in 0..MaxConn
  /\ used \in 0..MaxConn
  /\ lost \in 0..MaxConn

(* Slots are neither lost nor invented: each is free, held by one thread,  *)
(* or gone with a dropped connection.                                      *)
SlotsAccounted == slots + Cardinality(Holding) + lost = MaxConn

(* Who has a slot gets a connection: psycopg2 never finds its pool         *)
(* exhausted, so a full pool is a wait and a 503, never an error.          *)
NeverExhausted == \A t \in Threads : pc[t] = "slot" => used < MaxConn

Promise == INSTANCE BoundedPool
  WITH asking <- {t \in Threads : pc[t] = "asking"}, holding <- Holding, free <- slots

(* The two-step pool keeps the promise of the one-step pool; in particular *)
(* a caller is turned away only when every connection is out.              *)
KeepsPromise == Promise!Spec

=============================================================================
