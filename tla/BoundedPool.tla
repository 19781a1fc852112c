---------------------------- MODULE BoundedPool -----------------------------
(***************************************************************************)
(* What the connection pool promises its callers: at most MaxConn of them  *)
(* hold a connection, a caller is turned away only when that many do, and  *)
(* a connection that is given back can be lent again at once.              *)
(***************************************************************************)
EXTENDS Integers

CONSTANTS Threads, MaxConn

VARIABLES
  asking,   \* callers that wait for a connection
  holding,  \* callers a connection is reserved for
  free      \* connections that can be lent

Init == asking = {} /\ holding = {} /\ free = MaxConn

Ask(t) ==
  /\ t \notin asking \cup holding
  /\ asking' = asking \cup {t}
  /\ UNCHANGED <<holding, free>>

Lend(t) ==
  /\ t \in asking /\ free > 0
  /\ asking' = asking \ {t}
  /\ holding' = holding \cup {t}
  /\ free' = free - 1

TurnAway(t) ==
  /\ t \in asking /\ free = 0
  /\ asking' = asking \ {t}
  /\ UNCHANGED <<holding, free>>

GiveBack(t) ==
  /\ t \in holding
  /\ holding' = holding \ {t}
  /\ free' = free + 1
  /\ UNCHANGED asking

(* A connection that is dropped is never lent again.                       *)
Lose(t) ==
  /\ t \in holding
  /\ holding' = holding \ {t}
  /\ UNCHANGED <<asking, free>>

Next == \E t \in Threads : Ask(t) \/ Lend(t) \/ TurnAway(t) \/ GiveBack(t) \/ Lose(t)

Spec == Init /\ [][Next]_<<asking, holding, free>>

=============================================================================
