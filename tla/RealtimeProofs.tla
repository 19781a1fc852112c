--------------------------- MODULE RealtimeProofs ---------------------------
(***************************************************************************)
(* Proofs about Realtime, for any sockets and devices.  RoomCovered is not *)
(* inductive: a join that has registered is not in the room yet, and a     *)
(* kick may fall in between.  GivenUpIsDoomed covers the sockets that are  *)
(* about to enter the room, too, and is inductive but for that a socket    *)
(* that has yet to connect could be one that was refused.                  *)
(***************************************************************************)
EXTENDS Realtime, TLAPS

(* Only live sockets that have finished their join are in the room.        *)
RoomLive == \A s \in room : conn[s] = "live" /\ join[s] = "joined"

(* A join comes over a connection.                                         *)
NewUnjoined == \A s \in Sockets : conn[s] = "new" => join[s] = "none"

IInv == TypeOK /\ GivenUpIsDoomed /\ RoomLive /\ NewUnjoined

LEMMA InvCovers == IInv => RoomCovered
  BY DEF IInv, TypeOK, GivenUpIsDoomed, GivenUp, RoomLive, RoomCovered

LEMMA InitInv == Init => IInv
  BY DEF Init, IInv, TypeOK, GivenUpIsDoomed, GivenUp, RoomLive, NewUnjoined, ConnState, JoinState

(* A kick takes sockets out of the registry and dooms each of them.        *)
LEMMA KickInv ==
  ASSUME IInv, NEW S \in SUBSET registry, Kick(S), UNCHANGED <<conn, join>>,
         blocked' \subseteq Devices, kicking' \subseteq Devices
  PROVE  IInv'
  BY DEF IInv, TypeOK, GivenUpIsDoomed, GivenUp, RoomLive, NewUnjoined, Kick

(* The end of a connection, however the server learns of it.               *)
LEMMA GoneInv ==
  ASSUME IInv, NEW s \in Sockets, Gone({s}), doomed \ {s} \subseteq doomed',
         doomed' \subseteq doomed, UNCHANGED <<join, blocked, kicking>>
  PROVE  IInv'
<1>1. TypeOK'
  BY DEF IInv, TypeOK, Gone, ConnState
<1>2. GivenUpIsDoomed'
  BY DEF IInv, TypeOK, GivenUpIsDoomed, GivenUp, Gone
<1>3. RoomLive'
  BY DEF IInv, TypeOK, RoomLive, Gone
<1>4. NewUnjoined'
  BY DEF IInv, TypeOK, NewUnjoined, Gone
<1> QED
  BY <1>1, <1>2, <1>3, <1>4 DEF IInv

LEMMA SocketInv ==
  ASSUME IInv, NEW s \in Sockets, SocketNext(s)
  PROVE  IInv'
<1> USE DEF IInv, TypeOK, NewUnjoined, ConnState, JoinState
<1>1. CASE Connect(s)
  BY <1>1 DEF Connect, GivenUpIsDoomed, GivenUp, RoomLive
<1>2. CASE AdmitJoin(s)
  BY <1>2 DEF AdmitJoin, GivenUpIsDoomed, GivenUp, RoomLive
<1>3. CASE RefuseJoin(s)
  BY <1>3 DEF RefuseJoin, GivenUpIsDoomed, GivenUp, RoomLive
<1>4. CASE Register(s)
  BY <1>4 DEF Register, GivenUpIsDoomed, GivenUp, RoomLive
<1>5. CASE EnterRoom(s)
  <2>1. CASE conn[s] = "live"
    BY <1>5, <2>1 DEF EnterRoom, GivenUpIsDoomed, GivenUp, RoomLive
  <2>2. CASE conn[s] # "live"
    BY <1>5, <2>2 DEF EnterRoom, GivenUpIsDoomed, GivenUp, RoomLive
  <2> QED BY <2>1, <2>2
<1>6. CASE Heartbeat(s)
  BY <1>6 DEF Heartbeat, GivenUpIsDoomed, GivenUp, RoomLive
<1>7. CASE GoStale(s)
  BY <1>7 DEF GoStale, GivenUpIsDoomed, GivenUp, RoomLive
<1>8. CASE ForceDisconnect(s)
  <2>1. CASE conn[s] = "live"
    BY <1>8, <2>1, GoneInv DEF ForceDisconnect
  <2>2. CASE conn[s] # "live"
    BY <1>8, <2>2 DEF ForceDisconnect, GivenUpIsDoomed, GivenUp, RoomLive
  <2> QED BY <2>1, <2>2
<1>9. CASE ClientGone(s)
  BY <1>9, GoneInv DEF ClientGone
<1> QED
  BY <1>1, <1>2, <1>3, <1>4, <1>5, <1>6, <1>7, <1>8, <1>9 DEF SocketNext

LEMMA AdminInv ==
  ASSUME IInv, NEW d \in Devices, AdminNext(d)
  PROVE  IInv'
<1>1. SocketsOf(d) \subseteq registry
  BY DEF SocketsOf
<1>2. CASE DisconnectDevice(d)
  BY <1>1, <1>2, KickInv DEF DisconnectDevice, IInv, TypeOK
<1>3. CASE CarryOut(d)
  BY <1>1, <1>3, KickInv DEF CarryOut, IInv, TypeOK
<1>4. CASE BlockDevice(d)
  BY <1>4 DEF BlockDevice, IInv, TypeOK, GivenUpIsDoomed, GivenUp, RoomLive, NewUnjoined
<1>5. CASE UnblockDevice(d)
  BY <1>5 DEF UnblockDevice, IInv, TypeOK, GivenUpIsDoomed, GivenUp, RoomLive, NewUnjoined
<1>6. CASE DeleteDevice(d)
  BY <1>6 DEF DeleteDevice, IInv, TypeOK, GivenUpIsDoomed, GivenUp, RoomLive, NewUnjoined
<1> QED
  BY <1>2, <1>3, <1>4, <1>5, <1>6 DEF AdminNext

LEMMA NextInv == IInv /\ [Next]_vars => IInv'
<1> SUFFICES ASSUME IInv, [Next]_vars PROVE IInv'
  OBVIOUS
<1>1. CASE \E s \in Sockets : SocketNext(s)
  BY <1>1, SocketInv
<1>2. CASE \E d \in Devices : AdminNext(d)
  BY <1>2, AdminInv
<1>3. CASE Sweep
  BY <1>3 DEF Sweep, IInv, TypeOK, GivenUpIsDoomed, GivenUp, RoomLive, NewUnjoined
<1>4. CASE DisconnectBranch
  BY <1>4, KickInv DEF DisconnectBranch, IInv, TypeOK
<1>5. CASE Restart
  <2>1. TypeOK'
    BY <1>5 DEF Restart, IInv, TypeOK, ConnState, JoinState
  <2>2. GivenUpIsDoomed' /\ RoomLive' /\ NewUnjoined'
    BY <1>5 DEF Restart, IInv, TypeOK, ConnState, JoinState, GivenUpIsDoomed, GivenUp, RoomLive, NewUnjoined
  <2> QED BY <2>1, <2>2 DEF IInv
<1>6. CASE DeleteBranch
  BY <1>6 DEF DeleteBranch, IInv, TypeOK, GivenUpIsDoomed, GivenUp, RoomLive, NewUnjoined
<1>7. CASE UNCHANGED vars
  BY <1>7 DEF vars, IInv, TypeOK, GivenUpIsDoomed, GivenUp, RoomLive, NewUnjoined
<1> QED
  BY <1>1, <1>2, <1>3, <1>4, <1>5, <1>6, <1>7 DEF Next

THEOREM Inductive == Spec => []IInv
  BY InitInv, NextInv, PTL DEF Spec

(* The variables of the registry keep their types, whatever overlaps.      *)
THEOREM TypeCorrect == Spec => []TypeOK
<1>1. IInv => TypeOK
  BY DEF IInv
<1> QED
  BY <1>1, Inductive, PTL

(* No socket receives the branch's events unlisted and for good.           *)
THEOREM RoomIsCovered == Spec => []RoomCovered
  BY InvCovers, Inductive, PTL

(* The server forgets no live socket it turns away, whatever overlaps.     *)
THEOREM GivenUpSocketsAreDoomed == Spec => []GivenUpIsDoomed
<1>1. IInv => GivenUpIsDoomed
  BY DEF IInv
<1> QED
  BY <1>1, Inductive, PTL

=============================================================================
