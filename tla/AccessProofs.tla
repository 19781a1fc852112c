---------------------------- MODULE AccessProofs ----------------------------
(***************************************************************************)
(* Proofs about Access, for any devices and sockets.  Every step is one of *)
(* Realtime or leaves the registry alone, so what is proved of Realtime    *)
(* holds here.  AccessTypeOK is not inductive: that a page which is told   *)
(* to log out is cut would be lost if its socket were still to connect, so *)
(* the invariant adds that registered and told sockets have connected.     *)
(***************************************************************************)
EXTENDS Access, RealtimeProofs

Connected == \A s \in registry \cup told : conn[s] # "new"

AInv == IInv /\ AccessTypeOK /\ Connected

-----------------------------------------------------------------------------
LEMMA PageIsRealtime ==
  ASSUME NEW d \in Devices, PageNext(d)
  PROVE  UNCHANGED vars
<1> USE DEF LeaveApp
<1>1. CASE Login(d) \/ Reload(d) \/ Enter(d) \/ LoseAnswer(d) \/ Logout(d)
  BY <1>1 DEF Login, Reload, Enter, LoseAnswer, Logout
<1>2. CASE AdmitList(d) \/ FinishList(d) \/ LoseSocket(d)
  BY <1>2 DEF AdmitList, FinishList, LoseSocket
<1> QED
  BY <1>1, <1>2 DEF PageNext

LEMMA WireIsRealtime ==
  ASSUME NEW s \in Sockets, WireNext(s)
  PROVE  SocketNext(s) \/ UNCHANGED vars
  BY DEF WireNext, ForcedLogout, LeaveApp, OpenSocket, Serve, Refuse, Cut, SocketNext

LEMMA DeviceIsRealtime ==
  ASSUME NEW d \in Devices, ManageDevice(d)
  PROVE  AdminNext(d)
  BY DEF ManageDevice, AdminNext

LEMMA BranchIsRealtime ==
  ASSUME BranchNext
  PROVE  DisconnectBranch \/ DeleteBranch \/ UNCHANGED vars
  BY DEF BranchNext, Block, Unblock, LimitToLocations, RestoreFullAccess, Delete,
         CutBranch, FindGone, DisconnectAll

LEMMA StepIsRealtime == [AccessNext]_avars => [Next]_vars
<1> SUFFICES ASSUME [AccessNext]_avars PROVE [Next]_vars
  OBVIOUS
<1>1. CASE \E d \in Devices : PageNext(d) \/ ManageDevice(d)
  BY <1>1, PageIsRealtime, DeviceIsRealtime DEF Next
<1>2. CASE \E s \in Sockets : WireNext(s)
  BY <1>2, WireIsRealtime DEF Next
<1>3. CASE BranchNext
  BY <1>3, BranchIsRealtime DEF Next
<1>4. CASE SweepSockets \/ RestartServer
  BY <1>4 DEF SweepSockets, RestartServer, Next
<1>5. CASE UNCHANGED avars
  BY <1>5 DEF avars
<1> QED
  BY <1>1, <1>2, <1>3, <1>4, <1>5 DEF AccessNext

(* Whatever pages and changes of access do, the registry behaves as in     *)
(* Realtime.                                                               *)
THEOREM UsesRegistry == AccessSpec => Spec
<1>1. AccessInit => Init
  BY DEF AccessInit
<1> QED
  BY <1>1, StepIsRealtime, PTL DEF AccessSpec, Spec

(* So no socket receives the branch's events unlisted and for good.        *)
THEOREM AccessCoversRoom == AccessSpec => []RoomCovered
  BY UsesRegistry, RoomIsCovered, PTL

(* And no live socket is turned away and forgotten.                        *)
THEOREM AccessForgetsNone == AccessSpec => []GivenUpIsDoomed
  BY UsesRegistry, GivenUpSocketsAreDoomed, PTL

-----------------------------------------------------------------------------
(* A step that leaves the registry alone, and tells nobody new.            *)
LEMMA PageKeeps ==
  ASSUME AInv, NEW d \in Devices, PageNext(d)
  PROVE  AccessTypeOK' /\ Connected'
<1> USE DEF AInv, AccessTypeOK, Connected, PageState
<1>1. UNCHANGED vars
  BY PageIsRealtime
<1>2. CASE Login(d)
  BY <1>1, <1>2 DEF Login, Mode, vars
<1>3. CASE Reload(d)
  BY <1>1, <1>3 DEF Reload, Mode, vars
<1>4. CASE Enter(d)
  BY <1>1, <1>4 DEF Enter, vars
<1>5. CASE LoseAnswer(d)
  BY <1>1, <1>5 DEF LoseAnswer, vars
<1>6. CASE Logout(d)
  BY <1>1, <1>6 DEF Logout, LeaveApp, vars
<1>7. CASE AdmitList(d) \/ FinishList(d)
  BY <1>1, <1>7 DEF AdmitList, FinishList, pages, vars
<1>8. CASE LoseSocket(d)
  BY <1>1, <1>8 DEF LoseSocket, vars
<1> QED
  BY <1>2, <1>3, <1>4, <1>5, <1>6, <1>7, <1>8 DEF PageNext

(* Who registers has connected.                                            *)
LEMMA ServeKeeps ==
  ASSUME AInv, NEW s \in Sockets, Serve(s)
  PROVE  AccessTypeOK' /\ Connected'
<1> USE DEF AInv, IInv, TypeOK, NewUnjoined, AccessTypeOK, Connected, Serve, pages
<1>1. CASE AdmitJoin(s)
  BY <1>1 DEF AdmitJoin
<1>2. CASE Register(s)
  BY <1>2 DEF Register
<1>3. CASE EnterRoom(s)
  BY <1>3 DEF EnterRoom
<1>4. CASE Heartbeat(s)
  BY <1>4 DEF Heartbeat
<1>5. CASE GoStale(s)
  BY <1>5 DEF GoStale
<1>6. CASE ClientGone(s)
  BY <1>6 DEF ClientGone, Gone
<1> QED
  BY <1>1, <1>2, <1>3, <1>4, <1>5, <1>6

LEMMA WireKeeps ==
  ASSUME AInv, NEW s \in Sockets, WireNext(s)
  PROVE  AccessTypeOK' /\ Connected'
<1> USE DEF AInv, IInv, TypeOK, AccessTypeOK, Connected, pages, PageState
<1>1. Owner[s] \in Devices
  BY OwnerAssumption
<1>2. CASE ForcedLogout(s)
  BY <1>1, <1>2 DEF ForcedLogout, LeaveApp, vars
<1>3. CASE OpenSocket(s)
  BY <1>1, <1>3 DEF OpenSocket, Connect
<1>4. CASE Serve(s)
  BY <1>4, ServeKeeps
<1>5. CASE Refuse(s)
  BY <1>5 DEF Refuse, RefuseJoin
<1>6. CASE Cut(s)
  BY <1>6 DEF Cut, ForceDisconnect, Gone
<1> QED
  BY <1>2, <1>3, <1>4, <1>5, <1>6 DEF WireNext

(* Who is kicked was registered, is told, and is cut.                      *)
LEMMA DeviceKeeps ==
  ASSUME AInv, NEW d \in Devices, ManageDevice(d)
  PROVE  AccessTypeOK' /\ Connected'
<1> USE DEF AInv, IInv, TypeOK, AccessTypeOK, Connected, ManageDevice, pages
<1>1. CASE DisconnectDevice(d)
  BY <1>1 DEF DisconnectDevice, Kick, SocketsOf
<1>2. CASE CarryOut(d)
  BY <1>2 DEF CarryOut, Kick, SocketsOf
<1>3. CASE BlockDevice(d)
  BY <1>3 DEF BlockDevice
<1>4. CASE UnblockDevice(d)
  BY <1>4 DEF UnblockDevice
<1>5. CASE DeleteDevice(d)
  BY <1>5 DEF DeleteDevice
<1> QED
  BY <1>1, <1>2, <1>3, <1>4, <1>5

LEMMA BranchKeeps ==
  ASSUME AInv, BranchNext
  PROVE  AccessTypeOK' /\ Connected'
<1> USE DEF AInv, IInv, TypeOK, AccessTypeOK, Connected, pages, Status
<1>1. CASE Block \/ Unblock \/ LimitToLocations \/ RestoreFullAccess
  BY <1>1 DEF Block, Unblock, LimitToLocations, RestoreFullAccess, Change, vars
<1>2. CASE Delete
  BY <1>2 DEF Delete, DeleteBranch, Change
<1>3. CASE CutBranch
  BY <1>3 DEF CutBranch, DisconnectBranch, Kick
<1>4. CASE FindGone
  BY <1>4 DEF FindGone, vars
<1>5. CASE DisconnectAll
  BY <1>5 DEF DisconnectAll, DisconnectBranch, Kick
<1> QED
  BY <1>1, <1>2, <1>3, <1>4, <1>5 DEF BranchNext

LEMMA StepKeeps == AInv /\ [AccessNext]_avars => AInv'
<1> SUFFICES ASSUME AInv, [AccessNext]_avars PROVE AInv'
  OBVIOUS
<1>1. IInv'
  BY StepIsRealtime, NextInv DEF AInv
<1>2. AccessTypeOK' /\ Connected'
  <2>1. CASE \E d \in Devices : PageNext(d) \/ ManageDevice(d)
    BY <2>1, PageKeeps, DeviceKeeps
  <2>2. CASE \E s \in Sockets : WireNext(s)
    BY <2>2, WireKeeps
  <2>3. CASE BranchNext
    BY <2>3, BranchKeeps
  <2>4. CASE SweepSockets
    BY <2>4 DEF SweepSockets, Sweep, AInv, IInv, TypeOK, AccessTypeOK, Connected, pages
  <2>5. CASE RestartServer
    BY <2>5 DEF RestartServer, Restart, AInv, IInv, TypeOK, AccessTypeOK, Connected, pages
  <2>6. CASE UNCHANGED avars
    BY <2>6 DEF avars, vars, pages, AInv, AccessTypeOK, Connected
  <2> QED
    BY <2>1, <2>2, <2>3, <2>4, <2>5, <2>6 DEF AccessNext
<1> QED
  BY <1>1, <1>2 DEF AInv

(* The state of access keeps its types, a page uses only sockets of its    *)
(* device, and a live socket whose page is told to log out is about to be  *)
(* cut.                                                                    *)
THEOREM AccessTypeCorrect == AccessSpec => []AccessTypeOK
<1>1. AccessInit => AInv
  <2> SUFFICES ASSUME AccessInit PROVE AInv
    OBVIOUS
  <2>1. IInv
    BY InitInv DEF AccessInit
  <2>2. AccessTypeOK /\ Connected
    BY DEF AccessInit, Init, AccessTypeOK, Connected, Status, PageState
  <2> QED
    BY <2>1, <2>2 DEF AInv
<1>2. AInv => AccessTypeOK
  BY DEF AInv
<1> QED
  BY <1>1, <1>2, StepKeeps, PTL DEF AccessSpec

=============================================================================
