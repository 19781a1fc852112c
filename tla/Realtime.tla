------------------------------ MODULE Realtime ------------------------------
(***************************************************************************)
(* The Socket.IO registry of one branch (realtime.py), the administrator's *)
(* device operations (admin.py) and the sockets of the branch's devices.   *)
(*                                                                         *)
(* Every event handler runs on a thread of its own, so a join may overlap  *)
(* the disconnection of the same socket or an administrator's request.     *)
(* What a handler does under _lock is one step.  A page emits join_branch  *)
(* once per connection, and a reconnection is another socket.              *)
(***************************************************************************)
CONSTANTS
  Devices,  \* device ids, kept by the browser
  Sockets,  \* sids
  Owner     \* the device behind each socket

ASSUME OwnerAssumption == Owner \in [Sockets -> Devices]

VARIABLES
  conn,      \* the connection of each socket
  join,      \* how far handle_join_branch is for each socket
  registry,  \* keys of _sid_to_conn; one branch, so also _branch_to_sids
  fresh,     \* registered sockets seen within the heartbeat timeout
  room,      \* members of branch_room
  doomed,    \* sockets some server thread is about to disconnect
  blocked,   \* rows of blocked_devices
  kicking    \* devices an administrator's request has yet to disconnect

vars == <<conn, join, registry, fresh, room, doomed, blocked, kicking>>

SocketsOf(d) == {s \in registry : Owner[s] = d}

(* What a socket leaves behind when the server sees it go.                 *)
Gone(S) ==
  /\ conn' = [s \in Sockets |-> IF s \in S THEN "dead" ELSE conn[s]]
  /\ registry' = registry \ S
  /\ fresh' = fresh \ S
  /\ room' = room \ S

-----------------------------------------------------------------------------
(* Joining.                                                                *)

Connect(s) ==
  /\ conn[s] = "new"
  /\ conn' = [conn EXCEPT ![s] = "live"]
  /\ UNCHANGED <<join, registry, fresh, room, doomed, blocked, kicking>>

(* _is_device_blocked reads the database before _lock is taken.            *)
AdmitJoin(s) ==
  /\ conn[s] = "live" /\ join[s] = "none"
  /\ Owner[s] \notin blocked
  /\ join' = [join EXCEPT ![s] = "admitted"]
  /\ UNCHANGED <<conn, registry, fresh, room, doomed, blocked, kicking>>

(* Mutant: the refused socket is told and left connected.                  *)
RefuseJoin_KeepsSocket(s) ==
  /\ conn[s] = "live" /\ join[s] = "none"
  /\ Owner[s] \in blocked
  /\ join' = [join EXCEPT ![s] = "refused"]
  /\ UNCHANGED <<conn, registry, fresh, room, doomed, blocked, kicking>>

RefuseJoin(s) ==
  /\ conn[s] = "live" /\ join[s] = "none"
  /\ Owner[s] \in blocked
  /\ join' = [join EXCEPT ![s] = "refused"]
  /\ doomed' = doomed \cup {s}
  /\ UNCHANGED <<conn, registry, fresh, room, blocked, kicking>>

(* The socket may be gone by now: nothing asks.                            *)
Register(s) ==
  /\ join[s] = "admitted"
  /\ join' = [join EXCEPT ![s] = "registered"]
  /\ registry' = registry \cup {s}
  /\ fresh' = fresh \cup {s}
  /\ UNCHANGED <<conn, room, doomed, blocked, kicking>>

(* join_room comes after _lock is released and fails on a socket that is   *)
(* gone.                                                                   *)
EnterRoom(s) ==
  /\ join[s] = "registered"
  /\ IF conn[s] = "live"
     THEN join' = [join EXCEPT ![s] = "joined"] /\ room' = room \cup {s}
     ELSE join' = [join EXCEPT ![s] = "failed"] /\ UNCHANGED room
  /\ UNCHANGED <<conn, registry, fresh, doomed, blocked, kicking>>

-----------------------------------------------------------------------------
(* Staying and leaving.                                                    *)

(* Mutant: a heartbeat of a socket that is not registered counts too.      *)
Heartbeat_Unknown(s) ==
  /\ conn[s] = "live" /\ join[s] = "joined"
  /\ fresh' = fresh \cup {s}
  /\ UNCHANGED <<conn, join, registry, room, doomed, blocked, kicking>>

(* A page sends heartbeats once joined_branch has reached it.              *)
Heartbeat(s) ==
  /\ conn[s] = "live" /\ join[s] = "joined"
  /\ s \in registry
  /\ fresh' = fresh \cup {s}
  /\ UNCHANGED <<conn, join, registry, room, doomed, blocked, kicking>>

(* Two minutes pass without a heartbeat of s: a hidden or a closed page.   *)
GoStale(s) ==
  /\ s \in fresh
  /\ fresh' = fresh \ {s}
  /\ UNCHANGED <<conn, join, registry, room, doomed, blocked, kicking>>

(* Mutant: stale sockets are disconnected but stay registered.             *)
Sweep_KeepsEntries ==
  /\ registry # fresh
  /\ doomed' = doomed \cup (registry \ fresh)
  /\ UNCHANGED <<conn, join, registry, fresh, room, blocked, kicking>>

(* Mutant: stale sockets leave the registry, nothing disconnects them.     *)
Sweep_OnlyForgets ==
  /\ registry # fresh
  /\ registry' = fresh
  /\ UNCHANGED <<conn, join, fresh, room, doomed, blocked, kicking>>

(* The cleanup worker takes stale sockets out of the registry under _lock  *)
(* and disconnects them after it.                                          *)
Sweep ==
  /\ registry # fresh
  /\ registry' = fresh
  /\ doomed' = doomed \cup (registry \ fresh)
  /\ UNCHANGED <<conn, join, fresh, room, blocked, kicking>>

(* server.disconnect runs handle_disconnect and leaves all rooms; it does  *)
(* nothing to a socket that is already gone.                               *)
ForceDisconnect(s) ==
  /\ s \in doomed
  /\ doomed' = doomed \ {s}
  /\ IF conn[s] = "live"
     THEN Gone({s})
     ELSE UNCHANGED <<conn, registry, fresh, room>>
  /\ UNCHANGED <<join, blocked, kicking>>

(* The client closes, or the transport fails: handle_disconnect.           *)
ClientGone(s) ==
  /\ conn[s] = "live"
  /\ Gone({s})
  /\ UNCHANGED <<join, doomed, blocked, kicking>>

-----------------------------------------------------------------------------
(* The administrator.                                                      *)

(* Mutant: the sockets are told to log out, nothing disconnects them.      *)
Kick_OnlyTells(S) ==
  /\ registry' = registry \ S
  /\ fresh' = fresh \ S
  /\ UNCHANGED <<room, doomed>>

(* Under _lock the sockets leave the room and the registry; force_logout   *)
(* and the disconnection follow after it.                                  *)
Kick(S) ==
  /\ registry' = registry \ S
  /\ fresh' = fresh \ S
  /\ room' = room \ S
  /\ doomed' = doomed \cup S

DisconnectDevice(d) ==
  /\ Kick(SocketsOf(d))
  /\ UNCHANGED <<conn, join, blocked, kicking>>

(* disconnect-all, and what follows a change of the branch's access.       *)
DisconnectBranch ==
  /\ Kick(registry)
  /\ UNCHANGED <<conn, join, blocked, kicking>>

(* Blocking commits the row first and disconnects the device after.        *)
BlockDevice(d) ==
  /\ blocked' = blocked \cup {d}
  /\ kicking' = kicking \cup {d}
  /\ UNCHANGED <<conn, join, registry, fresh, room, doomed>>

UnblockDevice(d) ==
  /\ blocked' = blocked \ {d}
  /\ UNCHANGED <<conn, join, registry, fresh, room, doomed, kicking>>

DeleteDevice(d) ==
  /\ blocked' = blocked \ {d}
  /\ kicking' = kicking \cup {d}
  /\ UNCHANGED <<conn, join, registry, fresh, room, doomed>>

(* delete_branch deletes its blocks; its sockets stay connected.  Whether  *)
(* the branch still exists is in Access.                                   *)
DeleteBranch ==
  /\ blocked' = {}
  /\ UNCHANGED <<conn, join, registry, fresh, room, doomed, kicking>>

CarryOut(d) ==
  /\ d \in kicking
  /\ Kick(SocketsOf(d))
  /\ kicking' = kicking \ {d}
  /\ UNCHANGED <<conn, join, blocked>>

(* The process restarts: everything but the database is lost.              *)
Restart ==
  /\ conn' = [s \in Sockets |-> IF conn[s] = "live" THEN "dead" ELSE conn[s]]
  /\ join' = [s \in Sockets |->
                IF join[s] \in {"admitted", "registered"} THEN "failed" ELSE join[s]]
  /\ registry' = {} /\ fresh' = {} /\ room' = {}
  /\ doomed' = {} /\ kicking' = {}
  /\ UNCHANGED blocked

-----------------------------------------------------------------------------
Init ==
  /\ conn = [s \in Sockets |-> "new"]
  /\ join = [s \in Sockets |-> "none"]
  /\ registry = {} /\ fresh = {} /\ room = {} /\ doomed = {}
  /\ blocked \in SUBSET Devices
  /\ kicking = {}

SocketNext(s) ==
  \/ Connect(s) \/ AdmitJoin(s) \/ RefuseJoin(s) \/ Register(s) \/ EnterRoom(s)
  \/ Heartbeat(s) \/ GoStale(s) \/ ForceDisconnect(s) \/ ClientGone(s)

AdminNext(d) ==
  \/ DisconnectDevice(d) \/ BlockDevice(d) \/ UnblockDevice(d) \/ DeleteDevice(d)
  \/ CarryOut(d)

Next ==
  \/ \E s \in Sockets : SocketNext(s)
  \/ \E d \in Devices : AdminNext(d)
  \/ Sweep \/ DisconnectBranch \/ DeleteBranch \/ Restart

Spec == Init /\ [][Next]_vars

-----------------------------------------------------------------------------
ConnState == {"new", "live", "dead"}
JoinState == {"none", "admitted", "refused", "registered", "joined", "failed"}

(* Types; only a registered socket has a last_seen.                        *)
TypeOK ==
  /\ conn \in [Sockets -> ConnState]
  /\ join \in [Sockets -> JoinState]
  /\ registry \subseteq Sockets
  /\ fresh \subseteq registry
  /\ room \subseteq Sockets
  /\ doomed \subseteq Sockets
  /\ blocked \subseteq Devices
  /\ kicking \subseteq Devices

(* Whatever overlaps its join, a socket that still receives the branch's   *)
(* events is on the administrator's device list or about to be cut.        *)
RoomCovered == room \subseteq registry \cup doomed

(* The server forgets no live socket it turns away: one it has refused, or *)
(* has taken out of the registry since it joined, is about to be cut.      *)
GivenUp(s) ==
  /\ conn[s] = "live"
  /\ join[s] = "refused" \/ (join[s] \in {"registered", "joined"} /\ s \notin registry)

GivenUpIsDoomed == \A s \in Sockets : GivenUp(s) => s \in doomed

-----------------------------------------------------------------------------
(* Server threads run on, and time passes for a socket that is gone.       *)
Fairness ==
  /\ \A s \in Sockets :
       /\ WF_vars(Register(s)) /\ WF_vars(EnterRoom(s))
       /\ WF_vars(ForceDisconnect(s))
       /\ WF_vars(conn[s] = "dead" /\ GoStale(s))
  /\ \A d \in Devices : WF_vars(CarryOut(d))
  /\ WF_vars(Sweep)

FairSpec == Spec /\ Fairness

(* A join that overlaps the end of its socket leaves an entry nobody owns; *)
(* the device list sheds it.                                               *)
GhostsLeave ==
  \A s \in Sockets : conn[s] = "dead" /\ s \in registry ~> s \notin registry

(* A socket the server has given up on (refused, kicked, or stale) does    *)
(* not stay connected, so its page logs out or reconnects.                 *)
GivenUpIsCut ==
  \A s \in Sockets : GivenUp(s) ~> conn[s] # "live"

(* What index.html tells a blocked device, that it "is blocked and cannot  *)
(* connect": once the block is carried out, its sockets do not stay.       *)
BlockTakesEffect ==
  \A s \in Sockets :
    /\ conn[s] = "live" /\ join[s] = "joined"
    /\ Owner[s] \in blocked \ kicking
    ~> conn[s] # "live" \/ Owner[s] \notin blocked \/ Owner[s] \in kicking

=============================================================================
