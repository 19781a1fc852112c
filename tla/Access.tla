------------------------------- MODULE Access -------------------------------
(***************************************************************************)
(* Who may work for a branch: the administrator's changes of the branch's  *)
(* access (admin.py), the branch session in the cookie (auth.py), the      *)
(* check before every request (auth_utils.py), what the page of each       *)
(* device shows, and its socket (index.html).                              *)
(*                                                                         *)
(* The sockets are those of Realtime, as the server sees them; the page    *)
(* may have given up a socket that the server still takes for live.  A     *)
(* change of access is one request: it commits and then disconnects the    *)
(* branch.  Pages that were open offline, which show kept locations and    *)
(* ask for nothing, are left out.                                          *)
(***************************************************************************)
EXTENDS Realtime

CONSTANT None

ASSUME AccessAssumption == None \notin Sockets

VARIABLES
  branch,    \* the branch's row
  session,   \* devices whose cookie names the branch
  page,      \* what each device shows
  answer,    \* the mode in the answer to its login or /me
  working,   \* devices with an admitted list operation on the server
  using,     \* the socket of each page
  holding,   \* devices whose page has a Socket.IO client it may connect
  told,      \* sockets with force_logout or blocked_device on its way
  cutting    \* some change of access has yet to disconnect the branch

pages == <<session, page, answer, using, holding>>
avars == <<vars, branch, pages, working, told, cutting>>

PageState == {"login", "full", "limited"}

LetsIn(b) == ~ b.gone /\ ~ b.blocked
Mode(b)   == IF b.limited THEN "limited" ELSE "full"

-----------------------------------------------------------------------------
(* Logging in and out.                                                     *)

(* The row is read when login answers; the cookie comes with the answer.   *)
Login(d) ==
  /\ page[d] = "login" /\ answer[d] = "none"
  /\ LetsIn(branch)
  /\ answer' = [answer EXCEPT ![d] = Mode(branch)]
  /\ UNCHANGED <<vars, branch, session, page, using, holding, working, told, cutting>>

(* Mutant: /me reads the row of a blocked branch like any other.           *)
Reload_Blocked(d) ==
  /\ page' = [page EXCEPT ![d] = "login"]
  /\ using' = [using EXCEPT ![d] = None]
  /\ holding' = holding \ {d}
  /\ session' \in {session, IF branch.gone THEN session \ {d} ELSE session}
  /\ answer' = [answer EXCEPT ![d] =
       IF d \in session /\ ~ branch.gone THEN Mode(branch) ELSE "none"]
  /\ UNCHANGED <<vars, branch, working, told, cutting>>

(* A page that is loaded asks /me, whose answer takes the session of a     *)
(* branch that is blocked or gone out of the cookie, if it arrives.        *)
Reload(d) ==
  /\ page' = [page EXCEPT ![d] = "login"]
  /\ using' = [using EXCEPT ![d] = None]
  /\ holding' = holding \ {d}
  /\ session' \in {session, IF LetsIn(branch) THEN session ELSE session \ {d}}
  /\ answer' = [answer EXCEPT ![d] =
       IF d \in session /\ LetsIn(branch) THEN Mode(branch) ELSE "none"]
  /\ UNCHANGED <<vars, branch, working, told, cutting>>

(* enterApp; a page with full access drops the socket it may have had and  *)
(* makes a new client.                                                     *)
Enter(d) ==
  /\ answer[d] # "none"
  /\ page' = [page EXCEPT ![d] = answer[d]]
  /\ session' = session \cup {d}
  /\ using' = [using EXCEPT ![d] = IF answer[d] = "full" THEN None ELSE @]
  /\ holding' = IF answer[d] = "full" THEN holding \cup {d} ELSE holding
  /\ answer' = [answer EXCEPT ![d] = "none"]
  /\ UNCHANGED <<vars, branch, working, told, cutting>>

(* The cookie may have come before the page was closed.                    *)
LoseAnswer(d) ==
  /\ answer[d] # "none"
  /\ answer' = [answer EXCEPT ![d] = "none"]
  /\ session' \in {session, session \cup {d}}
  /\ UNCHANGED <<vars, branch, page, using, holding, working, told, cutting>>

(* doLogout goes on when its request fails, and keeps the client and the   *)
(* branch's id.                                                            *)
LeaveApp(d) ==
  /\ page' = [page EXCEPT ![d] = "login"]
  /\ session' \in {session, session \ {d}}
  /\ using' = [using EXCEPT ![d] = None]
  /\ UNCHANGED <<vars, branch, answer, holding, working, cutting>>

Logout(d) ==
  /\ page[d] # "login"
  /\ LeaveApp(d)
  /\ UNCHANGED told

(* force_logout or blocked_device reaches the page, perhaps after the      *)
(* server has closed the socket.                                           *)
ForcedLogout(s) ==
  /\ s \in told /\ using[Owner[s]] = s
  /\ LeaveApp(Owner[s])
  /\ told' = told \ {s}

-----------------------------------------------------------------------------
(* Requests.  require_branch reads the row with a connection of its own,   *)
(* before the handler runs.                                                *)

(* Mutant: the check forgets what the branch is limited to.                *)
AdmitList_Limited(d) ==
  /\ page[d] = "full" /\ d \in session
  /\ ~ branch.gone
  /\ working' = working \cup {d}
  /\ UNCHANGED <<vars, branch, pages, told, cutting>>

AdmitList(d) ==
  /\ page[d] = "full" /\ d \in session
  /\ ~ branch.gone /\ ~ branch.limited
  /\ working' = working \cup {d}
  /\ UNCHANGED <<vars, branch, pages, told, cutting>>

FinishList(d) ==
  /\ d \in working
  /\ working' = working \ {d}
  /\ UNCHANGED <<vars, branch, pages, told, cutting>>

-----------------------------------------------------------------------------
(* The socket of a page.                                                   *)

(* initSocketIO, the client's own reconnection, the timer of 'disconnect', *)
(* and ensureRealtimeConnected whenever the page is looked at: they ask    *)
(* for the client only, not for what the page shows by now.                *)
OpenSocket(s) ==
  /\ Owner[s] \in holding /\ using[Owner[s]] = None
  /\ Connect(s)
  /\ using' = [using EXCEPT ![Owner[s]] = s]
  /\ UNCHANGED <<branch, session, page, answer, holding, working, told, cutting>>

(* The page sees its socket go, before or after the server does; a notice  *)
(* that is still under way is lost.                                        *)
LoseSocket(d) ==
  /\ using[d] # None
  /\ using' = [using EXCEPT ![d] = None]
  /\ UNCHANGED <<vars, branch, session, page, answer, holding, working, told, cutting>>

(* What the server does with a socket.                                     *)
Serve(s) ==
  /\ \/ AdmitJoin(s) \/ Register(s) \/ EnterRoom(s)
     \/ Heartbeat(s) \/ GoStale(s) \/ ClientGone(s)
  /\ UNCHANGED <<branch, pages, working, told, cutting>>

Refuse(s) ==
  /\ RefuseJoin(s)
  /\ told' = told \cup {s}
  /\ UNCHANGED <<branch, pages, working, cutting>>

Cut(s) ==
  /\ ForceDisconnect(s)
  /\ UNCHANGED <<branch, pages, working, told, cutting>>

SweepSockets ==
  /\ Sweep
  /\ UNCHANGED <<branch, pages, working, told, cutting>>

-----------------------------------------------------------------------------
(* The administrator.                                                      *)

Change(b) ==
  /\ ~ branch.gone
  /\ branch' = b
  /\ UNCHANGED <<pages, working, told>>

Block ==
  /\ Change([branch EXCEPT !.blocked = TRUE])
  /\ cutting' = TRUE
  /\ UNCHANGED vars

Unblock ==
  /\ Change([branch EXCEPT !.blocked = FALSE])
  /\ UNCHANGED <<vars, cutting>>

LimitToLocations ==
  /\ Change([branch EXCEPT !.limited = TRUE])
  /\ cutting' = TRUE
  /\ UNCHANGED vars

RestoreFullAccess ==
  /\ Change([branch EXCEPT !.limited = FALSE])
  /\ cutting' = TRUE
  /\ UNCHANGED vars

(* Foreign keys may refuse it, which changes nothing.                      *)
Delete ==
  /\ Change([branch EXCEPT !.gone = TRUE])
  /\ DeleteBranch
  /\ UNCHANGED cutting

(* Mutant: the request ends with the commit.                               *)
CutBranch_Forgotten ==
  /\ cutting
  /\ cutting' = FALSE
  /\ UNCHANGED <<vars, branch, pages, working, told>>

CutBranch ==
  /\ cutting
  /\ DisconnectBranch
  /\ told' = told \cup registry
  /\ cutting' = FALSE
  /\ UNCHANGED <<branch, pages, working>>

(* The request reads the row back; if it is gone, it answers 404.          *)
FindGone ==
  /\ cutting /\ branch.gone
  /\ cutting' = FALSE
  /\ UNCHANGED <<vars, branch, pages, working, told>>

(* Mutant: the sockets are told and stay connected.                        *)
DisconnectAll_OnlyTells ==
  /\ told' = told \cup registry
  /\ UNCHANGED <<vars, branch, pages, working, cutting>>

DisconnectAll ==
  /\ DisconnectBranch
  /\ told' = told \cup registry
  /\ UNCHANGED <<branch, pages, working, cutting>>

(* A block of a device references the branch.                              *)
ManageDevice(d) ==
  /\ \/ DisconnectDevice(d) \/ CarryOut(d)
     \/ ~ branch.gone /\ BlockDevice(d)
     \/ UnblockDevice(d) \/ DeleteDevice(d)
  /\ told' = told \cup (registry \ registry')
  /\ UNCHANGED <<branch, pages, working, cutting>>

RestartServer ==
  /\ Restart
  /\ working' = {} /\ cutting' = FALSE
  /\ UNCHANGED <<branch, pages, told>>

-----------------------------------------------------------------------------
(* The server starts; pages may be open from before, also logged out ones  *)
(* that still hold a client.                                               *)
AccessInit ==
  /\ Init
  /\ branch \in [gone : {FALSE}, blocked : BOOLEAN, limited : BOOLEAN]
  /\ session \in SUBSET Devices
  /\ page \in [Devices -> PageState]
  /\ \A d \in Devices : page[d] # "login" => d \in session
  /\ answer = [d \in Devices |-> "none"]
  /\ working = {}
  /\ using = [d \in Devices |-> None]
  /\ holding \in SUBSET Devices
  /\ \A d \in Devices : page[d] = "full" => d \in holding
  /\ told = {} /\ cutting = FALSE

PageNext(d) ==
  \/ Login(d) \/ Reload(d) \/ Enter(d) \/ LoseAnswer(d) \/ Logout(d)
  \/ AdmitList(d) \/ FinishList(d) \/ LoseSocket(d)

WireNext(s) ==
  \/ ForcedLogout(s) \/ OpenSocket(s)
  \/ Serve(s) \/ Refuse(s) \/ Cut(s)

BranchNext ==
  \/ Block \/ Unblock \/ LimitToLocations \/ RestoreFullAccess \/ Delete
  \/ CutBranch \/ FindGone \/ DisconnectAll

AccessNext ==
  \/ \E d \in Devices : PageNext(d) \/ ManageDevice(d)
  \/ \E s \in Sockets : WireNext(s)
  \/ BranchNext \/ SweepSockets \/ RestartServer

AccessSpec == AccessInit /\ [][AccessNext]_avars

-----------------------------------------------------------------------------
Status == [gone : BOOLEAN, blocked : BOOLEAN, limited : BOOLEAN]

(* Types; a page uses a socket of its own, and a socket whose page is told *)
(* to log out is cut, if it is not already.                                *)
AccessTypeOK ==
  /\ branch \in Status
  /\ session \subseteq Devices
  /\ page \in [Devices -> PageState]
  /\ answer \in [Devices -> {"none", "full", "limited"}]
  /\ working \subseteq Devices
  /\ using \in [Devices -> Sockets \cup {None}]
  /\ \A d \in Devices : using[d] # None => Owner[using[d]] = d
  /\ holding \subseteq Devices
  /\ told \subseteq Sockets
  /\ \A s \in told : conn[s] = "live" => s \in doomed
  /\ cutting \in BOOLEAN

-----------------------------------------------------------------------------
(* Requests, answers and server threads end, and time passes for a socket  *)
(* that is gone.                                                           *)
FairAccess ==
  /\ AccessSpec
  /\ WF_avars(CutBranch \/ FindGone)
  /\ WF_avars(SweepSockets)
  /\ \A d \in Devices :
       /\ WF_avars(Enter(d) \/ LoseAnswer(d))
       /\ WF_avars(FinishList(d))
       /\ WF_avars(CarryOut(d) /\ ManageDevice(d))
  /\ \A s \in Sockets :
       /\ WF_avars(Cut(s))
       /\ WF_avars((Register(s) \/ EnterRoom(s)) /\ Serve(s))
       /\ WF_avars(conn[s] = "dead" /\ GoStale(s) /\ Serve(s))

(* "All connected devices will be disconnected", admin.html says of a      *)
(* change of access: a socket that is registered when the change commits   *)
(* goes, whatever overlaps the request, unless the branch is deleted.      *)
ConnectedAreCut ==
  \A s \in Sockets :
    cutting /\ conn[s] = "live" /\ s \in registry ~> conn[s] = "dead" \/ branch.gone

(* Once a branch stays limited to locations, its list operations end for   *)
(* all devices, also for those that no force_logout has reached.           *)
LimitTakesHold == <>[]branch.limited => <>[](working = {})

(* The page shows, and has the server do, what the branch may.             *)
Follows(d) ==
  /\ page[d] # "login" => LetsIn(branch) /\ page[d] = Mode(branch)
  /\ d \in working => LetsIn(branch) /\ Mode(branch) = "full"

(* Once the branch's access no longer changes, a device whose page is      *)
(* loaded anew from time to time does only what the branch may, whatever   *)
(* answers and notices were under way or lost, and although requests are   *)
(* not checked for a block.  Nothing but a load tells a page that missed   *)
(* its notice.                                                             *)
PagesFollowAccess ==
  \A d \in Devices :
    WF_avars(Reload(d)) /\ <>[][FALSE]_branch => <>[]Follows(d)

=============================================================================
