---------------------------- MODULE BranchLists ----------------------------
(***************************************************************************)
(* The working lists of one branch on PostgreSQL: the morning list         *)
(* (morning_sessions), the missing-floor list (missing_floor), the sales   *)
(* list (missing_warehouse) and the part of the catalog they read          *)
(* (barcodes).  Every query of these handlers carries branch_id, so one    *)
(* branch stands for all; what branches share is the catalog, which any    *)
(* step may change here.                                                   *)
(*                                                                         *)
(* A handler that takes the branch's advisory locks is one step, its       *)
(* commit.  The two transfers, which loop over rows while handlers that    *)
(* take no lock go on, and mark_missing, which takes no lock itself, are   *)
(* several steps.                                                          *)
(***************************************************************************)
EXTENDS Integers, FiniteSets

CONSTANTS
  Models,   \* (sku, color) pairs
  Sizes,    \* normalised size labels
  MaxTime,  \* bound: the clock stops here
  MaxId     \* bound: ids given to sales rows

ASSUME ConstantsAssumption ==
  /\ MaxTime \in Nat
  /\ MaxId \in Nat

VARIABLES
  now,       \* half days: even is 00:00-06:00, odd is 06:00-24:00
  catalog,   \* the sizes barcodes gives each model
  sessions,  \* rows of morning_sessions
  floor,     \* created_at of the active missing_floor row of each variant
  pending,   \* rows of missing_warehouse with status 'pending'
  nextId,    \* the identity sequence of missing_warehouse
  marking,   \* rows read by a mark_missing that has not committed
  tx         \* the transfer that holds both advisory locks

vars == <<now, catalog, sessions, floor, pending, nextId, marking, tx>>

Variants == Models \X Sizes
Absent   == -1

Session == [model : Models, at : Nat, all : SUBSET Sizes,
            found : SUBSET Sizes, approved : BOOLEAN]
Row     == [id : Nat, model : Models, size : Sizes, at : Nat]

Idle == [op |-> "idle", variants |-> {}, rows |-> {}, taken |-> {},
         sessions |-> {}, resolved |-> {}, inserted |-> {}, approved |-> {}]

(* utils.today() and the 06:00 start of the workday, in half days. *)
Day(t)          == t \div 2
WorkdayStart(t) == IF t % 2 = 1 THEN t ELSE t - 1

Variant(r) == <<r.model, r.size>>

-----------------------------------------------------------------------------
(* Helpers of missing_floor.py, on a set S of sessions and a floor F.      *)

Open(S)      == {s \in S : ~ s.approved}
OpenOf(S, m) == {s \in Open(S) : s.model = m}
Missing(s)   == s.all \ s.found

(* Mutant: an unknown model gets no sizes at all.                          *)
SessionSizes_CatalogOnly(cat, m, extras) == cat[m]

(* The catalog decides once it knows the model; until then the session     *)
(* keeps the sizes it has seen.                                            *)
SessionSizes(cat, m, extras) == IF cat[m] # {} THEN cat[m] ELSE extras

Normalized(cat, s) ==
  LET all == SessionSizes(cat, s.model, s.all \cup s.found)
  IN  [s EXCEPT !.all = all, !.found = s.found \cap all]

(* Mutant: finished cards are never cleared.                               *)
ResetDayIfEmpty_Never(S) == S

ResetDayIfEmpty(S) == IF Open(S) = {} THEN {} ELSE S

Resolve(F, V) == [v \in Variants |-> IF v \in V THEN Absent ELSE F[v]]
AddMissing(F, V) ==
  [v \in Variants |-> IF v \in V /\ F[v] = Absent THEN now ELSE F[v]]

(* Mutant: an approval adds the missing sizes and resolves nothing.        *)
ApprovedFloor_AddsOnly(F, s) == AddMissing(F, {s.model} \X Missing(s))

(* _approve_session_data: s replaces old and is approved.                  *)
ApproveRow(S, old, s) ==
  ResetDayIfEmpty((S \ {old}) \cup {[s EXCEPT !.approved = TRUE]})

ApprovedFloor(F, s) ==
  AddMissing(Resolve(F, {s.model} \X s.found), {s.model} \X Missing(s))

(* _upsert_session: the open row to write, or a fresh one.                 *)
Startable(S, m) == OpenOf(S, m) # {} \/ {s \in S : s.model = m} = {}

(* Mutant: only a card of today is looked up.                              *)
Target_Today(S, m) ==
  LET today == {s \in OpenOf(S, m) : Day(s.at) = Day(now)}
  IN  IF today = {}
      THEN [model |-> m, at |-> now, all |-> {}, found |-> {}, approved |-> FALSE]
      ELSE CHOOSE s \in today : TRUE

Target(S, m) ==
  IF OpenOf(S, m) = {}
  THEN [model |-> m, at |-> now, all |-> {}, found |-> {}, approved |-> FALSE]
  ELSE CHOOSE s \in OpenOf(S, m) : \A t \in OpenOf(S, m) : t.at <= s.at

(* Mutant: the scanned size replaces the found sizes.                      *)
Found_Overwrites(S, cat, m, x) ==
  LET old == Target(S, m)
  IN  [old EXCEPT !.all   = SessionSizes(cat, m, old.all \cup old.found \cup {x}),
                  !.found = {x}]

Found(S, cat, m, x) ==
  LET old == Target(S, m)
  IN  [old EXCEPT !.all   = SessionSizes(cat, m, old.all \cup old.found \cup {x}),
                  !.found = @ \cup {x}]

(* The sessions after _upsert_session and _auto_approve_completed_session. *)
UpsertSession(S, cat, m, x) ==
  LET old == Target(S, m)
      new == Found(S, cat, m, x)
  IN  IF ~ Startable(S, m) THEN S
      ELSE IF Missing(new) = {} THEN ApproveRow(S, old, new)
      ELSE (S \ {old}) \cup {new}

(* The card that the scan of (m, x) completes, if it completes one.        *)
Completed(S, cat, m, x) ==
  {s \in {Found(S, cat, m, x)} : Startable(S, m) /\ Missing(s) = {}}

(* The variants the scan of (m, x) takes off the missing-floor list.       *)
UpsertResolves(S, cat, m, x) ==
  LET new == Found(S, cat, m, x)
  IN  IF Startable(S, m) /\ Missing(new) = {}
      THEN {m} \X new.found
      ELSE {<<m, x>>}

(* resolve_barcode_catalog_entry: a full structured barcode is added to    *)
(* the catalog, a body without its prefix is not.                          *)
Learn(m, x, full) ==
  IF full THEN [catalog EXCEPT ![m] = @ \cup {x}] ELSE catalog

Unlocked == tx.op = "idle"

-----------------------------------------------------------------------------
(* Morning list: handlers under the morning advisory lock.                 *)

(* Mutant: the scan does not take the branch's lock.                       *)
Scan_NoLock(m, x, full) ==
  LET cat == Learn(m, x, full)
  IN  /\ catalog' = cat
      /\ floor' = Resolve(floor, UpsertResolves(sessions, cat, m, x))
      /\ sessions' = UpsertSession(sessions, cat, m, x)
      /\ UNCHANGED <<now, pending, nextId, marking, tx>>

Scan(m, x, full) ==
  LET cat == Learn(m, x, full)
  IN  /\ Unlocked
      /\ catalog' = cat
      /\ floor' = Resolve(floor, UpsertResolves(sessions, cat, m, x))
      /\ sessions' = UpsertSession(sessions, cat, m, x)
      /\ UNCHANGED <<now, pending, nextId, marking, tx>>

TickSize(s, x, tick, auto) ==
  LET found == IF tick THEN s.found \cup {x} ELSE s.found \ {x}
      new   == [s EXCEPT !.found = found,
                         !.all = SessionSizes(catalog, s.model, s.all \cup found)]
      base  == Resolve(floor, IF tick THEN {<<s.model, x>>} ELSE {})
  IN  /\ Unlocked
      /\ IF auto /\ Missing(new) = {}
         THEN /\ sessions' = ApproveRow(sessions, s, new)
              /\ floor' = ApprovedFloor(base, new)
         ELSE /\ sessions' = (sessions \ {s}) \cup {new}
              /\ floor' = base
      /\ UNCHANGED <<now, catalog, pending, nextId, marking, tx>>

ApproveSession(s) ==
  LET new == Normalized(catalog, s)
  IN  /\ Unlocked
      /\ sessions' = ApproveRow(sessions, s, new)
      /\ floor' = ApprovedFloor(floor, new)
      /\ UNCHANGED <<now, catalog, pending, nextId, marking, tx>>

(* Mutant: listing normalises and never approves.                          *)
GetSessions_NoApproval ==
  /\ Unlocked
  /\ sessions' = (sessions \ Open(sessions))
                   \cup {Normalized(catalog, s) : s \in Open(sessions)}
  /\ UNCHANGED <<now, catalog, floor, pending, nextId, marking, tx>>

(* Listing normalises every open row and approves those that are complete. *)
GetSessions ==
  LET normal == {Normalized(catalog, s) : s \in Open(sessions)}
      done   == {s \in normal : Missing(s) = {}}
      rows   == (sessions \ Open(sessions)) \cup (normal \ done)
                  \cup {[s EXCEPT !.approved = TRUE] : s \in done}
  IN  /\ Unlocked
      /\ sessions' = IF done = {} THEN rows ELSE ResetDayIfEmpty(rows)
      /\ floor' = Resolve(floor, UNION {{s.model} \X s.found : s \in done})
      /\ UNCHANGED <<now, catalog, pending, nextId, marking, tx>>

(* An insert that meets UNIQUE(branch_id, session_date, sku, color) fails. *)
AddManual(m, x) ==
  LET old == Target(sessions, m)
      new == [old EXCEPT !.all = SessionSizes(catalog, m, old.all \cup old.found \cup {x})]
  IN  /\ Unlocked
      /\ OpenOf(sessions, m) = {} =>
           \A s \in sessions : s.model = m => Day(s.at) # Day(now)
      /\ sessions' = (sessions \ {old}) \cup {new}
      /\ UNCHANGED <<now, catalog, floor, pending, nextId, marking, tx>>

ClearSessions ==
  /\ Unlocked
  /\ sessions' = {}
  /\ UNCHANGED <<now, catalog, floor, pending, nextId, marking, tx>>

-----------------------------------------------------------------------------
(* Missing-floor list: no lock but the row locks of a running transfer.    *)

ResolveFloor(v) ==
  /\ floor[v] # Absent
  /\ v \notin tx.resolved
  /\ floor' = Resolve(floor, {v})
  /\ UNCHANGED <<now, catalog, sessions, pending, nextId, marking, tx>>

ClearFloor ==
  /\ tx.resolved = {}
  /\ floor' = Resolve(floor, Variants)
  /\ UNCHANGED <<now, catalog, sessions, pending, nextId, marking, tx>>

AdminAddFloor(v) ==
  /\ floor[v] = Absent
  /\ floor' = AddMissing(floor, {v})
  /\ UNCHANGED <<now, catalog, sessions, pending, nextId, marking, tx>>

-----------------------------------------------------------------------------
(* Sales list.                                                             *)

(* Mutant: the timestamp comes from a clock that lags behind.              *)
NewRow_Lagging(m, x) == [id |-> nextId, model |-> m, size |-> x, at |-> now - 1]

NewRow(m, x) == [id |-> nextId, model |-> m, size |-> x, at |-> now]

ScanSold(m, x, full) ==
  LET fresh == {r \in pending : Day(r.at) >= Day(now)}
  IN  /\ Unlocked
      /\ catalog' = Learn(m, x, full)
      /\ IF \E r \in fresh : Variant(r) = <<m, x>>
         THEN pending' = fresh /\ UNCHANGED nextId
         ELSE /\ nextId < MaxId
              /\ pending' = fresh \cup {NewRow(m, x)}
              /\ nextId' = nextId + 1
      /\ UNCHANGED <<now, sessions, floor, marking, tx>>

AdminAddSale(m, x) ==
  /\ nextId < MaxId
  /\ \A r \in pending \cup tx.inserted : Variant(r) # <<m, x>>
  /\ pending' = pending \cup {NewRow(m, x)}
  /\ nextId' = nextId + 1
  /\ UNCHANGED <<now, catalog, sessions, floor, marking, tx>>

MarkRestocked(r) ==
  /\ pending' = pending \ {r}
  /\ UNCHANGED <<now, catalog, sessions, floor, nextId, marking, tx>>

ReadForMissing(r) ==
  /\ marking' = marking \cup {r}
  /\ UNCHANGED <<now, catalog, sessions, floor, pending, nextId, tx>>

(* The insert waits for a transfer that holds the floor row.               *)
MarkMissing(r) ==
  /\ Variant(r) \notin tx.resolved
  /\ floor' = AddMissing(floor, {Variant(r)})
  /\ pending' = pending \ {r}
  /\ marking' = marking \ {r}
  /\ UNCHANGED <<now, catalog, sessions, nextId, tx>>

(* _ensure_missing_floor_item finds no row after its insert did nothing,   *)
(* or the connection is lost: the request fails and leaves no trace.       *)
FailMarkMissing(r) ==
  /\ marking' = marking \ {r}
  /\ UNCHANGED <<now, catalog, sessions, floor, pending, nextId, tx>>

UndoLast(r) ==
  /\ Unlocked
  /\ \A q \in pending : q.at < r.at \/ (q.at = r.at /\ q.id <= r.id)
  /\ pending' = pending \ {r}
  /\ UNCHANGED <<now, catalog, sessions, floor, nextId, marking, tx>>

ClearAll ==
  /\ pending' = {}
  /\ UNCHANGED <<now, catalog, sessions, floor, nextId, marking, tx>>

-----------------------------------------------------------------------------
(* Transfer of the morning list to the sales list, under both locks.       *)

Moving(S) == {s \in Open(S) : s.found # {}}

BeginToSales ==
  /\ Unlocked
  /\ Moving(sessions) # {}
  /\ tx' = [Idle EXCEPT
              !.op = "to_sales",
              !.variants = UNION {{s.model} \X s.found : s \in Moving(sessions)},
              !.sessions = sessions \ Moving(sessions)]
  /\ UNCHANGED <<now, catalog, sessions, floor, pending, nextId, marking>>

MoveVariant(v) ==
  /\ tx.op = "to_sales"
  /\ IF \E r \in pending \cup tx.inserted : Variant(r) = v
     THEN /\ tx' = [tx EXCEPT !.variants = @ \ {v}]
          /\ UNCHANGED nextId
     ELSE /\ nextId < MaxId
          /\ tx' = [tx EXCEPT !.variants = @ \ {v},
                              !.inserted = @ \cup {NewRow(v[1], v[2])}]
          /\ nextId' = nextId + 1
  /\ UNCHANGED <<now, catalog, sessions, floor, pending, marking>>

CommitToSales ==
  /\ tx.op = "to_sales" /\ tx.variants = {}
  /\ sessions' = tx.sessions
  /\ pending' = pending \cup tx.inserted
  /\ tx' = Idle
  /\ UNCHANGED <<now, catalog, floor, nextId, marking>>

-----------------------------------------------------------------------------
(* Transfer of the sales list to the morning list, under both locks.       *)

BeginToMorning ==
  /\ Unlocked
  /\ pending # {}
  /\ tx' = [Idle EXCEPT !.op = "to_morning", !.rows = pending,
                        !.taken = pending, !.sessions = sessions]
  /\ UNCHANGED <<now, catalog, sessions, floor, pending, nextId, marking>>

MoveRow(r) ==
  LET resolves == UpsertResolves(tx.sessions, catalog, r.model, r.size)
  IN  /\ tx.op = "to_morning"
      /\ \A q \in tx.rows : r.at < q.at \/ (r.at = q.at /\ r.id <= q.id)
      /\ tx' = [tx EXCEPT
                  !.rows = @ \ {r},
                  !.sessions = UpsertSession(@, catalog, r.model, r.size),
                  !.resolved = @ \cup {v \in resolves : floor[v] # Absent},
                  !.approved = @ \cup Completed(tx.sessions, catalog, r.model, r.size)]
      /\ UNCHANGED <<now, catalog, sessions, floor, pending, nextId, marking>>

(* Mutant: the whole pending list is deleted, not the rows that were read. *)
CommitToMorning_ClearsPending ==
  /\ tx.op = "to_morning" /\ tx.rows = {}
  /\ sessions' = tx.sessions
  /\ floor' = Resolve(floor, tx.resolved)
  /\ pending' = {}
  /\ tx' = Idle
  /\ UNCHANGED <<now, catalog, nextId, marking>>

CommitToMorning ==
  /\ tx.op = "to_morning" /\ tx.rows = {}
  /\ sessions' = tx.sessions
  /\ floor' = Resolve(floor, tx.resolved)
  /\ pending' = pending \ tx.taken
  /\ tx' = Idle
  /\ UNCHANGED <<now, catalog, nextId, marking>>

(* Any error before the commit rolls the transfer back; ids are not reused.*)
AbortTransfer ==
  /\ tx.op # "idle"
  /\ tx' = Idle
  /\ UNCHANGED <<now, catalog, sessions, floor, pending, nextId, marking>>

-----------------------------------------------------------------------------
(* The daily cleanup, the catalog's other writers, and the clock.          *)

Cleanup ==
  LET start == WorkdayStart(now)
  IN  /\ Unlocked
      /\ floor' = Resolve(floor, {v \in Variants : floor[v] < start})
      /\ pending' = {r \in pending : r.at >= start}
      /\ sessions' = {s \in sessions : ~ s.approved \/ Day(s.at) >= Day(start)}
      /\ UNCHANGED <<now, catalog, nextId, marking, tx>>

AddBarcode(m, x) ==
  /\ catalog' = [catalog EXCEPT ![m] = @ \cup {x}]
  /\ UNCHANGED <<now, sessions, floor, pending, nextId, marking, tx>>

DeleteBarcode(m, x) ==
  /\ catalog' = [catalog EXCEPT ![m] = @ \ {x}]
  /\ UNCHANGED <<now, sessions, floor, pending, nextId, marking, tx>>

(* No transfer lasts past the next half day.                               *)
PassTime ==
  /\ Unlocked
  /\ now < MaxTime
  /\ now' = now + 1
  /\ UNCHANGED <<catalog, sessions, floor, pending, nextId, marking, tx>>

-----------------------------------------------------------------------------
Init ==
  /\ now = 0
  /\ catalog \in [Models -> SUBSET Sizes]
  /\ sessions = {}
  /\ floor = [v \in Variants |-> Absent]
  /\ pending = {}
  /\ nextId = 0
  /\ marking = {}
  /\ tx = Idle

MorningNext ==
  \/ \E m \in Models, x \in Sizes, full \in BOOLEAN : Scan(m, x, full)
  \/ \E s \in sessions, x \in Sizes, tick, auto \in BOOLEAN : TickSize(s, x, tick, auto)
  \/ \E s \in sessions : ApproveSession(s)
  \/ GetSessions
  \/ \E m \in Models, x \in Sizes : AddManual(m, x)
  \/ ClearSessions

FloorNext ==
  \/ \E v \in Variants : ResolveFloor(v)
  \/ ClearFloor
  \/ \E v \in Variants : AdminAddFloor(v)

SalesNext ==
  \/ \E m \in Models, x \in Sizes, full \in BOOLEAN : ScanSold(m, x, full)
  \/ \E m \in Models, x \in Sizes : AdminAddSale(m, x)
  \/ \E r \in pending : MarkRestocked(r)
  \/ \E r \in pending : ReadForMissing(r)
  \/ \E r \in marking : MarkMissing(r)
  \/ \E r \in marking : FailMarkMissing(r)
  \/ \E r \in pending : UndoLast(r)
  \/ ClearAll

TransferStep ==
  \/ \E v \in tx.variants : MoveVariant(v)
  \/ CommitToSales
  \/ \E r \in tx.rows : MoveRow(r)
  \/ CommitToMorning
  \/ AbortTransfer

TransferNext == BeginToSales \/ BeginToMorning \/ TransferStep

EnvironmentNext ==
  \/ Cleanup
  \/ \E m \in Models, x \in Sizes : AddBarcode(m, x) \/ DeleteBarcode(m, x)
  \/ PassTime

Next == EnvironmentNext \/ MorningNext \/ FloorNext \/ SalesNext \/ TransferNext

Spec == Init /\ [][Next]_vars

-----------------------------------------------------------------------------
(* Every variable has its type; a transfer holds rows only while it runs. *)
TxType == [op : {"idle", "to_sales", "to_morning"}, variants : SUBSET Variants,
           rows : SUBSET Row, taken : SUBSET Row, sessions : SUBSET Session,
           resolved : SUBSET Variants, inserted : SUBSET Row,
           approved : SUBSET Session]

TypeOK ==
  /\ now \in Nat
  /\ catalog \in [Models -> SUBSET Sizes]
  /\ sessions \subseteq Session
  /\ floor \in [Variants -> Nat \cup {Absent}]
  /\ pending \subseteq Row
  /\ nextId \in Nat
  /\ marking \subseteq Row
  /\ tx \in TxType

(* A model is never on two open cards: scans, manual entries and transfers *)
(* of different days all find the one open row, whatever its date.         *)
OneOpen(S) ==
  \A s, t \in S : s.model = t.model /\ ~ s.approved /\ ~ t.approved => s = t
OneOpenSession == OneOpen(sessions) /\ OneOpen(tx.sessions)

(* No row of the morning list has an empty size list: with one, "nothing   *)
(* is missing" would hold vacuously and a list request would approve it.   *)
HaveSizes(S) == \A s \in S : s.all # {}
SessionsHaveSizes == HaveSizes(sessions) /\ HaveSizes(tx.sessions)

(* Whichever handler closes a card (a scan, a tick, a list request, an     *)
(* approval, also one that comes when the card is closed already), a size  *)
(* found on it is then off the missing-floor list, and a size not found is *)
(* on it unless it is the one this request reported.                       *)
Closes(s) ==
  \/ ApproveSession(s)
  \/ ~ s.approved /\ OpenOf(sessions', s.model) = {} /\ Unlocked /\ ~ ClearSessions
ApprovalSettles ==
  [][\A s \in sessions :
       LET m    == s.model
           all  == SessionSizes(catalog', m, s.all)
           miss == all \ s.found
       IN  Closes(s) =>
             /\ \A x \in all \cap s.found : floor'[<<m, x>>] = Absent
             /\ \/ \A x \in miss : floor'[<<m, x>>] # Absent
                \/ ~ ApproveSession(s) /\ \E x \in Sizes : miss = {x}]_vars

(* Finished cards go when the last open card goes: only a transfer to the  *)
(* sales list can leave finished cards without any open one.               *)
DayDone(S) == S # {} /\ Open(S) = {}
DayStaysClear ==
  [][DayDone(sessions') => DayDone(sessions) \/ tx.op = "to_sales"]_vars

(* A size found on an open card stays found while the card is open,        *)
(* whatever writes the card: a handler in one step, or a transfer that     *)
(* replaces all cards by a copy it took many steps before.  Only an untick *)
(* takes a size off, and a list request those the catalog does not have.   *)
(* A card that the transfer has approved is closed; an open one of its     *)
(* model is then another card.                                             *)
FoundSizesKept ==
  [][\A s \in Open(sessions), t \in Open(sessions') :
       s.model = t.model =>
         \A x \in s.found \ t.found :
           \/ GetSessions /\ x \notin catalog[s.model]
           \/ \E auto \in BOOLEAN : TickSize(s, x, FALSE, auto)
           \/ CommitToMorning /\ \E a \in tx.approved : a.model = s.model]_vars

(* A running transfer is about to replace the cards by its copy, and to    *)
(* delete the sales rows it took.  A variant is carried if it is on the    *)
(* sales list, found on an open card, or still to be moved; it is done     *)
(* with when it is found on a card that the transfer has completed.        *)
Cards == IF Unlocked THEN sessions ELSE tx.sessions
Carried(m, x) ==
  \/ <<m, x>> \in tx.variants
  \/ \E r \in (pending \ tx.taken) \cup tx.rows \cup tx.inserted : Variant(r) = <<m, x>>
  \/ \E s \in OpenOf(Cards, m) : x \in s.found
DoneWith(m, x) == \E s \in tx.approved : s.model = m /\ x \in s.found

(* _upsert_session returns nothing: a card of the model is finished and    *)
(* none is open.  The row is deleted all the same: see SalesVariantsMove.  *)
Rejects(m, x) ==
  \E r \in tx.rows : MoveRow(r) /\ Variant(r) = <<m, x>> /\ ~ Startable(tx.sessions, m)

(* "Move scanned morning variants": whatever handlers without a lock do in *)
(* between, no step of a transfer drops a variant, except the one it       *)
(* scans for a model whose card was finished before.                       *)
TransferLosesNothing ==
  [][TransferNext /\ ~ AbortTransfer =>
       \A m \in Models, x \in Sizes :
         Carried(m, x) => Carried(m, x)' \/ DoneWith(m, x)' \/ Rejects(m, x)]_vars

-----------------------------------------------------------------------------
(* What the docstrings promise and the code does not keep.                 *)

(* "Clear completed sessions once the branch has no open morning work."    *)
NoFinishedLeftovers == ~ DayDone(sessions)

(* "Move scanned morning variants into the pending sales-pick list": what  *)
(* a transfer leaves pending is on the list that GET returns today.        *)
MovedVariantsListed ==
  [][CommitToSales =>
       \A v \in {Variant(r) : r \in pending'} :
         (\E s \in Moving(sessions) : v \in {s.model} \X s.found) =>
            \E r \in pending' : Variant(r) = v /\ Day(r.at) >= Day(now)]_vars

(* "Move every pending sales variant through the normal morning workflow": *)
(* what was on the sales list is then on a card, unless it has been added  *)
(* to the sales list once more.                                            *)
SalesVariantsMove ==
  [][CommitToMorning =>
       \A r \in tx.taken :
         \/ DoneWith(r.model, r.size)
         \/ \E s \in sessions' : s.model = r.model /\ r.size \in s.found
         \/ \E q \in pending' : Variant(q) = Variant(r)]_vars

(* "The current workday runs from RESET_HOUR to RESET_HOUR": a sales scan  *)
(* drops only rows of earlier workdays, and the cleanup leaves no finished *)
(* card of one.                                                            *)
ScanKeepsWorkday ==
  (\E m \in Models, x \in Sizes, full \in BOOLEAN : ScanSold(m, x, full)) =>
    \A r \in pending \ pending' : r.at < WorkdayStart(now)
CleanupEndsWorkday ==
  Cleanup => \A s \in sessions' : s.approved => s.at >= WorkdayStart(now)
WorkdayHolds == [][ScanKeepsWorkday /\ CleanupEndsWorkday]_vars

-----------------------------------------------------------------------------
(* A transfer is a loop over rows that commits or fails.  The list request *)
(* is an assumption on use: devices ask for the list on entry, on return   *)
(* to the foreground, on reconnection and after a transfer (no timer does) *)
(* and are assumed to go on doing so; a waiting advisory lock is granted   *)
(* in order, so the request is served even if transfers keep coming.       *)
FairSpec == Spec /\ WF_vars(TransferStep) /\ SF_vars(GetSessions)

(* A card that a catalog change made complete is closed by a list request, *)
(* unless it becomes incomplete again.                                     *)
Complete(m) ==
  \E s \in OpenOf(sessions, m) : Missing(Normalized(catalog, s)) = {}
CompleteCardCloses == \A m \in Models : Complete(m) ~> ~ Complete(m)

=============================================================================
