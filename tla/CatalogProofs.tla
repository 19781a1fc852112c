--------------------------- MODULE CatalogProofs ---------------------------
(* Proofs about Catalog: every variable keeps its type, and a job a worker *)
(* is on stays out of the queue, for any products, EANs, variants and      *)
(* bounds.                                                                 *)
EXTENDS Catalog, TLAPS

USE CatalogAssumption

(* A worker that is not free is on a product; without it, what the worker  *)
(* fetches need not have a type.                                           *)
Occupied == \A w \in Threads : ~ Doing(w, "free") => task[w].product \in Products

IInv == TypeOK /\ Occupied /\ OneClaim

-----------------------------------------------------------------------------
(* Lemmas about the operators on the catalog and on the image queue.       *)

(* What the site says of a product keeps the types of the catalog.         *)
LEMMA ReconcileType ==
  ASSUME TypeOK, NEW p \in Products, NEW e \in Entry, Reconcile(p, e)
  PROVE  /\ barcodes' \in [Codes -> Variants \cup {None}]
         /\ alias' \in [Eans -> Products \cup {None}]
<1>1. WithAlias(p, e) \in [Eans -> Products \cup {None}]
  BY DEF TypeOK, WithAlias, Entry
<1>2. WithVariant(p, e) \in [Codes -> Variants \cup {None}]
  BY DEF TypeOK, WithVariant, Entry, Codes
<1>3. Unshadowed(WithVariant(p, e), WithAlias(p, e)) \in [Codes -> Variants \cup {None}]
  BY <1>2 DEF Unshadowed
<1> QED  BY <1>1, <1>3 DEF Reconcile

(* Queueing a model leaves the status of a job that is worked on alone.    *)
LEMMA QueueingKeepsClaims ==
  ASSUME TypeOK, NEW p \in Products
  PROVE  /\ Queued(p) \in [Products -> ImageStatus]
         /\ Requeued(p) \in [Products -> ImageStatus]
         /\ \A q \in Products : images[q] = "syncing" =>
              Queued(p)[q] = "syncing" /\ Requeued(p)[q] = "syncing"
BY DEF TypeOK, Queued, Requeued, ImageStatus, JobStatus

(* A process that starts queues only known models.                         *)
LEMMA StartType ==
  ASSUME NEW I \in [Products -> ImageStatus]
  PROVE  ImagesAtStart(I) \in [Products -> ImageStatus]
BY DEF ImagesAtStart, ImageStatus, JobStatus

-----------------------------------------------------------------------------
LEMMA InitInv == Init => IInv
<1> SUFFICES ASSUME Init PROVE IInv
  OBVIOUS
<1>1. TypeOK
  <2>1. [p \in Products |-> "none"] \in [Products -> ImageStatus]
    BY DEF ImageStatus, JobStatus
  <2>2. images \in [Products -> ImageStatus]
    BY <2>1, StartType DEF Init
  <2>3. task \in [Threads -> Task]
    BY DEF Init, Free, Task, Retired, Entry
  <2> QED  BY <2>2, <2>3 DEF Init, TypeOK, JobStatus
<1>2. Occupied /\ OneClaim
  BY DEF Init, Occupied, OneClaim, Doing, Free, Threads
<1> QED  BY <1>1, <1>2 DEF IInv

(* What both workers do: fetch the product they are on, or give up.        *)
LEMMA FetchKeepsInv ==
  ASSUME IInv, NEW w \in Threads, Fetch(w)
  PROVE  IInv'
<1>1. site[task[w].product] \in Entry
  BY DEF IInv, TypeOK, Occupied, Fetch, Doing, SiteEntry
<1>2. TypeOK'
  BY <1>1 DEF IInv, TypeOK, Fetch, Task
<1>3. Occupied' /\ OneClaim'
  BY DEF IInv, TypeOK, Fetch, Task, Occupied, OneClaim, Doing, Threads
<1> QED  BY <1>2, <1>3 DEF IInv

LEMMA BreakKeepsInv ==
  ASSUME IInv, NEW w \in Threads, Break(w)
  PROVE  IInv'
<1>1. TypeOK'
  BY DEF IInv, TypeOK, Break, Quit, Free, Task, Retired, Entry
<1>2. Occupied' /\ OneClaim'
  BY DEF IInv, TypeOK, Break, Quit, Free, Occupied, OneClaim, Doing, Threads
<1> QED  BY <1>1, <1>2 DEF IInv

(* The feed.                                                               *)
LEMMA FeedKeepsInv == IInv /\ FeedNext => IInv'
<1> SUFFICES ASSUME IInv, FeedNext PROVE IInv'
  OBVIOUS
<1> USE DEF IInv
<1>1. CASE \E p \in Products, named \in BOOLEAN : FetchPage(p, named)
  <2> PICK p \in Products, named \in BOOLEAN : FetchPage(p, named)
    BY <1>1
  <2>1. TypeOK'
    BY DEF FetchPage, TypeOK, Task, Entry, SiteEntry, Threads
  <2>2. Occupied' /\ OneClaim'
    BY DEF FetchPage, Occupied, OneClaim, TypeOK, Doing, Threads
  <2> QED  BY <2>1, <2>2
<1>2. CASE \E p \in Products : ImportPage(p)
  <2> PICK p \in Products : ImportPage(p)
    BY <1>2
  <2>1. task["feed"].entry \in Entry
    BY DEF TypeOK, Task, Threads
  <2>2. /\ barcodes' \in [Codes -> Variants \cup {None}]
        /\ alias' \in [Eans -> Products \cup {None}]
    BY <2>1, ReconcileType DEF ImportPage
  <2>3. jobs' \in [Products -> JobStatus] /\ images' \in [Products -> ImageStatus]
    BY QueueingKeepsClaims DEF ImportPage, TypeOK, JobStatus
  <2>4. task' \in [Threads -> Task]
    BY DEF ImportPage, TypeOK, Quit, Free, Task, Retired, Entry
  <2>5. TypeOK'
    BY <2>2, <2>3, <2>4 DEF ImportPage, TypeOK
  <2>6. Occupied'
    BY DEF ImportPage, Occupied, TypeOK, Quit, Doing, Free, Threads
  <2>7. OneClaim'
    BY QueueingKeepsClaims
    DEF ImportPage, OneClaim, Occupied, TypeOK, Quit, Doing, Free, Threads
  <2> QED  BY <2>5, <2>6, <2>7
<1>3. CASE FailPage
  <2>1. TypeOK'
    BY <1>3 DEF FailPage, TypeOK, Quit, Free, Task, Retired, Entry
  <2>2. Occupied' /\ OneClaim'
    BY <1>3 DEF FailPage, Occupied, OneClaim, TypeOK, Quit, Doing, Free, Threads
  <2> QED  BY <2>1, <2>2
<1> QED  BY <1>1, <1>2, <1>3 DEF FeedNext

(* The EAN worker.                                                         *)
LEMMA EanKeepsInv == IInv /\ EanNext => IInv'
<1> SUFFICES ASSUME IInv, EanNext PROVE IInv'
  OBVIOUS
<1> USE DEF IInv
<1>1. CASE \E p \in Products : ClaimEan(p)
  <2> PICK p \in Products : ClaimEan(p)
    BY <1>1
  <2>1. jobs' \in [Products -> JobStatus] /\ attempts' \in [Products -> 0..MaxAttempts]
    BY DEF ClaimEan, TypeOK, JobStatus
  <2>2. task' \in [Threads -> Task]
    BY DEF ClaimEan, TypeOK, Free, Task, Retired, Entry
  <2>3. TypeOK'
    BY <2>1, <2>2 DEF ClaimEan, TypeOK
  <2>4. Occupied' /\ OneClaim'
    BY DEF ClaimEan, Occupied, OneClaim, TypeOK, Doing, Free, Threads
  <2> QED  BY <2>3, <2>4
<1>2. CASE Fetch("ean")
  BY <1>2, FetchKeepsInv DEF Threads
<1>3. CASE \E from \in {"claimed", "written", "read"}, entries \in SUBSET Entry,
              status \in {"pending", "not_found", "synced"} :
             FinishEan(from, entries, status)
  <2> PICK from \in {"claimed", "written", "read"}, entries \in SUBSET Entry,
           status \in {"pending", "not_found", "synced"} :
             FinishEan(from, entries, status)
    BY <1>3
  <2>1. jobs' \in [Products -> JobStatus]
    BY DEF FinishEan, TypeOK, JobStatus
  <2>2. TypeOK'
    BY <2>1 DEF FinishEan, TypeOK, Quit, Free, Task, Retired, Entry
  <2>3. Occupied' /\ OneClaim'
    BY DEF FinishEan, Occupied, OneClaim, TypeOK, Quit, Doing, Free, Threads
  <2> QED  BY <2>2, <2>3
<1>4. CASE ReconcileEan
  <2> DEFINE p == task["ean"].product
  <2>1. p \in Products /\ task["ean"].entry \in Entry
    BY <1>4 DEF ReconcileEan, Occupied, TypeOK, Task, Threads, Doing
  <2>2. /\ barcodes' \in [Codes -> Variants \cup {None}]
        /\ alias' \in [Eans -> Products \cup {None}]
    BY <1>4, <2>1, ReconcileType DEF ReconcileEan
  <2>3. images' \in [Products -> ImageStatus]
    BY <1>4, <2>1, QueueingKeepsClaims DEF ReconcileEan
  <2>4. task' \in [Threads -> Task]
    BY <1>4 DEF ReconcileEan, TypeOK, Task
  <2>5. TypeOK'
    BY <1>4, <2>2, <2>3, <2>4 DEF ReconcileEan, TypeOK
  <2>6. Occupied'
    BY <1>4 DEF ReconcileEan, Occupied, TypeOK, Task, Doing, Threads
  <2>7. OneClaim'
    BY <1>4, <2>1, QueueingKeepsClaims
    DEF ReconcileEan, OneClaim, Occupied, TypeOK, Task, Doing, Threads
  <2> QED  BY <2>5, <2>6, <2>7
<1>5. CASE Break("ean")
  BY <1>5, BreakKeepsInv DEF Threads
<1>6. CASE RetryEan \/ NotFoundEan \/ SyncedEan
  <2>1. {Retired} \subseteq Entry
    BY DEF Retired, Entry
  <2> QED  BY <1>3, <1>6, <2>1 DEF RetryEan, NotFoundEan, SyncedEan
<1> QED
  BY <1>1, <1>2, <1>4, <1>5, <1>6 DEF EanNext

(* The image worker.                                                       *)
LEMMA ImageKeepsInv == IInv /\ ImageNext => IInv'
<1> SUFFICES ASSUME IInv, ImageNext PROVE IInv'
  OBVIOUS
<1> USE DEF IInv
<1>1. CASE \E p \in Products : ClaimImage(p)
  <2> PICK p \in Products : ClaimImage(p)
    BY <1>1
  <2>1. TypeOK'
    BY DEF ClaimImage, TypeOK, ImageStatus, JobStatus, Free, Task, Retired, Entry
  <2>2. Occupied' /\ OneClaim'
    BY DEF ClaimImage, Occupied, OneClaim, TypeOK, Doing, Free, Threads
  <2> QED  BY <2>1, <2>2
<1>2. CASE Fetch("image")
  BY <1>2, FetchKeepsInv DEF Threads
<1>3. CASE \E from \in {"claimed", "read"}, status \in {"pending", "not_found"} :
             FailImage(from, status)
  <2> PICK from \in {"claimed", "read"}, status \in {"pending", "not_found"} :
             FailImage(from, status)
    BY <1>3
  <2>1. images' \in [Products -> ImageStatus]
    BY DEF FailImage, TypeOK, ImageStatus, JobStatus
  <2>2. TypeOK'
    BY <2>1 DEF FailImage, TypeOK, Quit, Free, Task, Retired, Entry
  <2>3. Occupied' /\ OneClaim'
    BY DEF FailImage, Occupied, OneClaim, TypeOK, Quit, Doing, Free, Threads
  <2> QED  BY <2>2, <2>3
<1>4. CASE SyncImage
  <2> DEFINE p == task["image"].product
  <2>1. p \in Products /\ task["image"].entry \in Entry
    BY <1>4 DEF SyncImage, Occupied, TypeOK, Task, Threads, Doing
  <2>2. /\ barcodes' \in [Codes -> Variants \cup {None}]
        /\ alias' \in [Eans -> Products \cup {None}]
    BY <1>4, <2>1, ReconcileType DEF SyncImage
  <2>3. images' \in [Products -> ImageStatus]
    BY <1>4 DEF SyncImage, TypeOK, ImageStatus, JobStatus
  <2>4. TypeOK'
    BY <1>4, <2>2, <2>3 DEF SyncImage, TypeOK, Quit, Free, Task, Retired, Entry
  <2>5. Occupied' /\ OneClaim'
    BY <1>4 DEF SyncImage, Occupied, OneClaim, TypeOK, Quit, Doing, Free, Threads
  <2> QED  BY <2>4, <2>5
<1>5. CASE Break("image")
  BY <1>5, BreakKeepsInv DEF Threads
<1> QED
  BY <1>1, <1>2, <1>3, <1>4, <1>5 DEF ImageNext, RetryImage, NotFoundImage

(* People, the site, and a new process.                                    *)
LEMMA EditKeepsInv == IInv /\ EditNext => IInv'
<1> SUFFICES ASSUME IInv, EditNext PROVE IInv'
  OBVIOUS
<1> USE DEF IInv
<1>1. CASE \E c \in Codes, v \in Variants, p \in Products : AddBarcode(c, v, p)
  <2> PICK c \in Codes, v \in Variants, p \in Products : AddBarcode(c, v, p)
    BY <1>1
  <2>1. TypeOK'
    BY QueueingKeepsClaims DEF AddBarcode, Edit, TypeOK
  <2>2. Occupied' /\ OneClaim'
    BY QueueingKeepsClaims DEF AddBarcode, Occupied, OneClaim, Doing, Threads
  <2> QED  BY <2>1, <2>2
<1>2. CASE \E c \in Codes : DeleteBarcode(c)
  BY <1>2 DEF DeleteBarcode, Edit, TypeOK, Occupied, OneClaim, Doing
<1>3. CASE \E p \in Products, v \in Variants : Learn(p, v)
  <2> PICK p \in Products, v \in Variants : Learn(p, v)
    BY <1>3
  <2>1. TypeOK'
    BY QueueingKeepsClaims DEF Learn, TypeOK
  <2>2. Occupied' /\ OneClaim'
    BY QueueingKeepsClaims DEF Learn, Occupied, OneClaim, Doing, Threads
  <2> QED  BY <2>1, <2>2
<1>4. CASE \E p \in Products, e \in SiteEntry : SiteChanges(p, e)
  BY <1>4 DEF SiteChanges, Edit, TypeOK, Occupied, OneClaim, Doing
<1>5. CASE \E p \in Products : LocateModel(p)
  <2> PICK p \in Products : LocateModel(p)
    BY <1>5
  <2>1. TypeOK'
    BY QueueingKeepsClaims DEF LocateModel, TypeOK
  <2>2. Occupied' /\ OneClaim'
    BY QueueingKeepsClaims DEF LocateModel, Occupied, OneClaim, Doing, Threads
  <2> QED  BY <2>1, <2>2
<1> QED  BY <1>1, <1>2, <1>3, <1>4, <1>5 DEF EditNext

LEMMA RestartKeepsInv == IInv /\ Restart => IInv'
<1> SUFFICES ASSUME IInv, Restart PROVE IInv'
  OBVIOUS
<1>1. images' \in [Products -> ImageStatus]
  BY StartType DEF IInv, TypeOK, Restart
<1>2. jobs' \in [Products -> JobStatus]
  BY DEF IInv, TypeOK, Restart, JobStatus
<1>3. task' \in [Threads -> Task]
  BY DEF Restart, Free, Task, Retired, Entry
<1>4. TypeOK'
  BY <1>1, <1>2, <1>3 DEF IInv, TypeOK, Restart
<1>5. Occupied' /\ OneClaim'
  BY DEF Restart, Occupied, OneClaim, Doing, Free, Threads
<1> QED  BY <1>4, <1>5 DEF IInv

LEMMA NextKeepsInv == IInv /\ [Next]_vars => IInv'
<1> SUFFICES ASSUME IInv, [Next]_vars PROVE IInv'
  OBVIOUS
<1>1. CASE UNCHANGED vars
  BY <1>1 DEF vars, IInv, TypeOK, Occupied, OneClaim, Doing
<1> QED
  BY <1>1, FeedKeepsInv, EanKeepsInv, ImageKeepsInv, EditKeepsInv, RestartKeepsInv
  DEF Next

-----------------------------------------------------------------------------
(* Every variable keeps its type, and no product is asked for more often   *)
(* than EAN_MAX_ATTEMPTS, in every behaviour.                              *)
THEOREM TypeCorrect == Spec => []TypeOK
<1>1. IInv => TypeOK
  BY DEF IInv
<1> QED  BY <1>1, InitInv, NextKeepsInv, PTL DEF Spec

(* The job a worker is on is 'syncing', so no claim offers it again.       *)
THEOREM ClaimsAreExclusive == Spec => []OneClaim
<1>1. IInv => OneClaim
  BY DEF IInv
<1> QED  BY <1>1, InitInv, NextKeepsInv, PTL DEF Spec

-----------------------------------------------------------------------------
(* SyncedIsFound.  It is not inductive: between ReconcileEan and SyncedEan *)
(* the rows are there and the status is not, and every thread writes what  *)
(* it has read.  So while nobody edits, a thread has read what the site    *)
(* still says, and a product is found from the reconciliation on.          *)

ReadNow(w) ==
  task[w].stage \in {"read", "written"} =>
    /\ task[w].product \in Products
    /\ task[w].entry.variant = site[task[w].product].variant
    /\ task[w].entry.ean \in {None, site[task[w].product].ean}
    /\ w = "ean" => task[w].entry = site[task[w].product]

Alone(p) ==
  site[p].ean # None /\ \A q \in Products \ {p} : site[q].ean # site[p].ean

Settled(p) ==
  jobs[p] = "synced" \/ (Doing("ean", "written") /\ task["ean"].product = p)

FoundByEan(p) ==
  /\ alias[site[p].ean] = p
  /\ barcodes[site[p].ean] = None
  /\ barcodes[p] = site[p].variant

Unedited ==
  /\ \A w \in Threads : ReadNow(w)
  /\ \A p \in Products : Alone(p) /\ Settled(p) => FoundByEan(p)

EInv == IInv /\ (edits = 0 => Unedited)

LEMMA AloneHasVariant ==
  ASSUME TypeOK, NEW p \in Products, Alone(p)
  PROVE  site[p].ean \in Eans /\ site[p].variant # None
BY DEF TypeOK, Alone, SiteEntry, Entry

(* A reconciliation with what the site says loses no product ...           *)
LEMMA ReconcileKeeps ==
  ASSUME TypeOK, NEW q \in Products, NEW e \in Entry, Reconcile(q, e), UNCHANGED site,
         e.variant = site[q].variant, e.ean \in {None, site[q].ean},
         NEW p \in Products, Alone(p), FoundByEan(p)
  PROVE  FoundByEan(p)'
<1>1. site[p].ean \in Eans /\ site[p].ean \in Codes /\ p \in Codes /\ p \notin Eans
  BY AloneHasVariant DEF Codes
<1>2. alias'[site[p].ean] = p
  <2>1. e.ean = site[p].ean => q = p
    BY DEF Alone
  <2> QED  BY <1>1, <2>1 DEF Reconcile, WithAlias, FoundByEan, TypeOK
<1>3. barcodes'[site[p].ean] = None
  BY <1>1, <1>2 DEF Reconcile, Unshadowed
<1>4. barcodes'[p] = site[p].variant
  BY <1>1 DEF Reconcile, Unshadowed, WithVariant, FoundByEan, TypeOK
<1> QED  BY <1>2, <1>3, <1>4 DEF FoundByEan

(* ... and finds the one it is about.                                      *)
LEMMA ReconcileFinds ==
  ASSUME TypeOK, NEW p \in Products, Reconcile(p, site[p]), UNCHANGED site, Alone(p)
  PROVE  FoundByEan(p)'
<1>1. site[p].ean \in Eans /\ site[p].ean \in Codes /\ p \in Codes /\ p \notin Eans
  BY AloneHasVariant DEF Codes
<1>2. alias'[site[p].ean] = p
  BY <1>1 DEF Reconcile, WithAlias, Alone, TypeOK
<1>3. barcodes'[site[p].ean] = None
  BY <1>1, <1>2 DEF Reconcile, Unshadowed
<1>4. barcodes'[p] = site[p].variant
  BY <1>1 DEF Reconcile, Unshadowed, WithVariant, TypeOK
<1> QED  BY <1>2, <1>3, <1>4 DEF FoundByEan

(* A step that writes no row of the catalog, settles no product and reads  *)
(* nothing.                                                                *)
LEMMA QuietKeeps ==
  ASSUME Unedited, UNCHANGED <<site, barcodes, alias>>,
         \A w \in Threads : ReadNow(w)',
         \A p \in Products : Settled(p)' => Settled(p)
  PROVE  Unedited'
BY DEF Unedited, Alone, FoundByEan

LEMMA FeedStays == IInv /\ Unedited /\ FeedNext => Unedited'
<1> SUFFICES ASSUME IInv, Unedited, FeedNext PROVE Unedited'
  OBVIOUS
<1> USE DEF IInv
<1>1. CASE \E p \in Products, named \in BOOLEAN : FetchPage(p, named)
  <2> PICK p \in Products, named \in BOOLEAN : FetchPage(p, named)
    BY <1>1
  <2>1. \A w \in Threads : ReadNow(w)'
    BY DEF FetchPage, Unedited, ReadNow, TypeOK, SiteEntry, Entry, Threads
  <2>2. \A r \in Products : Settled(r)' => Settled(r)
    BY DEF FetchPage, Settled, Doing, TypeOK
  <2> QED  BY <2>1, <2>2, QuietKeeps DEF FetchPage
<1>2. CASE \E p \in Products : ImportPage(p)
  <2> PICK p \in Products : ImportPage(p)
    BY <1>2
  <2>1. ReadNow("feed") /\ task["feed"].entry \in Entry
    BY DEF Unedited, Threads, TypeOK, Task
  <2>2. \A w \in Threads : ReadNow(w)'
    BY DEF ImportPage, Unedited, ReadNow, TypeOK, Quit, Free, Threads
  <2>3. ASSUME NEW r \in Products, Alone(r)', Settled(r)' PROVE FoundByEan(r)'
    <3>1. Alone(r)
      BY <2>3 DEF ImportPage, Alone
    <3>2. Settled(r)
      BY <2>3 DEF ImportPage, Settled, Quit, Doing, TypeOK
    <3>3. FoundByEan(r)
      BY <3>1, <3>2 DEF Unedited
    <3> QED  BY <2>1, <3>1, <3>3, ReconcileKeeps DEF ImportPage, ReadNow, Doing
  <2> QED  BY <2>2, <2>3 DEF Unedited
<1>3. CASE FailPage
  <2>1. \A w \in Threads : ReadNow(w)'
    BY <1>3 DEF FailPage, Unedited, ReadNow, TypeOK, Quit, Free, Threads
  <2>2. \A r \in Products : Settled(r)' => Settled(r)
    BY <1>3 DEF FailPage, Settled, Quit, Doing, TypeOK
  <2> QED  BY <1>3, <2>1, <2>2, QuietKeeps DEF FailPage
<1> QED  BY <1>1, <1>2, <1>3 DEF FeedNext

LEMMA FetchReadsNow ==
  ASSUME IInv, Unedited, NEW v \in Threads, Fetch(v)
  PROVE  \A w \in Threads : ReadNow(w)'
<1> USE DEF IInv
<1>1. task[v].product \in Products /\ task \in [Threads -> Task]
  BY DEF Occupied, Fetch, Doing, TypeOK
<1>2. /\ task'[v].product = task[v].product
      /\ task'[v].entry = site[task[v].product]
      /\ \A w \in Threads \ {v} : task'[w] = task[w]
      /\ site' = site
  BY <1>1 DEF Fetch, Task
<1> QED  BY <1>1, <1>2 DEF Unedited, ReadNow

LEMMA EanStays == IInv /\ Unedited /\ EanNext => Unedited'
<1> SUFFICES ASSUME IInv, Unedited, EanNext PROVE Unedited'
  OBVIOUS
<1> USE DEF IInv
<1>1. CASE \E p \in Products : ClaimEan(p)
  <2> PICK p \in Products : ClaimEan(p)
    BY <1>1
  <2>1. \A w \in Threads : ReadNow(w)'
    BY DEF ClaimEan, Unedited, ReadNow, TypeOK, Free, Threads
  <2>2. \A r \in Products : Settled(r)' => Settled(r)
    BY DEF ClaimEan, Settled, Doing, TypeOK, Free, Threads
  <2> QED  BY <2>1, <2>2, QuietKeeps DEF ClaimEan
<1>2. CASE Fetch("ean")
  <2>1. \A w \in Threads : ReadNow(w)'
    BY <1>2, FetchReadsNow DEF Threads
  <2>2. \A r \in Products : Settled(r)' => Settled(r)
    BY <1>2 DEF Fetch, Settled, Doing, TypeOK, Task, Threads
  <2> QED  BY <1>2, <2>1, <2>2, QuietKeeps DEF Fetch
<1>3. CASE RetryEan \/ NotFoundEan
  <2>1. \A w \in Threads : ReadNow(w)'
    BY <1>3 DEF RetryEan, NotFoundEan, FinishEan, Unedited, ReadNow, TypeOK, Quit, Free, Threads
  <2>2. \A r \in Products : Settled(r)' => Settled(r)
    BY <1>3 DEF RetryEan, NotFoundEan, FinishEan, Settled, Quit, Doing, TypeOK, Free, Threads
  <2> QED  BY <1>3, <2>1, <2>2, QuietKeeps DEF RetryEan, NotFoundEan, FinishEan
<1>4. CASE ReconcileEan
  <2> DEFINE p == task["ean"].product
  <2>1. p \in Products /\ task["ean"].entry = site[p] /\ site[p] \in Entry
    BY <1>4 DEF ReconcileEan, Doing, Unedited, ReadNow, Threads, TypeOK, SiteEntry
  <2>2. Reconcile(p, site[p]) /\ UNCHANGED site
    BY <1>4, <2>1 DEF ReconcileEan
  <2>3. \A w \in Threads : ReadNow(w)'
    <3>1. /\ task'["ean"].product = p
          /\ task'["ean"].entry = task["ean"].entry
          /\ \A w \in Threads \ {"ean"} : task'[w] = task[w]
      BY <1>4 DEF ReconcileEan, TypeOK, Task, Threads
    <3>2. task["ean"].stage = "read"
      BY <1>4 DEF ReconcileEan, Doing
    <3> QED  BY <2>1, <2>2, <3>1, <3>2 DEF Unedited, ReadNow
  <2>4. ASSUME NEW r \in Products, Alone(r)', Settled(r)' PROVE FoundByEan(r)'
    <3>1. Alone(r)
      BY <2>2, <2>4 DEF Alone
    <3>2. CASE r = p
      BY <2>1, <2>2, <3>1, <3>2, ReconcileFinds
    <3>3. CASE r # p
      <4>1. Settled(r)
        BY <1>4, <2>4, <3>3 DEF ReconcileEan, Settled, Doing, TypeOK, Task, Threads
      <4>2. FoundByEan(r)
        BY <3>1, <4>1 DEF Unedited
      <4> QED  BY <2>1, <2>2, <3>1, <4>2, ReconcileKeeps
    <3> QED  BY <3>2, <3>3
  <2> QED  BY <2>3, <2>4 DEF Unedited
<1>5. CASE SyncedEan
  <2>1. \A w \in Threads : ReadNow(w)'
    BY <1>5 DEF SyncedEan, FinishEan, Unedited, ReadNow, TypeOK, Quit, Free, Threads
  <2>2. \A r \in Products : Settled(r)' => Settled(r)
    BY <1>5 DEF SyncedEan, FinishEan, Settled, Quit, Doing, TypeOK, Free, Threads
  <2> QED  BY <1>5, <2>1, <2>2, QuietKeeps DEF SyncedEan, FinishEan
<1>6. CASE Break("ean")
  <2>1. \A w \in Threads : ReadNow(w)'
    BY <1>6 DEF Break, Unedited, ReadNow, TypeOK, Quit, Free, Threads
  <2>2. \A r \in Products : Settled(r)' => Settled(r)
    BY <1>6 DEF Break, Settled, Quit, Doing, TypeOK, Free, Threads
  <2> QED  BY <1>6, <2>1, <2>2, QuietKeeps DEF Break
<1> QED
  BY <1>1, <1>2, <1>3, <1>4, <1>5, <1>6 DEF EanNext

LEMMA ImageStays == IInv /\ Unedited /\ ImageNext => Unedited'
<1> SUFFICES ASSUME IInv, Unedited, ImageNext PROVE Unedited'
  OBVIOUS
<1> USE DEF IInv
<1>1. CASE \E p \in Products : ClaimImage(p)
  <2> PICK p \in Products : ClaimImage(p)
    BY <1>1
  <2>1. \A w \in Threads : ReadNow(w)'
    BY DEF ClaimImage, Unedited, ReadNow, TypeOK, Free, Threads
  <2>2. \A r \in Products : Settled(r)' => Settled(r)
    BY DEF ClaimImage, Settled, Doing, TypeOK, Threads
  <2> QED  BY <2>1, <2>2, QuietKeeps DEF ClaimImage
<1>2. CASE Fetch("image")
  <2>1. \A w \in Threads : ReadNow(w)'
    BY <1>2, FetchReadsNow DEF Threads
  <2>2. \A r \in Products : Settled(r)' => Settled(r)
    BY <1>2 DEF Fetch, Settled, Doing, TypeOK, Threads
  <2> QED  BY <1>2, <2>1, <2>2, QuietKeeps DEF Fetch
<1>3. CASE RetryImage \/ NotFoundImage
  <2>1. \A w \in Threads : ReadNow(w)'
    BY <1>3 DEF RetryImage, NotFoundImage, FailImage, Unedited, ReadNow, TypeOK, Quit, Free, Threads
  <2>2. \A r \in Products : Settled(r)' => Settled(r)
    BY <1>3 DEF RetryImage, NotFoundImage, FailImage, Settled, Quit, Doing, TypeOK, Threads
  <2> QED  BY <1>3, <2>1, <2>2, QuietKeeps DEF RetryImage, NotFoundImage, FailImage
<1>4. CASE SyncImage
  <2> DEFINE p == task["image"].product
             e == task["image"].entry
  <2>1. /\ p \in Products /\ e \in Entry
        /\ e.variant = site[p].variant /\ e.ean \in {None, site[p].ean}
    BY <1>4 DEF SyncImage, Doing, Unedited, ReadNow, TypeOK, Task, Threads
  <2>2. Reconcile(p, e) /\ UNCHANGED site
    BY <1>4 DEF SyncImage
  <2>3. \A w \in Threads : ReadNow(w)'
    BY <1>4 DEF SyncImage, Unedited, ReadNow, TypeOK, Quit, Free, Threads
  <2>4. ASSUME NEW r \in Products, Alone(r)', Settled(r)' PROVE FoundByEan(r)'
    <3>1. Alone(r)
      BY <2>2, <2>4 DEF Alone
    <3>2. Settled(r)
      BY <1>4, <2>4 DEF SyncImage, Settled, Quit, Doing, TypeOK, Threads
    <3>3. FoundByEan(r)
      BY <3>1, <3>2 DEF Unedited
    <3> QED  BY <2>1, <2>2, <3>1, <3>3, ReconcileKeeps
  <2> QED  BY <2>3, <2>4 DEF Unedited
<1>5. CASE Break("image")
  <2>1. \A w \in Threads : ReadNow(w)'
    BY <1>5 DEF Break, Unedited, ReadNow, TypeOK, Quit, Free, Threads
  <2>2. \A r \in Products : Settled(r)' => Settled(r)
    BY <1>5 DEF Break, Settled, Quit, Doing, TypeOK, Threads
  <2> QED  BY <1>5, <2>1, <2>2, QuietKeeps DEF Break
<1> QED
  BY <1>1, <1>2, <1>3, <1>4, <1>5 DEF ImageNext

(* A scan that adds an unknown code touches no product that is found.      *)
LEMMA LearnStays ==
  ASSUME IInv, Unedited, NEW q \in Products, NEW v \in Variants, Learn(q, v)
  PROVE  Unedited'
<1>1. \A w \in Threads : ReadNow(w)'
  BY DEF Learn, Unedited, ReadNow
<1>2. ASSUME NEW p \in Products, Alone(p)', Settled(p)' PROVE FoundByEan(p)'
  <2>1. Alone(p) /\ Settled(p)
    BY <1>2 DEF Learn, Alone, Settled, Doing
  <2>2. FoundByEan(p) /\ site[p].ean \in Eans /\ site[p].variant # None
    BY <2>1, AloneHasVariant DEF Unedited, IInv
  <2>3. p # q /\ site[p].ean # q
    BY <2>2 DEF Learn, FoundByEan
  <2> QED  BY <2>2, <2>3 DEF Learn, FoundByEan, IInv, TypeOK, Codes
<1> QED  BY <1>1, <1>2 DEF Unedited

(* A location touches no barcode.                                          *)
LEMMA LocateStays ==
  ASSUME IInv, Unedited, NEW q \in Products, LocateModel(q)
  PROVE  Unedited'
<1>1. \A w \in Threads : ReadNow(w)'
  BY DEF LocateModel, Unedited, ReadNow
<1>2. \A r \in Products : Settled(r)' => Settled(r)
  BY DEF LocateModel, Settled, Doing
<1> QED  BY <1>1, <1>2, QuietKeeps DEF LocateModel

LEMMA RestartStays == IInv /\ Unedited /\ Restart => Unedited'
<1> SUFFICES ASSUME IInv, Unedited, Restart PROVE Unedited'
  OBVIOUS
<1>1. \A w \in Threads : ReadNow(w)'
  BY DEF Restart, ReadNow, Free
<1>2. \A r \in Products : Settled(r)' => Settled(r)
  BY DEF Restart, Settled, Doing, Free, Threads
<1> QED  BY <1>1, <1>2, QuietKeeps DEF Restart

LEMMA NextKeepsEInv == EInv /\ [Next]_vars => EInv'
<1> SUFFICES ASSUME EInv, [Next]_vars PROVE EInv'
  OBVIOUS
<1>1. IInv'
  BY NextKeepsInv DEF EInv
<1>2. ASSUME edits' = 0 PROVE Unedited'
  <2>1. ~ Edit
    BY <1>2 DEF EInv, IInv, TypeOK, Edit
  <2>2. CASE FeedNext
    <3>1. edits = 0
      BY <1>2, <2>2 DEF FeedNext, FetchPage, ImportPage, FailPage
    <3> QED  BY <2>2, <3>1, FeedStays DEF EInv
  <2>3. CASE EanNext
    <3>1. edits = 0
      BY <1>2, <2>3
      DEF EanNext, ClaimEan, Fetch, RetryEan, NotFoundEan, ReconcileEan, SyncedEan, FinishEan, Break
    <3> QED  BY <2>3, <3>1, EanStays DEF EInv
  <2>4. CASE ImageNext
    <3>1. edits = 0
      BY <1>2, <2>4
      DEF ImageNext, ClaimImage, Fetch, RetryImage, NotFoundImage, SyncImage, FailImage, Break
    <3> QED  BY <2>4, <3>1, ImageStays DEF EInv
  <2>5. CASE EditNext
    <3>1. \E q \in Products : LocateModel(q) \/ \E v \in Variants : Learn(q, v)
      BY <2>1, <2>5 DEF EditNext, AddBarcode, DeleteBarcode, SiteChanges
    <3>2. edits = 0
      BY <1>2, <3>1 DEF Learn, LocateModel
    <3> QED  BY <3>1, <3>2, LearnStays, LocateStays DEF EInv
  <2>6. CASE Restart
    <3>1. edits = 0
      BY <1>2, <2>6 DEF Restart
    <3> QED  BY <2>6, <3>1, RestartStays DEF EInv
  <2>7. CASE UNCHANGED vars
    BY <1>2, <2>7 DEF vars, EInv, Unedited, ReadNow, Alone, Settled, Doing, FoundByEan
  <2> QED  BY <2>2, <2>3, <2>4, <2>5, <2>6, <2>7 DEF Next
<1> QED  BY <1>1, <1>2 DEF EInv

(* Until somebody edits the catalog or the site, every product marked      *)
(* 'synced' whose EAN is its own is found by it, whatever the three        *)
(* threads, scans, failures and restarts do.                               *)
THEOREM SyncedProductsAreFound == Spec => []SyncedIsFound
<1>1. Init => EInv
  <2> SUFFICES ASSUME Init PROVE EInv
    OBVIOUS
  <2>1. Unedited
    BY DEF Init, Unedited, ReadNow, Settled, Doing, Free, Threads
  <2> QED  BY <2>1, InitInv DEF EInv
<1>2. EInv => SyncedIsFound
  <2> SUFFICES ASSUME EInv, edits = 0, NEW p \in Products, jobs[p] = "synced", Alone(p)
               PROVE  Resolved(site[p].ean) = site[p].variant
    BY DEF SyncedIsFound, Alone
  <2>1. FoundByEan(p)
    BY DEF EInv, Unedited, Settled
  <2>2. site[p].ean \notin Products
    BY AloneHasVariant DEF EInv, IInv
  <2> QED  BY <2>1, <2>2 DEF Resolved, FoundByEan
<1> QED  BY <1>1, <1>2, NextKeepsEInv, PTL DEF Spec

-----------------------------------------------------------------------------
(* Each table of jobs implements JobQueue.  The invariant is needed where  *)
(* a worker ends its task: the job it settles is the one it holds.         *)

(* Queueing a model is an offer of its job, or nothing.                    *)
LEMMA QueueingOffers ==
  ASSUME IInv, NEW p \in Products, images' \in {Queued(p), Requeued(p)}, UNCHANGED Holder("image")
  PROVE  ImageQueue!Next \/ UNCHANGED <<images, Holder("image")>>
<1>1. CASE images[p] = "none" \/ (images[p] = "not_found" /\ images' = Requeued(p))
  <2>1. ImageQueue!Offer(p)
    BY <1>1 DEF ImageQueue!Offer, Queued, Requeued
  <2> QED  BY <2>1 DEF ImageQueue!Next
<1>2. CASE images[p] # "none" /\ (images[p] # "not_found" \/ images' = Queued(p))
  BY <1>2 DEF Queued, Requeued, IInv, TypeOK
<1> QED  BY <1>1, <1>2

(* What a step of one thread does to the tasks of the others.              *)
LEMMA Others ==
  ASSUME IInv, NEW v \in Threads, NEW w \in Threads \ {v},
         NEW t, task' = [task EXCEPT ![v] = t]
  PROVE  Holder(w)' = Holder(w)
  BY DEF Holder, Doing, IInv, TypeOK

(* The job of a worker that is not free, and of one that has just quit.    *)
LEMMA HolderWorks ==
  ASSUME IInv, NEW w \in Threads, ~ Doing(w, "free")
  PROVE  Holder(w) = task[w].product /\ Holder(w) \in Products /\ Holder(w) # None
  BY DEF Holder, IInv, Occupied

LEMMA HolderQuits ==
  ASSUME IInv, NEW w \in Threads, Quit(w)
  PROVE  Holder(w)' = None
  BY DEF Holder, Quit, Doing, Free, IInv, TypeOK

LEMMA ImageQueueStep ==
  IInv /\ [Next]_vars => [ImageQueue!Next]_<<images, Holder("image")>>
<1> SUFFICES ASSUME IInv, [Next]_vars
             PROVE  ImageQueue!Next \/ UNCHANGED <<images, Holder("image")>>
  OBVIOUS
<1>1. CASE FeedNext
  <2>1. UNCHANGED Holder("image")
    BY <1>1, Others DEF FeedNext, FetchPage, ImportPage, FailPage, Quit, Threads
  <2>2. CASE \E p \in Products : ImportPage(p)
    BY <2>1, <2>2, QueueingOffers DEF ImportPage
  <2>3. CASE (\E p \in Products, named \in BOOLEAN : FetchPage(p, named)) \/ FailPage
    BY <2>1, <2>3 DEF FetchPage, FailPage
  <2> QED  BY <1>1, <2>2, <2>3 DEF FeedNext
<1>2. CASE EanNext
  <2>1. UNCHANGED Holder("image")
    BY <1>2, Others
    DEF EanNext, ClaimEan, Fetch, RetryEan, NotFoundEan, SyncedEan, FinishEan, ReconcileEan,
        Break, Quit, Threads
  <2>2. CASE ReconcileEan
    <3>1. task["ean"].product \in Products
      BY <2>2 DEF ReconcileEan, Doing, IInv, Occupied, Threads
    <3> QED  BY <2>1, <2>2, <3>1, QueueingOffers DEF ReconcileEan
  <2>3. CASE ~ ReconcileEan
    BY <1>2, <2>1, <2>3
    DEF EanNext, ClaimEan, Fetch, RetryEan, NotFoundEan, SyncedEan, FinishEan, Break
  <2> QED  BY <2>2, <2>3
<1>3. CASE ImageNext
  <2>1. CASE \E p \in Products : ClaimImage(p)
    <3> PICK p \in Products : ClaimImage(p)
      BY <2>1
    <3>1. Holder("image") = None /\ Holder("image")' = p
      BY DEF ClaimImage, Holder, Doing, IInv, TypeOK, Threads
    <3>2. ImageQueue!Take(p)
      BY <3>1 DEF ImageQueue!Take, ClaimImage
    <3> QED  BY <3>2 DEF ImageQueue!Next
  <2>2. CASE Fetch("image")
    <3>1. UNCHANGED Holder("image")
      BY <2>2 DEF Fetch, Holder, Doing, IInv, TypeOK, Task, Threads
    <3> QED  BY <2>2, <3>1 DEF Fetch
  <2>3. CASE RetryImage \/ NotFoundImage \/ SyncImage
    <3>1. /\ ~ Doing("image", "free") /\ Quit("image")
          /\ \E outcome \in {"pending", "synced", "not_found"} :
               images' = [images EXCEPT ![task["image"].product] = outcome]
      BY <2>3 DEF RetryImage, NotFoundImage, FailImage, SyncImage, Doing
    <3>2. PICK outcome \in {"pending", "synced", "not_found"} :
            images' = [images EXCEPT ![task["image"].product] = outcome]
      BY <3>1
    <3>3. ImageQueue!Settle(outcome)
      BY <3>1, <3>2, HolderWorks, HolderQuits DEF ImageQueue!Settle, Threads
    <3> QED  BY <3>3 DEF ImageQueue!Next
  <2>4. CASE Break("image")
    <3>1. ImageQueue!Abandon
      BY <2>4, HolderWorks, HolderQuits DEF ImageQueue!Abandon, Break, Threads
    <3> QED  BY <3>1 DEF ImageQueue!Next
  <2> QED  BY <1>3, <2>1, <2>2, <2>3, <2>4 DEF ImageNext
<1>4. CASE EditNext
  <2>1. UNCHANGED Holder("image")
    BY <1>4 DEF EditNext, AddBarcode, DeleteBarcode, Learn, LocateModel, SiteChanges, Holder, Doing
  <2>2. CASE \E p \in Products : images' = Requeued(p)
    BY <2>1, <2>2, QueueingOffers
  <2>3. CASE UNCHANGED images
    BY <2>1, <2>3
  <2> QED  BY <1>4, <2>2, <2>3 DEF EditNext, AddBarcode, DeleteBarcode, Learn, LocateModel, SiteChanges
<1>5. CASE Restart
  <2>1. /\ ImagesAtStart(images) \in [Products -> {"none", "pending", "synced", "not_found", "failed"}]
        /\ \A p \in Products : ImageQueue!Recovered(images[p], ImagesAtStart(images)[p])
    BY DEF IInv, TypeOK, ImageStatus, JobStatus, ImagesAtStart, ImageQueue!Recovered
  <2>2. Holder("image")' = None
    BY <1>5 DEF Restart, Holder, Doing, Free, Threads
  <2>3. ImageQueue!Recover
    BY <1>5, <2>1, <2>2 DEF Restart, ImageQueue!Recover
  <2> QED  BY <2>3 DEF ImageQueue!Next
<1>6. CASE UNCHANGED vars
  BY <1>6 DEF vars, Holder, Doing
<1> QED
  BY <1>1, <1>2, <1>3, <1>4, <1>5, <1>6 DEF Next

LEMMA EanQueueStep ==
  IInv /\ [Next]_vars => [EanQueue!Next]_<<jobs, Holder("ean")>>
<1> SUFFICES ASSUME IInv, [Next]_vars
             PROVE  EanQueue!Next \/ UNCHANGED <<jobs, Holder("ean")>>
  OBVIOUS
<1>1. CASE FeedNext
  <2>1. UNCHANGED Holder("ean")
    BY <1>1, Others DEF FeedNext, FetchPage, ImportPage, FailPage, Quit, Threads
  <2>2. CASE \E p \in Products : ImportPage(p)
    <3> PICK p \in Products : ImportPage(p)
      BY <2>2
    <3>1. CASE jobs[p] = "none"
      <4>1. EanQueue!Offer(p)
        BY <2>1, <3>1 DEF ImportPage, EanQueue!Offer
      <4> QED  BY <4>1 DEF EanQueue!Next
    <3>2. CASE jobs[p] # "none"
      BY <2>1, <3>2 DEF ImportPage, IInv, TypeOK
    <3> QED  BY <3>1, <3>2
  <2>3. CASE (\E p \in Products, named \in BOOLEAN : FetchPage(p, named)) \/ FailPage
    BY <2>1, <2>3 DEF FetchPage, FailPage
  <2> QED  BY <1>1, <2>2, <2>3 DEF FeedNext
<1>2. CASE EanNext
  <2>1. CASE \E p \in Products : ClaimEan(p)
    <3> PICK p \in Products : ClaimEan(p)
      BY <2>1
    <3>1. Holder("ean") = None /\ Holder("ean")' = p
      BY DEF ClaimEan, Holder, Doing, IInv, TypeOK, Threads
    <3>2. EanQueue!Take(p)
      BY <3>1 DEF EanQueue!Take, ClaimEan
    <3> QED  BY <3>2 DEF EanQueue!Next
  <2>2. CASE Fetch("ean") \/ ReconcileEan
    <3>1. UNCHANGED Holder("ean")
      BY <2>2 DEF Fetch, ReconcileEan, Holder, Doing, IInv, TypeOK, Task, Threads
    <3> QED  BY <2>2, <3>1 DEF Fetch, ReconcileEan
  <2>3. CASE RetryEan \/ NotFoundEan \/ SyncedEan
    <3>1. /\ ~ Doing("ean", "free") /\ Quit("ean")
          /\ \E outcome \in {"pending", "synced", "not_found"} :
               jobs' = [jobs EXCEPT ![task["ean"].product] = outcome]
      BY <2>3 DEF RetryEan, NotFoundEan, SyncedEan, FinishEan, Doing
    <3>2. PICK outcome \in {"pending", "synced", "not_found"} :
            jobs' = [jobs EXCEPT ![task["ean"].product] = outcome]
      BY <3>1
    <3>3. EanQueue!Settle(outcome)
      BY <3>1, <3>2, HolderWorks, HolderQuits DEF EanQueue!Settle, Threads
    <3> QED  BY <3>3 DEF EanQueue!Next
  <2>4. CASE Break("ean")
    <3>1. EanQueue!Abandon
      BY <2>4, HolderWorks, HolderQuits DEF EanQueue!Abandon, Break, Threads
    <3> QED  BY <3>1 DEF EanQueue!Next
  <2> QED  BY <1>2, <2>1, <2>2, <2>3, <2>4 DEF EanNext
<1>3. CASE ImageNext
  <2>1. UNCHANGED Holder("ean")
    BY <1>3, Others
    DEF ImageNext, ClaimImage, Fetch, RetryImage, NotFoundImage, FailImage, SyncImage,
        Break, Quit, Threads
  <2> QED
    BY <1>3, <2>1
    DEF ImageNext, ClaimImage, Fetch, RetryImage, NotFoundImage, FailImage, SyncImage, Break
<1>4. CASE EditNext
  BY <1>4 DEF EditNext, AddBarcode, DeleteBarcode, Learn, LocateModel, SiteChanges, Holder, Doing
<1>5. CASE Restart
  <2>1. /\ jobs' \in [Products -> {"none", "pending", "synced", "not_found", "failed"}]
        /\ \A p \in Products : EanQueue!Recovered(jobs[p], jobs'[p])
    BY <1>5 DEF Restart, IInv, TypeOK, JobStatus, EanQueue!Recovered
  <2>2. Holder("ean")' = None
    BY <1>5 DEF Restart, Holder, Doing, Free, Threads
  <2>3. EanQueue!Recover
    BY <2>1, <2>2 DEF EanQueue!Recover
  <2> QED  BY <2>3 DEF EanQueue!Next
<1>6. CASE UNCHANGED vars
  BY <1>6 DEF vars, Holder, Doing
<1> QED
  BY <1>1, <1>2, <1>3, <1>4, <1>5, <1>6 DEF Next

(* The table of image jobs is a job queue: no feed, scan, edit or other    *)
(* worker takes a job from the image worker or brings back a synced one.   *)
THEOREM ImageJobsAreQueued == Spec => ImageJobsQueue
<1>1. Init => ImageQueue!Init
  BY DEF Init, ImageQueue!Init, ImagesAtStart, Holder, Doing, Free, Threads
<1> QED
  BY <1>1, InitInv, NextKeepsInv, ImageQueueStep, PTL
  DEF Spec, ImageJobsQueue, ImageQueue!Spec

(* So is the table of EAN jobs.                                            *)
THEOREM EanJobsAreQueued == Spec => EanJobsQueue
<1>1. Init => EanQueue!Init
  BY DEF Init, EanQueue!Init, Holder, Doing, Free, Threads
<1> QED
  BY <1>1, InitInv, NextKeepsInv, EanQueueStep, PTL
  DEF Spec, EanJobsQueue, EanQueue!Spec

=============================================================================
