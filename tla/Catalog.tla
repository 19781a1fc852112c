------------------------------ MODULE Catalog ------------------------------
(***************************************************************************)
(* The shared catalog (barcodes, barcode_aliases) between the people who   *)
(* edit it (barcodes.py) and the three threads that copy the public site   *)
(* into it: the nightly feed and the EAN worker (catalog_sync.py) and the  *)
(* image worker (product_image_sync.py).  Each thread reads the site in    *)
(* one step and writes in another, so what it writes may be out of date;   *)
(* a transaction is one step.                                              *)
(*                                                                         *)
(* A product stands for its handle and its one variant's barcode, which    *)
(* never looks like an EAN, and for its model's image job.  A page of the  *)
(* feed has one product.                                                   *)
(***************************************************************************)
EXTENDS Integers

CONSTANTS
  Products,     \* products of the site
  Eans,         \* EANs, codes of their own
  Variants,     \* what a code can stand for: (sku, color, size)
  None,
  MaxAttempts,  \* EAN_MAX_ATTEMPTS
  MaxEdits      \* bound: changes by people and by the site

ASSUME CatalogAssumption ==
  /\ None \notin Products \cup Eans \cup Variants
  /\ Products \cap Eans = {}
  /\ MaxAttempts \in Nat \ {0}
  /\ MaxEdits \in Nat

VARIABLES
  site,      \* what the site publishes of each product
  barcodes,  \* the variant of each code, None without a row
  alias,     \* canonical_barcode of each EAN in barcode_aliases
  jobs,      \* status of each row of external_catalog_products
  attempts,  \* its attempts
  images,    \* status of each row of product_image_sync_jobs
  task,      \* what each thread is doing
  edits      \* number of changes by people and by the site

vars == <<site, barcodes, alias, jobs, attempts, images, task, edits>>

Codes   == Products \cup Eans
Threads == {"feed", "ean", "image"}

Entry   == [variant : Variants \cup {None}, ean : Eans \cup {None}]
Retired == [variant |-> None, ean |-> None]

Free == [stage |-> "free", product |-> None, entry |-> Retired]

Doing(w, stage) == task[w].stage = stage
Quit(w)         == task' = [task EXCEPT ![w] = Free]

-----------------------------------------------------------------------------
(* What a scan of code c finds.                                            *)
Resolved(c) ==
  IF barcodes[c] # None \/ c \in Products \/ alias[c] = None
  THEN barcodes[c]
  ELSE barcodes[alias[c]]

(* Mutant: an existing row keeps its variant.                              *)
WithVariant_InsertOnly(p, e) ==
  [barcodes EXCEPT ![p] = IF @ = None THEN e.variant ELSE @]

WithVariant(p, e) == [barcodes EXCEPT ![p] = e.variant]

WithAlias(p, e) == IF e.ean = None THEN alias ELSE [alias EXCEPT ![e.ean] = p]

(* remove_shadowed_legacy_barcodes: an alias replaces the direct row.      *)
Unshadowed(B, A) ==
  [c \in Codes |-> IF c \in Eans /\ A[c] # None THEN None ELSE B[c]]

Reconcile(p, e) ==
  /\ alias' = WithAlias(p, e)
  /\ barcodes' = Unshadowed(WithVariant(p, e), WithAlias(p, e))

Queued(p) == [images EXCEPT ![p] = IF @ = "none" THEN "pending" ELSE @]

(* Mutant: a job that is being worked on is queued again, too.             *)
Requeued_Always(p) == [images EXCEPT ![p] = "pending"]

(* Mutant: everything but a running job is queued again.                   *)
Requeued_Synced(p) == [images EXCEPT ![p] = IF @ = "syncing" THEN @ ELSE "pending"]

Requeued(p) ==
  [images EXCEPT ![p] = IF @ \in {"none", "not_found"} THEN "pending" ELSE @]

-----------------------------------------------------------------------------
(* The nightly feed.  A page may leave the EANs out.                       *)

FetchPage(p, named) ==
  /\ Doing("feed", "free")
  /\ site[p] # Retired
  /\ task' = [task EXCEPT !["feed"] =
       [stage |-> "read", product |-> p,
        entry |-> IF named THEN site[p] ELSE [site[p] EXCEPT !.ean = None]]]
  /\ UNCHANGED <<site, barcodes, alias, jobs, attempts, images, edits>>

(* Mutant: a product on a page is queued again, done or given up.          *)
ImportPage_Requeues(p) ==
  LET e == task["feed"].entry
  IN  /\ Doing("feed", "read") /\ task["feed"].product = p
      /\ Reconcile(p, e)
      /\ jobs' = [jobs EXCEPT ![p] = IF @ = "syncing" THEN @ ELSE "pending"]
      /\ images' = IF barcodes[p] # e.variant THEN Requeued(p) ELSE Queued(p)
      /\ Quit("feed")
      /\ UNCHANGED <<site, attempts, edits>>

ImportPage(p) ==
  LET e == task["feed"].entry
  IN  /\ Doing("feed", "read") /\ task["feed"].product = p
      /\ Reconcile(p, e)
      /\ jobs' = [jobs EXCEPT ![p] = IF @ = "none" THEN "pending" ELSE @]
      /\ images' = IF barcodes[p] # e.variant THEN Requeued(p) ELSE Queued(p)
      /\ Quit("feed")
      /\ UNCHANGED <<site, attempts, edits>>

(* The import fails and rolls back; the next night tries again.            *)
FailPage ==
  /\ Doing("feed", "read")
  /\ Quit("feed")
  /\ UNCHANGED <<site, barcodes, alias, jobs, attempts, images, edits>>

-----------------------------------------------------------------------------
(* The EAN worker.                                                         *)

(* Mutant: a claim ignores the attempts.                                   *)
ClaimEan_NoLimit(p) ==
  /\ Doing("ean", "free")
  /\ jobs[p] = "pending"
  /\ jobs' = [jobs EXCEPT ![p] = "syncing"]
  /\ attempts' = [attempts EXCEPT ![p] = @ + 1]
  /\ task' = [task EXCEPT !["ean"] = [Free EXCEPT !.stage = "claimed", !.product = p]]
  /\ UNCHANGED <<site, barcodes, alias, images, edits>>

ClaimEan(p) ==
  /\ Doing("ean", "free")
  /\ jobs[p] = "pending" /\ attempts[p] < MaxAttempts
  /\ jobs' = [jobs EXCEPT ![p] = "syncing"]
  /\ attempts' = [attempts EXCEPT ![p] = @ + 1]
  /\ task' = [task EXCEPT !["ean"] = [Free EXCEPT !.stage = "claimed", !.product = p]]
  /\ UNCHANGED <<site, barcodes, alias, images, edits>>

Fetch(w) ==
  /\ Doing(w, "claimed")
  /\ task' = [task EXCEPT ![w].stage = "read", ![w].entry = site[task[w].product]]
  /\ UNCHANGED <<site, barcodes, alias, jobs, attempts, images, edits>>

FinishEan(from, entries, status) ==
  /\ Doing("ean", from) /\ task["ean"].entry \in entries
  /\ jobs' = [jobs EXCEPT ![task["ean"].product] = status]
  /\ Quit("ean")
  /\ UNCHANGED <<site, barcodes, alias, attempts, images, edits>>

RetryEan    == FinishEan("claimed", Entry, "pending")
NotFoundEan == FinishEan("read", {Retired}, "not_found")

ReconcileEan ==
  LET p == task["ean"].product
  IN  /\ Doing("ean", "read") /\ task["ean"].entry # Retired
      /\ Reconcile(p, task["ean"].entry)
      /\ images' = Queued(p)
      /\ task' = [task EXCEPT !["ean"].stage = "written"]
      /\ UNCHANGED <<site, jobs, attempts, edits>>

(* Mutant: the job is finished with what was read, not with what was       *)
(* written.                                                                *)
SyncedEan_Early ==
  FinishEan("written", Entry, "synced") \/ FinishEan("read", Entry \ {Retired}, "synced")

SyncedEan == FinishEan("written", Entry, "synced")

(* A database error, which _ean_worker does not name: the loop goes on and *)
(* the job stays 'syncing'.                                                *)
Break(w) ==
  /\ w \in {"ean", "image"} /\ ~ Doing(w, "free")
  /\ Quit(w)
  /\ UNCHANGED <<site, barcodes, alias, jobs, attempts, images, edits>>

-----------------------------------------------------------------------------
(* The image worker.                                                       *)

ClaimImage(p) ==
  /\ Doing("image", "free")
  /\ images[p] = "pending"
  /\ images' = [images EXCEPT ![p] = "syncing"]
  /\ task' = [task EXCEPT !["image"] = [Free EXCEPT !.stage = "claimed", !.product = p]]
  /\ UNCHANGED <<site, barcodes, alias, jobs, attempts, edits>>

FailImage(from, status) ==
  /\ Doing("image", from)
  /\ images' = [images EXCEPT ![task["image"].product] = status]
  /\ Quit("image")
  /\ UNCHANGED <<site, barcodes, alias, jobs, attempts, edits>>

(* The request for the product fails, or the download of the image does.   *)
RetryImage == FailImage("claimed", "pending") \/ FailImage("read", "pending")

(* A product that is retired, or published without an image.               *)
NotFoundImage == FailImage("read", "not_found")

(* The reconciliation, the image rows and the status are one transaction.  *)
SyncImage ==
  LET p == task["image"].product
  IN  /\ Doing("image", "read") /\ task["image"].entry # Retired
      /\ Reconcile(p, task["image"].entry)
      /\ images' = [images EXCEPT ![p] = "synced"]
      /\ Quit("image")
      /\ UNCHANGED <<site, jobs, attempts, edits>>

(* Every model with a barcode gets a job when the process starts, and the  *)
(* jobs a dead worker held are queued again.                               *)
ImagesAtStart(I) ==
  [p \in Products |->
     IF I[p] = "syncing" \/ (I[p] = "none" /\ barcodes[p] # None)
     THEN "pending" ELSE I[p]]

(* All threads die; the new ones take back what was 'syncing'.             *)
Restart ==
  /\ task' = [w \in Threads |-> Free]
  /\ jobs' = [p \in Products |->
       IF jobs[p] \notin {"pending", "syncing"} THEN jobs[p]
       ELSE IF attempts[p] < MaxAttempts THEN "pending" ELSE "failed"]
  /\ images' = ImagesAtStart(images)
  /\ UNCHANGED <<site, barcodes, alias, attempts, edits>>

-----------------------------------------------------------------------------
(* People and the site.                                                    *)

Edit ==
  /\ edits < MaxEdits
  /\ edits' = edits + 1

(* Adding and updating, on the form or by import; p is the model entered.  *)
AddBarcode(c, v, p) ==
  /\ Edit
  /\ barcodes' = [barcodes EXCEPT ![c] = v]
  /\ images' = Requeued(p)
  /\ UNCHANGED <<site, alias, jobs, attempts, task>>

(* Aliases reference their canonical row ON DELETE CASCADE.                *)
DeleteBarcode(c) ==
  /\ Edit
  /\ barcodes[c] # None
  /\ barcodes' = [barcodes EXCEPT ![c] = None]
  /\ alias' = [e \in Eans |-> IF alias[e] = c THEN None ELSE alias[e]]
  /\ UNCHANGED <<site, jobs, attempts, images, task>>

(* A scan adds a structured barcode that is not in the catalog.            *)
Learn(p, v) ==
  /\ barcodes[p] = None
  /\ barcodes' = [barcodes EXCEPT ![p] = v]
  /\ images' = Requeued(p)
  /\ UNCHANGED <<site, alias, jobs, attempts, task, edits>>

(* The location of a model is entered or imported; it may be a new model.  *)
LocateModel(p) ==
  /\ images' = Requeued(p)
  /\ UNCHANGED <<site, barcodes, alias, jobs, attempts, task, edits>>

SiteChanges(p, e) ==
  /\ Edit
  /\ site' = [site EXCEPT ![p] = e]
  /\ UNCHANGED <<barcodes, alias, jobs, attempts, images, task>>

-----------------------------------------------------------------------------
SiteEntry == {e \in Entry : e.variant = None => e.ean = None}

Init ==
  /\ site \in [Products -> SiteEntry]
  /\ barcodes \in [Codes -> Variants \cup {None}]
  /\ alias = [e \in Eans |-> None]
  /\ jobs = [p \in Products |-> "none"]
  /\ attempts = [p \in Products |-> 0]
  /\ images = ImagesAtStart([p \in Products |-> "none"])
  /\ task = [w \in Threads |-> Free]
  /\ edits = 0

FeedNext ==
  \/ \E p \in Products : ImportPage(p) \/ \E named \in BOOLEAN : FetchPage(p, named)
  \/ FailPage

EanNext ==
  \/ \E p \in Products : ClaimEan(p)
  \/ Fetch("ean") \/ RetryEan \/ NotFoundEan \/ ReconcileEan \/ SyncedEan \/ Break("ean")

ImageNext ==
  \/ \E p \in Products : ClaimImage(p)
  \/ Fetch("image") \/ RetryImage \/ NotFoundImage \/ SyncImage \/ Break("image")

EditNext ==
  \/ \E c \in Codes, v \in Variants, p \in Products : AddBarcode(c, v, p)
  \/ \E c \in Codes : DeleteBarcode(c)
  \/ \E p \in Products, v \in Variants : Learn(p, v)
  \/ \E p \in Products : LocateModel(p)
  \/ \E p \in Products, e \in SiteEntry : SiteChanges(p, e)

Next == FeedNext \/ EanNext \/ ImageNext \/ EditNext \/ Restart

Spec == Init /\ [][Next]_vars

-----------------------------------------------------------------------------
JobStatus   == {"none", "pending", "syncing", "synced", "not_found", "failed"}
ImageStatus == JobStatus \ {"failed"}
Task == [stage : {"free", "claimed", "read", "written"},
         product : Products \cup {None}, entry : Entry]

(* Types; no product is asked for more often than EAN_MAX_ATTEMPTS,        *)
(* whatever fails and however often the process restarts.                  *)
TypeOK ==
  /\ site \in [Products -> SiteEntry]
  /\ barcodes \in [Codes -> Variants \cup {None}]
  /\ alias \in [Eans -> Products \cup {None}]
  /\ jobs \in [Products -> JobStatus]
  /\ attempts \in [Products -> 0..MaxAttempts]
  /\ images \in [Products -> ImageStatus]
  /\ task \in [Threads -> Task]
  /\ edits \in 0..MaxEdits

(* A job somebody is working on is never offered again, whatever the feed, *)
(* the other worker and people queue meanwhile.                            *)
OneClaim ==
  /\ ~ Doing("ean", "free") => jobs[task["ean"].product] = "syncing"
  /\ ~ Doing("image", "free") => images[task["image"].product] = "syncing"

(* Until somebody edits the catalog or the site, a product marked 'synced' *)
(* is found by its EAN, also when an old row of the EAN said otherwise.    *)
SyncedIsFound ==
  edits = 0 =>
    \A p \in Products :
      LET e == site[p].ean
      IN  jobs[p] = "synced" /\ e # None /\ (\A q \in Products \ {p} : site[q].ean # e)
            => Resolved(e) = site[p].variant

(* The job a worker is on.                                                 *)
Holder(w) == IF Doing(w, "free") THEN None ELSE task[w].product

ImageQueue ==
  INSTANCE JobQueue WITH Jobs <- Products, status <- images, holder <- Holder("image")
EanQueue ==
  INSTANCE JobQueue WITH Jobs <- Products, status <- jobs, holder <- Holder("ean")

(* What the feed, scans, people, the other worker and restarts do to a     *)
(* table of jobs is what a job queue with one worker allows: nobody takes  *)
(* a job from the worker or settles it, and none that is done comes back.  *)
ImageJobsQueue == ImageQueue!Spec
EanJobsQueue   == EanQueue!Spec

-----------------------------------------------------------------------------
(* Every product's page is read and imported on some later night.          *)
FairSpec ==
  /\ Spec
  /\ \A p \in Products : SF_vars(\E named \in BOOLEAN : FetchPage(p, named))
  /\ \A p \in Products : SF_vars(ImportPage(p))

(* Once edits end, the catalog has what the site publishes, although the   *)
(* workers may still write what they read before.                          *)
CatalogFollowsSite ==
  \A p \in Products : <>[](site[p] # Retired => barcodes[p] = site[p].variant)

(* "Existing SKU/color/size and EAN mappings are corrected" holds no EAN   *)
(* of a product the EAN worker is done with.                               *)
EansFollowSite ==
  \A p \in Products :
    jobs[p] = "synced" /\ site[p].ean # None
      ~> (site[p].ean # None => Resolved(site[p].ean) = site[p].variant)

=============================================================================
