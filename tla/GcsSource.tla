------------------------------ MODULE GcsSource ------------------------------
(***************************************************************************)
(* GoogleCloudStorageDataSource.get_docs (src/connectors/sources/gcs.py):  *)
(* the bucket listing and, for every bucket of every page, the blob        *)
(* listing, each an _api_call(full_response=True) generator with its own  *)
(* retry loop.  A request of a listing (discovery and the first page, or a *)
(* next page) may fail; the except branch counts the failure and, while    *)
(* the budget lasts, starts the listing again from its first page.         *)
(*                                                                         *)
(* A listing is a call record: pages delivered in the current attempt and  *)
(* failures so far (retry_counter).  The consumer of get_docs is the bulk  *)
(* coordinator; "out" is the sequence of blob documents it receives.       *)
(***************************************************************************)
EXTENDS Naturals, Sequences, SequencesExt, Functions

CONSTANTS
    Buckets,      \* bucket ids
    Blobs,        \* blob ids
    BucketPages,  \* pages of buckets.list: a sequence of sequences of buckets
    BlobPages,    \* BlobPages[b]: pages of objects.list for bucket b
    RetryCount    \* configuration["retry_count"] (DEFAULT_RETRY_COUNT = 3)

ASSUME LayoutAssumption ==
    /\ BucketPages \in Seq(Seq(Buckets)) /\ Len(BucketPages) >= 1
    /\ BlobPages \in [Buckets -> Seq(Seq(Blobs))]
    /\ \A b \in Buckets : Len(BlobPages[b]) >= 1
    /\ RetryCount \in Nat

VARIABLES
    pc,     \* "buckets" | "blobs" | "done" | "raised"
    bcall,  \* the buckets.list call: [pages, failures]
    bpos,   \* position of the current bucket in the current bucket page
    lcall,  \* the objects.list call of the current bucket: [pages, failures]
    out     \* blob documents yielded by get_docs, in order

vars == <<pc, bcall, bpos, lcall, out>>

NewCall == [pages |-> 0, failures |-> 0]

BucketPage == BucketPages[bcall.pages]

CurrentBucket == BucketPage[bpos]

-----------------------------------------------------------------------------
(* Faulty variants of Exhausted, each what a plausible slip in the     *)
(* except branch would make of it.                                        *)

\* raise when retry_counter >= retry_count: one retry fewer.
ExhaustedEarly(c) == c.failures + 1 >= RetryCount

\* raise when retry_counter > retry_count + 1: one retry more.
ExhaustedLate(c) == c.failures + 1 > RetryCount + 1

(* The except Exception branch of _api_call for call c: count the failure, *)
(* raise once the budget is spent, otherwise start the listing again.      *)
Retry(c) == [pages |-> 0, failures |-> c.failures + 1]

Exhausted(c) == c.failures + 1 > RetryCount

Init ==
    /\ pc = "buckets"
    /\ bcall = NewCall
    /\ bpos = 0
    /\ lcall = NewCall
    /\ out = <<>>

(* A bucket page arrives and is yielded; get_docs skips a page with no     *)
(* items and otherwise starts on its first bucket.                         *)
BucketPageOk ==
    /\ pc = "buckets"
    /\ bcall.pages < Len(BucketPages)
    /\ bcall' = [bcall EXCEPT !.pages = @ + 1]
    /\ IF BucketPages[bcall.pages + 1] = <<>>
          THEN UNCHANGED <<pc, bpos, lcall>>
          ELSE pc' = "blobs" /\ bpos' = 1 /\ lcall' = NewCall
    /\ UNCHANGED out

BucketFail ==
    /\ pc = "buckets"
    /\ bcall.pages < Len(BucketPages)
    /\ bcall' = Retry(bcall)
    /\ pc' = IF Exhausted(bcall) THEN "raised" ELSE pc
    /\ UNCHANGED <<bpos, lcall, out>>

\* the listing is taken to end one page early.
BucketListEndEarly ==
    /\ pc = "buckets"
    /\ bcall.pages = Len(BucketPages) - 1
    /\ pc' = "done"
    /\ UNCHANGED <<bcall, bpos, lcall, out>>

\* the end of the listing is looked for one page too late.
BucketListEndLate ==
    /\ pc = "buckets"
    /\ bcall.pages = Len(BucketPages) + 1
    /\ pc' = "done"
    /\ UNCHANGED <<bcall, bpos, lcall, out>>

(* No next page: the listing breaks out of its loop and get_docs returns.  *)
BucketListEnd ==
    /\ pc = "buckets"
    /\ bcall.pages = Len(BucketPages)
    /\ pc' = "done"
    /\ UNCHANGED <<bcall, bpos, lcall, out>>

(* A blob page arrives; every blob of it is yielded as a document.         *)
BlobPageOk ==
    /\ pc = "blobs"
    /\ lcall.pages < Len(BlobPages[CurrentBucket])
    /\ out' = out \o BlobPages[CurrentBucket][lcall.pages + 1]
    /\ lcall' = [lcall EXCEPT !.pages = @ + 1]
    /\ UNCHANGED <<pc, bcall, bpos>>

BlobFail ==
    /\ pc = "blobs"
    /\ lcall.pages < Len(BlobPages[CurrentBucket])
    /\ lcall' = Retry(lcall)
    /\ pc' = IF Exhausted(lcall) THEN "raised" ELSE pc
    /\ UNCHANGED <<bcall, bpos, out>>

(* The blob listing of a bucket ends: next bucket of the page, or back to  *)
(* the suspended bucket listing.                                           *)
BlobListEnd ==
    /\ pc = "blobs"
    /\ lcall.pages = Len(BlobPages[CurrentBucket])
    /\ IF bpos < Len(BucketPage)
          THEN bpos' = bpos + 1 /\ lcall' = NewCall /\ pc' = pc
          ELSE pc' = "buckets" /\ UNCHANGED <<bpos, lcall>>
    /\ UNCHANGED <<bcall, out>>

BucketStep == BucketPageOk \/ BucketFail \/ BucketListEnd

BlobStep == BlobPageOk \/ BlobFail \/ BlobListEnd

Next == BucketStep \/ BlobStep

(* Every awaited request completes, with a page or with an exception, and  *)
(* the consumer keeps iterating: whichever listing is active makes a step. *)
Spec == Init /\ [][Next]_vars /\ WF_vars(BucketStep) /\ WF_vars(BlobStep)

-----------------------------------------------------------------------------
TypeOK ==
    /\ pc \in {"buckets", "blobs", "done", "raised"}
    /\ bcall \in [pages : 0..Len(BucketPages), failures : 0..RetryCount + 1]
    /\ lcall \in [pages : Nat, failures : 0..RetryCount + 1]
    /\ bpos \in Nat
    /\ out \in Seq(Blobs)

ListedBuckets == UNION {Range(p) : p \in Range(BucketPages)}

AllBlobs == UNION {Range(q) : q \in UNION {Range(BlobPages[b]) : b \in ListedBuckets}}

(* get_docs yields every blob of every listed bucket at most once, even    *)
(* when a listing request fails and is retried.                            *)
NoDuplicateDoc == IsInjective(out)

(* When get_docs returns normally, every blob of every listed bucket was   *)
(* yielded.                                                                *)
CompleteListing == pc = "done" => AllBlobs \subseteq Range(out)

(* get_docs raises only after the failing listing has used its whole       *)
(* budget: retry_count retries after the first failure.                    *)
RaisesOnlyWhenExhausted ==
    pc = "raised" => RetryCount + 1 \in {bcall.failures, lcall.failures}

(* The blobs of bucket b on its first n object pages, of all its pages,   *)
(* of the buckets of bucket page p, and of the first n bucket pages.       *)
BlobsOfPages(b, n) == UNION {Range(BlobPages[b][k]) : k \in 1..n}

BlobsOf(b) == BlobsOfPages(b, Len(BlobPages[b]))

PageBlobs(p) == UNION {BlobsOf(b) : b \in Range(p)}

ListedBlobs(n) == UNION {PageBlobs(BucketPages[k]) : k \in 1..n}

(* What get_docs has yielded covers every listing step taken in the       *)
(* current attempts: the bucket pages delivered, the buckets of the       *)
(* current page already listed, and the object pages of the current       *)
(* bucket.  A retry restarts a listing from page 0 and so keeps it true.   *)
(* A running listing has not spent its budget.                             *)
ListingInv ==
    /\ TypeOK
    /\ pc \in {"buckets", "blobs"} =>
          bcall.failures <= RetryCount /\ lcall.failures <= RetryCount
    /\ pc = "buckets" => ListedBlobs(bcall.pages) \subseteq Range(out)
    /\ pc = "blobs" =>
          /\ bcall.pages \in 1..Len(BucketPages)
          /\ bpos \in 1..Len(BucketPage)
          /\ lcall.pages <= Len(BlobPages[CurrentBucket])
          /\ ListedBlobs(bcall.pages - 1) \subseteq Range(out)
          /\ \A j \in 1..bpos - 1 : BlobsOf(BucketPage[j]) \subseteq Range(out)
          /\ BlobsOfPages(CurrentBucket, lcall.pages) \subseteq Range(out)
    /\ pc = "done" => ListedBlobs(Len(BucketPages)) \subseteq Range(out)
    /\ RaisesOnlyWhenExhausted

(* get_docs always ends, returning or raising, however the requests fail. *)
GetDocsTerminates == <>(pc \in {"done", "raised"})
=============================================================================
