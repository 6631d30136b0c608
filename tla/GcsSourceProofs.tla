--------------------------- MODULE GcsSourceProofs ---------------------------
(***************************************************************************)
(* Proofs about GcsSource (get_docs with its two retried listings), for    *)
(* every bucket layout, object layout and retry_count.                     *)
(***************************************************************************)
EXTENDS GcsSource, SequenceTheorems, TLAPS

USE LayoutAssumption

-----------------------------------------------------------------------------
(* Lemmas on the operators of the model.                                   *)

(* The elements of a sequence, and of a concatenation.                     *)
LEMMA RangeSeq ==
    ASSUME NEW S, NEW s \in Seq(S)
    PROVE  Range(s) = {s[i] : i \in 1..Len(s)}
<1>1. DOMAIN s = 1..Len(s)
  OBVIOUS
<1>. QED  BY <1>1 DEF Range

LEMMA RangeConcat ==
    ASSUME NEW S, NEW s \in Seq(S), NEW t \in Seq(S)
    PROVE  Range(s \o t) = Range(s) \cup Range(t)
<1>1. /\ s \o t \in Seq(S)
      /\ Len(s \o t) = Len(s) + Len(t)
      /\ \A i \in 1..Len(s) + Len(t) :
            (s \o t)[i] = IF i <= Len(s) THEN s[i] ELSE t[i - Len(s)]
  BY ConcatProperties
<1>2. Range(s \o t) = {(s \o t)[i] : i \in 1..Len(s) + Len(t)}
  BY <1>1, RangeSeq
<1>3. Range(s) = {s[i] : i \in 1..Len(s)} /\ Range(t) = {t[i] : i \in 1..Len(t)}
  BY RangeSeq
<1>4. ASSUME NEW x \in Range(s \o t) PROVE x \in Range(s) \cup Range(t)
  <2>1. PICK i \in 1..Len(s) + Len(t) : x = (s \o t)[i]
    BY <1>2, <1>4
  <2>2. CASE i <= Len(s)
    BY <1>1, <1>3, <2>1, <2>2
  <2>3. CASE ~(i <= Len(s))
    <3>1. i - Len(s) \in 1..Len(t) /\ x = t[i - Len(s)]
      BY <1>1, <2>1, <2>3
    <3>. QED  BY <1>3, <3>1
  <2>. QED  BY <2>2, <2>3
<1>5. ASSUME NEW i \in 1..Len(s) PROVE s[i] \in Range(s \o t)
  BY <1>1, <1>2
<1>6. ASSUME NEW i \in 1..Len(t) PROVE t[i] \in Range(s \o t)
  <2>1. Len(s) + i \in 1..Len(s) + Len(t) /\ (s \o t)[Len(s) + i] = t[i]
    BY <1>1
  <2>. QED  BY <1>2, <2>1
<1>. QED  BY <1>3, <1>4, <1>5, <1>6


(* Every page of either listing is a sequence of ids.                      *)
LEMMA PageTypes ==
    /\ \A k \in 1..Len(BucketPages) : BucketPages[k] \in Seq(Buckets)
    /\ \A b \in Buckets : \A k \in 1..Len(BlobPages[b]) : BlobPages[b][k] \in Seq(Blobs)
OBVIOUS

LEMMA BlobsOfPagesNext ==
    ASSUME NEW b \in Buckets, NEW n \in Nat
    PROVE  /\ BlobsOfPages(b, 0) = {}
           /\ BlobsOfPages(b, n + 1) = BlobsOfPages(b, n) \cup Range(BlobPages[b][n + 1])
<1>1. ASSUME NEW x PROVE
        x \in BlobsOfPages(b, n + 1)
          <=> x \in BlobsOfPages(b, n) \/ x \in Range(BlobPages[b][n + 1])
  <2>1. 1..n + 1 = (1..n) \cup {n + 1}
    OBVIOUS
  <2>. QED  BY <2>1, Zenon DEF BlobsOfPages
<1>. QED  BY <1>1 DEF BlobsOfPages

LEMMA ListedBlobsNext ==
    ASSUME NEW n \in Nat
    PROVE  /\ ListedBlobs(0) = {}
           /\ ListedBlobs(n + 1) = ListedBlobs(n) \cup PageBlobs(BucketPages[n + 1])
<1>1. ASSUME NEW x PROVE
        x \in ListedBlobs(n + 1)
          <=> x \in ListedBlobs(n) \/ x \in PageBlobs(BucketPages[n + 1])
  <2>1. 1..n + 1 = (1..n) \cup {n + 1}
    OBVIOUS
  <2>. QED  BY <2>1, Zenon DEF ListedBlobs
<1>. QED  BY <1>1 DEF ListedBlobs

(* A bucket page is covered once each of its buckets is.                   *)
LEMMA PageBlobsCovered ==
    ASSUME NEW p \in Seq(Buckets), NEW X,
           \A j \in 1..Len(p) : BlobsOf(p[j]) \subseteq X
    PROVE  PageBlobs(p) \subseteq X
<1>1. Range(p) = {p[j] : j \in 1..Len(p)}
  BY RangeSeq
<1>. QED  BY <1>1 DEF PageBlobs

(* The blobs of the listed buckets are those of all the bucket pages.      *)
LEMMA AllBlobsListed == AllBlobs \subseteq ListedBlobs(Len(BucketPages))
<1> SUFFICES ASSUME NEW x \in AllBlobs PROVE x \in ListedBlobs(Len(BucketPages))
  OBVIOUS
<1>1. PICK b \in ListedBuckets : \E q \in Range(BlobPages[b]) : x \in Range(q)
  BY DEF AllBlobs
<1>2. PICK m \in 1..Len(BucketPages) : b \in Range(BucketPages[m])
  <2>1. PICK p \in Range(BucketPages) : b \in Range(p)
    BY <1>1 DEF ListedBuckets
  <2>2. Range(BucketPages) = {BucketPages[i] : i \in 1..Len(BucketPages)}
    BY RangeSeq
  <2>. QED  BY <2>1, <2>2
<1>3. b \in Buckets
  <2>1. BucketPages[m] \in Seq(Buckets)
    BY PageTypes
  <2>2. Range(BucketPages[m]) = {BucketPages[m][i] : i \in 1..Len(BucketPages[m])}
    BY <2>1, RangeSeq
  <2>. QED  BY <1>2, <2>1, <2>2
<1>4. PICK k \in 1..Len(BlobPages[b]) : x \in Range(BlobPages[b][k])
  <2>1. Range(BlobPages[b]) = {BlobPages[b][i] : i \in 1..Len(BlobPages[b])}
    BY <1>3, RangeSeq
  <2>. QED  BY <1>1, <2>1
<1>5. x \in BlobsOf(b)
  BY <1>4 DEF BlobsOf, BlobsOfPages
<1>6. x \in PageBlobs(BucketPages[m])
  BY <1>2, <1>5 DEF PageBlobs
<1>. QED  BY <1>2, <1>6 DEF ListedBlobs
-----------------------------------------------------------------------------
(* ListingInv is inductive: one lemma per step of the two listings.        *)

(* The record types of a listing call, as TypeOK states them.              *)
BCallType == [pages : 0..Len(BucketPages), failures : 0..RetryCount + 1]
LCallType == [pages : Nat, failures : 0..RetryCount + 1]

LEMMA InitInv == Init => ListingInv
<1> SUFFICES ASSUME Init PROVE ListingInv
  OBVIOUS
<1>1. ListedBlobs(0) = {}
  BY ListedBlobsNext
<1>2. TypeOK
  BY DEF Init, TypeOK, NewCall
<1>. QED  BY <1>1, <1>2 DEF Init, ListingInv, NewCall, RaisesOnlyWhenExhausted

LEMMA BucketPageOkInv ==
    ASSUME ListingInv, BucketPageOk
    PROVE  ListingInv'
<1> DEFINE n == bcall.pages
<1>1. /\ pc = "buckets" /\ n \in 0..Len(BucketPages) - 1
      /\ bcall \in BCallType /\ bcall.failures <= RetryCount
      /\ lcall \in LCallType /\ lcall.failures <= RetryCount
      /\ ListedBlobs(n) \subseteq Range(out)
  BY DEF ListingInv, TypeOK, BucketPageOk, BCallType, LCallType
<1>2. /\ bcall' \in BCallType /\ bcall'.pages = n + 1
      /\ bcall'.failures = bcall.failures /\ out' = out
  <2>0. bcall = [pages |-> n, failures |-> bcall.failures]
    BY <1>1 DEF BCallType
  <2>1. bcall' = [pages |-> n + 1, failures |-> bcall.failures]
    BY <2>0 DEF BucketPageOk
  <2>2. n + 1 \in 0..Len(BucketPages)
    BY <1>1
  <2>4. bcall.failures \in 0..RetryCount + 1
    BY <1>1 DEF BCallType
  <2>3. out' = out
    BY DEF BucketPageOk
  <2>. QED  BY <2>1, <2>2, <2>3, <2>4 DEF BCallType
<1>3. BucketPages[n + 1] \in Seq(Buckets)
  BY <1>1, PageTypes
<1>4. ListedBlobs(n + 1) = ListedBlobs(n) \cup PageBlobs(BucketPages[n + 1])
  BY <1>1, ListedBlobsNext
<1>5. CASE BucketPages[n + 1] = << >>
  <2>1. PageBlobs(BucketPages[n + 1]) = {}
    BY <1>5 DEF PageBlobs, Range
  <2>2. UNCHANGED <<pc, bpos, lcall>>
    BY <1>5 DEF BucketPageOk
  <2>. QED  BY <1>1, <1>2, <1>4, <2>1, <2>2
            DEF ListingInv, TypeOK, BCallType, LCallType, RaisesOnlyWhenExhausted
<1>6. CASE BucketPages[n + 1] # << >>
  <2>1. pc' = "blobs" /\ bpos' = 1 /\ lcall' = NewCall
    BY <1>6 DEF BucketPageOk
  <2>2. BucketPage' = BucketPages[n + 1] /\ Len(BucketPage') >= 1
    BY <1>2, <1>3, <1>6 DEF BucketPage
  <2>3. CurrentBucket' \in Buckets
    BY <1>3, <2>1, <2>2 DEF CurrentBucket
  <2>4. BlobsOfPages(CurrentBucket', 0) = {}
    BY <2>3, BlobsOfPagesNext
  <2>5. TypeOK'
    BY <1>1, <1>2, <2>1 DEF ListingInv, TypeOK, NewCall, BCallType
  <2>6. /\ bcall'.pages \in 1..Len(BucketPages)
        /\ bpos' \in 1..Len(BucketPage')
        /\ lcall'.pages <= Len(BlobPages[CurrentBucket'])
    BY <1>1, <1>2, <2>1, <2>2 DEF NewCall
  <2>7. ListedBlobs(bcall'.pages - 1) \subseteq Range(out')
    BY <1>1, <1>2
  <2>8. \A j \in 1..bpos' - 1 : BlobsOf(BucketPage'[j]) \subseteq Range(out')
    BY <2>1
  <2>9. BlobsOfPages(CurrentBucket', lcall'.pages) \subseteq Range(out')
    BY <2>1, <2>4 DEF NewCall
  <2>10. pc' = "blobs" /\ bcall'.failures <= RetryCount /\ lcall'.failures <= RetryCount
    BY <1>1, <1>2, <2>1 DEF NewCall
  <2>. QED  BY <2>5, <2>6, <2>7, <2>8, <2>9, <2>10
            DEF ListingInv, RaisesOnlyWhenExhausted
<1>. QED  BY <1>5, <1>6

LEMMA BucketFailInv ==
    ASSUME ListingInv, BucketFail
    PROVE  ListingInv'
<1>1. /\ pc = "buckets" /\ bcall \in [pages : 0..Len(BucketPages), failures : 0..RetryCount]
      /\ lcall \in LCallType /\ lcall.failures <= RetryCount
  BY DEF ListingInv, TypeOK, BucketFail, LCallType
<1>2. /\ bcall' \in BCallType /\ bcall'.pages = 0
      /\ Exhausted(bcall) <=> bcall'.failures = RetryCount + 1
      /\ ~Exhausted(bcall) => bcall'.failures <= RetryCount
  <2>1. bcall' = [pages |-> 0, failures |-> bcall.failures + 1]
    BY DEF BucketFail, Retry
  <2>2. 0 \in 0..Len(BucketPages) /\ bcall.failures + 1 \in 0..RetryCount + 1
    BY <1>1
  <2>3. bcall' \in BCallType
    BY <2>1, <2>2, Zenon DEF BCallType
  <2>4. bcall.failures \in 0..RetryCount /\ bcall'.failures = bcall.failures + 1
    BY <1>1, <2>1
  <2>5. bcall'.pages = 0
    BY <2>1
  <2>6. Exhausted(bcall) <=> bcall'.failures = RetryCount + 1
    BY <2>4 DEF Exhausted
  <2>7. ~Exhausted(bcall) => bcall'.failures <= RetryCount
    BY <2>4 DEF Exhausted
  <2>. QED  BY <2>3, <2>5, <2>6, <2>7
<1>3. ListedBlobs(0) = {}
  BY ListedBlobsNext
<1>4. UNCHANGED <<bpos, lcall, out>> /\ pc' = IF Exhausted(bcall) THEN "raised" ELSE pc
  BY DEF BucketFail
<1>5. TypeOK'
  BY <1>1, <1>2, <1>4 DEF ListingInv, TypeOK, LCallType, BCallType
<1>6. CASE Exhausted(bcall)
  BY <1>2, <1>4, <1>5, <1>6 DEF ListingInv, RaisesOnlyWhenExhausted
<1>7. CASE ~Exhausted(bcall)
  BY <1>1, <1>2, <1>3, <1>4, <1>5, <1>7 DEF ListingInv, RaisesOnlyWhenExhausted
<1>. QED  BY <1>6, <1>7

LEMMA BucketListEndInv ==
    ASSUME ListingInv, BucketListEnd
    PROVE  ListingInv'
<1>1. pc = "buckets" /\ bcall.pages = Len(BucketPages)
      /\ pc' = "done" /\ UNCHANGED <<bcall, bpos, lcall, out>>
  BY DEF BucketListEnd
<1>. QED  BY <1>1 DEF ListingInv, TypeOK, RaisesOnlyWhenExhausted
(* While the blob listing runs, the current bucket is a bucket and its     *)
(* object pages are sequences of blobs.                                    *)
LEMMA CurrentBucketType ==
    ASSUME ListingInv, pc = "blobs"
    PROVE  /\ BucketPage \in Seq(Buckets)
           /\ CurrentBucket \in Buckets
           /\ \A k \in 1..Len(BlobPages[CurrentBucket]) :
                 BlobPages[CurrentBucket][k] \in Seq(Blobs)
<1>1. BucketPage \in Seq(Buckets) /\ bpos \in 1..Len(BucketPage)
  BY PageTypes DEF ListingInv, BucketPage
<1>2. CurrentBucket \in Buckets
  BY <1>1 DEF CurrentBucket
<1>. QED  BY <1>1, <1>2, PageTypes

LEMMA BlobPageOkInv ==
    ASSUME ListingInv, BlobPageOk
    PROVE  ListingInv'
<1> DEFINE cb == CurrentBucket
           m == lcall.pages
           page == BlobPages[cb][m + 1]
<1>1. /\ pc = "blobs" /\ m \in Nat /\ m < Len(BlobPages[cb])
      /\ out \in Seq(Blobs) /\ lcall \in LCallType
  BY DEF ListingInv, TypeOK, BlobPageOk, LCallType
<1>2. cb \in Buckets /\ page \in Seq(Blobs)
  BY <1>1, CurrentBucketType
<1>3. /\ out' = out \o page
      /\ lcall' = [pages |-> m + 1, failures |-> lcall.failures]
      /\ UNCHANGED <<pc, bcall, bpos>>
  BY <1>1 DEF BlobPageOk, LCallType
<1>4. out' \in Seq(Blobs) /\ Range(out') = Range(out) \cup Range(page)
  BY <1>1, <1>2, <1>3, RangeConcat, ConcatProperties
<1>5. BlobsOfPages(cb, m + 1) = BlobsOfPages(cb, m) \cup Range(page)
  BY <1>1, <1>2, BlobsOfPagesNext
<1>6. CurrentBucket' = cb /\ BucketPage' = BucketPage
  BY <1>3 DEF CurrentBucket, BucketPage
<1>7. TypeOK'
  <2>1. TypeOK
    BY DEF ListingInv
  <2>2. lcall' \in [pages : Nat, failures : 0..RetryCount + 1]
    BY <1>1, <1>3 DEF LCallType
  <2>. QED  BY <1>3, <1>4, <2>1, <2>2 DEF TypeOK
<1>8. BlobsOfPages(CurrentBucket', lcall'.pages) \subseteq Range(out')
  <2>1. BlobsOfPages(cb, m) \subseteq Range(out)
    BY <1>1 DEF ListingInv
  <2>. QED  BY <1>3, <1>4, <1>5, <1>6, <2>1
<1>9. /\ ListedBlobs(bcall'.pages - 1) \subseteq Range(out')
      /\ \A j \in 1..bpos' - 1 : BlobsOf(BucketPage'[j]) \subseteq Range(out')
  BY <1>1, <1>3, <1>4, <1>6 DEF ListingInv
<1>10. lcall'.pages <= Len(BlobPages[CurrentBucket'])
  BY <1>1, <1>3, <1>6
<1>. QED  BY <1>1, <1>3, <1>6, <1>7, <1>8, <1>9, <1>10
          DEF ListingInv, RaisesOnlyWhenExhausted

LEMMA BlobFailInv ==
    ASSUME ListingInv, BlobFail
    PROVE  ListingInv'
<1>1. /\ pc = "blobs" /\ lcall \in [pages : Nat, failures : 0..RetryCount]
      /\ bcall \in BCallType /\ bcall.failures <= RetryCount
  BY DEF ListingInv, TypeOK, BlobFail, BCallType
<1>2. /\ lcall' = [pages |-> 0, failures |-> lcall.failures + 1]
      /\ pc' = IF Exhausted(lcall) THEN "raised" ELSE pc
      /\ UNCHANGED <<bcall, bpos, out>>
  BY DEF BlobFail, Retry
<1>3. /\ lcall' \in LCallType
      /\ Exhausted(lcall) <=> lcall'.failures = RetryCount + 1
      /\ ~Exhausted(lcall) => lcall'.failures <= RetryCount
  <2>1. lcall.failures \in 0..RetryCount
    BY <1>1
  <2>. QED  BY <1>2, <2>1 DEF LCallType, Exhausted
<1>4. TypeOK'
  BY <1>1, <1>2, <1>3 DEF ListingInv, TypeOK, BCallType
<1>5. CASE Exhausted(lcall)
  BY <1>2, <1>3, <1>4, <1>5 DEF ListingInv, RaisesOnlyWhenExhausted
<1>6. CASE ~Exhausted(lcall)
  <2>1. CurrentBucket' = CurrentBucket /\ BucketPage' = BucketPage
    BY <1>2 DEF CurrentBucket, BucketPage
  <2>2. BlobsOfPages(CurrentBucket', lcall'.pages) = {}
    BY <1>1, <1>2, <2>1, CurrentBucketType, BlobsOfPagesNext
  <2>3. lcall'.pages <= Len(BlobPages[CurrentBucket'])
    BY <1>1, <1>2, <2>1, CurrentBucketType
  <2>. QED  BY <1>1, <1>2, <1>3, <1>4, <1>6, <2>1, <2>2, <2>3
            DEF ListingInv, RaisesOnlyWhenExhausted
<1>. QED  BY <1>5, <1>6
(* The blob listing of the current bucket ends: its blobs are all yielded, *)
(* so either the next bucket starts, or the whole page is covered.         *)
LEMMA BlobListEndInv ==
    ASSUME ListingInv, BlobListEnd
    PROVE  ListingInv'
<1>1. /\ pc = "blobs" /\ lcall.pages = Len(BlobPages[CurrentBucket])
      /\ bcall.pages \in 1..Len(BucketPages) /\ bpos \in 1..Len(BucketPage)
      /\ UNCHANGED <<bcall, out>>
  BY DEF ListingInv, BlobListEnd
<1>2. BucketPage \in Seq(Buckets) /\ CurrentBucket \in Buckets
  BY <1>1, CurrentBucketType
<1>3. \A j \in 1..bpos : BlobsOf(BucketPage[j]) \subseteq Range(out)
  <2> SUFFICES ASSUME NEW j \in 1..bpos PROVE BlobsOf(BucketPage[j]) \subseteq Range(out)
    OBVIOUS
  <2>1. CASE j = bpos
    BY <1>1, <2>1 DEF ListingInv, BlobsOf, CurrentBucket
  <2>2. CASE j # bpos
    <3>1. j \in 1..bpos - 1
      BY <1>1, <2>2
    <3>. QED  BY <1>1, <3>1 DEF ListingInv
  <2>. QED  BY <2>1, <2>2
<1>4. BucketPage' = BucketPage
  BY <1>1 DEF BucketPage
<1>5. CASE bpos < Len(BucketPage)
  <2>1. bpos' = bpos + 1 /\ lcall' = NewCall /\ pc' = "blobs"
    BY <1>1, <1>5 DEF BlobListEnd
  <2>2. CurrentBucket' \in Buckets
    BY <1>2, <1>4, <1>1, <1>5, <2>1 DEF CurrentBucket
  <2>3. BlobsOfPages(CurrentBucket', lcall'.pages) = {}
    BY <2>1, <2>2, BlobsOfPagesNext DEF NewCall
  <2>4. TypeOK'
    BY <1>1, <2>1 DEF ListingInv, TypeOK, NewCall
  <2>5. /\ bpos' \in 1..Len(BucketPage')
        /\ lcall'.pages <= Len(BlobPages[CurrentBucket'])
        /\ \A j \in 1..bpos' - 1 : BlobsOf(BucketPage'[j]) \subseteq Range(out')
    BY <1>1, <1>3, <1>4, <1>5, <2>1 DEF NewCall
  <2>. QED  BY <1>1, <2>1, <2>3, <2>4, <2>5
            DEF ListingInv, NewCall, RaisesOnlyWhenExhausted
<1>6. CASE ~(bpos < Len(BucketPage))
  <2>1. pc' = "buckets" /\ UNCHANGED <<bpos, lcall>>
    BY <1>1, <1>6 DEF BlobListEnd
  <2>2. PageBlobs(BucketPage) \subseteq Range(out)
    <3>1. \A j \in 1..Len(BucketPage) : BlobsOf(BucketPage[j]) \subseteq Range(out)
      BY <1>1, <1>3, <1>6
    <3>. QED  BY <1>2, <3>1, PageBlobsCovered
  <2>3. ListedBlobs(bcall.pages) = ListedBlobs(bcall.pages - 1) \cup PageBlobs(BucketPage)
    <3>1. bcall.pages - 1 \in Nat /\ bcall.pages = (bcall.pages - 1) + 1
      BY <1>1
    <3>. QED  BY <3>1, ListedBlobsNext DEF BucketPage
  <2>4. ListedBlobs(bcall'.pages) \subseteq Range(out')
    BY <1>1, <2>2, <2>3 DEF ListingInv
  <2>. QED  BY <1>1, <2>1, <2>4 DEF ListingInv, TypeOK, RaisesOnlyWhenExhausted
<1>. QED  BY <1>5, <1>6

LEMMA NextInv ==
    ASSUME ListingInv, [Next]_vars
    PROVE  ListingInv'
<1>1. CASE UNCHANGED vars
  BY <1>1 DEF vars, ListingInv, TypeOK, RaisesOnlyWhenExhausted, BucketPage,
              CurrentBucket
<1>. QED  BY <1>1, BucketPageOkInv, BucketFailInv, BucketListEndInv,
             BlobPageOkInv, BlobFailInv, BlobListEndInv
          DEF Next, BucketStep, BlobStep

(* ListingInv holds in every state of get_docs: a running listing has    *)
(* failed at most retry_count times, and every blob of the pages already   *)
(* passed (bucket pages, and the current bucket's blob pages) has been     *)
(* yielded, whatever requests failed and were retried.                     *)
THEOREM ListingInvHolds == Spec => []ListingInv
BY InitInv, NextInv, PTL DEF Spec

(* get_docs keeps a well-typed state: page counts within the listing, and *)
(* retry counters within retry_count + 1, however the requests fail.       *)
THEOREM TypeCorrect == Spec => []TypeOK
<1>1. ListingInv => TypeOK
  BY DEF ListingInv
<1>. QED  BY InitInv, NextInv, <1>1, PTL DEF Spec

(* get_docs raises only once the failing listing has spent its retry       *)
(* budget, for every retry_count and every layout of pages.                *)
THEOREM RaisesOnlyWhenExhaustedHolds == Spec => []RaisesOnlyWhenExhausted
<1>1. ListingInv => RaisesOnlyWhenExhausted
  BY DEF ListingInv
<1>. QED  BY InitInv, NextInv, <1>1, PTL DEF Spec

(* When get_docs returns normally it has yielded every blob of every      *)
(* listed bucket, for every layout of pages and however many requests     *)
(* failed and were retried before.                                         *)
THEOREM CompleteListingHolds == Spec => []CompleteListing
<1>1. ListingInv => CompleteListing
  BY AllBlobsListed DEF ListingInv, CompleteListing
<1>. QED  BY InitInv, NextInv, <1>1, PTL DEF Spec
=============================================================================
