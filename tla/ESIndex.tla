------------------------------- MODULE ESIndex -------------------------------
(***************************************************************************)
(* ESIndex.get_all_docs (src/connectors/es/index.py): the paged reader      *)
(* every control-index scan of the service goes through.  It refreshes the *)
(* index, then issues from/size searches, yielding each page's hits, until *)
(* the number of hits seen reaches the total reported by the last response.*)
(*                                                                         *)
(* The index is a sequence of document ids in the order a match_all search *)
(* returns them (one shard: score ties broken by Lucene doc order).  Other *)
(* writers run between the reader's awaits: an insert appends a document,  *)
(* an update is a Lucene delete + add and so moves the document to the     *)
(* end, a delete removes it.  A write is visible to the next search; since *)
(* it can happen at any point, this covers every timing of the periodic    *)
(* refresh.                                                                *)
(***************************************************************************)
EXTENDS Naturals, Sequences, SequencesExt, Functions

CONSTANTS
    Docs,             \* document ids that may be in the index
    PageSize,         \* page_size argument (DEFAULT_PAGE_SIZE = 100)
    TotalHitsLimit,   \* track_total_hits: hits.total.value is capped here (10000)
    MaxResultWindow,  \* index.max_result_window: from + size above it is refused (10000)
    WriteKinds,       \* which concurrent writes other actors perform
    MaxWrites         \* bound on concurrent writes during one scan

ASSUME ConstantsAssumption ==
    /\ IsFiniteSet(Docs)
    /\ PageSize \in Nat \ {0}
    /\ TotalHitsLimit \in Nat
    /\ MaxResultWindow \in Nat
    /\ WriteKinds \subseteq {"insert", "update", "delete"}
    /\ MaxWrites \in Nat

VARIABLES
    index,    \* visible documents, in search order
    pc,       \* "refresh" | "search" | "done" | "failed" | "raised"
    offset,   \* from_ of the next search
    count,    \* hits accumulated so far
    yielded,  \* what the generator has yielded, in order
    initial,  \* documents in the index when the scan began
    written,  \* documents another actor wrote during the scan
    writes    \* number of concurrent writes so far

vars == <<index, pc, offset, count, yielded, initial, written, writes>>

-----------------------------------------------------------------------------
(* Faulty variants of the definitions below, each what a plausible slip in *)
(* get_all_docs would make of it.                                          *)

\* from_ taken as a 1-based position: the first hit of every page is lost.
HitsSkipFirst == SubSeq(index, offset + 2, IF offset + PageSize < Len(index)
                                           THEN offset + PageSize ELSE Len(index))

\* from_ one position early on every page after the first.
HitsFromPrevious == SubSeq(index, IF offset = 0 THEN 1 ELSE offset,
                           IF offset + PageSize < Len(index)
                              THEN offset + PageSize ELSE Len(index))

-----------------------------------------------------------------------------
(* One search request: the page of hits and the reported total.            *)
Hits == SubSeq(index, offset + 1, IF offset + PageSize < Len(index)
                                  THEN offset + PageSize ELSE Len(index))

\* total read from the length of the page instead of hits.total.value.
ReportedTotalOfPage == Len(Hits)

\* total taken once, from the index as it was when the scan began.
ReportedTotalAtStart == IF Cardinality(initial) < TotalHitsLimit
                        THEN Cardinality(initial) ELSE TotalHitsLimit

ReportedTotal == IF Len(index) < TotalHitsLimit THEN Len(index) ELSE TotalHitsLimit

Init ==
    /\ index \in SetToAllKPermutations(Docs)
    /\ pc = "refresh"
    /\ offset = 0
    /\ count = 0
    /\ yielded = <<>>
    /\ initial = Range(index)
    /\ written = {}
    /\ writes = 0

(* await self.client.indices.refresh(...): outside the try, so any error   *)
(* it raises reaches the caller.                                           *)
RefreshOk ==
    /\ pc = "refresh"
    /\ pc' = "search"
    /\ UNCHANGED <<index, offset, count, yielded, initial, written, writes>>

RefreshRaises ==
    /\ pc = "refresh"
    /\ pc' = "raised"
    /\ UNCHANGED <<index, offset, count, yielded, initial, written, writes>>

\* count += 1 per page instead of len(hits).
SearchPageCountsOne ==
    /\ pc = "search"
    /\ offset + PageSize <= MaxResultWindow
    /\ count' = count + 1
    /\ yielded' = yielded \o Hits
    /\ IF count' >= ReportedTotal
          THEN pc' = "done" /\ offset' = offset
          ELSE pc' = "search" /\ offset' = offset + Len(Hits)
    /\ UNCHANGED <<index, initial, written, writes>>

\* break only when count == total.
SearchPageBreakOnEqual ==
    /\ pc = "search"
    /\ offset + PageSize <= MaxResultWindow
    /\ count' = count + Len(Hits)
    /\ yielded' = yielded \o Hits
    /\ IF count' = ReportedTotal
          THEN pc' = "done" /\ offset' = offset
          ELSE pc' = "search" /\ offset' = offset + Len(Hits)
    /\ UNCHANGED <<index, initial, written, writes>>

(* One iteration of the while loop whose search succeeds: yield the hits,  *)
(* then break if count >= total, else advance offset by len(hits).         *)
SearchPage ==
    /\ pc = "search"
    /\ offset + PageSize <= MaxResultWindow
    /\ count' = count + Len(Hits)
    /\ yielded' = yielded \o Hits
    /\ IF count' >= ReportedTotal
          THEN pc' = "done" /\ offset' = offset
          ELSE pc' = "search" /\ offset' = offset + Len(Hits)
    /\ UNCHANGED <<index, initial, written, writes>>

(* except ApiError: log and return.  A transient HTTP error (5xx, 429...)  *)
(* ends the generator silently ...                                         *)
SearchApiError ==
    /\ pc = "search"
    /\ offset + PageSize <= MaxResultWindow
    /\ pc' = "failed"
    /\ UNCHANGED <<index, offset, count, yielded, initial, written, writes>>

(* ... and so does the 400 that a request past max_result_window always    *)
(* gets.                                                                   *)
SearchRefused ==
    /\ pc = "search"
    /\ offset + PageSize > MaxResultWindow
    /\ pc' = "failed"
    /\ UNCHANGED <<index, offset, count, yielded, initial, written, writes>>

(* A connection error or timeout is a TransportError, not an ApiError: it  *)
(* is not caught and propagates out of the generator.                      *)
SearchTransportError ==
    /\ pc = "search"
    /\ offset + PageSize <= MaxResultWindow
    /\ pc' = "raised"
    /\ UNCHANGED <<index, offset, count, yielded, initial, written, writes>>

-----------------------------------------------------------------------------
(* Other actors writing to the index while the scan is suspended.          *)
Write(d, newIndex) ==
    /\ pc = "search"
    /\ writes < MaxWrites
    /\ index' = newIndex
    /\ written' = written \cup {d}
    /\ writes' = writes + 1
    /\ UNCHANGED <<pc, offset, count, yielded, initial>>

Insert(d) ==
    /\ "insert" \in WriteKinds
    /\ d \notin Range(index)
    /\ Write(d, Append(index, d))

Update(d) ==
    /\ "update" \in WriteKinds
    /\ \E i \in 1..Len(index) :
          /\ index[i] = d
          /\ Write(d, Append(RemoveAt(index, i), d))

Delete(d) ==
    /\ "delete" \in WriteKinds
    /\ \E i \in 1..Len(index) :
          /\ index[i] = d
          /\ Write(d, RemoveAt(index, i))

Reader == \/ RefreshOk \/ RefreshRaises
          \/ SearchPage \/ SearchApiError \/ SearchRefused \/ SearchTransportError

Writer == \E d \in Docs : Insert(d) \/ Update(d) \/ Delete(d)

Next == Reader \/ Writer

(* The consumer keeps iterating and the cluster keeps answering: the steps *)
(* that the loop takes without a failure are weakly fair.  Failures and    *)
(* other writers are possible, never required.                             *)
Fairness == WF_vars(RefreshOk) /\ WF_vars(SearchPage) /\ WF_vars(SearchRefused)

Spec == Init /\ [][Next]_vars /\ Fairness

-----------------------------------------------------------------------------
TypeOK ==
    /\ index \in Seq(Docs)
    /\ pc \in {"refresh", "search", "done", "failed", "raised"}
    /\ offset \in Nat
    /\ yielded \in Seq(Docs)
    /\ count = Len(yielded)
    /\ initial \subseteq Docs
    /\ written \subseteq Docs
    /\ writes \in 0..MaxWrites

(* The generator never yields the same document twice (spec section 8: no  *)
(* duplicates at page boundaries), even while other actors write.          *)
NoDuplicateYield == IsInjective(yielded)

(* When the loop ends by count >= total, every document that was in the   *)
(* index at the start and that nobody touched during the scan was yielded.*)
CompleteScan == pc = "done" => (initial \ written) \subseteq Range(yielded)

(* The while True loop always ends: by break, by return on ApiError, or by *)
(* an exception.                                                           *)
ScanTerminates == <>(pc \in {"done", "failed", "raised"})

(* While only inserts run concurrently, what the generator has yielded is  *)
(* exactly the first len(yielded) documents of the index in search order,  *)
(* the index holds each document once, and from_ of the next search is     *)
(* the number of hits seen.  This is why paging by offset += len(hits) is  *)
(* sound when writers only append.                                         *)
InsertOnlyInv ==
    /\ TypeOK
    /\ IsInjective(index)
    /\ Len(yielded) <= Len(index)
    /\ \A i \in 1..Len(yielded) : yielded[i] = index[i]
    /\ pc \in {"refresh", "search"} => offset = Len(yielded)

(* While only inserts run concurrently, InsertOnlyInv holds, every        *)
(* document the scan began with is still in the index, and once the loop   *)
(* has broken on count >= total, what was yielded reaches the total the    *)
(* index reports: no writer can change the index after the break.          *)
CompleteScanInv ==
    /\ InsertOnlyInv
    /\ initial \subseteq Range(index)
    /\ pc = "done" => Len(yielded) >= ReportedTotal

(* The scan as its consumer sees it: still reading, ended by the break,   *)
(* ended silently by an ApiError, or ended by an exception.               *)
ScanStatus == IF pc \in {"refresh", "search"} THEN "reading"
              ELSE IF pc = "done" THEN "complete" ELSE pc

Scan == INSTANCE PagedScan WITH Items <- Docs, Cap <- TotalHitsLimit,
            coll <- index, out <- yielded, status <- ScanStatus

(* get_all_docs implements the paged-scan contract of spec sections 4.1    *)
(* and 8 while other actors only insert: each page extends what was       *)
(* yielded by the next documents in search order, and the loop breaks only *)
(* once the reported total has been yielded.                               *)
ImplementsPagedScan == Scan!Spec

(* Spec section 4.1: a transport error terminates the sequence cleanly,    *)
(* no exception reaches the caller of get_all_docs.                        *)
NoErrorEscapes == pc # "raised"
=============================================================================
