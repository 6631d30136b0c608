---------------------------- MODULE ESIndexProofs ----------------------------
(***************************************************************************)
(* Proofs about the paged reader ESIndex.get_all_docs, for every index     *)
(* size, page size, result window and total-hits limit.                    *)
(***************************************************************************)
EXTENDS ESIndex, SequenceTheorems, FiniteSetTheorems, TLAPS

USE ConstantsAssumption

-----------------------------------------------------------------------------
(* Lemmas on the sequence operators of the model.                          *)

(* A page of hits is a sequence of documents: positions o+1..hi of s.     *)
LEMMA HitsProperties ==
    ASSUME NEW s \in Seq(Docs), NEW o \in Nat, NEW hi \in Nat, hi <= Len(s)
    PROVE  /\ SubSeq(s, o + 1, hi) \in Seq(Docs)
           /\ Len(SubSeq(s, o + 1, hi)) = IF o <= hi THEN hi - o ELSE 0
           /\ \A i \in 1..hi - o : SubSeq(s, o + 1, hi)[i] = s[o + i]
<1>1. \A i \in o + 1..hi : s[i] \in Docs
  OBVIOUS
<1>. QED  BY <1>1, SubSeqProperties

(* The page a search returns, and its length.                              *)
LEMMA HitsType ==
    ASSUME TypeOK
    PROVE  /\ Hits \in Seq(Docs)
           /\ Len(Hits) = IF offset <= Len(index)
                          THEN (IF offset + PageSize < Len(index)
                                THEN PageSize ELSE Len(index) - offset)
                          ELSE 0
<1> DEFINE hi == IF offset + PageSize < Len(index) THEN offset + PageSize ELSE Len(index)
<1>1. hi \in Nat /\ hi <= Len(index)
  BY DEF TypeOK
<1>2. Hits = SubSeq(index, offset + 1, hi)
  BY DEF Hits
<1>. QED  BY <1>1, <1>2, HitsProperties DEF TypeOK

(* Removing position i of a sequence leaves a sequence of its elements.    *)
LEMMA RemoveAtType ==
    ASSUME NEW s \in Seq(Docs), NEW i \in 1..Len(s)
    PROVE  RemoveAt(s, i) \in Seq(Docs)
<1>1. SubSeq(s, 1, i - 1) \in Seq(Docs)
  BY SubSeqProperties
<1>2. SubSeq(s, i + 1, Len(s)) \in Seq(Docs)
  BY SubSeqProperties
<1>. QED  BY <1>1, <1>2, ConcatProperties DEF RemoveAt

(* Every initial index is a sequence of distinct documents.                *)
LEMMA InitialIndex ==
    ASSUME NEW s \in SetToAllKPermutations(Docs)
    PROVE  s \in Seq(Docs) /\ IsInjective(s)
<1>1. PICK S \in SUBSET Docs : s \in SetToSeqs(S)
  BY DEF SetToAllKPermutations
<1>2. Cardinality(S) \in Nat
  BY FS_Subset, FS_CardinalityType
<1>3. s \in [1..Cardinality(S) -> S] /\ \A i, j \in 1..Cardinality(S) : i # j => s[i] # s[j]
  BY <1>1 DEF SetToSeqs
<1>4. s \in Seq(Docs)
  BY <1>2, <1>3
<1>. QED  BY <1>3, <1>4 DEF IsInjective

-----------------------------------------------------------------------------
(* Type correctness, whatever the concurrent writers do.                   *)

LEMMA InitTypeOK == Init => TypeOK
<1> SUFFICES ASSUME Init PROVE TypeOK
  OBVIOUS
<1>1. index \in Seq(Docs)
  BY InitialIndex DEF Init
<1>2. initial \subseteq Docs
  BY <1>1 DEF Init, Range
<1>. QED  BY <1>1, <1>2 DEF Init, TypeOK

LEMMA SearchPageTypeOK ==
    ASSUME TypeOK, SearchPage
    PROVE  TypeOK'
<1>1. Hits \in Seq(Docs) /\ Len(Hits) \in Nat
  BY HitsType
<1>2. yielded' \in Seq(Docs) /\ Len(yielded') = Len(yielded) + Len(Hits)
  BY <1>1, ConcatProperties DEF SearchPage, TypeOK
<1>. QED  BY <1>1, <1>2 DEF SearchPage, TypeOK

LEMMA WriteTypeOK ==
    ASSUME TypeOK, NEW d \in Docs, Insert(d) \/ Update(d) \/ Delete(d)
    PROVE  TypeOK'
<1>1. index' \in Seq(Docs)
  <2>1. CASE Insert(d)
    BY <2>1, AppendProperties DEF TypeOK, Insert, Write
  <2>2. CASE Update(d)
    <3>1. PICK i \in 1..Len(index) : index' = Append(RemoveAt(index, i), d)
      BY <2>2 DEF Update, Write
    <3>2. RemoveAt(index, i) \in Seq(Docs)
      BY RemoveAtType DEF TypeOK
    <3>. QED  BY <3>1, <3>2, AppendProperties
  <2>3. CASE Delete(d)
    <3>1. PICK i \in 1..Len(index) : index' = RemoveAt(index, i)
      BY <2>3 DEF Delete, Write
    <3>. QED  BY <3>1, RemoveAtType DEF TypeOK
  <2>. QED  BY <2>1, <2>2, <2>3
<1>2. UNCHANGED <<pc, offset, count, yielded, initial>> /\ written' = written \cup {d}
      /\ writes' = writes + 1 /\ writes < MaxWrites
  BY DEF Insert, Update, Delete, Write
<1>. QED  BY <1>1, <1>2 DEF TypeOK

LEMMA NextTypeOK ==
    ASSUME TypeOK, [Next]_vars
    PROVE  TypeOK'
<1>1. CASE RefreshOk \/ RefreshRaises \/ SearchApiError \/ SearchRefused
                     \/ SearchTransportError
  BY <1>1 DEF TypeOK, RefreshOk, RefreshRaises, SearchApiError, SearchRefused,
              SearchTransportError
<1>2. CASE SearchPage
  BY <1>2, SearchPageTypeOK
<1>3. ASSUME NEW d \in Docs, Insert(d) \/ Update(d) \/ Delete(d) PROVE TypeOK'
  BY <1>3, WriteTypeOK
<1>4. CASE UNCHANGED vars
  BY <1>4 DEF TypeOK, vars
<1>. QED  BY <1>1, <1>2, <1>3, <1>4 DEF Next, Reader, Writer

(* get_all_docs keeps its state well typed (hits counted equal hits       *)
(* yielded, writes within their bound) under any interleaving of searches, *)
(* errors and concurrent inserts, updates and deletes.                     *)
THEOREM TypeCorrect == Spec => []TypeOK
<1>. QED  BY InitTypeOK, NextTypeOK, PTL DEF Spec

-----------------------------------------------------------------------------
(* No duplicates when the concurrent writers only insert.                  *)

(* Hypothesis of the theorem: no other actor updates or deletes.           *)
InsertsOnly == WriteKinds \subseteq {"insert"}

(* A prefix of an injective sequence has no repeated element.              *)
LEMMA PrefixInjective ==
    ASSUME NEW s \in Seq(Docs), NEW t \in Seq(Docs), IsInjective(s),
           Len(t) <= Len(s), \A i \in 1..Len(t) : t[i] = s[i]
    PROVE  IsInjective(t)
BY DEF IsInjective

LEMMA InitInsertOnly == Init => InsertOnlyInv
<1> SUFFICES ASSUME Init PROVE InsertOnlyInv
  OBVIOUS
<1>1. TypeOK
  BY InitTypeOK
<1>2. IsInjective(index)
  BY InitialIndex DEF Init
<1>. QED  BY <1>1, <1>2 DEF Init, TypeOK, InsertOnlyInv

(* A search at offset len(yielded) extends the yielded prefix of the index *)
(* by the page it returns.                                                 *)
LEMMA SearchPageInsertOnly ==
    ASSUME InsertOnlyInv, SearchPage
    PROVE  InsertOnlyInv'
<1> DEFINE L == Len(yielded)
           hi == IF offset + PageSize < Len(index) THEN offset + PageSize ELSE Len(index)
<1>1. TypeOK /\ pc = "search" /\ offset = L /\ L <= Len(index)
  BY DEF InsertOnlyInv, SearchPage
<1>2. TypeOK'
  BY <1>1, SearchPageTypeOK
<1>3. hi \in Nat /\ L <= hi /\ hi <= Len(index)
  BY <1>1 DEF TypeOK
<1>4. Hits = SubSeq(index, L + 1, hi)
  BY <1>1 DEF Hits
<1>5. /\ Hits \in Seq(Docs)
      /\ Len(Hits) = hi - L
      /\ \A i \in 1..hi - L : Hits[i] = index[L + i]
  BY <1>1, <1>3, <1>4, HitsProperties DEF TypeOK
<1>6. yielded' = yielded \o Hits /\ index' = index
  BY DEF SearchPage
<1>7. Len(yielded') = hi
  BY <1>1, <1>5, <1>6, ConcatProperties DEF TypeOK
<1>8. \A i \in 1..Len(yielded') : yielded'[i] = index'[i]
  <2> SUFFICES ASSUME NEW i \in 1..hi PROVE yielded'[i] = index[i]
    BY <1>6, <1>7
  <2>1. yielded'[i] = IF i <= L THEN yielded[i] ELSE Hits[i - L]
    BY <1>1, <1>3, <1>5, <1>6, ConcatProperties DEF TypeOK
  <2>. QED  BY <2>1, <1>1, <1>3, <1>5 DEF InsertOnlyInv
<1>9. pc' \in {"refresh", "search"} => offset' = Len(yielded')
  BY <1>1, <1>5, <1>7 DEF SearchPage
<1>. QED  BY <1>2, <1>3, <1>6, <1>7, <1>8, <1>9 DEF InsertOnlyInv

(* An insert appends a document that is not in the index.                  *)
LEMMA InsertInsertOnly ==
    ASSUME InsertOnlyInv, NEW d \in Docs, Insert(d)
    PROVE  InsertOnlyInv'
<1>1. TypeOK'
  BY WriteTypeOK DEF InsertOnlyInv
<1>2. index' = Append(index, d) /\ d \notin Range(index)
      /\ UNCHANGED <<pc, offset, count, yielded, initial>>
  BY DEF Insert, Write
<1>3. index \in Seq(Docs)
  BY DEF InsertOnlyInv, TypeOK
<1>4. /\ Len(index') = Len(index) + 1
      /\ \A i \in 1..Len(index) : index'[i] = index[i]
      /\ index'[Len(index) + 1] = d
  BY <1>2, <1>3, AppendProperties
<1>5. IsInjective(index')
  BY <1>2, <1>3, <1>4 DEF InsertOnlyInv, IsInjective, Range
<1>. QED  BY <1>1, <1>2, <1>3, <1>4, <1>5 DEF InsertOnlyInv, TypeOK

LEMMA NextInsertOnly ==
    ASSUME InsertsOnly, InsertOnlyInv, [Next]_vars
    PROVE  InsertOnlyInv'
<1>1. TypeOK'
  BY NextTypeOK DEF InsertOnlyInv
<1>2. CASE RefreshOk \/ RefreshRaises \/ SearchApiError \/ SearchRefused
                    \/ SearchTransportError
  BY <1>1, <1>2 DEF InsertOnlyInv, RefreshOk, RefreshRaises, SearchApiError,
                    SearchRefused, SearchTransportError
<1>3. CASE SearchPage
  BY <1>3, SearchPageInsertOnly
<1>4. ASSUME NEW d \in Docs, Insert(d) \/ Update(d) \/ Delete(d)
      PROVE  InsertOnlyInv'
  <2>1. ~Update(d) /\ ~Delete(d)
    BY DEF InsertsOnly, Update, Delete
  <2>. QED  BY <1>4, <2>1, InsertInsertOnly
<1>5. CASE UNCHANGED vars
  BY <1>1, <1>5 DEF InsertOnlyInv, vars
<1>. QED  BY <1>2, <1>3, <1>4, <1>5 DEF Next, Reader, Writer

(* With inserts as the only concurrent writes, get_all_docs never yields a *)
(* document twice: the invariant makes the yielded sequence a prefix of an *)
(* index that holds each document once.                                    *)
THEOREM NoDuplicateUnderInserts ==
    ASSUME InsertsOnly
    PROVE  Spec => []NoDuplicateYield
<1>1. InsertOnlyInv => NoDuplicateYield
  BY PrefixInjective DEF InsertOnlyInv, TypeOK, NoDuplicateYield
<1>2. InsertOnlyInv /\ [Next]_vars => InsertOnlyInv'
  BY NextInsertOnly
<1>. QED  BY InitInsertOnly, <1>1, <1>2, PTL DEF Spec
-----------------------------------------------------------------------------
(* Refinement: under inserts, get_all_docs implements PagedScan.           *)

LEMMA InitRefines == Init => Scan!Init
<1> SUFFICES ASSUME Init PROVE Scan!Init
  OBVIOUS
<1>1. index \in Seq(Docs) /\ IsInjective(index)
  BY InitialIndex DEF Init
<1>2. ScanStatus = "reading"
  BY DEF Init, ScanStatus
<1>. QED  BY <1>1, <1>2 DEF Init, Scan!Init, IsInjective, Scan!IsInjective

(* A search at offset len(yielded) yields the next documents of the index, *)
(* and breaks only once count, the length of what was yielded, reaches    *)
(* the reported total.                                                     *)
LEMMA SearchPageRefines ==
    ASSUME InsertOnlyInv, SearchPage
    PROVE  Scan!Yield
<1> DEFINE L == Len(yielded)
           hi == IF offset + PageSize < Len(index) THEN offset + PageSize ELSE Len(index)
<1>1. TypeOK /\ pc = "search" /\ offset = L /\ L <= Len(index)
  BY DEF InsertOnlyInv, SearchPage
<1>2. hi \in L..Len(index)
  BY <1>1 DEF TypeOK
<1>3. yielded' = yielded \o SubSeq(index, L + 1, hi) /\ index' = index
  BY <1>1 DEF SearchPage, Hits
<1>4. \E k \in Len(yielded)..Len(index) :
         yielded' = yielded \o SubSeq(index, Len(yielded) + 1, k)
  BY <1>2, <1>3
<1>5. ScanStatus = "reading" /\ ScanStatus' \in {"reading", "complete"}
  BY <1>1 DEF SearchPage, ScanStatus
<1>6. TypeOK'
  BY <1>1, SearchPageTypeOK
<1>7. ScanStatus' = "complete" => Len(yielded') >= Scan!Total
  BY <1>6 DEF SearchPage, ScanStatus, TypeOK, ReportedTotal, Scan!Total
<1>. QED  BY <1>3, <1>4, <1>5, <1>7 DEF Scan!Yield

LEMMA NextRefines ==
    ASSUME InsertsOnly, InsertOnlyInv, [Next]_vars
    PROVE  [Scan!Next]_Scan!scanVars
<1>1. CASE RefreshOk
  BY <1>1 DEF RefreshOk, ScanStatus, Scan!scanVars
<1>2. CASE RefreshRaises \/ SearchApiError \/ SearchRefused \/ SearchTransportError
  <2>1. Scan!Abort
    BY <1>2 DEF RefreshRaises, SearchApiError, SearchRefused, SearchTransportError,
                ScanStatus, Scan!Abort
  <2>. QED  BY <2>1 DEF Scan!Next
<1>3. CASE SearchPage
  BY <1>3, SearchPageRefines DEF Scan!Next
<1>4. ASSUME NEW d \in Docs, Insert(d) \/ Update(d) \/ Delete(d)
      PROVE  [Scan!Next]_Scan!scanVars
  <2>1. Insert(d)
    BY <1>4 DEF InsertsOnly, Update, Delete
  <2>2. Scan!Add(d)
    BY <2>1 DEF Insert, Write, ScanStatus, Scan!Add, Range, Scan!Range
  <2>. QED  BY <2>2 DEF Scan!Next
<1>5. CASE UNCHANGED vars
  BY <1>5 DEF vars, ScanStatus, Scan!scanVars
<1>. QED  BY <1>1, <1>2, <1>3, <1>4, <1>5 DEF Next, Reader, Writer

(* With inserts as the only concurrent writes, get_all_docs implements the *)
(* paged-scan contract of spec sections 4.1 and 8: every page extends what *)
(* was yielded by the next documents in search order, and the loop breaks *)
(* only once the reported total has been yielded.                          *)
THEOREM RefinesPagedScan ==
    ASSUME InsertsOnly
    PROVE  Spec => ImplementsPagedScan
<1>1. InsertOnlyInv /\ [Next]_vars => InsertOnlyInv'
  BY NextInsertOnly
<1>2. InsertOnlyInv /\ [Next]_vars => [Scan!Next]_Scan!scanVars
  BY NextRefines
<1>. QED  BY InitInsertOnly, InitRefines, <1>1, <1>2, PTL
          DEF Spec, ImplementsPagedScan, Scan!Spec

-----------------------------------------------------------------------------
(* Completeness when the concurrent writers only insert.                   *)

(* An injective sequence of documents is no longer than the set of         *)
(* documents.                                                              *)
LEMMA InjectiveLen ==
    ASSUME NEW s \in Seq(Docs), IsInjective(s)
    PROVE  Len(s) <= Cardinality(Docs)
<1>1. s \in Injection(1..Len(s), Docs)
  BY DEF Injection, IsInjective
<1>2. Cardinality(1..Len(s)) = IF 1 > Len(s) THEN 0 ELSE Len(s) - 1 + 1
  BY FS_Interval
<1>3. Cardinality(1..Len(s)) = Len(s)
  BY <1>2
<1>. QED  BY <1>1, <1>3, FS_Injection

(* Appending keeps every element of a sequence.                            *)
LEMMA RangeAppend ==
    ASSUME NEW s \in Seq(Docs), NEW d \in Docs
    PROVE  Range(s) \subseteq Range(Append(s, d))
<1>1. /\ DOMAIN s = 1..Len(s)
      /\ DOMAIN Append(s, d) = 1..Len(s) + 1
      /\ \A i \in 1..Len(s) : Append(s, d)[i] = s[i]
  OBVIOUS
<1>. QED  BY <1>1 DEF Range

LEMMA InitComplete == Init => CompleteScanInv
<1> SUFFICES ASSUME Init PROVE CompleteScanInv
  OBVIOUS
<1>1. InsertOnlyInv
  BY InitInsertOnly
<1>. QED  BY <1>1 DEF Init, CompleteScanInv

LEMMA NextComplete ==
    ASSUME InsertsOnly, CompleteScanInv, [Next]_vars
    PROVE  CompleteScanInv'
<1>1. InsertOnlyInv /\ TypeOK
  BY DEF CompleteScanInv, InsertOnlyInv
<1>2. InsertOnlyInv' /\ TypeOK'
  BY <1>1, NextInsertOnly DEF InsertOnlyInv
<1>3. CASE RefreshOk \/ RefreshRaises \/ SearchApiError \/ SearchRefused
                    \/ SearchTransportError
  <2>1. UNCHANGED <<index, yielded, initial>> /\ pc' # "done"
    BY <1>3 DEF RefreshOk, RefreshRaises, SearchApiError, SearchRefused,
                SearchTransportError
  <2>. QED  BY <1>2, <2>1 DEF CompleteScanInv
<1>4. CASE SearchPage
  <2>1. UNCHANGED <<index, initial>>
    BY <1>4 DEF SearchPage
  <2>2. pc' = "done" => count' >= ReportedTotal
    BY <1>4 DEF SearchPage
  <2>3. count' = Len(yielded')
    BY <1>2 DEF TypeOK
  <2>4. ReportedTotal' = ReportedTotal
    BY <2>1 DEF ReportedTotal
  <2>. QED  BY <1>2, <2>1, <2>2, <2>3, <2>4 DEF CompleteScanInv
<1>5. ASSUME NEW d \in Docs, Insert(d) \/ Update(d) \/ Delete(d)
      PROVE  CompleteScanInv'
  <2>1. Insert(d)
    BY <1>5 DEF InsertsOnly, Update, Delete
  <2>2. index' = Append(index, d) /\ UNCHANGED <<pc, initial>> /\ pc = "search"
    BY <2>1 DEF Insert, Write
  <2>3. Range(index) \subseteq Range(index')
    BY <1>1, <2>2, RangeAppend DEF TypeOK
  <2>. QED  BY <1>2, <2>2, <2>3 DEF CompleteScanInv
<1>6. CASE UNCHANGED vars
  BY <1>2, <1>6 DEF CompleteScanInv, vars, ReportedTotal
<1>. QED  BY <1>3, <1>4, <1>5, <1>6 DEF Next, Reader, Writer

(* With inserts as the only concurrent writes, the invariant CompleteScanInv*)
(* of get_all_docs holds: the yielded documents are a prefix of the index, *)
(* the documents the scan began with stay in the index, and the break on   *)
(* count >= total comes only once the reported total was yielded.          *)
THEOREM CompleteScanInvHolds ==
    ASSUME InsertsOnly
    PROVE  Spec => []CompleteScanInv
<1>1. CompleteScanInv /\ [Next]_vars => CompleteScanInv'
  BY NextComplete
<1>. QED  BY InitComplete, <1>1, PTL DEF Spec

(* With inserts as the only concurrent writes and an index that fits under *)
(* track_total_hits, a scan of get_all_docs that ends by its break has     *)
(* yielded every document that was in the index when it began (spec        *)
(* section 8).  The cap is needed: run es_total_hits_cap shows the scan    *)
(* truncated when the index is larger than track_total_hits.               *)
THEOREM CompleteScanUnderInserts ==
    ASSUME InsertsOnly, Cardinality(Docs) <= TotalHitsLimit
    PROVE  Spec => []CompleteScan
<1>1. CompleteScanInv => CompleteScan
  <2> SUFFICES ASSUME CompleteScanInv, pc = "done",
                      NEW x \in initial \ written
               PROVE  x \in Range(yielded)
    BY DEF CompleteScan
  <2>1. /\ index \in Seq(Docs) /\ yielded \in Seq(Docs) /\ IsInjective(index)
        /\ Len(yielded) <= Len(index)
        /\ \A i \in 1..Len(yielded) : yielded[i] = index[i]
        /\ Len(yielded) >= ReportedTotal
        /\ x \in Range(index)
    BY DEF CompleteScanInv, InsertOnlyInv, TypeOK
  <2>2. Len(index) <= Cardinality(Docs) /\ Cardinality(Docs) \in Nat
    BY <2>1, InjectiveLen, FS_CardinalityType
  <2>3. Len(yielded) = Len(index)
    BY <2>1, <2>2 DEF ReportedTotal
  <2>4. PICK i \in 1..Len(index) : index[i] = x
    BY <2>1 DEF Range
  <2>. QED  BY <2>1, <2>3, <2>4 DEF Range
<1>2. CompleteScanInv /\ [Next]_vars => CompleteScanInv'
  BY NextComplete
<1>. QED  BY InitComplete, <1>1, <1>2, PTL DEF Spec

=============================================================================
