------------------------- MODULE KibanaPrepareProofs -------------------------
(***************************************************************************)
(* Proofs about kibana.prepare re-run after failures: for every bound on   *)
(* the runs and every prior content of the indices, a run that completes   *)
(* leaves the pipeline and the three indices as upsert_index promises.     *)
(***************************************************************************)
EXTENDS KibanaPrepare, TLAPS

USE PrepareAssumption

-----------------------------------------------------------------------------
(* The call order visits three distinct indices; the seeded documents.     *)
LEMMA OrderFacts ==
    /\ Len(Order) = 3
    /\ Order[1] = "connectors" /\ Order[2] = "jobs" /\ Order[3] = "target"
    /\ \A j \in 1..3 : Order[j] \in Indices
    /\ \A j, k \in 1..3 : j # k => Order[j] # Order[k]
    /\ Indices = {Order[1], Order[2], Order[3]}
    /\ \A i \in Indices : Seed[i] \in 0..1
BY DEF Order, Indices, Seed

LEMMA InitInv == Init => PrepareInv
<1> SUFFICES ASSUME Init PROVE PrepareInv
  OBVIOUS
<1>1. \A i \in Indices : idx[i] = Absent \/
          idx[i] \in [exists : {TRUE}, docs : SUBSET OldDocs, gen : {0}]
  BY DEF Init
<1>2. Absent \in [exists : BOOLEAN, docs : SUBSET Nat, gen : 0..MaxRuns]
  BY DEF Absent
<1>3. [exists : {TRUE}, docs : SUBSET OldDocs, gen : {0}]
        \subseteq [exists : BOOLEAN, docs : SUBSET Nat, gen : 0..MaxRuns]
  <2> SUFFICES ASSUME NEW r \in [exists : {TRUE}, docs : SUBSET OldDocs, gen : {0}]
               PROVE  r \in [exists : BOOLEAN, docs : SUBSET Nat, gen : 0..MaxRuns]
    OBVIOUS
  <2>1. r.docs \in SUBSET OldDocs /\ r.gen = 0 /\ r.exists = TRUE
    OBVIOUS
  <2>2. r.docs \in SUBSET Nat
    BY <2>1, PrepareAssumption
  <2>5. 0 \in 0..MaxRuns
    BY PrepareAssumption
  <2>. QED  BY <2>1, <2>2, <2>5
<1>4. idx \in [Indices -> [exists : BOOLEAN, docs : SUBSET Nat, gen : 0..MaxRuns]]
  <2>1. idx \in [Indices -> {Absent} \cup [exists : {TRUE}, docs : SUBSET OldDocs, gen : {0}]]
    BY DEF Init
  <2>. QED  BY <2>1, <1>2, <1>3
<1>. QED  BY <1>4, OrderFacts DEF Init, PrepareInv, TypeOK

(* The steps that only move pc, or move it with the pipeline.              *)
LEMMA PipelineStepsInv ==
    ASSUME PrepareInv, GetPipeline1 \/ PutDefault \/ GetPipeline2 \/ Exists \/ Fail
    PROVE  PrepareInv'
<1>1. CASE GetPipeline1
  BY <1>1 DEF PrepareInv, TypeOK, GetPipeline1, Reset, Index
<1>2. CASE PutDefault
  BY <1>2 DEF PrepareInv, TypeOK, PutDefault, Reset, Index
<1>3. CASE GetPipeline2
  BY <1>3 DEF PrepareInv, TypeOK, GetPipeline2, Reset, Index
<1>4. CASE Exists
  BY <1>4 DEF PrepareInv, TypeOK, Exists, Reset, Index
<1>5. CASE Fail
  BY <1>5 DEF PrepareInv, TypeOK, Fail, Reset, Index
<1>. QED  BY <1>1, <1>2, <1>3, <1>4, <1>5

(* Deleting or creating the current index leaves the earlier ones alone.   *)
LEMMA DeleteCreateInv ==
    ASSUME PrepareInv, DeleteIndex \/ CreateIndex
    PROVE  PrepareInv'
<1>1. cur \in 1..3 /\ Index = Order[cur] /\ Index \in Indices
  BY OrderFacts DEF PrepareInv, TypeOK, Index
<1>2. \A j \in 1..cur - 1 : Order[j] # Index /\ Order[j] \in Indices
  BY <1>1, OrderFacts
<1>3. CASE DeleteIndex
  <2>1. idx' = [idx EXCEPT ![Index] = Absent] /\ UNCHANGED <<pipeline, run, cur, docId>>
        /\ pc = "delete" /\ pc' = "create"
    BY <1>3 DEF DeleteIndex
  <2>2. TypeOK'
    BY <1>1, <2>1 DEF PrepareInv, TypeOK, Absent
  <2>3. \A j \in 1..cur - 1 : Reset(Order[j])'
    BY <1>2, <2>1 DEF PrepareInv, Reset
  <2>. QED  BY <2>1, <2>2, <2>3 DEF PrepareInv, Index
<1>4. CASE CreateIndex
  <2>1. idx' = [idx EXCEPT ![Index] = [exists |-> TRUE, docs |-> {}, gen |-> run]]
        /\ UNCHANGED <<pipeline, run, cur>> /\ pc = "create" /\ pc' = "index" /\ docId' = 1
    BY <1>4 DEF CreateIndex
  <2>2. TypeOK'
    BY <1>1, <2>1 DEF PrepareInv, TypeOK
  <2>3. \A j \in 1..cur - 1 : Reset(Order[j])'
    BY <1>2, <2>1 DEF PrepareInv, Reset
  <2>4. Seed[Index] \in 0..1
    BY <1>1, OrderFacts
  <2>5. (idx[Index].exists /\ idx[Index].gen = run /\ idx[Index].docs = 1..docId - 1
         /\ docId <= Seed[Index] + 1)'
    BY <1>1, <2>1, <2>4 DEF PrepareInv, TypeOK, Index
  <2>. QED  BY <2>1, <2>2, <2>3, <2>5 DEF PrepareInv
<1>. QED  BY <1>3, <1>4

(* Indexing document doc_id extends the documents to 1..doc_id.            *)
LEMMA IndexDocInv ==
    ASSUME PrepareInv, IndexDoc
    PROVE  PrepareInv'
<1>1. cur \in 1..3 /\ Index = Order[cur] /\ Index \in Indices /\ Seed[Index] \in 0..1
  BY OrderFacts DEF PrepareInv, TypeOK, Index
<1>2. \A j \in 1..cur - 1 : Order[j] # Index /\ Order[j] \in Indices
  BY <1>1, OrderFacts
<1>3. idx' = [idx EXCEPT ![Index].docs = @ \cup {docId}] /\ docId' = docId + 1
      /\ docId <= Seed[Index] /\ pc = "index" /\ UNCHANGED <<pipeline, run, pc, cur>>
  BY DEF IndexDoc
<1>4. docId \in 1..2 /\ idx[Index].docs = 1..docId - 1
      /\ idx[Index].exists /\ idx[Index].gen = run
  BY <1>3 DEF PrepareInv, TypeOK
<1>5. TypeOK'
  <2>1. idx[Index] \in [exists : BOOLEAN, docs : SUBSET Nat, gen : 0..MaxRuns]
    BY <1>1 DEF PrepareInv, TypeOK
  <2>2. idx[Index].docs \cup {docId} \in SUBSET Nat
    BY <1>4, <2>1
  <2>3. [idx[Index] EXCEPT !.docs = idx[Index].docs \cup {docId}]
          \in [exists : BOOLEAN, docs : SUBSET Nat, gen : 0..MaxRuns]
    BY <2>1, <2>2
  <2>4. idx' \in [Indices -> [exists : BOOLEAN, docs : SUBSET Nat, gen : 0..MaxRuns]]
    BY <1>1, <1>3, <2>3 DEF PrepareInv, TypeOK
  <2>5. docId' \in 1..2
    BY <1>1, <1>3, <1>4
  <2>. QED  BY <1>3, <2>4, <2>5 DEF PrepareInv, TypeOK
<1>6. \A j \in 1..cur - 1 : Reset(Order[j])'
  BY <1>2, <1>3 DEF PrepareInv, Reset
<1>7. /\ idx'[Index].exists = idx[Index].exists
      /\ idx'[Index].gen = idx[Index].gen
      /\ idx'[Index].docs = idx[Index].docs \cup {docId}
  BY <1>1, <1>3, Zenon DEF PrepareInv, TypeOK
<1>8. 1..docId - 1 \cup {docId} = 1..docId
  BY <1>4
<1>9. Index' = Index
  BY <1>3 DEF Index
<1>10. /\ idx'[Index].exists /\ idx'[Index].gen = run'
       /\ idx'[Index].docs = 1..docId' - 1 /\ docId' <= Seed[Index] + 1
  <2>1. idx'[Index].exists /\ idx'[Index].gen = run'
    BY <1>3, <1>4, <1>7
  <2>2. docId' - 1 = docId
    BY <1>3, <1>4
  <2>3. idx'[Index].docs = 1..docId' - 1
    BY <1>4, <1>7, <1>8, <2>2
  <2>4. docId' <= Seed[Index] + 1
    BY <1>1, <1>3, <1>4
  <2>. QED  BY <2>1, <2>3, <2>4
<1>11. (idx[Index].exists /\ idx[Index].gen = run /\ idx[Index].docs = 1..docId - 1
        /\ docId <= Seed[Index] + 1)'
  BY <1>9, <1>10
<1>. QED  BY <1>3, <1>5, <1>6, <1>11 DEF PrepareInv

(* When the loop ends the current index is reset: doc_id = len(docs) + 1.  *)
LEMMA UpsertDoneInv ==
    ASSUME PrepareInv, UpsertDone
    PROVE  PrepareInv'
<1>1. cur \in 1..3 /\ Index = Order[cur] /\ Index \in Indices /\ Seed[Index] \in 0..1
  BY OrderFacts DEF PrepareInv, TypeOK, Index
<1>2. pc = "index" /\ docId > Seed[Index] /\ UNCHANGED <<pipeline, idx, run, docId>>
  BY DEF UpsertDone
<1>3. Reset(Index)
  BY <1>1, <1>2 DEF PrepareInv, TypeOK, Reset
<1>4. \A j \in 1..cur : Reset(Order[j])
  BY <1>1, <1>2, <1>3 DEF PrepareInv, Index
<1>5. CASE cur < 3
  <2>1. pc' = "exists" /\ cur' = cur + 1
    BY <1>2, <1>5, OrderFacts DEF UpsertDone
  <2>2. TypeOK'
    BY <1>1, <1>2, <1>5, <2>1, OrderFacts DEF PrepareInv, TypeOK
  <2>3. \A j \in 1..cur' - 1 : Reset(Order[j])'
    <3> SUFFICES ASSUME NEW j \in 1..cur PROVE Reset(Order[j])'
      BY <2>1, <1>1
    <3>1. Reset(Order[j])
      BY <1>4
    <3>. QED  BY <1>2, <3>1 DEF Reset
  <2>4. pipeline' # "none"
    BY <1>2 DEF PrepareInv
  <2>. QED  BY <2>1, <2>2, <2>3, <2>4 DEF PrepareInv
<1>6. CASE cur = 3
  <2>1. pc' = "done" /\ cur' = cur
    BY <1>2, <1>6, OrderFacts DEF UpsertDone
  <2>. QED  BY <1>1, <1>2, <1>4, <1>6, <2>1, OrderFacts DEF PrepareInv, TypeOK, Reset, Index
<1>. QED  BY <1>1, <1>5, <1>6

LEMMA RerunInv ==
    ASSUME PrepareInv, Rerun
    PROVE  PrepareInv'
<1>1. run' = run + 1 /\ run' \in 1..MaxRuns /\ UNCHANGED <<pipeline, idx>>
      /\ pc' = "get1" /\ cur' = 1 /\ docId' = 1
  BY DEF Rerun, PrepareInv, TypeOK
<1>2. idx \in [Indices -> [exists : BOOLEAN, docs : SUBSET Nat, gen : 0..MaxRuns]]
  BY DEF PrepareInv, TypeOK
<1>. QED  BY <1>1, <1>2 DEF PrepareInv, TypeOK

LEMMA NextInv ==
    ASSUME PrepareInv, [Next]_vars
    PROVE  PrepareInv'
<1>1. CASE GetPipeline1 \/ PutDefault \/ GetPipeline2 \/ Exists \/ Fail
  BY <1>1, PipelineStepsInv
<1>2. CASE DeleteIndex \/ CreateIndex
  BY <1>2, DeleteCreateInv
<1>3. CASE IndexDoc
  BY <1>3, IndexDocInv
<1>4. CASE UpsertDone
  BY <1>4, UpsertDoneInv
<1>5. CASE Rerun
  BY <1>5, RerunInv
<1>6. CASE UNCHANGED vars
  BY <1>6 DEF PrepareInv, TypeOK, Reset, Index, vars
<1>. QED  BY <1>1, <1>2, <1>3, <1>4, <1>5, <1>6 DEF Next

-----------------------------------------------------------------------------
(* PrepareInv holds in every state of any sequence of failing and rerun   *)
(* prepare calls: the pipeline is there past its steps, every index the    *)
(* current run has passed is reset by it, and the index being filled was  *)
(* created by this run and holds the documents indexed so far.             *)
THEOREM PrepareInvHolds == Spec => []PrepareInv
BY InitInv, NextInv, PTL DEF Spec

(* Whatever earlier failed runs left, every state of prepare re-run any    *)
(* number of times is well typed: the run counter stays within MaxRuns and *)
(* doc_id never passes len(docs) + 1.                                      *)
THEOREM TypeCorrect == Spec => []TypeOK
<1>1. PrepareInv => TypeOK
  BY DEF PrepareInv
<1>. QED  BY InitInv, NextInv, <1>1, PTL DEF Spec

(* A run of prepare that completes leaves a pipeline installed and each of *)
(* the three indices created by that run with exactly its documents, for  *)
(* every bound on the runs and every prior content of the indices.         *)
THEOREM CompletedRunResetsHolds == Spec => []CompletedRunResets
<1>1. PrepareInv => CompletedRunResets
  <2> SUFFICES ASSUME PrepareInv, pc = "done" PROVE CompletedRunResets
    BY DEF CompletedRunResets
  <2>1. cur = 3 /\ Reset(Order[3]) /\ pipeline # "none"
    BY OrderFacts DEF PrepareInv, Index
  <2>2. Reset(Order[1]) /\ Reset(Order[2])
    BY <2>1 DEF PrepareInv
  <2>. QED  BY <2>1, <2>2, OrderFacts DEF CompletedRunResets, Reset
<1>. QED  BY InitInv, NextInv, <1>1, PTL DEF Spec
=============================================================================
