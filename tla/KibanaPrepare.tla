---------------------------- MODULE KibanaPrepare ----------------------------
(***************************************************************************)
(* The bootstrap tool src/connectors/kibana.py: prepare() installs the     *)
(* ingest pipeline ent-search-generic-ingestion if it is missing, then     *)
(* upsert_index() is called for .elastic-connectors (with the connector    *)
(* document), .elastic-connectors-sync-jobs (no documents) and the target  *)
(* index (mappings and settings, docs None).  upsert_index deletes an      *)
(* existing index, creates it, and indexes the documents with ids 1, 2 ... *)
(*                                                                         *)
(* Every Elasticsearch call may raise; the exception leaves prepare (the   *)
(* finally only closes the client) and the cluster keeps whatever the run  *)
(* did so far.  The tool is then run again: the model is a sequence of up *)
(* to MaxRuns runs against the persistent cluster, starting from any      *)
(* cluster state.  An index records the run that created it (0: before    *)
(* the first run), which stands for its mappings and settings.            *)
(***************************************************************************)
EXTENDS Naturals, Sequences

CONSTANTS
    OldDocs,   \* ids of documents an index may hold before the first run
    MaxRuns    \* bound on the runs of the tool

ASSUME PrepareAssumption ==
    /\ OldDocs \subseteq Nat \ {0}
    /\ MaxRuns \in Nat \ {0}

(* The three calls of upsert_index in prepare, in order.                   *)
Order == <<"connectors", "jobs", "target">>

Indices == {"connectors", "jobs", "target"}

(* The docs argument of each call: one connector document, [] and None;   *)
(* None returns before the loop, which indexes nothing, as [] does.       *)
Seed == [i \in Indices |-> IF i = "connectors" THEN 1 ELSE 0]

Absent == [exists |-> FALSE, docs |-> {}, gen |-> 0]

VARIABLES
    pipeline,  \* "none" | "other" (installed by someone else) | "default"
    idx,       \* idx[i]: [exists, docs, gen] of index i in the cluster
    run,       \* the current run of the tool
    pc,        \* "get1" | "put1" | "get2" | "exists" | "delete" |
               \* "create" | "index" | "done" | "raised"
    cur,       \* position in Order of the current upsert_index call
    docId      \* doc_id of the loop in upsert_index

vars == <<pipeline, idx, run, pc, cur, docId>>

Index == Order[cur]

Init ==
    /\ pipeline \in {"none", "other"}
    /\ idx \in [Indices -> {Absent} \cup
                 [exists : {TRUE}, docs : SUBSET OldDocs, gen : {0}]]
    /\ run = 1
    /\ pc = "get1"
    /\ cur = 1
    /\ docId = 1

-----------------------------------------------------------------------------
(* The first get_pipeline; NotFoundError leads to put_pipeline.            *)
GetPipeline1 ==
    /\ pc = "get1"
    /\ pc' = IF pipeline = "none" THEN "put1" ELSE "get2"
    /\ UNCHANGED <<pipeline, idx, run, cur, docId>>

PutDefault ==
    /\ pc = "put1"
    /\ pipeline' = "default"
    /\ pc' = "get2"
    /\ UNCHANGED <<idx, run, cur, docId>>

(* The second get_pipeline finds the pipeline: it was there or the put    *)
(* above installed it (a failed put raised instead).  Its NotFoundError     *)
(* branch, which puts a custom pipeline, needs another actor to delete the *)
(* pipeline in between and is not reached by the tool on its own.          *)
GetPipeline2 ==
    /\ pc = "get2"
    /\ pipeline # "none"
    /\ pc' = "exists"
    /\ UNCHANGED <<pipeline, idx, run, cur, docId>>

-----------------------------------------------------------------------------
(* Faulty variant of Exists: an existing index is kept, not recreated.     *)
ExistsKeep ==
    /\ pc = "exists"
    /\ pc' = IF idx[Index].exists THEN "index" ELSE "create"
    /\ UNCHANGED <<pipeline, idx, run, cur, docId>>

(* exists = await es.client.indices.exists(...); if exists: delete.        *)
Exists ==
    /\ pc = "exists"
    /\ pc' = IF idx[Index].exists THEN "delete" ELSE "create"
    /\ UNCHANGED <<pipeline, idx, run, cur, docId>>

DeleteIndex ==
    /\ pc = "delete"
    /\ idx' = [idx EXCEPT ![Index] = Absent]
    /\ pc' = "create"
    /\ UNCHANGED <<pipeline, run, cur, docId>>

(* indices.create with the call's mappings and settings; doc_id = 1.       *)
CreateIndex ==
    /\ pc = "create"
    /\ idx' = [idx EXCEPT ![Index] = [exists |-> TRUE, docs |-> {}, gen |-> run]]
    /\ pc' = "index"
    /\ docId' = 1
    /\ UNCHANGED <<pipeline, run, cur>>

(* Faulty variant of IndexDoc: the loop runs once more than len(docs).    *)
IndexDocPastEnd ==
    /\ pc = "index"
    /\ docId <= Seed[Index] + 1
    /\ idx' = [idx EXCEPT ![Index].docs = @ \cup {docId}]
    /\ docId' = docId + 1
    /\ UNCHANGED <<pipeline, run, pc, cur>>

(* One iteration of for doc in docs: es.client.index(id=doc_id).           *)
IndexDoc ==
    /\ pc = "index"
    /\ docId <= Seed[Index]
    /\ idx' = [idx EXCEPT ![Index].docs = @ \cup {docId}]
    /\ docId' = docId + 1
    /\ UNCHANGED <<pipeline, run, pc, cur>>

(* Faulty variant of UpsertDone: prepare stops one call short.             *)
UpsertDoneEarly ==
    /\ pc = "index"
    /\ docId > Seed[Index]
    /\ IF cur < Len(Order) - 1
          THEN pc' = "exists" /\ cur' = cur + 1
          ELSE pc' = "done" /\ cur' = cur
    /\ UNCHANGED <<pipeline, idx, run, docId>>

(* upsert_index returns; prepare goes on with the next index or is done.   *)
UpsertDone ==
    /\ pc = "index"
    /\ docId > Seed[Index]
    /\ IF cur < Len(Order)
          THEN pc' = "exists" /\ cur' = cur + 1
          ELSE pc' = "done" /\ cur' = cur
    /\ UNCHANGED <<pipeline, idx, run, docId>>

(* The pending Elasticsearch call raises: prepare ends with the exception. *)
Fail ==
    /\ pc \notin {"done", "raised"}
    /\ pc' = "raised"
    /\ UNCHANGED <<pipeline, idx, run, cur, docId>>

(* The tool is run again against the same cluster.                         *)
Rerun ==
    /\ pc = "raised"
    /\ run < MaxRuns
    /\ run' = run + 1
    /\ pc' = "get1"
    /\ cur' = 1
    /\ docId' = 1
    /\ UNCHANGED <<pipeline, idx>>

Next ==
    \/ GetPipeline1 \/ PutDefault \/ GetPipeline2
    \/ Exists \/ DeleteIndex \/ CreateIndex \/ IndexDoc \/ UpsertDone
    \/ Fail \/ Rerun

Spec == Init /\ [][Next]_vars

-----------------------------------------------------------------------------
TypeOK ==
    /\ pipeline \in {"none", "other", "default"}
    /\ idx \in [Indices -> [exists : BOOLEAN, docs : SUBSET Nat, gen : 0..MaxRuns]]
    /\ run \in 1..MaxRuns
    /\ pc \in {"get1", "put1", "get2", "exists", "delete", "create",
               "index", "done", "raised"}
    /\ cur \in 1..Len(Order)
    /\ docId \in 1..2

(* A run of prepare that completes leaves a pipeline installed and each of *)
(* the three indices created by that run (its mappings and settings) and  *)
(* holding exactly the documents it was given, whatever earlier failed    *)
(* runs or earlier syncs left in the cluster: upsert_index's docstring.    *)
CompletedRunResets ==
    pc = "done" =>
        /\ pipeline # "none"
        /\ \A i \in Indices :
              /\ idx[i].exists
              /\ idx[i].gen = run
              /\ idx[i].docs = 1..Seed[i]

(* Index i is as the current run leaves it.                                *)
Reset(i) == idx[i].exists /\ idx[i].gen = run /\ idx[i].docs = 1..Seed[i]

(* The invariant behind CompletedRunResets: past the pipeline steps the    *)
(* pipeline exists; the indices before the current call are reset by this  *)
(* run; while documents are indexed, the current index was created by this *)
(* run and holds documents 1..doc_id-1.  It ties the cluster, shared by    *)
(* all runs, to the progress of the current run only.                      *)
PrepareInv ==
    /\ TypeOK
    /\ pc \in {"exists", "delete", "create", "index", "done"} => pipeline # "none"
    /\ pc # "raised" => \A j \in 1..cur - 1 : Reset(Order[j])
    /\ pc \in {"get1", "put1", "get2"} => cur = 1
    /\ pc = "index" =>
          /\ idx[Index].exists /\ idx[Index].gen = run
          /\ idx[Index].docs = 1..docId - 1
          /\ docId <= Seed[Index] + 1
    /\ pc = "done" => cur = Len(Order) /\ Reset(Index)
=============================================================================
