------------------------------ MODULE PagedScan ------------------------------
(***************************************************************************)
(* What a paged scan of a search index promises its consumer (spec.md     *)
(* sections 4.1 and 8): it yields the records of the index in search       *)
(* order, each exactly once, and when it ends by itself it has yielded the *)
(* total the index reports (the number of records, capped by              *)
(* track_total_hits).  It may also end early by an error, silently or with *)
(* an exception.  Other actors may add records to the collection at any   *)
(* time; each new record goes at the end of the search order.             *)
(***************************************************************************)
EXTENDS Naturals, Sequences, Functions

CONSTANTS
    Items,   \* the records that may be in the collection
    Cap      \* the reported total is at most Cap

VARIABLES
    coll,    \* the records of the collection, in search order
    out,     \* the records yielded so far
    status   \* "reading" | "complete" | "failed" | "raised"

scanVars == <<coll, out, status>>

(* The total a search reports.                                             *)
Total == IF Len(coll) < Cap THEN Len(coll) ELSE Cap

Init ==
    /\ coll \in Seq(Items)
    /\ IsInjective(coll)
    /\ out = <<>>
    /\ status = "reading"

(* The next records of the collection, from the first not yet yielded on; *)
(* the scan may then stop, once it has yielded the reported total.        *)
Yield ==
    /\ status = "reading"
    /\ \E k \in Len(out)..Len(coll) :
          out' = out \o SubSeq(coll, Len(out) + 1, k)
    /\ status' \in {"reading", "complete"}
    /\ status' = "complete" => Len(out') >= Total
    /\ UNCHANGED coll

(* The scan ends early, with no further records.                           *)
Abort ==
    /\ status = "reading"
    /\ status' \in {"failed", "raised"}
    /\ UNCHANGED <<coll, out>>

(* Another actor adds a new record.                                        *)
Add(d) ==
    /\ d \notin Range(coll)
    /\ coll' = Append(coll, d)
    /\ UNCHANGED <<out, status>>

Next == Yield \/ Abort \/ \E d \in Items : Add(d)

Spec == Init /\ [][Next]_scanVars
=============================================================================
