----------------------------- MODULE MCGcsSource -----------------------------
(***************************************************************************)
(* Model-checking instance of GcsSource: three bucket pages, the first     *)
(* with two buckets, the second with no items (get_docs skips it); the     *)
(* first bucket's objects come in two pages.                               *)
(***************************************************************************)
EXTENDS GcsSource

CONSTANTS b1, b2, b3, x1, x2, x3, x4

MCBuckets == {b1, b2, b3}

MCBlobs == {x1, x2, x3, x4}

MCBucketPages == << <<b1, b2>>, <<>>, <<b3>> >>

MCBlobPages == [b \in MCBuckets |->
                  CASE b = b1 -> << <<x1>>, <<x2>> >>
                    [] b = b2 -> << <<x3>> >>
                    [] b = b3 -> << <<x4>> >>]
=============================================================================
