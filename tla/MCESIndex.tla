------------------------------ MODULE MCESIndex ------------------------------
(***************************************************************************)
(* Model-checking instance of ESIndex: the document ids are model values   *)
(* given in the .cfg files; the paging limits are scaled down so that a    *)
(* scan spans several pages and can reach the limits.                      *)
(***************************************************************************)
EXTENDS ESIndex

CONSTANTS d1, d2, d3, d4

MCDocs == {d1, d2, d3, d4}
=============================================================================
