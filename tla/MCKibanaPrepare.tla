--------------------------- MODULE MCKibanaPrepare ---------------------------
(***************************************************************************)
(* Model-checking instance of KibanaPrepare: indices may hold documents 1 *)
(* and 2 before the first run, so a stale connector document and a stale *)
(* second document are both possible.                                      *)
(***************************************************************************)
EXTENDS KibanaPrepare
=============================================================================
