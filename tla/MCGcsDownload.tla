---------------------------- MODULE MCGcsDownload ----------------------------
(***************************************************************************)
(* Model-checking instance of GcsDownload: objects of up to three chunks   *)
(* against a limit of two, so the size checks see 0, below, at and above   *)
(* the limit.                                                              *)
(***************************************************************************)
EXTENDS GcsDownload
=============================================================================
