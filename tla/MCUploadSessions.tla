------------------------- MODULE MCUploadSessions -------------------------
(***************************************************************************)
(* Small instances of UploadSessions for TLC.                              *)
(***************************************************************************)
EXTENDS UploadSessions, TLC

Symmetries == Permutations(Procs) \cup Permutations(Ids)
=============================================================================
