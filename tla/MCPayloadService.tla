-------------------------- MODULE MCPayloadService --------------------------
(***************************************************************************)
(* Small instances of PayloadService for TLC.                              *)
(***************************************************************************)
EXTENDS PayloadService, TLC

CONSTANTS p1, p2, h1, h2, d1, d2

\* Two contents with different checksums, the second one byte larger.
MCChecksum == [d \in Data |-> IF d = d1 THEN "c1" ELSE "c2"]
MCSize     == [d \in Data |-> IF d = d1 THEN 1 ELSE 2]
MCETag     == [d \in Data |-> IF d = d1 THEN "e1" ELSE "e2"]

\* The ETag of an object an older release wrote in several parts.
MCMultipartETag == [d \in Data |-> "e3"]

\* All hashes share one payloadWrites mutex.
MCLockOf == [h \in Hashes |-> 0]

ProcSymmetry == Permutations(Procs)
=============================================================================
