--------------------------- MODULE MCExistsLookup ---------------------------
(***************************************************************************)
(* Small instances of ExistsLookup for TLC.                                *)
(***************************************************************************)
EXTENDS ExistsLookup

CONSTANTS h1, h2, h3, bad

MCHashes == {h1, h2, h3, bad}
MCValidHashes == {h1, h2, h3}
=============================================================================
