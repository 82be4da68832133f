-------------------------- MODULE MCStartupCheck --------------------------
(***************************************************************************)
(* Small instances of StartupCheck for TLC.                                *)
(***************************************************************************)
EXTENDS StartupCheck

Info(c, s, e) == [checksum |-> c, size |-> s, etag |-> e]

\* One payload identity, with and without its ETag.
MCRecords == {None, Info("c1", 1, ""), Info("c1", 1, "e1")}

\* The matching object, none, and one that an older release wrote without a
\* checksum and that S3 lists without an ETag.
MCObjects == {Info("c1", 1, "e1"), None, Info("", 1, "")}
===========================================================================
