---------------------------- MODULE MCLogSessions ----------------------------
(***************************************************************************)
(* A small instance of LogSessions for TLC.                                *)
(***************************************************************************)
EXTENDS LogSessions

\* An ordinary line has no words of the patterns, those of an end, or those
\* of a startup at time 0, which may or may not be that of a run.
MCInfoTexts == {Text(None, FALSE), Text(None, TRUE), Text(0, FALSE)}
=============================================================================
