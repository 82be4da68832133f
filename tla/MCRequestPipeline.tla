-------------------------- MODULE MCRequestPipeline --------------------------
(***************************************************************************)
(* Two concurrent requests and one source.                                 *)
(***************************************************************************)
EXTENDS RequestPipeline

CONSTANT s1

Kept(born)   == [src |-> s1, plain |-> TRUE, born |-> born]
Hashed(born) == [src |-> s1, plain |-> FALSE, born |-> born]

\* No token, a token kept only as its hash, and a source registered twice,
\* with a newer and with an equally old token.
MCDatabases == {<<None, None, None>>, <<Hashed(1), Kept(0), None>>,
                <<Kept(0), Kept(1), None>>, <<Kept(0), Kept(0), None>>}

ProcSymmetry == Permutations(Procs)
=============================================================================
