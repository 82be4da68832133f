---------------------------- MODULE MCLocalCaches ----------------------------
(***************************************************************************)
(* Payloads of one, two and two bytes over tiers of three bytes: what an   *)
(* insertion drops depends on the order in which the others were used.     *)
(***************************************************************************)
EXTENDS LocalCaches

MCSize == [h \in Hashes |-> IF h = 2 THEN 1 ELSE 2]

Want(k, a, b) == [kind |-> k, a |-> a, b |-> b]

\* Every payload is pulled in full; of the first, clients also ask for its
\* headers, for ranges inside, across and behind its end, and for a
\* malformed one that reaches the arithmetic.
MCAsks == (Hashes \X {Want("full", 0, 0)})
          \cup {<<1, w>> : w \in {Want("head", 0, 0), Want("suffix", 3, 0),
                  Want("suffix", 1, 0), Want("from", 2, 0), Want("from", 1, 0),
                  Want("span", 1, 2), Want("span", 1, 0)}}

ProcSymmetry == Permutations(Procs)
=============================================================================
