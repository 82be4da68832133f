--------------------------- MODULE MCMetadataStore ---------------------------
(***************************************************************************)
(* Two records with different sizes and equal creation times.              *)
(***************************************************************************)
EXTENDS MetadataStore

MCSize    == [h \in Hashes |-> IF h = 1 THEN 1 ELSE 2]
MCCreated == [h \in Hashes |-> 1]

MCQueries ==
  {[by |-> "created", desc |-> TRUE, onlyCached |-> FALSE, minSize |-> 0,
    limit |-> 1],
   [by |-> "size", desc |-> FALSE, onlyCached |-> TRUE, minSize |-> 2,
    limit |-> 0]}

WorkerSymmetry == Permutations(Writers) \cup Permutations(Clients)
=============================================================================
