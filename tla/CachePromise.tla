----------------------------- MODULE CachePromise ----------------------------
(***************************************************************************)
(* What the two local payload tiers promise to the rest of VAPS, without   *)
(* lists, counters or modification times.  The memory tier holds at most   *)
(* MaxBytes; when it must drop payloads for a new one it drops those used  *)
(* least recently, and no more of them than the new payload needs.  The    *)
(* disk tier may lose files at any time, those staged first before the     *)
(* others.  Both tiers only hold payloads that the bucket has.             *)
(***************************************************************************)
EXTENDS Integers, FiniteSetsExt

CONSTANTS
  Hashes,   \* payload identities
  Size,     \* [Hashes -> Nat]
  MaxBytes  \* capacity of the memory tier

VARIABLES
  held,    \* payloads of the memory tier
  newer,   \* pairs <<a, b>> of held payloads, a used more recently than b
  files,   \* payloads of the disk tier
  older,   \* pairs <<a, b>> of files, a staged no later than b
  stored   \* payloads of the bucket

promised == <<held, newer, files, older, stored>>

Bytes(S) == MapThenSumSet(LAMBDA h : Size[h], S)

Init ==
  /\ held = {}
  /\ newer = {}
  /\ stored \in SUBSET Hashes
  /\ files \in SUBSET stored
  /\ older \in SUBSET (files \X files)

\* h becomes the most recently used of S; the others keep their order.
Refreshed(h, S) ==
  LET others == S \ {h}
  IN ({h} \X others) \cup (newer \cap (others \X others))

Use(h) ==
  /\ h \in held
  /\ newer' = Refreshed(h, held)
  /\ UNCHANGED <<held, files, older, stored>>

\* h enters; what leaves was used before everything that stays, and the
\* latest used of it did not fit any more.
Insert(h) ==
  /\ UNCHANGED <<files, older, stored>>
  /\ h \in stored
  /\ h \in held'
  /\ newer' = Refreshed(h, held')
  /\ held' \in SUBSET (held \cup {h})
  /\ Bytes(held') <= MaxBytes
  /\ LET gone == held \ held'
     IN /\ ((held' \ {h}) \X gone) \subseteq newer
        /\ \A x \in gone :
             Bytes(held' \cup {x} \cup {y \in gone : <<y, x>> \in newer})
               > MaxBytes

Link(h) ==
  /\ h \in stored \ files
  /\ files' = files \cup {h}
  /\ {ab \in older' : h \notin {ab[1], ab[2]}} = older
  /\ UNCHANGED <<held, newer, stored>>

Lose ==
  /\ files' \in SUBSET files
  /\ (files \ files') \X files' \subseteq older
  /\ older' = older \cap (files' \X files')
  /\ UNCHANGED <<held, newer, stored>>

Store(h) ==
  /\ stored' = stored \cup {h}
  /\ UNCHANGED <<held, newer, files, older>>

Restart ==
  /\ held' = {}
  /\ newer' = {}
  /\ UNCHANGED <<files, older, stored>>

Next ==
  \/ \E h \in Hashes : Use(h) \/ Insert(h) \/ Link(h) \/ Store(h)
  \/ Lose
  \/ Restart

Spec == Init /\ [][Next]_promised
=============================================================================
