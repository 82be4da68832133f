---------------------------- MODULE ExistsLookup ----------------------------
(***************************************************************************)
(* POST /v2/metadata/exists (handler.go): one request for many hashes is   *)
(* answered by one goroutine per hash.  A semaphore bounds how many look   *)
(* at once, the first failure cancels the others, and the request waits    *)
(* for all of them.  A single look-up, existsWithMetadata, is the "exists" *)
(* operation of PayloadService and is one step here.                       *)
(***************************************************************************)
EXTENDS Naturals, Sequences, FiniteSets, SequencesExt

CONSTANTS
  Hashes,       \* strings a request may name
  ValidHashes,  \* the ones blobstore.ValidHash accepts
  MaxNamed,     \* bound on the hashes of a request
  Concurrency,  \* existsLookupConcurrency
  None          \* nothing yet

ASSUME LookupAssumption ==
  /\ ValidHashes \subseteq Hashes
  /\ MaxNamed \in Nat
  /\ Concurrency \in Nat \ {0}
  /\ None \notin {"present", "absent", "failure", "canceled", "400", "200"}

VARIABLES
  stored,     \* hashes payloadRecord finds in metadata or S3
  atStart,    \* history: stored when the request came in
  request,    \* request.Hashes
  hashes,     \* uniqueHashes(request.Hashes)
  main,       \* where the handler is: "new", "wait" or "done"
  look,       \* goroutine of each position: "select", "look" or "done"
  outcome,    \* outcomes: an item, an error, or None
  sem,        \* tokens in the semaphore's channel
  cancelled,  \* cancel() of the derived context has been called
  gone,       \* the client has gone: r.Context() is cancelled
  response,   \* None, "400", "200" or the error the handler answers with
  items       \* the items of a "200": a function of the hashes

vars == <<stored, atStart, request, hashes, main, look, outcome, sem, cancelled,
          gone, response, items>>

Present  == "present"
Absent   == "absent"
Items    == {Present, Absent}
Failure  == "failure"     \* an S3, bbolt or disk error, or a mismatch
Canceled == "canceled"    \* errors.Is(err, context.Canceled)
Errors   == {Failure, Canceled}

Positions == 1..Len(hashes)

\* The derived context is done.
Done == cancelled \/ gone

TypeOK ==
  /\ stored \subseteq ValidHashes
  /\ atStart \subseteq ValidHashes
  /\ Len(request) <= MaxNamed /\ Range(request) \subseteq Hashes
  /\ hashes \in Seq(Hashes)
  /\ main \in {"new", "wait", "done"}
  /\ look \in [Positions -> {"select", "look", "done"}]
  /\ outcome \in [Positions -> Items \cup Errors \cup {None}]
  /\ sem \in 0..Concurrency
  /\ cancelled \in BOOLEAN /\ gone \in BOOLEAN
  /\ response \in {None, "400", "200"} \cup Errors
  /\ items \in [DOMAIN items -> Items]

Init ==
  /\ stored \in SUBSET ValidHashes
  /\ atStart = stored
  /\ request \in BoundedSeq(Hashes, MaxNamed)
  /\ hashes = <<>>
  /\ main = "new"
  /\ look = <<>>
  /\ outcome = <<>>
  /\ sem = 0
  /\ cancelled = FALSE
  /\ gone = FALSE
  /\ response = None
  /\ items = <<>>
-----------------------------------------------------------------------------
\* uniqueHashes: the first occurrence of each, in order.
Keep(out, h) == IF h \in Range(out) THEN out ELSE Append(out, h)

Unique(s) ==
  LET out[n \in 0..Len(s)] == IF n = 0 THEN <<>> ELSE Keep(out[n - 1], s[n])
  IN out[Len(s)]

Acceptable == request # <<>> /\ Range(request) \subseteq ValidHashes

Refuse ==
  /\ main = "new"
  /\ ~Acceptable
  /\ response' = "400"
  /\ main' = "done"
  /\ UNCHANGED <<stored, atStart, request, hashes, look, outcome, sem,
                 cancelled, gone, items>>

\* The goroutines are started, one per hash.
Start ==
  /\ main = "new"
  /\ Acceptable
  /\ hashes' = Unique(request)
  /\ look' = [i \in 1..Len(hashes') |-> "select"]
  /\ outcome' = [i \in 1..Len(hashes') |-> None]
  /\ atStart' = stored
  /\ main' = "wait"
  /\ UNCHANGED <<stored, request, sem, cancelled, gone, response, items>>
-----------------------------------------------------------------------------
(* A goroutine.                                                            *)

\* select: a token of the semaphore ...
Acquire(i) ==
  /\ look[i] = "select"
  /\ sem < Concurrency
  /\ sem' = sem + 1
  /\ look' = [look EXCEPT ![i] = "look"]
  /\ UNCHANGED <<stored, atStart, request, hashes, main, outcome, cancelled,
                 gone, response, items>>

\* ... or the context is done.
Skip(i) ==
  /\ look[i] = "select"
  /\ Done
  /\ outcome' = [outcome EXCEPT ![i] = Canceled]
  /\ look' = [look EXCEPT ![i] = "done"]
  /\ UNCHANGED <<stored, atStart, request, hashes, main, sem, cancelled, gone,
                 response, items>>

\* Mutant: the token is kept.
ReleaseForgotten(i) ==
  /\ look' = [look EXCEPT ![i] = "done"]
  /\ UNCHANGED sem

\* The deferred receive gives the token back.
Release(i) ==
  /\ sem' = sem - 1
  /\ look' = [look EXCEPT ![i] = "done"]

\* Mutant: a look-up that is cancelled counts as absent.
LookCanceledAbsent(i) ==
  /\ look[i] = "look"
  /\ outcome' = [outcome EXCEPT ![i] =
                   IF hashes[i] \in stored /\ ~Done THEN Present ELSE Absent]
  /\ Release(i)
  /\ UNCHANGED <<stored, atStart, request, hashes, main, cancelled, gone,
                 response, items>>

\* existsWithMetadata answers.
Look(i) ==
  /\ look[i] = "look"
  /\ outcome' = [outcome EXCEPT ![i] =
                   IF hashes[i] \in stored THEN Present ELSE Absent]
  /\ Release(i)
  /\ UNCHANGED <<stored, atStart, request, hashes, main, cancelled, gone,
                 response, items>>

\* existsWithMetadata fails by itself, or because its context is done.
LookError(i) ==
  /\ look[i] = "look"
  /\ \E e \in Errors :
       /\ e = Canceled => Done
       /\ outcome' = [outcome EXCEPT ![i] = e]
  /\ cancelled' = TRUE
  /\ Release(i)
  /\ UNCHANGED <<stored, atStart, request, hashes, main, gone, response, items>>
-----------------------------------------------------------------------------
\* Mutant: the first error whatever it is.
PickErrorFirst(first, o) ==
  IF o \in Errors /\ first = None THEN o ELSE first

\* The loop over outcomes: the first error, unless it is a cancellation.
PickError(first, o) ==
  IF o \in Errors /\ first \in {None, Canceled} THEN o ELSE first

FirstErr ==
  LET first[n \in 0..Len(hashes)] ==
        IF n = 0 THEN None ELSE PickError(first[n - 1], outcome[n])
  IN first[Len(hashes)]

\* The items of the response, for every hash the request names.
ItemsOf == [h \in Range(request) |-> outcome[CHOOSE i \in Positions : hashes[i] = h]]

\* Mutant: the handler does not wait for the goroutines after a failure.
CollectEarly ==
  /\ main = "wait"
  /\ FirstErr # None \/ \A i \in Positions : look[i] = "done"
  /\ \/ FirstErr # None /\ response' = FirstErr /\ UNCHANGED items
     \/ FirstErr = None /\ response' = "200" /\ items' = ItemsOf
  /\ cancelled' = TRUE
  /\ main' = "done"
  /\ UNCHANGED <<stored, atStart, request, hashes, look, outcome, sem, gone>>

\* wg.Wait() and the rest of lookupExistsItems and exists.
Collect ==
  /\ main = "wait"
  /\ \A i \in Positions : look[i] = "done"
  /\ \/ FirstErr # None /\ response' = FirstErr /\ UNCHANGED items
     \/ FirstErr = None /\ response' = "200" /\ items' = ItemsOf
  /\ cancelled' = TRUE
  /\ main' = "done"
  /\ UNCHANGED <<stored, atStart, request, hashes, look, outcome, sem, gone>>

\* The client goes away.
Disconnect ==
  /\ main # "done"
  /\ ~gone
  /\ gone' = TRUE
  /\ UNCHANGED <<stored, atStart, request, hashes, main, look, outcome, sem,
                 cancelled, response, items>>

\* A push of another client makes a payload known; none ever disappears.
Push(h) ==
  /\ main # "done"
  /\ h \notin stored
  /\ stored' = stored \cup {h}
  /\ UNCHANGED <<atStart, request, hashes, main, look, outcome, sem, cancelled,
                 gone, response, items>>

Goroutine(i) == Acquire(i) \/ Skip(i) \/ Look(i) \/ LookError(i)

Next ==
  \/ Refuse \/ Start \/ Collect \/ Disconnect
  \/ \E i \in Positions : Goroutine(i)
  \/ \E h \in ValidHashes : Push(h)

Spec == Init /\ [][Next]_vars

\* Goroutines are scheduled, every look-up ends, and a goroutine waiting in
\* select for a token that keeps coming free gets one: Go queues senders.
Fairness ==
  /\ WF_vars(Refuse \/ Start \/ Collect)
  /\ \A i \in 1..MaxNamed : /\ WF_vars(i \in Positions /\ Goroutine(i))
                            /\ SF_vars(i \in Positions /\ Acquire(i))

LiveSpec == Spec /\ Fairness
-----------------------------------------------------------------------------
(* Properties.                                                             *)

\* The error a client is told is the one that happened: a cancellation that
\* one failing look-up caused in the others is not reported in its place
\* (handler.go:813-824).
FailureReported == response = Canceled => gone

\* A successful response covers exactly the hashes the request names,
\* duplicates included, and each item is right: present only for a known
\* payload, absent only for one that was unknown when the request came in.
AnswerRight ==
  response = "200" =>
    /\ DOMAIN items = Range(request)
    /\ \A h \in Range(request) :
         /\ items[h] = Present => h \in stored
         /\ items[h] = Absent => h \notin atStart

\* No more look-ups than existsLookupConcurrency run at once, and none is
\* left running when the handler returns, although error paths return early
\* (handler.go:784-811).
LookupsBounded ==
  LET looking == {i \in Positions : look[i] = "look"}
  IN /\ Cardinality(looking) <= Concurrency
     /\ main = "done" => looking = {}

\* Every request is answered: no path keeps a token of the semaphore that
\* another goroutine waits for (handler.go:784-811).
Answered == <>(main = "done")
-----------------------------------------------------------------------------
(***************************************************************************)
(* The inductive invariant behind the theorems of ExistsLookupProofs.      *)
(***************************************************************************)
Looking == {i \in Positions : look[i] = "look"}

\* A goroutine has an outcome once it has ended, and a right one.
Outcomes ==
  \A i \in Positions :
    /\ look[i] = "done" <=> outcome[i] # None
    /\ outcome[i] = Present => hashes[i] \in stored
    /\ outcome[i] = Absent => hashes[i] \notin atStart

\* Nobody is cancelled without a client that has gone or a failure that the
\* handler will find.
Caused ==
  /\ cancelled /\ main # "done" => gone \/ \E i \in Positions : outcome[i] = Failure
  /\ (\E i \in Positions : outcome[i] = Canceled)
       => gone \/ \E i \in Positions : outcome[i] = Failure

Stages ==
  /\ main = "new" => hashes = <<>>
  /\ main # "done" => response = None
  /\ main = "wait" => Range(hashes) = Range(request)
  /\ main = "done" => \A i \in Positions : look[i] = "done"

LookupInv ==
  /\ TypeOK
  /\ request \in Seq(Hashes)
  /\ atStart \subseteq stored
  /\ sem = Cardinality(Looking)
  /\ Outcomes /\ Caused /\ Stages
  /\ FailureReported /\ AnswerRight
=============================================================================
