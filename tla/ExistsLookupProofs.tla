------------------------ MODULE ExistsLookupProofs ------------------------
(***************************************************************************)
(* What POST /v2/metadata/exists promises for every request, however many  *)
(* hashes it names and whatever existsLookupConcurrency is: the items are  *)
(* right and complete, the error is the one that happened, and the         *)
(* semaphore counts the look-ups that run.                                 *)
(***************************************************************************)
EXTENDS ExistsLookup, FiniteSetTheorems, SequenceTheorems, NaturalsInduction,
        WellFoundedInduction, TLAPS

(***************************************************************************)
(* Loops over an index.  The library's induction needs an operator         *)
(* parameter; a least counterexample does not.                             *)
(***************************************************************************)

\* A set of naturals that is not empty has a least element.
LEMMA LeastIndex ==
  ASSUME NEW T \in SUBSET Nat, T # {}
  PROVE  \E x \in T : \A y \in T : x <= y
<1> DEFINE R == OpToRel(<, Nat)
<1>1. IsWellFoundedOn(R, Nat)
  BY NatLessThanWellFounded
<1>2. \A x, y \in Nat : <<y, x>> \in R <=> y < x
  BY DEF OpToRel
<1> HIDE DEF R
<1>3. PICK x \in T : \A y \in T : ~(<<y, x>> \in R)
  BY <1>1, WFMin
<1>4. \A y \in T : x \in Nat /\ y \in Nat /\ ~(y < x)
  BY <1>2, <1>3
<1> QED BY <1>4

\* f holds what a loop has computed after each of N rounds: g[k] is round k.
Loop(f, a, g, N) == f = [k \in 0..N |-> IF k = 0 THEN a ELSE g[k][f[k - 1]]]

\* The loop can be run: extend the run that is a round shorter.
LEMMA LoopExists ==
  ASSUME NEW N \in Nat, NEW X, NEW a \in X, NEW g \in [1..N -> [X -> X]]
  PROVE  \E f \in [0..N -> X] : Loop(f, a, g, N)
<1> DEFINE Runs(m) == {f \in [0..m -> X] : Loop(f, a, g, m)}
           Bad == {m \in 0..N : Runs(m) = {}}
<1>1. SUFFICES ASSUME Bad # {} PROVE FALSE
  <2>1. N \in 0..N
    OBVIOUS
  <2> QED BY <2>1
<1>2. PICK m \in Bad : \A k \in Bad : m <= k
  <2>1. Bad \in SUBSET Nat
    OBVIOUS
  <2> HIDE DEF Bad
  <2> QED BY <1>1, <2>1, LeastIndex
<1>3. Runs(m) = {}
  OBVIOUS
<1>4. CASE m = 0
  <2> DEFINE z == [k \in 0..0 |-> a]
  <2>1. z \in [0..0 -> X] /\ Loop(z, a, g, 0)
    BY DEF Loop
  <2> HIDE DEF z
  <2>2. z \in Runs(0)
    BY <2>1
  <2> HIDE DEF Runs
  <2> QED BY <1>3, <1>4, <2>2
<1>5. CASE m # 0
  <2>1. m \in 1..N /\ m - 1 \in 0..N /\ m - 1 \notin Bad
    <3>1. m \in 1..N /\ m - 1 \in 0..N
      BY <1>5
    <3> HIDE DEF Bad
    <3> QED BY <1>2, <3>1
  <2>2. PICK f \in Runs(m - 1) : TRUE
    BY <2>1
  <2> DEFINE e == [k \in 0..m |-> IF k = m THEN g[m][f[m - 1]] ELSE f[k]]
  <2>3. f \in [0..(m - 1) -> X] /\ f[m - 1] \in X /\ g[m][f[m - 1]] \in X
    <3>1. f \in [0..(m - 1) -> X] /\ m - 1 \in 0..(m - 1)
      BY <2>1, <2>2
    <3>2. f[m - 1] \in X /\ g[m] \in [X -> X]
      BY <2>1, <3>1
    <3> QED BY <3>1, <3>2
  <2>4. e \in [0..m -> X]
    BY <2>1, <2>3
  <2>5. ASSUME NEW k \in 0..m
        PROVE  e[k] = IF k = 0 THEN a ELSE g[k][e[k - 1]]
    <3>1. CASE k = m
      BY <2>1, <3>1
    <3>2. CASE k # m
      <4>1. k \in 0..(m - 1) /\ e[k] = f[k]
        BY <2>1, <3>2
      <4>2. f[k] = IF k = 0 THEN a ELSE g[k][f[k - 1]]
        BY <2>2, <4>1 DEF Loop
      <4> QED BY <2>1, <4>1, <4>2
    <3> QED BY <3>1, <3>2
  <2>6. Loop(e, a, g, m)
    <3> HIDE DEF e
    <3> QED BY <2>4, <2>5 DEF Loop
  <2> HIDE DEF e
  <2>7. e \in Runs(m)
    BY <2>4, <2>6
  <2> HIDE DEF Runs
  <2> QED BY <1>3, <2>7
<1> QED BY <1>4, <1>5

\* Appending keeps what was there.
LEMMA Kept ==
  ASSUME NEW S, NEW out \in Seq(S), NEW h \in S
  PROVE  Keep(out, h) \in Seq(S) /\ Range(Keep(out, h)) = Range(out) \cup {h}
<1>1. CASE h \in Range(out)
  BY <1>1 DEF Keep
<1>2. CASE h \notin Range(out)
  <2>1. Keep(out, h) = Append(out, h)
    BY <1>2 DEF Keep
  <2>2. Range(Append(out, h)) = Range(out) \cup {h}
    <3>1. /\ DOMAIN Append(out, h) = 1..(Len(out) + 1) /\ DOMAIN out = 1..Len(out)
          /\ \A i \in 1..Len(out) : Append(out, h)[i] = out[i]
          /\ Append(out, h)[Len(out) + 1] = h
          /\ Len(out) \in Nat
      OBVIOUS
    <3> DEFINE A == Append(out, h)
    <3> HIDE DEF A
    <3>2. Range(A) \subseteq Range(out) \cup {h}
      BY <3>1 DEF Range, A
    <3>3. Range(out) \cup {h} \subseteq Range(A)
      <4>1. h \in Range(A)
        BY <3>1 DEF Range, A
      <4>2. Range(out) \subseteq Range(A)
        BY <3>1 DEF Range, A
      <4> QED BY <4>1, <4>2
    <3> QED BY <3>2, <3>3 DEF A
  <2> QED BY <2>1, <2>2
<1> QED BY <1>1, <1>2

\* uniqueHashes keeps every hash of the request and adds none.
LEMMA UniqueHashes ==
  ASSUME NEW S, NEW s \in Seq(S)
  PROVE  Unique(s) \in Seq(S) /\ Range(Unique(s)) = Range(s)
<1> DEFINE N == Len(s)
           Eq(f) == f = [n \in 0..N |-> IF n = 0 THEN <<>> ELSE Keep(f[n - 1], s[n])]
           out == CHOOSE f : Eq(f)
           g == [n \in 1..N |-> [o \in Seq(S) |-> Keep(o, s[n])]]
<1>1. Unique(s) = out[N] /\ N \in Nat
  <2>1. Unique(s) = out[N]
    BY Zenon DEF Unique
  <2> QED BY <2>1
<1>2. g \in [1..N -> [Seq(S) -> Seq(S)]]
  <2>1. \A n \in 1..N : s[n] \in S
    OBVIOUS
  <2>2. \A n \in 1..N : \A o \in Seq(S) : Keep(o, s[n]) \in Seq(S)
    BY <2>1, Kept
  <2> QED BY <2>2
<1>3. \E f : Eq(f)
  <2>1. N \in Nat /\ <<>> \in Seq(S)
    OBVIOUS
  <2>2. PICK f \in [0..N -> Seq(S)] : Loop(f, <<>>, g, N)
    <3> HIDE DEF g, N
    <3> QED BY <1>2, <2>1, LoopExists
  <2>3. \A n \in 1..N : g[n][f[n - 1]] = Keep(f[n - 1], s[n])
    <3>1. \A n \in 1..N : f[n - 1] \in Seq(S)
      BY <2>2, <2>1
    <3> QED BY <3>1
  <2>4. Eq(f)
    <3>1. [n \in 0..N |-> IF n = 0 THEN <<>> ELSE Keep(f[n - 1], s[n])]
            = [n \in 0..N |-> IF n = 0 THEN <<>> ELSE g[n][f[n - 1]]]
      <4> HIDE DEF g
      <4> QED BY <2>1, <2>3
    <3> QED BY <2>2, <3>1 DEF Loop
  <2> HIDE DEF Eq
  <2> QED BY <2>4
<1>4. Eq(out)
  <2> HIDE DEF Eq
  <2> QED BY <1>3
<1>5. \A n \in 0..N : out[n] = IF n = 0 THEN <<>> ELSE Keep(out[n - 1], s[n])
  <2> HIDE DEF out
  <2> QED BY <1>4
<1> HIDE DEF out
<1> DEFINE Good(n) == out[n] \in Seq(S) /\ Range(out[n]) = {s[i] : i \in 1..n}
           Bad == {n \in 0..N : ~Good(n)}
<1>6. Bad = {}
  <2>1. SUFFICES ASSUME Bad # {} PROVE FALSE
    OBVIOUS
  <2>2. PICK n \in Bad : \A k \in Bad : n <= k
    <3>1. Bad \in SUBSET Nat
      OBVIOUS
    <3> HIDE DEF Bad
    <3> QED BY <2>1, <3>1, LeastIndex
  <2>3. n \in 0..N /\ ~Good(n)
    OBVIOUS
  <2>4. CASE n = 0
    <3>1. out[n] = <<>> /\ Range(<<>>) = {}
      BY <1>1, <1>5, <2>4 DEF Range
    <3> QED BY <2>3, <2>4, <3>1
  <2>5. CASE n # 0
    <3>1. n \in 1..N /\ n - 1 \in 0..N /\ n - 1 \notin Bad
      <4>1. n \in 1..N /\ n - 1 \in 0..N
        BY <2>3, <2>5
      <4> HIDE DEF Bad
      <4> QED BY <2>2, <4>1
    <3>2. Good(n - 1)
      BY <3>1
    <3>3. out[n] = Keep(out[n - 1], s[n]) /\ s[n] \in S
      BY <1>5, <2>5, <3>1
    <3>4. /\ out[n] \in Seq(S)
          /\ Range(out[n]) = {s[i] : i \in 1..(n - 1)} \cup {s[n]}
      <4>1. PICK o \in Seq(S) : o = out[n - 1]
        BY <3>2
      <4>2. PICK h \in S : h = s[n]
        BY <3>3
      <4>3. Keep(o, h) \in Seq(S) /\ Range(Keep(o, h)) = Range(o) \cup {h}
        BY Kept
      <4>4. Range(o) = {s[i] : i \in 1..(n - 1)} /\ out[n] = Keep(o, h)
        BY <3>2, <3>3, <4>1, <4>2
      <4> QED BY <4>2, <4>3, <4>4
    <3>5. {s[i] : i \in 1..(n - 1)} \cup {s[n]} = {s[i] : i \in 1..n}
      <4>1. \A i : i \in 1..n <=> i \in 1..(n - 1) \/ i = n
        BY <3>1
      <4> QED BY <4>1
    <3> QED BY <2>3, <3>4, <3>5
  <2> QED BY <2>4, <2>5
<1>7. Good(N)
  <2>1. N \in 0..N
    BY <1>1
  <2> QED BY <1>6, <2>1
<1>8. Range(s) = {s[i] : i \in 1..N}
  BY DEF Range
<1> QED BY <1>1, <1>7, <1>8

\* What the loop over outcomes finds: no error only if there is none, and a
\* cancellation only if nothing else went wrong.
LEMMA FirstErrFound ==
  ASSUME TypeOK
  PROVE  /\ FirstErr \in Errors \cup {None}
         /\ FirstErr = None <=> \A i \in Positions : outcome[i] \notin Errors
         /\ FirstErr = Canceled => \E i \in Positions : outcome[i] = Canceled
         /\ FirstErr = Canceled => \A i \in Positions : outcome[i] # Failure
<1> DEFINE N == Len(hashes)
           X == Errors \cup {None}
           Eq(f) == f = [n \in 0..N |-> IF n = 0 THEN None
                                        ELSE PickError(f[n - 1], outcome[n])]
           first == CHOOSE f : Eq(f)
           g == [n \in 1..N |-> [e \in X |-> PickError(e, outcome[n])]]
<1>1. FirstErr = first[N]
  BY Zenon DEF FirstErr
<1>2. N \in Nat
  BY DEF TypeOK
<1>3. g \in [1..N -> [X -> X]]
  BY DEF PickError
<1>4. \E f : Eq(f)
  <2>1. None \in X
    OBVIOUS
  <2>2. PICK f \in [0..N -> X] : Loop(f, None, g, N)
    <3> HIDE DEF g, N, X
    <3> QED BY <1>2, <1>3, <2>1, LoopExists
  <2>3. \A n \in 1..N : g[n][f[n - 1]] = PickError(f[n - 1], outcome[n])
    <3>1. \A n \in 1..N : f[n - 1] \in X
      <4> HIDE DEF X, N
      <4> QED BY <2>2, <1>2
    <3> HIDE DEF X
    <3> QED BY <3>1
  <2>4. Eq(f)
    <3>1. [n \in 0..N |-> IF n = 0 THEN None ELSE PickError(f[n - 1], outcome[n])]
            = [n \in 0..N |-> IF n = 0 THEN None ELSE g[n][f[n - 1]]]
      <4> HIDE DEF g
      <4> QED BY <1>2, <2>3
    <3> QED BY <2>2, <3>1 DEF Loop
  <2> HIDE DEF Eq
  <2> QED BY <2>4
<1>5. Eq(first)
  <2> HIDE DEF Eq
  <2> QED BY <1>4
<1>6. \A n \in 0..N : first[n] = IF n = 0 THEN None ELSE PickError(first[n - 1], outcome[n])
  <2> HIDE DEF first
  <2> QED BY <1>5
<1> HIDE DEF first
<1> DEFINE Good(n) == /\ first[n] \in X
                      /\ first[n] = None <=> \A i \in 1..n : outcome[i] \notin Errors
                      /\ first[n] = Canceled => \E i \in 1..n : outcome[i] = Canceled
                      /\ first[n] = Canceled => \A i \in 1..n : outcome[i] # Failure
           Bad == {n \in 0..N : ~Good(n)}
<1>7. Bad = {}
  <2>1. SUFFICES ASSUME Bad # {} PROVE FALSE
    OBVIOUS
  <2>2. PICK n \in Bad : \A k \in Bad : n <= k
    <3>1. Bad \in SUBSET Nat
      OBVIOUS
    <3> HIDE DEF Bad
    <3> QED BY <2>1, <3>1, LeastIndex
  <2>3. n \in 0..N /\ ~Good(n)
    OBVIOUS
  <2>4. CASE n = 0
    <3>1. first[n] = None /\ 1..n = {}
      BY <1>2, <1>6, <2>4
    <3>2. Good(n)
      BY <3>1, LookupAssumption DEF Canceled
    <3> QED BY <2>3, <3>2
  <2>5. CASE n # 0
    <3>1. n \in 1..N /\ n - 1 \in 0..N /\ n - 1 \notin Bad
      <4>1. n \in 1..N /\ n - 1 \in 0..N
        BY <1>2, <2>3, <2>5
      <4> HIDE DEF Bad
      <4> QED BY <2>2, <4>1
    <3>2. Good(n - 1)
      BY <3>1
    <3>3. first[n] = PickError(first[n - 1], outcome[n])
      BY <1>6, <2>5, <3>1
    <3>4. \A i : i \in 1..n <=> i \in 1..(n - 1) \/ i = n
      BY <1>2, <3>1
    <3>5. PICK S : S = 1..(n - 1)
      OBVIOUS
    <3>6. PICK T : T = 1..n
      OBVIOUS
    <3>7. \A i : i \in T <=> i \in S \/ i = n
      BY <3>4, <3>5, <3>6
    <3>8. PICK a, b, o : a = first[n - 1] /\ b = first[n] /\ o = outcome[n]
      OBVIOUS
    <3>9. /\ a \in X /\ (a = None <=> \A i \in S : outcome[i] \notin Errors)
          /\ a = Canceled => \E i \in S : outcome[i] = Canceled
          /\ a = Canceled => \A i \in S : outcome[i] # Failure
      BY <3>2, <3>5, <3>8
    <3>10. b = PickError(a, o)
      BY <3>3, <3>8
    <3>11. /\ b \in X /\ (b = None <=> \A i \in T : outcome[i] \notin Errors)
           /\ b = Canceled => \E i \in T : outcome[i] = Canceled
           /\ b = Canceled => \A i \in T : outcome[i] # Failure
      BY <3>7, <3>8, <3>9, <3>10, LookupAssumption
         DEF PickError, Errors, Failure, Canceled
    <3>12. Good(n)
      BY <3>6, <3>8, <3>11
    <3> QED BY <2>3, <3>12
  <2> QED BY <2>4, <2>5
<1>8. Good(N)
  <2>1. N \in 0..N
    BY <1>2
  <2> QED BY <1>7, <2>1
<1> QED BY <1>1, <1>8 DEF Positions

(***************************************************************************)
(* The invariant, action by action.                                        *)
(***************************************************************************)

\* The goroutines that look something up can be counted.
LEMMA LookingFinite ==
  ASSUME TypeOK
  PROVE  IsFiniteSet(Looking) /\ Cardinality(Looking) \in Nat
<1>1. Looking \subseteq 1..Len(hashes) /\ Len(hashes) \in Nat
  BY DEF TypeOK, Looking, Positions
<1>2. IsFiniteSet(1..Len(hashes))
  BY <1>1, FS_Interval
<1> QED BY <1>1, <1>2, FS_Subset, FS_CardinalityType

\* Goroutines run only while the handler waits for them.
LEMMA GoroutineWaited ==
  ASSUME LookupInv, NEW i \in Positions, look[i] # "done"
  PROVE  main = "wait" /\ response = None
<1>1. main # "new"
  BY DEF LookupInv, Stages, Positions
<1>2. main # "done"
  BY DEF LookupInv, Stages
<1> QED BY <1>1, <1>2 DEF LookupInv, Stages, TypeOK

\* The request is refused or its goroutines are started.
LEMMA StartLookup ==
  ASSUME LookupInv, Refuse \/ Start
  PROVE  LookupInv'
<1> USE DEF LookupInv
<1>1. /\ main = "new" /\ hashes = <<>> /\ response = None
      /\ Positions = {}
  BY DEF Refuse, Start, Stages, Positions
<1>2. Looking = {} /\ sem = 0 /\ Cardinality({}) = 0
  <2>1. Looking = {}
    BY <1>1 DEF Looking
  <2> QED BY <2>1, FS_EmptySet
<1>3. CASE Refuse
  <2>1. UNCHANGED <<stored, atStart, request, hashes, look, outcome, sem, cancelled, gone, items>>
    BY <1>3 DEF Refuse
  <2>2. response' = "400" /\ main' = "done" /\ Positions' = {} /\ Looking' = {}
    BY <1>1, <1>2, <1>3, <2>1 DEF Refuse, Positions, Looking
  <2>3. TypeOK'
    BY <2>1, <2>2 DEF TypeOK, Positions
  <2>4. Outcomes' /\ Caused' /\ Stages'
    BY <2>2 DEF Outcomes, Caused, Stages
  <2>5. FailureReported' /\ AnswerRight'
    BY <2>2 DEF FailureReported, AnswerRight, Canceled
  <2> QED BY <1>2, <2>1, <2>2, <2>3, <2>4, <2>5
<1>4. CASE Start
  <2>1. /\ UNCHANGED <<stored, request, sem, cancelled, gone, response, items>>
        /\ hashes' = Unique(request) /\ atStart' = stored /\ main' = "wait"
        /\ look' = [i \in 1..Len(hashes') |-> "select"]
        /\ outcome' = [i \in 1..Len(hashes') |-> None]
    BY <1>4 DEF Start
  <2>2. hashes' \in Seq(Hashes) /\ Range(hashes') = Range(request)
    BY <2>1, UniqueHashes
  <2>3. Positions' = 1..Len(hashes') /\ Looking' = {}
    BY <2>1 DEF Positions, Looking
  <2>4. TypeOK'
    BY <2>1, <2>2, <2>3 DEF TypeOK
  <2>5. Outcomes'
    BY <2>1, <2>3, LookupAssumption DEF Outcomes, Present, Absent
  <2>6. Caused'
    <3>1. \A i \in Positions' : outcome'[i] # Canceled
      BY <2>1, <2>3, LookupAssumption DEF Canceled
    <3>2. cancelled => gone
      BY <1>1 DEF Caused
    <3> QED BY <2>1, <3>1, <3>2 DEF Caused
  <2>7. Stages'
    BY <1>1, <2>1, <2>2 DEF Stages
  <2>8. FailureReported' /\ AnswerRight'
    BY <1>1, <2>1, LookupAssumption DEF FailureReported, AnswerRight, Canceled
  <2>9. Cardinality(Looking') = sem'
    BY <1>2, <2>1, <2>3
  <2> QED BY <2>1, <2>4, <2>5, <2>6, <2>7, <2>8, <2>9
<1> QED BY <1>3, <1>4

\* A token is taken.
LEMMA AcquireLookup ==
  ASSUME LookupInv, NEW i \in Positions, Acquire(i)
  PROVE  LookupInv'
<1> USE DEF LookupInv
<1>1. /\ UNCHANGED <<stored, atStart, request, hashes, main, outcome, cancelled, gone,
                     response, items>>
      /\ look[i] = "select" /\ look' = [look EXCEPT ![i] = "look"]
      /\ sem < Concurrency /\ sem' = sem + 1
  BY DEF Acquire
<1>2. Positions' = Positions /\ look \in [Positions -> {"select", "look", "done"}]
  BY <1>1 DEF Positions, TypeOK
<1>3. main = "wait" /\ response = None
  BY <1>1, GoroutineWaited
<1>4. Looking' = Looking \cup {i} /\ i \notin Looking
  BY <1>1, <1>2 DEF Looking
<1>5. sem' = Cardinality(Looking') /\ sem' \in 0..Concurrency
  <2>1. Cardinality(Looking') = Cardinality(Looking) + 1
    BY <1>4, LookingFinite, FS_AddElement
  <2> QED BY <1>1, <2>1, LookupAssumption DEF TypeOK
<1>6. TypeOK'
  BY <1>1, <1>2, <1>5 DEF TypeOK
<1>7. Outcomes'
  BY <1>1, <1>2 DEF Outcomes
<1>8. Caused' /\ Stages'
  BY <1>1, <1>2, <1>3 DEF Caused, Stages
<1>9. FailureReported' /\ AnswerRight'
  BY <1>1, <1>3, LookupAssumption DEF FailureReported, AnswerRight, Canceled
<1> QED BY <1>1, <1>5, <1>6, <1>7, <1>8, <1>9

\* A goroutine ends with outcome o: found, not found, an error of its own, or
\* a cancellation.
LEMMA EndLookup ==
  ASSUME LookupInv, NEW i \in Positions, NEW o \in Items \cup Errors,
         look[i] \in {"select", "look"},
         look' = [look EXCEPT ![i] = "done"], outcome' = [outcome EXCEPT ![i] = o],
         sem' = IF look[i] = "look" THEN sem - 1 ELSE sem,
         cancelled' = (cancelled \/ (o \in Errors /\ look[i] = "look")),
         UNCHANGED <<stored, atStart, request, hashes, main, gone, response, items>>,
         o = Present => hashes[i] \in stored, o = Absent => hashes[i] \notin stored,
         o = Canceled => Done
  PROVE  LookupInv'
<1> USE DEF LookupInv
<1>1. /\ Positions' = Positions /\ look \in [Positions -> {"select", "look", "done"}]
      /\ outcome \in [Positions -> Items \cup Errors \cup {None}]
  BY DEF Positions, TypeOK
<1>2. main = "wait" /\ response = None
  BY GoroutineWaited
<1>3. o # None
  BY LookupAssumption DEF Items, Errors, Present, Absent, Failure, Canceled
<1>4. Looking' = Looking \ {i} /\ (i \in Looking <=> look[i] = "look")
  BY <1>1 DEF Looking
<1>5. sem' = Cardinality(Looking') /\ sem' \in 0..Concurrency
  <2>1. Cardinality(Looking') = IF i \in Looking THEN Cardinality(Looking) - 1
                                                 ELSE Cardinality(Looking)
    BY <1>4, LookingFinite, FS_RemoveElement
  <2>2. IsFiniteSet(Looking')
    BY <1>4, LookingFinite, FS_RemoveElement
  <2>3. Cardinality(Looking') \in Nat
    BY <2>2, FS_CardinalityType
  <2>4. sem' = Cardinality(Looking')
    BY <1>4, <2>1
  <2> QED BY <2>3, <2>4, LookupAssumption DEF TypeOK
<1>6. cancelled' \in BOOLEAN /\ gone \in BOOLEAN /\ cancelled \in BOOLEAN
  <2>1. (cancelled \/ (o \in Errors /\ look[i] = "look")) \in BOOLEAN
    OBVIOUS
  <2> QED BY <2>1, Zenon DEF TypeOK
<1>7. TypeOK'
  BY <1>1, <1>5, <1>6 DEF TypeOK
<1>8. Outcomes'
  BY <1>1, <1>3 DEF Outcomes
<1>9. Caused'
  <2>1. (\E j \in Positions : outcome[j] = Failure) => \E j \in Positions : outcome'[j] = Failure
    <3>1. SUFFICES ASSUME NEW j \in Positions, outcome[j] = Failure
                   PROVE  \E k \in Positions : outcome'[k] = Failure
      OBVIOUS
    <3>2. j # i
      BY <3>1, LookupAssumption DEF Outcomes, Failure
    <3> QED BY <1>1, <3>1, <3>2
  <2>2. o = Failure => \E j \in Positions : outcome'[j] = Failure
    BY <1>1
  <2>3. o = Canceled \/ cancelled => gone \/ \E j \in Positions : outcome'[j] = Failure
    BY <1>2, <2>1 DEF Done, Caused
  <2>4. cancelled' => gone \/ \E j \in Positions : outcome'[j] = Failure
    <3>1. cancelled' => cancelled \/ o \in Errors
      BY Zenon
    <3> QED BY <2>2, <2>3, <3>1 DEF Errors
  <2>5. (\E j \in Positions : outcome'[j] = Canceled)
          => gone \/ \E j \in Positions : outcome'[j] = Failure
    <3>1. SUFFICES ASSUME NEW j \in Positions, outcome'[j] = Canceled
                   PROVE  gone \/ \E k \in Positions : outcome'[k] = Failure
      OBVIOUS
    <3>2. j = i => o = Canceled
      BY <1>1, <3>1
    <3>3. j # i => outcome[j] = Canceled
      BY <1>1, <3>1
    <3> QED BY <2>1, <2>3, <3>2, <3>3 DEF Caused
  <2> QED BY <1>1, <2>4, <2>5 DEF Caused
<1>10. Stages'
  BY <1>2 DEF Stages
<1>11. FailureReported' /\ AnswerRight'
  BY <1>2, LookupAssumption DEF FailureReported, AnswerRight, Canceled
<1> QED BY <1>5, <1>7, <1>8, <1>9, <1>10, <1>11

\* Every way a goroutine goes on.
LEMMA GoroutineLookup ==
  ASSUME LookupInv, NEW i \in Positions, Goroutine(i)
  PROVE  LookupInv'
<1>1. cancelled \in BOOLEAN
  BY DEF LookupInv, TypeOK
<1>2. Present # Absent /\ Items \cap Errors = {} /\ Canceled \notin Items
      /\ Canceled # Present /\ Canceled # Absent /\ Failure # Present /\ Failure # Absent
      /\ Failure # Canceled
  BY DEF Present, Absent, Failure, Canceled, Items, Errors
<1>3. CASE Acquire(i)
  BY <1>3, AcquireLookup
<1>4. CASE Skip(i)
  <2>1. cancelled' = (cancelled \/ (Canceled \in Errors /\ look[i] = "look"))
    <3>1. look[i] # "look"
      BY <1>4 DEF Skip
    <3>2. cancelled' = cancelled
      BY <1>4 DEF Skip
    <3> QED BY <1>1, <3>1, <3>2, Zenon
  <2>2. Canceled \in Items \cup Errors
    BY DEF Errors
  <2> QED BY <1>2, <1>4, <2>1, <2>2, EndLookup DEF Skip
<1>5. CASE Look(i)
  <2> DEFINE o == IF hashes[i] \in stored THEN Present ELSE Absent
  <2>1. o \in Items /\ o \notin Errors /\ o # Canceled
    BY <1>2 DEF Items
  <2>2. cancelled' = (cancelled \/ (o \in Errors /\ look[i] = "look"))
    <3>1. cancelled' = cancelled
      BY <1>5 DEF Look
    <3> QED BY <1>1, <2>1, <3>1, Zenon
  <2>3. (o = Present => hashes[i] \in stored) /\ (o = Absent => hashes[i] \notin stored)
    BY <1>2
  <2>4. /\ look[i] = "look" /\ outcome' = [outcome EXCEPT ![i] = o]
        /\ look' = [look EXCEPT ![i] = "done"] /\ sem' = sem - 1
        /\ UNCHANGED <<stored, atStart, request, hashes, main, gone, response, items>>
    BY <1>5 DEF Look, Release
  <2> HIDE DEF o
  <2> QED BY <2>1, <2>2, <2>3, <2>4, EndLookup
<1>6. CASE LookError(i)
  <2>1. PICK e \in Errors : (e = Canceled => Done) /\ outcome' = [outcome EXCEPT ![i] = e]
    BY <1>6 DEF LookError
  <2>2. e # Present /\ e # Absent
    BY <1>2 DEF Errors
  <2>3. cancelled' = (cancelled \/ (e \in Errors /\ look[i] = "look"))
    <3>1. cancelled' = TRUE /\ look[i] = "look"
      BY <1>6 DEF LookError
    <3> QED BY <1>1, <2>1, <3>1, Zenon
  <2> QED BY <1>6, <2>1, <2>2, <2>3, EndLookup DEF LookError, Release
<1> QED BY <1>3, <1>4, <1>5, <1>6 DEF Goroutine

\* The items a handler answers with when no look-up failed.
LEMMA ItemsRight ==
  ASSUME LookupInv, main = "wait", \A i \in Positions : look[i] = "done", FirstErr = None
  PROVE  /\ ItemsOf \in [Range(request) -> Items]
         /\ \A h \in Range(request) : /\ ItemsOf[h] = Present => h \in stored
                                      /\ ItemsOf[h] = Absent => h \notin atStart
<1> USE DEF LookupInv
<1>1. Range(hashes) = Range(request) /\ DOMAIN hashes = Positions
  BY DEF Stages, TypeOK, Positions
<1>2. ASSUME NEW h \in Range(request)
      PROVE  /\ ItemsOf[h] \in Items
             /\ ItemsOf[h] = Present => h \in stored
             /\ ItemsOf[h] = Absent => h \notin atStart
  <2> DEFINE i == CHOOSE k \in Positions : hashes[k] = h
  <2>1. i \in Positions /\ hashes[i] = h
    <3>1. \E k \in Positions : hashes[k] = h
      BY <1>1 DEF Range
    <3> QED BY <3>1
  <2>2. ItemsOf[h] = outcome[i]
    BY DEF ItemsOf
  <2> HIDE DEF i
  <2>3. outcome[i] \in Items
    <3>1. outcome[i] # None /\ outcome[i] \notin Errors
      BY <2>1, FirstErrFound DEF Outcomes
    <3>2. outcome[i] \in Items \cup Errors \cup {None}
      BY <2>1 DEF TypeOK
    <3> QED BY <3>1, <3>2
  <2> QED BY <2>1, <2>2, <2>3 DEF Outcomes
<1> QED BY <1>2 DEF ItemsOf

\* The answer.
LEMMA CollectLookup ==
  ASSUME LookupInv, Collect
  PROVE  LookupInv'
<1> USE DEF LookupInv
<1>1. /\ UNCHANGED <<stored, atStart, request, hashes, look, outcome, sem, gone>>
      /\ main = "wait" /\ main' = "done" /\ cancelled' = TRUE
      /\ \A i \in Positions : look[i] = "done"
      /\ response = None
  BY DEF Collect, Stages
<1>2. Positions' = Positions /\ Looking' = Looking
  BY <1>1 DEF Positions, Looking
<1>3. Outcomes' /\ Stages' /\ Caused'
  BY <1>1, <1>2 DEF Outcomes, Stages, Caused
<1>4. \/ FirstErr # None /\ response' = FirstErr /\ items' = items
      \/ FirstErr = None /\ response' = "200" /\ items' = ItemsOf
  BY DEF Collect
<1>5. FirstErr \in Errors \cup {None} /\ "200" \notin Errors
  BY FirstErrFound DEF Errors, Failure, Canceled
<1>6. TypeOK'
  <2>1. items' \in [DOMAIN items' -> Items]
    <3>1. CASE items' = items
      BY <3>1 DEF TypeOK
    <3>2. CASE FirstErr = None /\ items' = ItemsOf
      <4>1. ItemsOf \in [Range(request) -> Items]
        BY <1>1, <3>2, ItemsRight
      <4> QED BY <3>2, <4>1
    <3> QED BY <1>4, <3>1, <3>2
  <2>2. response' \in {None, "400", "200"} \cup Errors
    BY <1>4, <1>5
  <2> QED BY <1>1, <1>2, <2>1, <2>2 DEF TypeOK
<1>7. FailureReported'
  <2>1. SUFFICES ASSUME response' = Canceled PROVE gone
    BY <1>1 DEF FailureReported
  <2>2. FirstErr = Canceled
    BY <1>4, <2>1 DEF Canceled
  <2> QED BY <2>2, FirstErrFound DEF Caused
<1>8. AnswerRight'
  <2>1. SUFFICES ASSUME response' = "200"
        PROVE  /\ DOMAIN items' = Range(request)
               /\ \A h \in Range(request) : /\ items'[h] = Present => h \in stored
                                            /\ items'[h] = Absent => h \notin atStart
    BY <1>1 DEF AnswerRight
  <2>2. FirstErr = None /\ items' = ItemsOf
    BY <1>4, <1>5, <2>1
  <2> QED BY <1>1, <2>2, ItemsRight
<1> QED BY <1>1, <1>2, <1>3, <1>6, <1>7, <1>8

\* Clients: one goes away, others push.
LEMMA ClientLookup ==
  ASSUME LookupInv, Disconnect \/ (\E h \in ValidHashes : Push(h))
  PROVE  LookupInv'
<1> USE DEF LookupInv
<1>1. /\ UNCHANGED <<atStart, request, hashes, main, look, outcome, sem, cancelled,
                     response, items>>
      /\ stored \subseteq stored' /\ stored' \subseteq ValidHashes
      /\ gone' = gone \/ gone' = TRUE
      /\ main # "done"
  BY DEF Disconnect, Push, TypeOK
<1>2. Positions' = Positions /\ Looking' = Looking /\ response = None
  BY <1>1 DEF Positions, Looking, Stages
<1>3. TypeOK'
  BY <1>1, <1>2 DEF TypeOK
<1>4. Outcomes' /\ Stages'
  BY <1>1, <1>2 DEF Outcomes, Stages
<1>5. Caused'
  <2>1. gone => gone'
    BY <1>1, Zenon
  <2> QED BY <1>1, <1>2, <2>1 DEF Caused
<1>6. FailureReported' /\ AnswerRight'
  BY <1>1, <1>2, LookupAssumption DEF FailureReported, AnswerRight, Canceled
<1> QED BY <1>1, <1>2, <1>3, <1>4, <1>5, <1>6

\* Nothing moves.
LEMMA StutterLookup == LookupInv /\ UNCHANGED vars => LookupInv'
BY DEF vars, LookupInv, TypeOK, Positions, Looking, Outcomes, Caused, Stages,
       FailureReported, AnswerRight

\* Every step of a request, of its goroutines and of its client keeps the
\* invariant.
LEMMA NextLookup == LookupInv /\ [Next]_vars => LookupInv'
BY StartLookup, GoroutineLookup, CollectLookup, ClientLookup, StutterLookup DEF Next

\* A request that has just arrived satisfies the invariant.
LEMMA InitLookup == Init => LookupInv
<1>1. SUFFICES ASSUME Init PROVE LookupInv
  OBVIOUS
<1>2. Positions = {} /\ Looking = {} /\ hashes = <<>>
  BY <1>1 DEF Init, Positions, Looking
<1>3. PICK m \in 0..MaxNamed : request \in [1..m -> Hashes]
  BY <1>1 DEF Init, BoundedSeq, SeqOf
<1>4. request \in Seq(Hashes) /\ Len(request) = m /\ m <= MaxNamed
  BY <1>3, LookupAssumption
<1>5. Range(request) \subseteq Hashes
  BY <1>4 DEF Range
<1>6. TypeOK
  <2>1. cancelled \in BOOLEAN /\ gone \in BOOLEAN
    BY <1>1, Zenon DEF Init
  <2>2. sem \in 0..Concurrency
    BY <1>1, LookupAssumption DEF Init
  <2> QED BY <1>1, <1>2, <1>4, <1>5, <2>1, <2>2 DEF Init, TypeOK
<1>7. Outcomes /\ Caused /\ Stages
  BY <1>1, <1>2 DEF Init, Outcomes, Caused, Stages
<1>8. FailureReported /\ AnswerRight
  BY <1>1, LookupAssumption DEF Init, FailureReported, AnswerRight, Canceled
<1>9. sem = Cardinality(Looking)
  BY <1>1, <1>2, FS_EmptySet DEF Init
<1> QED BY <1>1, <1>4, <1>6, <1>7, <1>8, <1>9 DEF LookupInv, Init

(***************************************************************************)
(* The theorems.                                                           *)
(***************************************************************************)

\* The invariant holds for every request and every existsLookupConcurrency.
THEOREM LookupInvariant == Spec => []LookupInv
BY InitLookup, NextLookup, PTL DEF Spec

\* The semaphore, the outcomes and the items have their types; a response
\* never holds an item that no look-up produced.
THEOREM LookupTypes == Spec => []TypeOK
<1>1. LookupInv => TypeOK
  BY DEF LookupInv
<1> QED BY <1>1, LookupInvariant, PTL

\* A cancellation that one failing look-up caused in the others is never what
\* the client is told, in whatever order the outcomes arrived.
THEOREM FailuresAreReported == Spec => []FailureReported
<1>1. LookupInv => FailureReported
  BY DEF LookupInv
<1> QED BY <1>1, LookupInvariant, PTL

\* A 200 covers exactly the hashes the request names, and every item is right.
THEOREM AnswersAreRight == Spec => []AnswerRight
<1>1. LookupInv => AnswerRight
  BY DEF LookupInv
<1> QED BY <1>1, LookupInvariant, PTL

\* The tokens of the semaphore are the look-ups that run; none runs on when
\* the handler has returned.
THEOREM LookupsAreBounded == Spec => []LookupsBounded
<1>1. LookupInv => LookupsBounded
  <2>1. SUFFICES ASSUME LookupInv
                 PROVE  Cardinality(Looking) <= Concurrency /\ (main = "done" => Looking = {})
    BY DEF LookupsBounded, Looking
  <2>2. Cardinality(Looking) <= Concurrency
    BY <2>1, LookupAssumption DEF LookupInv, TypeOK
  <2>3. main = "done" => Looking = {}
    BY <2>1 DEF LookupInv, Stages, Looking
  <2> QED BY <2>2, <2>3
<1> QED BY <1>1, LookupInvariant, PTL
=============================================================================
