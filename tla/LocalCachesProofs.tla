-------------------------- MODULE LocalCachesProofs --------------------------
(***************************************************************************)
(* What LocalCaches promises for every number of requests and payloads,    *)
(* every payload size and every limit.                                     *)
(***************************************************************************)
EXTENDS LocalCaches, FiniteSetTheorems, SequenceTheorems, NaturalsInduction,
        WellFoundedInduction, TLAPS

(***************************************************************************)
(* Sums of payload sizes.  BytesOf folds over a set in an order that       *)
(* CHOOSE picks; counting the single bytes gives the same number.          *)
(***************************************************************************)

\* The single bytes of the payloads S.
SingleBytes(S) == UNION {{h} \X (1..Size[h]) : h \in S}

\* One payload has as many single bytes as its size says.
LEMMA BytesOfOne ==
  ASSUME NEW h \in Hashes
  PROVE  /\ IsFiniteSet({h} \X (1..Size[h]))
         /\ Cardinality({h} \X (1..Size[h])) = Size[h]
<1>1. Size[h] \in Nat
  BY CachesAssumption
<1>2. IsFiniteSet({h}) /\ Cardinality({h}) = 1
  BY FS_Singleton
<1>3. IsFiniteSet(1..Size[h]) /\ Cardinality(1..Size[h]) = Size[h]
  <2>1. IsFiniteSet(1..Size[h]) /\ Cardinality(1..Size[h]) =
          IF 1 > Size[h] THEN 0 ELSE Size[h] - 1 + 1
    BY <1>1, FS_Interval
  <2> QED BY <1>1, <2>1
<1>4. /\ IsFiniteSet({h} \X (1..Size[h]))
      /\ Cardinality({h} \X (1..Size[h])) = Cardinality({h}) * Cardinality(1..Size[h])
  BY <1>2, <1>3, FS_Product, Zenon
<1> QED BY <1>1, <1>2, <1>3, <1>4

\* Finitely many payloads have finitely many single bytes.
LEMMA SingleBytesFinite ==
  ASSUME NEW S \in SUBSET Hashes
  PROVE  /\ IsFiniteSet(SingleBytes(S))
         /\ Cardinality(SingleBytes(S)) \in Nat
<1> DEFINE Blocks == {{h} \X (1..Size[h]) : h \in S}
<1>1. IsFiniteSet(S)
  BY CachesAssumption, FS_Subset
<1>2. IsFiniteSet(Blocks)
  <2> DEFINE f == [h \in S |-> {h} \X (1..Size[h])]
  <2>1. f \in Surjection(S, Blocks)
    BY DEF Surjection
  <2> QED BY <1>1, <2>1, FS_Surjection
<1>3. \A T \in Blocks : IsFiniteSet(T)
  BY BytesOfOne
<1>4. IsFiniteSet(UNION Blocks)
  BY <1>2, <1>3, FS_UNION
<1> QED BY <1>4, FS_CardinalityType DEF SingleBytes

\* The single bytes of disjoint sets add up.
LEMMA SingleBytesAdd ==
  ASSUME NEW S \in SUBSET Hashes, NEW T \in SUBSET Hashes, S \cap T = {}
  PROVE  Cardinality(SingleBytes(S \cup T)) =
           Cardinality(SingleBytes(S)) + Cardinality(SingleBytes(T))
<1> DEFINE A == SingleBytes(S)
           B == SingleBytes(T)
<1>1. SingleBytes(S \cup T) = A \cup B
  BY DEF SingleBytes
<1>2. A \cap B = {}
  BY DEF SingleBytes
<1>3. /\ IsFiniteSet(A) /\ Cardinality(A) \in Nat
      /\ IsFiniteSet(B) /\ Cardinality(B) \in Nat
  BY SingleBytesFinite
<1> HIDE DEF A, B
<1>4. Cardinality(A \cup B) = Cardinality(A) + Cardinality(B) - Cardinality(A \cap B)
  BY <1>3, FS_Union, Zenon
<1>5. Cardinality(A \cap B) = 0
  BY <1>2, FS_EmptySet
<1>6. Cardinality(A \cup B) = Cardinality(A) + Cardinality(B)
  BY <1>3, <1>4, <1>5
<1> QED BY <1>1, <1>6 DEF A, B

\* The fold of BytesOf is written with a recursive function: a member that
\* CHOOSE picks is counted, and the rest after it.
Picked(s) == CHOOSE x \in s : TRUE
FoldsOver(g, S) ==
  g = [s \in SUBSET S |->
         IF s = {} THEN 0 ELSE Size[Picked(s)] + g[s \ {Picked(s)}]]

\* BytesOf is a fold that takes its elements in the order of CHOOSE.
LEMMA FoldOfBytes ==
  ASSUME NEW S
  PROVE  BytesOf(S) = (CHOOSE iter : FoldsOver(iter, S))[S]
BY DEF BytesOf, MapThenSumSet, MapThenFoldSet, FoldsOver, Picked

\* Counting single bytes is such a fold.
LEMMA CountFolds ==
  ASSUME NEW S \in SUBSET Hashes
  PROVE  FoldsOver([s \in SUBSET S |-> Cardinality(SingleBytes(s))], S)
<1> DEFINE count == [s \in SUBSET S |-> Cardinality(SingleBytes(s))]
<1>1. ASSUME NEW s \in SUBSET S
      PROVE  count[s] = IF s = {} THEN 0
                        ELSE Size[Picked(s)] + count[s \ {Picked(s)}]
  <2>1. CASE s = {}
    <3>1. SingleBytes({}) = {}
      BY DEF SingleBytes
    <3> QED BY <2>1, <3>1, FS_EmptySet
  <2>2. CASE s # {}
    <3> DEFINE x == Picked(s)
    <3>1. x \in s
      BY <2>2 DEF Picked
    <3>2. x \in Hashes /\ {x} \in SUBSET Hashes /\ s \ {x} \in SUBSET S
          /\ s \ {x} \in SUBSET Hashes
      BY <3>1
    <3> HIDE DEF x
    <3>3. Cardinality(SingleBytes({x} \cup (s \ {x}))) =
            Cardinality(SingleBytes({x})) + Cardinality(SingleBytes(s \ {x}))
      BY <3>2, SingleBytesAdd
    <3>4. Cardinality(SingleBytes({x})) = Size[x]
      <4>1. SingleBytes({x}) = {x} \X (1..Size[x])
        BY DEF SingleBytes
      <4> QED BY <3>2, <4>1, BytesOfOne
    <3>5. {x} \cup (s \ {x}) = s
      BY <3>1
    <3>6. count[s] = Size[x] + count[s \ {x}]
      BY <3>2, <3>3, <3>4, <3>5
    <3> QED BY <2>2, <3>6 DEF x
  <2> QED BY <2>1, <2>2
<1> HIDE DEF count
<1>2. count = [s \in SUBSET S |->
                 IF s = {} THEN 0 ELSE Size[Picked(s)] + count[s \ {Picked(s)}]]
  <2>1. count = [s \in SUBSET S |-> count[s]]
    BY DEF count
  <2> QED BY <1>1, <2>1
<1> QED BY <1>2 DEF FoldsOver, count

\* All folds over a finite set agree: a set of least cardinality where two
\* differ is not empty, and they agree on it without its picked member.
LEMMA FoldUnique ==
  ASSUME NEW S, IsFiniteSet(S), NEW f, NEW g, FoldsOver(f, S), FoldsOver(g, S)
  PROVE  f[S] = g[S]
<1> DEFINE Differ == {s \in SUBSET S : f[s] # g[s]}
<1>1. SUFFICES ASSUME Differ # {} PROVE FALSE
  BY <1>1
<1>2. /\ IsWellFoundedOn(StrictSubsetOrdering(S), FiniteSubsetsOf(S))
      /\ FiniteSubsetsOf(S) = SUBSET S
  BY FS_StrictSubsetOrderingWellFounded, FS_FiniteSubsetsOfFinite
<1>3. PICK s \in Differ : \A t \in Differ : <<t, s>> \notin StrictSubsetOrdering(S)
  <2>1. Differ \subseteq SUBSET S
    OBVIOUS
  <2> HIDE DEF Differ
  <2> QED BY <1>1, <1>2, <2>1, WFMin
<1>4. s # {}
  BY <1>3 DEF FoldsOver
<1> DEFINE rest == s \ {Picked(s)}
<1>5. Picked(s) \in s
  BY <1>4 DEF Picked
<1>6. rest \in SUBSET S /\ <<rest, s>> \in StrictSubsetOrdering(S)
  BY <1>3, <1>5 DEF StrictSubsetOrdering
<1>7. f[rest] = g[rest]
  BY <1>3, <1>6
<1>8. f[s] = Size[Picked(s)] + f[rest] /\ g[s] = Size[Picked(s)] + g[rest]
  BY <1>3, <1>4 DEF FoldsOver
<1> QED BY <1>3, <1>7, <1>8

\* The fold counts the single bytes.
LEMMA BytesAreCounted ==
  ASSUME NEW S \in SUBSET Hashes
  PROVE  BytesOf(S) = Cardinality(SingleBytes(S))
<1> DEFINE iter == CHOOSE iter : FoldsOver(iter, S)
           count == [s \in SUBSET S |-> Cardinality(SingleBytes(s))]
<1>1. IsFiniteSet(S)
  BY CachesAssumption, FS_Subset
<1>2. FoldsOver(count, S)
  BY CountFolds
<1>3. FoldsOver(iter, S)
  BY <1>2
<1> HIDE DEF iter
<1>4. iter[S] = count[S]
  <2> HIDE DEF count
  <2> QED BY <1>1, <1>2, <1>3, FoldUnique
<1> QED BY <1>4, FoldOfBytes DEF iter

\* What the proofs below use of BytesOf.
LEMMA BytesOfFacts ==
  /\ BytesOf({}) = 0
  /\ \A S \in SUBSET Hashes : BytesOf(S) \in Nat
  /\ \A h \in Hashes : BytesOf({h}) = Size[h]
  /\ \A S, T \in SUBSET Hashes :
       S \cap T = {} => BytesOf(S \cup T) = BytesOf(S) + BytesOf(T)
<1>1. BytesOf({}) = 0
  <2>1. SingleBytes({}) = {}
    BY DEF SingleBytes
  <2> QED BY <2>1, BytesAreCounted, FS_EmptySet
<1>2. \A S \in SUBSET Hashes : BytesOf(S) \in Nat
  BY BytesAreCounted, SingleBytesFinite
<1>3. ASSUME NEW h \in Hashes
      PROVE  BytesOf({h}) = Size[h]
  <2>1. SingleBytes({h}) = {h} \X (1..Size[h])
    BY DEF SingleBytes
  <2>2. BytesOf({h}) = Cardinality(SingleBytes({h}))
    BY BytesAreCounted
  <2> QED BY <2>1, <2>2, BytesOfOne
<1>4. ASSUME NEW S \in SUBSET Hashes, NEW T \in SUBSET Hashes, S \cap T = {}
      PROVE  BytesOf(S \cup T) = BytesOf(S) + BytesOf(T)
  <2>1. /\ BytesOf(S) = Cardinality(SingleBytes(S))
        /\ BytesOf(T) = Cardinality(SingleBytes(T))
        /\ BytesOf(S \cup T) = Cardinality(SingleBytes(S \cup T))
    BY BytesAreCounted
  <2> QED BY <1>4, <2>1, SingleBytesAdd
<1> QED BY <1>1, <1>2, <1>3, <1>4

(***************************************************************************)
(* The list of the memory cache.                                           *)
(***************************************************************************)

\* The members of a list at its first n places, and those behind them.
FirstOf(list, n)  == {list[i] : i \in 1..n}
BehindOf(list, n) == {list[i] : i \in (n + 1)..Len(list)}

\* What is in a list is at a place of it.
LEMMA Members ==
  ASSUME NEW list \in Seq(Hashes)
  PROVE  /\ ToSet(list) \in SUBSET Hashes
         /\ \A x : x \in ToSet(list) <=> \E i \in 1..Len(list) : list[i] = x
<1>1. DOMAIN list = 1..Len(list) /\ \A i \in 1..Len(list) : list[i] \in Hashes
  BY LenProperties, ElementOfSeq
<1> QED BY <1>1 DEF ToSet

\* A list without one of its members, at each place.
LEMMA RemovedShape ==
  ASSUME NEW list \in Seq(Hashes), Distinct(list), NEW k \in 1..Len(list)
  PROVE  /\ RemoveFirst(list, list[k]) \in Seq(Hashes)
         /\ Len(RemoveFirst(list, list[k])) = Len(list) - 1
         /\ \A i \in 1..(Len(list) - 1) :
              RemoveFirst(list, list[k])[i] = IF i < k THEN list[i] ELSE list[i + 1]
<1> DEFINE h == list[k]
           I == {i \in 1..Len(list) : list[i] = h}
           front == SubSeq(list, 1, k - 1)
           back == SubSeq(list, k + 1, Len(list))
<1>1. Len(list) \in Nat /\ \A i \in 1..Len(list) : list[i] \in Hashes
  BY LenProperties, ElementOfSeq
<1>2. I = {k}
  BY DEF Distinct
<1>3. SelectInSeq(list, LAMBDA v : v = h) = k
  <2>1. Min({k}) = k
    BY DEF Min
  <2> QED BY <1>2, <2>1 DEF SelectInSeq
<1>4. RemoveFirst(list, h) = front \o back
  BY <1>3 DEF RemoveFirst, RemoveAt
<1>5. /\ front \in Seq(Hashes) /\ Len(front) = k - 1
      /\ \A i \in 1..(k - 1) : front[i] = list[i]
  <2>1. k - 1 \in Int /\ 1 \in Int /\ \A i \in 1..(k - 1) : list[i] \in Hashes
    BY <1>1
  <2>2. /\ front \in Seq(Hashes)
        /\ Len(front) = IF 1 <= k - 1 THEN k - 1 - 1 + 1 ELSE 0
        /\ \A i \in 1..(k - 1 - 1 + 1) : front[i] = list[1 + i - 1]
    BY <2>1, SubSeqProperties
  <2> QED BY <1>1, <2>2
<1>6. /\ back \in Seq(Hashes) /\ Len(back) = Len(list) - k
      /\ \A i \in 1..(Len(list) - k) : back[i] = list[k + i]
  <2>1. k + 1 \in Int /\ Len(list) \in Int
        /\ \A i \in (k + 1)..Len(list) : list[i] \in Hashes
    BY <1>1
  <2>2. /\ back \in Seq(Hashes)
        /\ Len(back) = IF k + 1 <= Len(list) THEN Len(list) - (k + 1) + 1 ELSE 0
        /\ \A i \in 1..(Len(list) - (k + 1) + 1) : back[i] = list[k + 1 + i - 1]
    BY <2>1, SubSeqProperties
  <2> QED BY <1>1, <2>2
<1> HIDE DEF front, back
<1>7. /\ front \o back \in Seq(Hashes)
      /\ Len(front \o back) = Len(front) + Len(back)
      /\ \A i \in 1..(Len(front) + Len(back)) :
           (front \o back)[i] =
             IF i <= Len(front) THEN front[i] ELSE back[i - Len(front)]
  BY <1>5, <1>6, ConcatProperties
<1>8. Len(front) + Len(back) = Len(list) - 1
  BY <1>1, <1>5, <1>6
<1>9. ASSUME NEW i \in 1..(Len(list) - 1)
      PROVE  (front \o back)[i] = IF i < k THEN list[i] ELSE list[i + 1]
  <2>1. CASE i < k
    BY <1>1, <1>5, <1>7, <1>8, <2>1
  <2>2. CASE ~(i < k)
    <3>1. i - (k - 1) \in 1..(Len(list) - k) /\ k + (i - (k - 1)) = i + 1
      BY <1>1, <2>2
    <3>2. back[i - (k - 1)] = list[i + 1]
      BY <1>6, <3>1
    <3> QED BY <1>1, <1>5, <1>7, <1>8, <2>2, <3>2
  <2> QED BY <2>1, <2>2
<1> QED BY <1>4, <1>7, <1>8, <1>9

\* Putting h in front of the rest of a list: the other members keep their
\* order behind it.
Fronted(list, h) == <<h>> \o RemoveFirst(list, h)

\* The list with h in front, position by position.
LEMMA FrontedShape ==
  ASSUME NEW list \in Seq(Hashes), NEW h \in Hashes,
         NEW rest \in Seq(Hashes), rest = RemoveFirst(list, h)
  PROVE  /\ Fronted(list, h) \in Seq(Hashes)
         /\ Len(Fronted(list, h)) = Len(rest) + 1
         /\ Fronted(list, h)[1] = h
         /\ \A i \in 2..(Len(rest) + 1) : Fronted(list, h)[i] = rest[i - 1]
<1>1. <<h>> \in Seq(Hashes) /\ Len(<<h>>) = 1 /\ <<h>>[1] = h
  OBVIOUS
<1>2. /\ <<h>> \o rest \in Seq(Hashes)
      /\ Len(<<h>> \o rest) = Len(<<h>>) + Len(rest)
      /\ \A i \in 1..(Len(<<h>>) + Len(rest)) :
           (<<h>> \o rest)[i] = IF i <= Len(<<h>>) THEN <<h>>[i] ELSE rest[i - Len(<<h>>)]
  BY <1>1, ConcatProperties
<1>3. Len(rest) \in Nat
  BY LenProperties
<1> QED BY <1>1, <1>2, <1>3 DEF Fronted

\* ... and by who is ahead of whom.
LEMMA FrontedOrder ==
  ASSUME NEW list \in Seq(Hashes), Distinct(list), NEW h \in Hashes
  PROVE  /\ Fronted(list, h) \in Seq(Hashes)
         /\ Distinct(Fronted(list, h))
         /\ Len(Fronted(list, h)) > 0 /\ Fronted(list, h)[1] = h
         /\ ToSet(Fronted(list, h)) = ToSet(list) \cup {h}
         /\ \A a, b \in Hashes : Ahead(Fronted(list, h), a, b) <=>
              \/ a = h /\ b \in ToSet(list) \ {h}
              \/ Ahead(list, a, b) /\ h \notin {a, b}
<1> DEFINE new == Fronted(list, h)
<1>1. Len(list) \in Nat /\ DOMAIN list = 1..Len(list)
      /\ \A i \in 1..Len(list) : list[i] \in Hashes
  BY LenProperties, ElementOfSeq
<1>2. CASE h \notin ToSet(list)
  <2>1. RemoveFirst(list, h) = list
    BY <1>1, <1>2 DEF RemoveFirst, ToSet
  <2>2. /\ new \in Seq(Hashes) /\ Len(new) = Len(list) + 1 /\ new[1] = h
        /\ \A i \in 2..(Len(list) + 1) : new[i] = list[i - 1]
    BY <2>1, FrontedShape
  <2>3. DOMAIN new = 1..Len(new)
    BY <2>2, LenProperties
  <2>4. \A i \in 1..Len(list) : list[i] # h
    BY <1>1, <1>2 DEF ToSet
  <2> HIDE DEF new
  <2>5. Distinct(new)
    BY <1>1, <2>2, <2>4 DEF Distinct
  <2>6. \A i \in 1..Len(list) : new[i + 1] = list[i] /\ i + 1 \in 1..Len(new)
    BY <1>1, <2>2
  <2>7. ToSet(new) = ToSet(list) \cup {h}
    <3>1. ASSUME NEW x
          PROVE  x \in ToSet(new) <=> x \in ToSet(list) \cup {h}
      <4>1. ASSUME NEW i \in 1..Len(new), new[i] = x
            PROVE  x \in ToSet(list) \cup {h}
        <5>1. CASE i = 1
          BY <2>2, <4>1, <5>1
        <5>2. CASE i # 1
          <6>1. i - 1 \in 1..Len(list) /\ list[i - 1] = x
            BY <1>1, <2>2, <4>1, <5>2
          <6> QED BY <6>1, Members
        <5> QED BY <5>1, <5>2
      <4>2. 1 \in 1..Len(new)
        BY <1>1, <2>2
      <4>3. x \in ToSet(new) <=> \E i \in 1..Len(new) : new[i] = x
        BY <2>2, Members
      <4>4. x \in ToSet(list) <=> \E i \in 1..Len(list) : list[i] = x
        BY Members
      <4> QED BY <2>2, <2>6, <4>1, <4>2, <4>3, <4>4
    <3> QED BY <3>1
  <2>8. ASSUME NEW a \in Hashes, NEW b \in Hashes
        PROVE  Ahead(new, a, b) <=>
                 \/ a = h /\ b \in ToSet(list) \ {h}
                 \/ Ahead(list, a, b) /\ h \notin {a, b}
    <3>1. ASSUME Ahead(new, a, b)
          PROVE  \/ a = h /\ b \in ToSet(list) \ {h}
                 \/ Ahead(list, a, b) /\ h \notin {a, b}
      <4>1. PICK i, j \in 1..Len(new) : i < j /\ new[i] = a /\ new[j] = b
        BY <3>1 DEF Ahead
      <4>2. j - 1 \in 1..Len(list) /\ list[j - 1] = b
        BY <1>1, <2>2, <4>1
      <4>3. CASE i = 1
        BY <1>1, <2>2, <2>4, <4>1, <4>2, <4>3 DEF ToSet
      <4>4. CASE i # 1
        <5>1. i - 1 \in 1..Len(list) /\ list[i - 1] = a /\ i - 1 < j - 1
          BY <1>1, <2>2, <4>1, <4>4
        <5> QED BY <2>4, <4>2, <5>1 DEF Ahead
      <4> QED BY <4>3, <4>4
    <3>2. ASSUME a = h, b \in ToSet(list) \ {h}
          PROVE  Ahead(new, a, b)
      <4>1. PICK j \in 1..Len(list) : list[j] = b
        BY <1>1, <3>2 DEF ToSet
      <4>2. 1 \in 1..Len(new) /\ j + 1 \in 1..Len(new) /\ 1 < j + 1
        BY <1>1, <2>2
      <4> QED BY <2>2, <2>6, <3>2, <4>1, <4>2 DEF Ahead
    <3>3. ASSUME Ahead(list, a, b)
          PROVE  Ahead(new, a, b)
      <4>1. PICK i, j \in 1..Len(list) : i < j /\ list[i] = a /\ list[j] = b
        BY <3>3 DEF Ahead
      <4>2. i + 1 < j + 1
        BY <4>1
      <4> QED BY <2>6, <4>1, <4>2 DEF Ahead
    <3> QED BY <3>1, <3>2, <3>3
  <2> QED BY <1>1, <2>2, <2>5, <2>7, <2>8 DEF new
<1>3. CASE h \in ToSet(list)
  <2>1. PICK k \in 1..Len(list) : list[k] = h
    BY <1>1, <1>3 DEF ToSet
  <2> DEFINE rest == RemoveFirst(list, h)
  <2>2. /\ rest \in Seq(Hashes) /\ Len(rest) = Len(list) - 1
        /\ \A i \in 1..(Len(list) - 1) : rest[i] = IF i < k THEN list[i] ELSE list[i + 1]
    BY <2>1, RemovedShape
  <2>3. /\ new \in Seq(Hashes) /\ Len(new) = Len(rest) + 1 /\ new[1] = h
        /\ \A i \in 2..(Len(rest) + 1) : new[i] = rest[i - 1]
    BY <2>2, FrontedShape
  <2> HIDE DEF new, rest
  <2>4. Len(new) = Len(list) /\ DOMAIN new = 1..Len(list)
    BY <1>1, <2>2, <2>3, LenProperties
  <2>5. \A i \in 2..Len(list) : new[i] = IF i <= k THEN list[i - 1] ELSE list[i]
    <3> SUFFICES ASSUME NEW i \in 2..Len(list)
                 PROVE  new[i] = IF i <= k THEN list[i - 1] ELSE list[i]
      OBVIOUS
    <3>1. new[i] = rest[i - 1] /\ i - 1 \in 1..(Len(list) - 1)
      BY <1>1, <2>2, <2>3
    <3> QED BY <1>1, <2>2, <3>1
  \* Where each member of the new list was.
  <2> DEFINE was(i) == IF i = 1 THEN k ELSE IF i <= k THEN i - 1 ELSE i
             is(i) == IF i = k THEN 1 ELSE IF i < k THEN i + 1 ELSE i
  <2>6. \A i \in 1..Len(list) : was(i) \in 1..Len(list) /\ new[i] = list[was(i)]
    BY <1>1, <2>1, <2>3, <2>5
  <2>7. \A i \in 1..Len(list) : is(i) \in 1..Len(list) /\ list[i] = new[is(i)]
    BY <1>1, <2>1, <2>3, <2>5
  <2>8. \A i, j \in 1..Len(list) : was(i) = was(j) => i = j
    BY <1>1
  <2>9. Distinct(new)
    <3> SUFFICES ASSUME NEW i \in 1..Len(list), NEW j \in 1..Len(list), new[i] = new[j]
                 PROVE  i = j
      BY <2>4 DEF Distinct
    <3> HIDE DEF was
    <3>1. was(i) = was(j)
      BY <2>6 DEF Distinct
    <3> QED BY <2>8, <3>1
  <2>10. ToSet(new) = ToSet(list) \cup {h}
    <3> HIDE DEF was, is
    <3>1. ASSUME NEW x
          PROVE  x \in ToSet(new) <=> x \in ToSet(list)
      <4>1. x \in ToSet(new) <=> \E i \in 1..Len(new) : new[i] = x
        BY <2>3, Members
      <4>2. x \in ToSet(list) <=> \E i \in 1..Len(list) : list[i] = x
        BY Members
      <4> QED BY <2>4, <2>6, <2>7, <4>1, <4>2
    <3> QED BY <1>3, <3>1
  <2>11. ASSUME NEW a \in Hashes, NEW b \in Hashes
         PROVE  Ahead(new, a, b) <=>
                 \/ a = h /\ b \in ToSet(list) \ {h}
                 \/ Ahead(list, a, b) /\ h \notin {a, b}
    <3>1. ASSUME Ahead(new, a, b)
          PROVE  \/ a = h /\ b \in ToSet(list) \ {h}
                 \/ Ahead(list, a, b) /\ h \notin {a, b}
      <4>1. PICK i, j \in 1..Len(list) : i < j /\ new[i] = a /\ new[j] = b
        BY <2>4, <3>1 DEF Ahead
      <4>2. was(j) \in 1..Len(list) /\ list[was(j)] = b /\ was(j) # k
        BY <2>1, <2>6, <4>1
      <4>3. b # h
        <5> HIDE DEF was
        <5> QED BY <2>1, <4>2 DEF Distinct
      <4>4. CASE i = 1
        <5> HIDE DEF was
        <5> QED BY <1>1, <2>3, <4>1, <4>2, <4>3, <4>4 DEF ToSet
      <4>5. CASE i # 1
        <5>1. was(i) \in 1..Len(list) /\ list[was(i)] = a /\ was(i) # k /\ was(i) < was(j)
          BY <2>1, <2>6, <4>1, <4>5
        <5> HIDE DEF was
        <5>2. a # h
          BY <2>1, <5>1 DEF Distinct
        <5> QED BY <4>2, <4>3, <5>1, <5>2 DEF Ahead
      <4> QED BY <4>4, <4>5
    <3>2. ASSUME a = h, b \in ToSet(list) \ {h}
          PROVE  Ahead(new, a, b)
      <4>1. PICK j \in 1..Len(list) : list[j] = b /\ j # k
        BY <1>1, <2>1, <3>2 DEF ToSet
      <4>2. is(j) \in 1..Len(list) /\ new[is(j)] = b /\ 1 < is(j)
        BY <2>7, <4>1
      <4> HIDE DEF is
      <4>3. 1 \in 1..Len(list)
        BY <1>1, <2>1
      <4> QED BY <2>3, <2>4, <3>2, <4>2, <4>3 DEF Ahead
    <3>3. ASSUME Ahead(list, a, b), h \notin {a, b}
          PROVE  Ahead(new, a, b)
      <4>1. PICK i, j \in 1..Len(list) : i < j /\ list[i] = a /\ list[j] = b
        BY <3>3 DEF Ahead
      <4>2. i # k /\ j # k
        BY <2>1, <3>3, <4>1
      <4>3. /\ is(i) \in 1..Len(list) /\ new[is(i)] = a
            /\ is(j) \in 1..Len(list) /\ new[is(j)] = b
            /\ is(i) < is(j)
        BY <2>7, <4>1, <4>2
      <4> HIDE DEF is
      <4> QED BY <2>4, <4>3 DEF Ahead
    <3> QED BY <3>1, <3>2, <3>3
  <2> QED BY <1>1, <2>1, <2>3, <2>4, <2>9, <2>10, <2>11 DEF new
<1> QED BY <1>2, <1>3

\* A nonempty set of numbers up to N has a greatest one.
LEMMA Greatest ==
  ASSUME NEW N \in Nat, NEW K \in SUBSET (0..N), K # {}
  PROVE  \E n \in K : \A m \in (n + 1)..N : m \notin K
<1> DEFINE Gaps == {N - k : k \in K}
<1>1. Gaps \in SUBSET Nat /\ Gaps # {}
  <2>1. \A k \in K : k \in Int /\ N - k \in Nat
    OBVIOUS
  <2>2. PICK k \in K : TRUE
    OBVIOUS
  <2>3. N - k \in Gaps
    BY <2>2
  <2> QED BY <2>1, <2>3
<1>2. PICK g \in Gaps : \A d \in Gaps : ~(d < g)
  <2> HIDE DEF Gaps
  <2>1. PICK g \in Gaps : \A d \in Gaps : <<d, g>> \notin OpToRel(<, Nat)
    BY <1>1, NatLessThanWellFounded, WFMin
  <2> QED BY <1>1, <2>1 DEF OpToRel
<1>3. PICK n \in K : g = N - n
  BY <1>2
<1>4. ASSUME NEW m \in (n + 1)..N, m \in K
      PROVE  FALSE
  <2>1. N - m \in Gaps /\ N - m < g
    BY <1>3, <1>4
  <2> QED BY <1>2, <2>1
<1> QED BY <1>4

\* A list is cut into its first n members and the ones behind them; with the
\* bytes of the latter gone, those of the former are left.
LEMMA CutList ==
  ASSUME NEW list \in Seq(Hashes), Distinct(list), NEW n \in 0..Len(list)
  PROVE  /\ SubSeq(list, 1, n) \in Seq(Hashes)
         /\ Len(SubSeq(list, 1, n)) = n
         /\ \A i \in 1..n : SubSeq(list, 1, n)[i] = list[i]
         /\ ToSet(SubSeq(list, 1, n)) = FirstOf(list, n)
         /\ FirstOf(list, n) \in SUBSET Hashes
         /\ BytesOf(ToSet(list)) - BytesOf(ToSet(SubSeq(list, n + 1, Len(list)))) =
              BytesOf(FirstOf(list, n))
<1> DEFINE kept == SubSeq(list, 1, n)
           gone == SubSeq(list, n + 1, Len(list))
<1>1. /\ Len(list) \in Nat /\ n \in Int /\ n <= Len(list)
      /\ \A i \in 1..Len(list) : list[i] \in Hashes
  BY LenProperties, ElementOfSeq
<1>2. kept \in Seq(Hashes) /\ Len(kept) = n /\ \A i \in 1..n : kept[i] = list[i]
  <2>1. \A i \in 1..n : list[i] \in Hashes
    BY <1>1
  <2>2. /\ kept \in Seq(Hashes) /\ Len(kept) = IF 1 <= n THEN n - 1 + 1 ELSE 0
        /\ \A i \in 1..(n - 1 + 1) : kept[i] = list[1 + i - 1]
    BY <1>1, <2>1, SubSeqProperties
  <2> QED BY <1>1, <2>2
<1>3. /\ gone \in Seq(Hashes) /\ Len(gone) = Len(list) - n
      /\ \A i \in 1..(Len(list) - n) : gone[i] = list[n + i]
  <2>1. n + 1 \in Int /\ Len(list) \in Int
        /\ \A i \in (n + 1)..Len(list) : list[i] \in Hashes
    BY <1>1
  <2>2. /\ gone \in Seq(Hashes)
        /\ Len(gone) = IF n + 1 <= Len(list) THEN Len(list) - (n + 1) + 1 ELSE 0
        /\ \A i \in 1..(Len(list) - (n + 1) + 1) : gone[i] = list[n + 1 + i - 1]
    BY <2>1, SubSeqProperties
  <2> QED BY <1>1, <2>2
<1> HIDE DEF kept, gone
<1>4. ToSet(kept) = FirstOf(list, n)
  <2>1. \A x : x \in ToSet(kept) <=> \E i \in 1..n : kept[i] = x
    BY <1>2, Members
  <2> QED BY <1>2, <2>1 DEF FirstOf
<1>5. ToSet(gone) = BehindOf(list, n)
  <2>1. \A x : x \in ToSet(gone) <=> \E i \in 1..(Len(list) - n) : gone[i] = x
    BY <1>3, Members
  <2>2. ASSUME NEW x
        PROVE  x \in ToSet(gone) <=> x \in BehindOf(list, n)
    <3>1. ASSUME NEW i \in 1..(Len(list) - n)
          PROVE  n + i \in (n + 1)..Len(list) /\ gone[i] = list[n + i]
      BY <1>1, <1>3
    <3>2. ASSUME NEW i \in (n + 1)..Len(list)
          PROVE  i - n \in 1..(Len(list) - n) /\ gone[i - n] = list[i]
      BY <1>1, <1>3
    <3> QED BY <2>1, <3>1, <3>2 DEF BehindOf
  <2> QED BY <2>2
<1>6. /\ FirstOf(list, n) \in SUBSET Hashes /\ BehindOf(list, n) \in SUBSET Hashes
      /\ FirstOf(list, n) \cap BehindOf(list, n) = {}
  BY <1>1 DEF FirstOf, BehindOf, Distinct
<1>7. ToSet(list) = FirstOf(list, n) \cup BehindOf(list, n)
  <2>1. \A x : x \in ToSet(list) <=> \E i \in 1..Len(list) : list[i] = x
    BY Members
  <2> QED BY <1>1, <2>1 DEF FirstOf, BehindOf
<1>8. BytesOf(ToSet(list)) = BytesOf(FirstOf(list, n)) + BytesOf(BehindOf(list, n))
  BY <1>6, <1>7, BytesOfFacts
<1>9. BytesOf(FirstOf(list, n)) \in Nat /\ BytesOf(BehindOf(list, n)) \in Nat
  BY <1>6, BytesOfFacts
<1> QED BY <1>2, <1>4, <1>5, <1>6, <1>8, <1>9 DEF kept, gone

\* What is left of a list after the loop of Add: the longest prefix that fits.
IsTrimmed(new, list, n) ==
  /\ n \in 0..Len(list)
  /\ new.list \in Seq(Hashes) /\ Len(new.list) = n
  /\ \A i \in 1..n : new.list[i] = list[i]
  /\ ToSet(new.list) = FirstOf(list, n)
  /\ new.bytes = BytesOf(FirstOf(list, n))
  /\ new.bytes <= MaxBytes
  /\ \A m \in (n + 1)..Len(list) : BytesOf(FirstOf(list, m)) > MaxBytes

\* RemoveOldest keeps the longest beginning of the list that fits.
LEMMA TrimmedList ==
  ASSUME NEW list \in Seq(Hashes), Distinct(list)
  PROVE  \E n \in 0..Len(list) :
           IsTrimmed(RemoveOldest(list, BytesOf(ToSet(list))), list, n)
<1> DEFINE after(n) == BytesOf(ToSet(list))
                       - BytesOf(ToSet(SubSeq(list, n + 1, Len(list))))
           fits(n) == /\ after(n) <= MaxBytes
                      /\ \A m \in (n + 1)..Len(list) : after(m) > MaxBytes
           keep == CHOOSE n \in 0..Len(list) : fits(n)
           new == RemoveOldest(list, BytesOf(ToSet(list)))
<1>1. Len(list) \in Nat
  BY LenProperties
<1>2. \A n \in 0..Len(list) : /\ after(n) = BytesOf(FirstOf(list, n))
                              /\ after(n) \in Nat
  BY CutList, BytesOfFacts
<1>3. new = [list |-> SubSeq(list, 1, keep), bytes |-> after(keep)]
  BY DEF RemoveOldest
<1> HIDE DEF after, new
<1>4. \E n \in 0..Len(list) : fits(n)
  <2> DEFINE K == {n \in 0..Len(list) : after(n) <= MaxBytes}
  <2>1. 0 \in K
    <3>1. after(0) = BytesOf(FirstOf(list, 0)) /\ 0 \in 0..Len(list)
      BY <1>1, <1>2
    <3>2. FirstOf(list, 0) = {}
      BY DEF FirstOf
    <3> QED BY <3>1, <3>2, BytesOfFacts, CachesAssumption
  <2>2. K \in SUBSET (0..Len(list)) /\ K # {}
    BY <2>1
  <2> HIDE DEF K
  <2>3. PICK n \in K : \A m \in (n + 1)..Len(list) : m \notin K
    BY <1>1, <2>2, Greatest
  <2>4. n \in 0..Len(list) /\ after(n) <= MaxBytes
    BY <2>3 DEF K
  <2>5. ASSUME NEW m \in (n + 1)..Len(list)
        PROVE  after(m) > MaxBytes
    <3>1. m \in 0..Len(list) /\ m \notin K
      BY <1>1, <2>3, <2>4
    <3>2. ~(after(m) <= MaxBytes) /\ after(m) \in Nat
      BY <1>2, <3>1 DEF K
    <3> QED BY <3>2, CachesAssumption
  <2> QED BY <2>4, <2>5
<1>5. keep \in 0..Len(list) /\ fits(keep)
  BY <1>4
<1> HIDE DEF keep
<1>6. /\ SubSeq(list, 1, keep) \in Seq(Hashes) /\ Len(SubSeq(list, 1, keep)) = keep
      /\ \A i \in 1..keep : SubSeq(list, 1, keep)[i] = list[i]
      /\ ToSet(SubSeq(list, 1, keep)) = FirstOf(list, keep)
  BY <1>5, CutList
<1>7. \A m \in (keep + 1)..Len(list) : BytesOf(FirstOf(list, m)) > MaxBytes
  BY <1>1, <1>2, <1>5
<1>8. IsTrimmed(new, list, keep)
  BY <1>2, <1>3, <1>5, <1>6, <1>7 DEF IsTrimmed
<1> QED BY <1>5, <1>8 DEF new

(***************************************************************************)
(* Byte ranges.                                                            *)
(***************************************************************************)

\* What RangeExact asks of one answer.
Exact(a) ==
  LET asked == Requested(a.want, Size[a.hash])
  IN /\ a.code \in {"200", "206"} => a.bytes = asked
     /\ a.code = "416" => asked = {}

\* The offsets parsed for a range request span the bytes asked for, and
\* none is asked for that the payload has when it is unsatisfiable.
LEMMA ParsedExactly ==
  ASSUME NEW w \in Wants, w.kind \notin {"head", "full"}, NEW size \in Nat
  PROVE  LET parsed == parseSingleRangeHeader(w, size)
         IN /\ parsed = Unsatisfiable => Requested(w, size) = {}
            /\ parsed \notin {Unsatisfiable, Invalid} =>
                 parsed.start..parsed.end = Requested(w, size)
<1>1. /\ w.a \in Nat /\ w.b \in Nat
      /\ w.kind \in {"suffix", "from", "span"}
  BY DEF Wants
<1> USE DEF parseSingleRangeHeader, Requested, Span, Unsatisfiable, Invalid
<1>2. CASE w.kind = "suffix"
  <2>1. CASE w.a > size
    BY <1>1, <1>2, <2>1 DEF ParseSuffix
  <2>2. CASE ~(w.a > size)
    BY <1>1, <1>2, <2>2 DEF ParseSuffix
  <2> QED BY <2>1, <2>2
<1>3. CASE w.kind = "from"
  BY <1>1, <1>3 DEF ParseFrom
<1>4. CASE w.kind = "span"
  <2>1. CASE w.b >= size
    BY <1>1, <1>4, <2>1 DEF ParseSpan
  <2>2. CASE ~(w.b >= size)
    BY <1>1, <1>4, <2>2 DEF ParseSpan
  <2> QED BY <2>1, <2>2
<1> QED BY <1>1, <1>2, <1>3, <1>4

\* Memory, disk and the full payload of the bucket answer exactly.
LEMMA LocalAnswerExact ==
  ASSUME NEW h \in Hashes, NEW w \in Wants
  PROVE  Exact(LocalAnswer(h, w))
<1> DEFINE parsed == parseSingleRangeHeader(w, Size[h])
<1>1. Size[h] \in Nat
  BY CachesAssumption
<1>2. CASE w.kind = "head"
  BY <1>2 DEF Exact, LocalAnswer, Sent, Requested
<1>3. CASE w.kind = "full"
  BY <1>3 DEF Exact, LocalAnswer, Sent, Requested
<1>4. CASE w.kind \notin {"head", "full"}
  <2>1. /\ parsed = Unsatisfiable => Requested(w, Size[h]) = {}
        /\ parsed \notin {Unsatisfiable, Invalid} =>
             parsed.start..parsed.end = Requested(w, Size[h])
    BY <1>1, <1>4, ParsedExactly
  <2>2. LocalAnswer(h, w) =
          CASE parsed = Unsatisfiable -> Sent(h, w, "416", {})
            [] parsed = Invalid       -> Sent(h, w, "400", {})
            [] OTHER                  -> Sent(h, w, "206", parsed.start..parsed.end)
    BY <1>4 DEF LocalAnswer
  <2>3. Unsatisfiable # Invalid
    BY DEF Unsatisfiable, Invalid
  <2> HIDE DEF parsed
  <2>4. CASE parsed = Unsatisfiable
    <3>1. LocalAnswer(h, w) = Sent(h, w, "416", {})
      BY <2>2, <2>3, <2>4
    <3> QED BY <2>1, <2>4, <3>1 DEF Exact, Sent
  <2>5. CASE parsed = Invalid
    <3>1. LocalAnswer(h, w) = Sent(h, w, "400", {})
      BY <2>2, <2>3, <2>5
    <3> QED BY <3>1 DEF Exact, Sent
  <2>6. CASE parsed \notin {Unsatisfiable, Invalid}
    <3>1. LocalAnswer(h, w) = Sent(h, w, "206", parsed.start..parsed.end)
      BY <2>2, <2>6
    <3> QED BY <2>1, <2>6, <3>1 DEF Exact, Sent
  <2> QED BY <2>4, <2>5, <2>6
<1> QED BY <1>2, <1>3, <1>4

\* Every answer a step sends is exact.
LEMMA AnswersStayExact ==
  ASSUME LocalsKnown, RangeExact, [Next]_vars
  PROVE  RangeExact'
<1> SUFFICES ASSUME answer' # None PROVE Exact(answer')
  BY DEF RangeExact, Exact
<1>1. ASSUME NEW p \in Procs, NEW ask \in Asks, Pull(p, ask[1], ask[2])
      PROVE  Exact(answer')
  <2>1. ask[1] \in Hashes /\ ask[2] \in Wants
    BY CachesAssumption
  <2>2. answer' = LocalAnswer(ask[1], ask[2])
    BY <1>1 DEF Pull
  <2> QED BY <2>1, <2>2, LocalAnswerExact
<1>2. ASSUME NEW p \in Procs, NEW code, code \notin {"200", "206", "416"}, Fail(p, code)
      PROVE  Exact(answer')
  BY <1>2 DEF Fail, Sent, Exact
<1>3. ASSUME NEW p \in Procs, RangeRemote(p)
      PROVE  Exact(answer')
  <2> DEFINE h == hash[p]
             w == want[p]
             parsed == parseSingleRangeHeader(w, Size[h])
  <2>1. h \in Hashes /\ w \in Wants /\ w.kind \notin {"head", "full"}
    BY <1>3 DEF RangeRemote, LocalsKnown
  <2>2. /\ parsed = Unsatisfiable => Requested(w, Size[h]) = {}
        /\ parsed \notin {Unsatisfiable, Invalid} =>
             parsed.start..parsed.end = Requested(w, Size[h])
    <3>1. Size[h] \in Nat
      BY <2>1, CachesAssumption
    <3> QED BY <2>1, <3>1, ParsedExactly
  <2>3. \/ parsed = Unsatisfiable /\ answer' = Sent(h, w, "416", {})
        \/ Fail(p, "500") \/ Fail(p, "cut")
        \/ /\ parsed \notin {Unsatisfiable, Invalid}
           /\ answer' = Sent(h, w, "206", parsed.start..parsed.end)
    BY <1>3 DEF RangeRemote, Fail
  <2> HIDE DEF h, w, parsed
  <2> QED BY <1>2, <2>2, <2>3 DEF Exact, Sent
<1>4. ASSUME NEW p \in Procs, pc[p] \in {"look", "open"}, Serve(p)
      PROVE  Exact(answer')
  <2>1. hash[p] \in Hashes /\ want[p] \in Wants
    BY <1>4 DEF LocalsKnown
  <2>2. Exact(LocalAnswer(hash[p], want[p]))
    BY <2>1, LocalAnswerExact
  <2>3. \/ answer' = LocalAnswer(hash[p], want[p])
        \/ answer' = Sent(hash[p], want[p], "cut", {})
        \/ answer' = Sent(hash[p], want[p], "500", {})
    BY <1>4 DEF Serve
  <2> QED BY <2>2, <2>3 DEF Exact, Sent
<1>5. ASSUME NEW p \in Procs, LookupFails(p) \/ OpenEvicted(p)
      PROVE  Exact(answer')
  BY <1>2, <1>5 DEF LookupFails, OpenEvicted
<1>6. ASSUME NEW p \in Procs, OpenRemote(p) \/ OpenDisk(p)
      PROVE  Exact(answer')
  BY <1>4, <1>6 DEF OpenRemote, OpenDisk
<1>7. CASE UNCHANGED vars
  BY <1>7 DEF vars, RangeExact, Exact
<1>8. ASSUME NEW p \in Procs,
             \/ RangeOnDisk(p) \/ OnDisk(p) \/ CacheAdd(p) \/ Put(p) \/ Link(p)
             \/ EvictOne(p) \/ EvictDone(p) \/ PublishFails(p)
             \/ \E h \in Hashes : Stage(p, h)
      PROVE  FALSE
  BY <1>8 DEF RangeOnDisk, OnDisk, CacheAdd, Put, Link, EvictOne, EvictDone,
              PublishFails, Stage
<1>9. ~Crash
  BY DEF Crash
<1> QED BY <1>1, <1>3, <1>5, <1>6, <1>7, <1>8, <1>9 DEF Next

(***************************************************************************)
(* The memory cache.                                                       *)
(***************************************************************************)

\* usedBytes is the sum of the cached payloads and within the limit.
UsedExact == used = BytesOf(ToSet(lru)) /\ used <= MaxBytes

\* A hit, an insertion, a restart: no other step touches the memory cache.
Hit(h) ==
  /\ h \in ToSet(lru)
  /\ lru' = Fronted(lru, h)
  /\ Touch(h)
  /\ UNCHANGED <<used, disk, now, stored, untrimmed>>

\* The memory tier changes by a hit, by an addition or by a restart, and by
\* nothing else.
LEMMA MemorySteps ==
  ASSUME [Next]_vars
  PROVE  \/ UNCHANGED memory
         \/ \E h \in Hashes : Hit(h)
         \/ \E p \in Procs : CacheAdd(p)
         \/ Crash
<1>1. CASE UNCHANGED vars
  BY <1>1 DEF vars, memory
<1>2. ASSUME NEW p \in Procs, NEW ask \in Asks, Pull(p, ask[1], ask[2])
      PROVE  UNCHANGED memory \/ \E h \in Hashes : Hit(h)
  <2>1. ask[1] \in Hashes
    BY CachesAssumption
  <2> QED BY <1>2, <2>1 DEF Pull, Hit, Fronted, MoveToFront, memory
<1>3. ASSUME NEW p \in Procs, NEW h \in Hashes, Stage(p, h)
      PROVE  UNCHANGED memory
  BY <1>3 DEF Stage
<1>4. ASSUME NEW p \in Procs,
             \/ LookupFails(p) \/ RangeOnDisk(p) \/ RangeRemote(p) \/ OnDisk(p)
             \/ OpenRemote(p) \/ OpenDisk(p) \/ OpenEvicted(p) \/ Put(p) \/ Link(p)
             \/ EvictOne(p) \/ EvictDone(p) \/ PublishFails(p)
      PROVE  UNCHANGED memory
  BY <1>4 DEF LookupFails, RangeOnDisk, RangeRemote, OnDisk, OpenRemote, OpenDisk,
              OpenEvicted, Put, Link, EvictOne, EvictDone, PublishFails, Serve
<1> QED BY <1>1, <1>2, <1>3, <1>4 DEF Next

\* What Add does: the payload goes to the front, and of the list the longest
\* prefix that fits is kept, which has the payload itself.
LEMMA AddEffect ==
  ASSUME lru \in Seq(Hashes), Distinct(lru), UsedExact, LocalsKnown,
         NEW p \in Procs, CacheAdd(p)
  PROVE  \E n \in 1..Len(Fronted(lru, hash[p])) :
           IsTrimmed([list |-> lru', bytes |-> used'], Fronted(lru, hash[p]), n)
<1> DEFINE h == hash[p]
           F == Fronted(lru, h)
           old == IF h \in ToSet(lru) THEN Size[h] ELSE 0
           new == RemoveOldest(F, BytesOf(ToSet(F)))
<1>1. h \in Hashes /\ CanStore(h) /\ Size[h] \in Nat
  BY CachesAssumption DEF CacheAdd, LocalsKnown
<1>2. /\ F \in Seq(Hashes) /\ Distinct(F) /\ Len(F) > 0 /\ F[1] = h
      /\ ToSet(F) = ToSet(lru) \cup {h}
  BY <1>1, FrontedOrder
<1>3. used - old + Size[h] = BytesOf(ToSet(F))
  <2>1. ToSet(lru) \in SUBSET Hashes /\ BytesOf(ToSet(lru)) \in Nat
    BY Members, BytesOfFacts
  <2>2. CASE h \in ToSet(lru)
    <3>1. ToSet(F) = ToSet(lru)
      BY <1>2, <2>2
    <3> QED BY <1>1, <2>1, <2>2, <3>1 DEF UsedExact
  <2>3. CASE h \notin ToSet(lru)
    <3>1. BytesOf(ToSet(lru) \cup {h}) = BytesOf(ToSet(lru)) + BytesOf({h})
      BY <1>1, <2>1, <2>3, BytesOfFacts
    <3>2. BytesOf({h}) = Size[h]
      BY <1>1, BytesOfFacts
    <3> QED BY <1>1, <1>2, <2>1, <2>3, <3>1, <3>2 DEF UsedExact
  <2> QED BY <2>2, <2>3
<1>4. lru' = new.list /\ used' = new.bytes
  <2>1. /\ lru' = RemoveOldest(F, used - old + Size[h]).list
        /\ used' = RemoveOldest(F, used - old + Size[h]).bytes
    BY DEF CacheAdd, Add, Fronted
  <2> HIDE DEF F, old
  <2> QED BY <1>3, <2>1
<1> HIDE DEF F, new
<1>5. PICK n \in 0..Len(F) : IsTrimmed(new, F, n)
  BY <1>2, TrimmedList DEF new
<1>6. IsTrimmed([list |-> lru', bytes |-> used'], F, n)
  BY <1>4, <1>5 DEF IsTrimmed
<1>7. n # 0
  <2>1. SUFFICES ASSUME n = 0 PROVE FALSE
    OBVIOUS
  <2>2. 1 \in (n + 1)..Len(F) /\ FirstOf(F, 1) = {h}
    BY <1>2, <2>1, LenProperties DEF FirstOf
  <2>3. BytesOf({h}) > MaxBytes
    BY <1>5, <2>2 DEF IsTrimmed
  <2>4. BytesOf({h}) = Size[h]
    BY <1>1, BytesOfFacts
  <2> QED BY <1>1, <2>3, <2>4, CachesAssumption DEF CanStore
<1>8. Len(F) \in Nat
  BY <1>2, LenProperties
<1>9. n \in 1..Len(F)
  BY <1>5, <1>7, <1>8
<1> QED BY <1>6, <1>9 DEF F

\* The order of a prefix is that of the list.
LEMMA PrefixOrder ==
  ASSUME NEW list \in Seq(Hashes), Distinct(list),
         NEW new, NEW n \in 0..Len(list), IsTrimmed(new, list, n)
  PROVE  /\ Distinct(new.list)
         /\ \A a, b : Ahead(new.list, a, b) <=>
              /\ Ahead(list, a, b)
              /\ a \in FirstOf(list, n) /\ b \in FirstOf(list, n)
<1> USE DEF IsTrimmed
<1>1. Len(list) \in Nat /\ n \in 0..Len(list) /\ Len(new.list) = n
      /\ \A i \in 1..n : i \in 1..Len(list) /\ new.list[i] = list[i]
  BY LenProperties
<1>2. Distinct(new.list)
  BY <1>1 DEF Distinct
<1>3. ASSUME NEW a, NEW b, Ahead(new.list, a, b)
      PROVE  /\ Ahead(list, a, b)
             /\ a \in FirstOf(list, n) /\ b \in FirstOf(list, n)
  BY <1>1, <1>3 DEF Ahead, FirstOf
<1>4. ASSUME NEW a, NEW b, Ahead(list, a, b),
             a \in FirstOf(list, n), b \in FirstOf(list, n)
      PROVE  Ahead(new.list, a, b)
  <2>1. PICK i, j \in 1..Len(list) : i < j /\ list[i] = a /\ list[j] = b
    BY <1>4 DEF Ahead
  <2>2. PICK k, m \in 1..n : list[k] = a /\ list[m] = b
    BY <1>4 DEF FirstOf
  <2>3. k = i /\ m = j
    BY <1>1, <2>1, <2>2 DEF Distinct
  <2> QED BY <1>1, <2>1, <2>2, <2>3 DEF Ahead
<1> QED BY <1>2, <1>3, <1>4

\* The history of the uses after a step that uses h.
LEMMA Touched ==
  ASSUME NEW h, Touch(h), newer \subseteq Hashes \X Hashes, NEW a, NEW b
  PROVE  <<a, b>> \in newer' <=>
           \/ a = h /\ b \in ToSet(lru') \ {h}
           \/ <<a, b>> \in newer /\ {a, b} \subseteq ToSet(lru') \ {h}
BY DEF Touch

\* The list, its order and its bytes stay exact.
MemoryExact ==
  /\ lru \in Seq(Hashes) /\ newer \subseteq Hashes \X Hashes
  /\ ListExact /\ UsedExact

\* A hit moves a payload to the front: Get of cache.Cache.
LEMMA HitKeepsMemory ==
  ASSUME MemoryExact, NEW h \in Hashes, Hit(h)
  PROVE  MemoryExact' /\ ToSet(lru') = ToSet(lru)
<1>1. Distinct(lru) /\ lru \in Seq(Hashes)
  BY DEF MemoryExact, ListExact
<1>2. /\ lru' \in Seq(Hashes) /\ Distinct(lru') /\ ToSet(lru') = ToSet(lru)
      /\ \A a, b \in Hashes : Ahead(lru', a, b) <=>
           \/ a = h /\ b \in ToSet(lru) \ {h}
           \/ Ahead(lru, a, b) /\ h \notin {a, b}
  <2> DEFINE F == Fronted(lru, h)
  <2>1. /\ F \in Seq(Hashes) /\ Distinct(F) /\ ToSet(F) = ToSet(lru) \cup {h}
        /\ \A a, b \in Hashes : Ahead(F, a, b) <=>
             \/ a = h /\ b \in ToSet(lru) \ {h}
             \/ Ahead(lru, a, b) /\ h \notin {a, b}
    BY <1>1, FrontedOrder
  <2>2. lru' = F /\ h \in ToSet(lru)
    BY DEF Hit
  <2> HIDE DEF F
  <2>3. ToSet(F) = ToSet(lru)
    BY <2>1, <2>2
  <2> QED BY <2>1, <2>2, <2>3
<1>3. newer' \subseteq Hashes \X Hashes
  BY <1>1, <1>2, Members DEF Hit, Touch, MemoryExact
<1>4. ASSUME NEW a \in Hashes, NEW b \in Hashes
      PROVE  <<a, b>> \in newer' <=> Ahead(lru', a, b)
  <2>1. <<a, b>> \in newer' <=>
           \/ a = h /\ b \in ToSet(lru) \ {h}
           \/ <<a, b>> \in newer /\ {a, b} \subseteq ToSet(lru) \ {h}
    BY <1>2, Touched DEF Hit, MemoryExact
  <2>2. <<a, b>> \in newer <=> Ahead(lru, a, b)
    BY DEF MemoryExact, ListExact
  <2>3. Ahead(lru, a, b) => {a, b} \subseteq ToSet(lru)
    BY <1>1, Members DEF Ahead
  <2> QED BY <1>2, <2>1, <2>2, <2>3
<1>5. UsedExact'
  BY <1>2 DEF Hit, UsedExact, MemoryExact
<1> QED BY <1>2, <1>3, <1>4, <1>5 DEF MemoryExact, ListExact

\* An addition evicts from the end until the limit holds: Add of cache.Cache.
LEMMA AddKeepsMemory ==
  ASSUME MemoryExact, LocalsKnown, NEW p \in Procs, CacheAdd(p)
  PROVE  MemoryExact'
<1> DEFINE h == hash[p]
           F == Fronted(lru, h)
           new == [list |-> lru', bytes |-> used']
<1>1. Distinct(lru) /\ lru \in Seq(Hashes) /\ UsedExact
      /\ newer \subseteq Hashes \X Hashes /\ h \in Hashes
  BY DEF MemoryExact, ListExact, CacheAdd, LocalsKnown
<1>2. /\ F \in Seq(Hashes) /\ Distinct(F)
      /\ ToSet(F) = ToSet(lru) \cup {h}
      /\ \A a, b \in Hashes : Ahead(F, a, b) <=>
           \/ a = h /\ b \in ToSet(lru) \ {h}
           \/ Ahead(lru, a, b) /\ h \notin {a, b}
  BY <1>1, FrontedOrder
<1>3. PICK n \in 1..Len(F) : IsTrimmed(new, F, n)
  BY <1>1, AddEffect
<1>4. Len(F) \in Nat /\ n \in 0..Len(F)
  BY <1>2, LenProperties
<1> HIDE DEF F
<1>5. /\ lru' \in Seq(Hashes) /\ ToSet(lru') = FirstOf(F, n)
      /\ used' = BytesOf(FirstOf(F, n)) /\ used' <= MaxBytes
  BY <1>3 DEF IsTrimmed
<1>6. /\ Distinct(lru')
      /\ \A a, b : Ahead(lru', a, b) <=>
           Ahead(F, a, b) /\ a \in ToSet(lru') /\ b \in ToSet(lru')
  BY <1>2, <1>3, <1>4, <1>5, PrefixOrder
<1>7. ToSet(lru') \subseteq ToSet(lru) \cup {h}
  BY <1>2, <1>4, <1>5, Members DEF FirstOf
<1>8. h \in ToSet(lru')
  <2>1. F[1] = h
    BY <1>1, FrontedOrder DEF F
  <2> QED BY <1>3, <1>5, <2>1 DEF FirstOf
<1>9. Touch(h)
  BY DEF CacheAdd
<1>10. newer' \subseteq Hashes \X Hashes
  BY <1>1, <1>5, <1>9, Members DEF Touch
<1>11. ASSUME NEW a \in Hashes, NEW b \in Hashes
       PROVE  <<a, b>> \in newer' <=> Ahead(lru', a, b)
  <2>1. <<a, b>> \in newer' <=>
           \/ a = h /\ b \in ToSet(lru') \ {h}
           \/ <<a, b>> \in newer /\ {a, b} \subseteq ToSet(lru') \ {h}
    BY <1>1, <1>9, Touched
  <2>2. <<a, b>> \in newer <=> Ahead(lru, a, b)
    BY DEF MemoryExact, ListExact
  <2> HIDE DEF h
  <2> QED BY <1>2, <1>6, <1>7, <1>8, <2>1, <2>2
<1> QED BY <1>5, <1>6, <1>10, <1>11 DEF MemoryExact, ListExact, UsedExact

\* The empty cache of a new process.
LEMMA EmptyMemory ==
  ASSUME lru = <<>>, used = 0, newer = {}
  PROVE  MemoryExact /\ ToSet(lru) = {}
<1>1. lru \in Seq(Hashes) /\ Len(lru) = 0 /\ ToSet(lru) = {}
  BY DEF ToSet
<1>2. used = BytesOf(ToSet(lru)) /\ used <= MaxBytes
  BY <1>1, BytesOfFacts, CachesAssumption
<1> QED BY <1>1, <1>2 DEF MemoryExact, ListExact, UsedExact, Distinct, Ahead

\* No step whatever disturbs the list, its order or its byte count.
LEMMA MemoryStaysExact ==
  ASSUME MemoryExact, LocalsKnown, [Next]_vars
  PROVE  MemoryExact'
<1>1. CASE UNCHANGED memory
  BY <1>1 DEF MemoryExact, ListExact, UsedExact, memory
<1>2. CASE Crash
  <2>1. lru' = <<>> /\ used' = 0 /\ newer' = {}
    BY <1>2 DEF Crash
  <2>2. lru' \in Seq(Hashes) /\ Len(lru') = 0 /\ ToSet(lru') = {}
    BY <2>1 DEF ToSet
  <2>3. used' = BytesOf(ToSet(lru')) /\ used' <= MaxBytes
    BY <2>1, <2>2, BytesOfFacts, CachesAssumption
  <2> QED BY <2>1, <2>2, <2>3 DEF MemoryExact, ListExact, UsedExact, Distinct, Ahead
<1> QED BY <1>1, <1>2, MemorySteps, HitKeepsMemory, AddKeepsMemory

(***************************************************************************)
(* Types, and what a request holds.                                        *)
(***************************************************************************)

\* A server that starts with a disk of older files satisfies the invariant.
LEMMA InitInv == Init => CachesInv
<1> SUFFICES ASSUME Init PROVE CachesInv
  OBVIOUS
<1>1. TypeOK
  <2>1. lru \in Seq(Hashes) /\ 0 \in 0..MaxTime
    BY CachesAssumption DEF Init
  <2>2. disk \in [Hashes -> (0..MaxTime) \cup {None}]
    BY <2>1 DEF Init
  <2> QED BY <2>1, <2>2, CachesAssumption DEF Init, TypeOK
<1>2. LocalsKnown
  BY DEF Init, LocalsKnown
<1>3. MemoryExact
  BY EmptyMemory DEF Init
<1>4. TiersBounded
  BY <1>3 DEF Init, TiersBounded, MemoryExact, UsedExact
<1>5. RangeExact
  BY DEF Init, RangeExact
<1> QED BY <1>1, <1>2, <1>3, <1>4, <1>5 DEF CachesInv, MemoryExact

\* The variables of TypeOK but for the memory cache.
RestTyped ==
  /\ disk \in [Hashes -> (0..MaxTime) \cup {None}]
  /\ now \in 0..MaxTime
  /\ stored \subseteq Hashes
  /\ pc \in [Procs -> {"idle", "tier", "look", "open", "add",
                       "put", "link", "evict"}]
  /\ hash \in [Procs -> Hashes \cup {None}]
  /\ want \in [Procs -> Wants \cup {None}]
  /\ mtime \in [Procs -> (0..MaxTime) \cup {None}]
  /\ untrimmed \in BOOLEAN

\* A request that is over holds nothing.
LEMMA FinishKeeps ==
  ASSUME RestTyped, LocalsKnown, NEW p \in Procs, Finish(p), stored \subseteq stored'
  PROVE  /\ LocalsKnown'
         /\ pc' \in [Procs -> {"idle", "tier", "look", "open", "add",
                               "put", "link", "evict"}]
         /\ hash' \in [Procs -> Hashes \cup {None}]
         /\ want' \in [Procs -> Wants \cup {None}]
         /\ mtime' \in [Procs -> (0..MaxTime) \cup {None}]
<1> USE DEF Finish, Go, RestTyped
<1>1. ASSUME NEW q \in Procs
      PROVE  /\ pc'[q] # "idle" =>
                  /\ q # p /\ pc'[q] = pc[q] /\ hash'[q] = hash[q]
                  /\ want'[q] = want[q] /\ mtime'[q] = mtime[q]
  OBVIOUS
<1>2. LocalsKnown'
  BY <1>1 DEF LocalsKnown, CanStore, Enabled
<1> QED BY <1>2

\* A request goes on with what it holds.
LEMMA GoKeeps ==
  ASSUME RestTyped, LocalsKnown, NEW p \in Procs,
         NEW label \in {"look", "open", "add", "link", "evict"},
         Go(p, label), UNCHANGED request, stored \subseteq stored',
         pc[p] # "idle",
         label \in {"look", "open", "add"} => pc[p] \in {"tier", "look", "open"},
         label \in {"link", "evict"} => pc[p] \in {"put", "link"},
         label \in {"open", "add", "link"} => hash[p] \in stored',
         label = "add" => CanStore(hash[p])
  PROVE  /\ LocalsKnown'
         /\ pc' \in [Procs -> {"idle", "tier", "look", "open", "add",
                               "put", "link", "evict"}]
<1> USE DEF Go, request, RestTyped
<1>1. pc' = [pc EXCEPT ![p] = label] /\ hash' = hash /\ want' = want /\ mtime' = mtime
  OBVIOUS
<1>2. ASSUME NEW q \in Procs, q # p
      PROVE  pc'[q] = pc[q]
  BY <1>1, <1>2
<1>3. pc'[p] = label
  BY <1>1
<1>4. LocalsKnown'
  BY <1>1, <1>2, <1>3 DEF LocalsKnown, CanStore, Enabled
<1> QED BY <1>4

\* A remote answer keeps the types and what requests hold.
LEMMA ServeKeeps ==
  ASSUME RestTyped, LocalsKnown, NEW p \in Procs, pc[p] \in {"look", "open"},
         hash[p] \in stored, Serve(p)
  PROVE  RestTyped' /\ LocalsKnown'
<1>1. UNCHANGED <<disk, now, stored, untrimmed>>
  BY DEF Serve
<1>2. CASE Finish(p)
  BY <1>1, <1>2, FinishKeeps DEF RestTyped
<1>3. CASE Go(p, "add") /\ UNCHANGED request /\ CanStore(hash[p])
  <2>1. LocalsKnown' /\ pc' \in [Procs -> {"idle", "tier", "look", "open", "add",
                                           "put", "link", "evict"}]
    BY <1>1, <1>3, GoKeeps
  <2> QED BY <1>1, <1>3, <2>1 DEF RestTyped, request
<1> QED BY <1>2, <1>3 DEF Serve

\* So does the beginning of a pull, answered from memory or not,
LEMMA PullKeeps ==
  ASSUME RestTyped, LocalsKnown, NEW p \in Procs, NEW h \in Hashes, NEW w \in Wants,
         Pull(p, h, w)
  PROVE  RestTyped' /\ LocalsKnown'
<1>1. UNCHANGED <<disk, now, stored, mtime, untrimmed>>
  BY DEF Pull
<1>2. CASE UNCHANGED <<pc, hash, want>>
  BY <1>1, <1>2 DEF RestTyped, LocalsKnown, CanStore, Enabled
<1>3. CASE /\ Go(p, IF w.kind \in {"head", "full"} THEN "look" ELSE "tier")
           /\ hash' = [hash EXCEPT ![p] = h]
           /\ want' = [want EXCEPT ![p] = w]
  <2>1. RestTyped'
    BY <1>1, <1>3 DEF RestTyped, Go
  <2>2. ASSUME NEW q \in Procs \ {p}
        PROVE  pc'[q] = pc[q] /\ hash'[q] = hash[q] /\ want'[q] = want[q]
    BY <1>3 DEF RestTyped, Go
  <2>3. /\ pc'[p] = IF w.kind \in {"head", "full"} THEN "look" ELSE "tier"
        /\ hash'[p] = h /\ want'[p] = w
    BY <1>3 DEF RestTyped, Go
  <2>4. LocalsKnown'
    BY <1>1, <2>2, <2>3 DEF LocalsKnown, CanStore, Enabled
  <2> QED BY <2>1, <2>4
<1> QED BY <1>2, <1>3 DEF Pull

\* and the staging of a push, whose time is not before the clock.
LEMMA StageKeeps ==
  ASSUME RestTyped, LocalsKnown, NEW p \in Procs, NEW h \in Hashes, Stage(p, h)
  PROVE  RestTyped' /\ LocalsKnown'
<1>1. PICK t \in now..MaxTime : now' = t /\ mtime' = [mtime EXCEPT ![p] = t]
  BY DEF Stage
<1>2. t \in 0..MaxTime
  BY CachesAssumption DEF RestTyped
<1>3. /\ hash' = [hash EXCEPT ![p] = h] /\ pc' = [pc EXCEPT ![p] = "put"]
      /\ UNCHANGED <<disk, stored, want, untrimmed>>
  BY DEF Stage, Go
<1>4. RestTyped'
  BY <1>1, <1>2, <1>3 DEF RestTyped
<1>5. ASSUME NEW q \in Procs \ {p}
      PROVE  pc'[q] = pc[q] /\ hash'[q] = hash[q] /\ mtime'[q] = mtime[q]
  BY <1>1, <1>3 DEF RestTyped
<1>6. pc'[p] = "put" /\ hash'[p] = h /\ mtime'[p] = t
  BY <1>1, <1>3 DEF RestTyped
<1>7. LocalsKnown'
  BY <1>2, <1>3, <1>5, <1>6 DEF LocalsKnown, CanStore, Enabled
<1> QED BY <1>4, <1>7

\* All steps keep the types and what requests hold.
LEMMA RequestsStayTyped ==
  ASSUME RestTyped, LocalsKnown, [Next]_vars
  PROVE  RestTyped' /\ LocalsKnown'
<1>1. CASE UNCHANGED vars
  BY <1>1 DEF vars, RestTyped, LocalsKnown, CanStore, Enabled
<1>2. ASSUME NEW p \in Procs, NEW ask \in Asks, Pull(p, ask[1], ask[2])
      PROVE  RestTyped' /\ LocalsKnown'
  <2>1. ask[1] \in Hashes /\ ask[2] \in Wants
    BY CachesAssumption
  <2> QED BY <1>2, <2>1, PullKeeps
<1>3. ASSUME NEW p \in Procs, NEW h \in Hashes, Stage(p, h)
      PROVE  RestTyped' /\ LocalsKnown'
  BY <1>3, StageKeeps
<1>4. ASSUME NEW p \in Procs, Finish(p), UNCHANGED <<disk, now>>,
             stored' \subseteq Hashes, stored \subseteq stored', untrimmed' \in BOOLEAN
      PROVE  RestTyped' /\ LocalsKnown'
  BY <1>4, FinishKeeps DEF RestTyped
<1>5. ASSUME NEW p \in Procs, LookupFails(p) \/ RangeRemote(p) \/ OpenEvicted(p)
      PROVE  RestTyped' /\ LocalsKnown'
  BY <1>4, <1>5 DEF LookupFails, RangeRemote, OpenEvicted, Fail, RestTyped
<1>6. ASSUME NEW p \in Procs, CacheAdd(p) \/ EvictDone(p) \/ PublishFails(p)
      PROVE  RestTyped' /\ LocalsKnown'
  BY <1>4, <1>6 DEF CacheAdd, EvictDone, PublishFails, RestTyped
<1>7. ASSUME NEW p \in Procs, RangeOnDisk(p) \/ OnDisk(p)
      PROVE  RestTyped' /\ LocalsKnown'
  <2>1. LocalsKnown' /\ pc' \in [Procs -> {"idle", "tier", "look", "open", "add",
                                           "put", "link", "evict"}]
    <3>1. CASE RangeOnDisk(p)
      BY <3>1, GoKeeps DEF RangeOnDisk
    <3>2. CASE OnDisk(p)
      BY <3>2, GoKeeps DEF OnDisk
    <3> QED BY <1>7, <3>1, <3>2
  <2> QED BY <1>7, <2>1 DEF RangeOnDisk, OnDisk, RestTyped, request
<1>8. ASSUME NEW p \in Procs, OpenRemote(p) \/ OpenDisk(p)
      PROVE  RestTyped' /\ LocalsKnown'
  BY <1>8, ServeKeeps DEF OpenRemote, OpenDisk, LocalsKnown
<1>9. ASSUME NEW p \in Procs, Put(p)
      PROVE  RestTyped' /\ LocalsKnown'
  <2>1. hash[p] \in Hashes /\ UNCHANGED <<disk, now, untrimmed>>
    BY <1>9 DEF Put, LocalsKnown
  <2>2. CASE Finish(p) /\ UNCHANGED stored
    BY <1>4, <2>1, <2>2 DEF RestTyped
  <2>3. CASE stored' = stored \cup {hash[p]} /\ Go(p, "link") /\ UNCHANGED request
    <3>1. pc[p] = "put"
      BY <1>9 DEF Put
    <3>2. LocalsKnown' /\ pc' \in [Procs -> {"idle", "tier", "look", "open", "add",
                                             "put", "link", "evict"}]
      BY <2>3, <3>1, GoKeeps
    <3> QED BY <2>1, <2>3, <3>2 DEF RestTyped, request
  <2> QED BY <1>9, <2>2, <2>3 DEF Put
<1>10. ASSUME NEW p \in Procs, Link(p)
       PROVE  RestTyped' /\ LocalsKnown'
  <2>1. /\ hash[p] \in Hashes /\ mtime[p] \in 0..MaxTime
        /\ UNCHANGED <<now, stored, untrimmed>> /\ pc[p] = "link"
    BY <1>10 DEF Link, LocalsKnown
  <2>2. CASE Finish(p) /\ UNCHANGED disk
    BY <1>4, <2>1, <2>2 DEF RestTyped
  <2>3. CASE disk' = [disk EXCEPT ![hash[p]] = mtime[p]] /\ Go(p, "evict")
             /\ UNCHANGED request
    <3>1. LocalsKnown' /\ pc' \in [Procs -> {"idle", "tier", "look", "open", "add",
                                             "put", "link", "evict"}]
      BY <2>1, <2>3, GoKeeps
    <3> QED BY <2>1, <2>3, <3>1 DEF RestTyped, request
  <2> QED BY <1>10, <2>2, <2>3 DEF Link
<1>11. ASSUME NEW p \in Procs, EvictOne(p)
       PROVE  RestTyped' /\ LocalsKnown'
  <2>1. PICK h \in Files : disk' = [disk EXCEPT ![h] = None]
    BY <1>11 DEF EvictOne
  <2>2. UNCHANGED <<now, stored, pc, hash, want, mtime, untrimmed>>
    BY <1>11 DEF EvictOne, request
  <2>3. RestTyped'
    BY <2>1, <2>2 DEF RestTyped, Files
  <2> QED BY <2>2, <2>3 DEF LocalsKnown, CanStore, Enabled
<1>12. ASSUME Crash
       PROVE  RestTyped' /\ LocalsKnown'
  BY <1>12 DEF Crash, RestTyped, LocalsKnown
<1> QED BY <1>1, <1>2, <1>3, <1>5, <1>6, <1>7, <1>8, <1>9, <1>10, <1>11, <1>12 DEF Next

(***************************************************************************)
(* The disk cache.                                                         *)
(***************************************************************************)

\* The files are within the limit unless their trimming is under way, or was
\* cut short.
DiskTrimmed == WithinLimit \/ untrimmed \/ \E p \in Procs : pc[p] = "evict"

\* Files over the limit are being trimmed, or a trimming was cut short.
LEMMA DiskStaysTrimmed ==
  ASSUME RestTyped, DiskTrimmed, [Next]_vars
  PROVE  DiskTrimmed'
<1>1. ASSUME UNCHANGED disk, WithinLimit
      PROVE  DiskTrimmed'
  BY <1>1 DEF DiskTrimmed, WithinLimit, Files
<1>2. ASSUME UNCHANGED <<disk, untrimmed>>,
             \A q \in Procs : pc[q] = "evict" => pc'[q] = "evict"
      PROVE  DiskTrimmed'
  BY <1>2 DEF DiskTrimmed, WithinLimit, Files
<1>3. ASSUME NEW p \in Procs, NEW label, pc' = [pc EXCEPT ![p] = label],
             pc[p] # "evict", UNCHANGED <<disk, untrimmed>>
      PROVE  DiskTrimmed'
  <2>1. \A q \in Procs : q # p => pc'[q] = pc[q]
    BY <1>3 DEF RestTyped
  <2> QED BY <1>2, <1>3, <2>1
<1>4. CASE UNCHANGED vars
  BY <1>2, <1>4 DEF vars
<1>5. ASSUME NEW p \in Procs, NEW ask \in Asks, Pull(p, ask[1], ask[2])
      PROVE  DiskTrimmed'
  BY <1>2, <1>3, <1>5 DEF Pull, Go
<1>6. ASSUME NEW p \in Procs, NEW h \in Hashes, Stage(p, h)
      PROVE  DiskTrimmed'
  BY <1>3, <1>6 DEF Stage, Go
<1>7. ASSUME NEW p \in Procs,
             \/ LookupFails(p) \/ RangeOnDisk(p) \/ RangeRemote(p) \/ OnDisk(p)
             \/ OpenEvicted(p) \/ CacheAdd(p) \/ Put(p)
      PROVE  DiskTrimmed'
  BY <1>3, <1>7 DEF LookupFails, RangeOnDisk, RangeRemote, OnDisk, OpenEvicted,
                    CacheAdd, Put, Fail, Finish, Go
<1>8. ASSUME NEW p \in Procs, OpenRemote(p) \/ OpenDisk(p)
      PROVE  DiskTrimmed'
  BY <1>3, <1>8 DEF OpenRemote, OpenDisk, Serve, Finish, Go
<1>9. ASSUME NEW p \in Procs, Link(p)
      PROVE  DiskTrimmed'
  <2>1. CASE Finish(p) /\ UNCHANGED disk
    BY <1>3, <1>9, <2>1 DEF Link, Finish, Go
  <2>2. CASE Go(p, "evict")
    <3>1. pc'[p] = "evict"
      BY <2>2 DEF Go, RestTyped
    <3> QED BY <3>1 DEF DiskTrimmed
  <2> QED BY <1>9, <2>1, <2>2 DEF Link
<1>10. ASSUME NEW p \in Procs, EvictOne(p)
       PROVE  DiskTrimmed'
  BY <1>10 DEF EvictOne, DiskTrimmed
<1>11. ASSUME NEW p \in Procs, EvictDone(p)
       PROVE  DiskTrimmed'
  BY <1>1, <1>11 DEF EvictDone
<1>12. ASSUME NEW p \in Procs, PublishFails(p)
       PROVE  DiskTrimmed'
  BY <1>12 DEF PublishFails, DiskTrimmed
<1>13. ASSUME Crash
       PROVE  DiskTrimmed'
  <2>1. untrimmed' = (untrimmed \/ \E p \in Procs : pc[p] = "evict") /\ UNCHANGED disk
    BY <1>13 DEF Crash
  <2> QED BY <2>1 DEF DiskTrimmed, WithinLimit, Files
<1> QED BY <1>4, <1>5, <1>6, <1>7, <1>8, <1>9, <1>10, <1>11, <1>12, <1>13 DEF Next

(***************************************************************************)
(* The invariants.                                                         *)
(***************************************************************************)

\* The inductive invariant, in the parts the lemmas above are about.
LEMMA InvSplit ==
  CachesInv <=> /\ RestTyped /\ LocalsKnown /\ MemoryExact
                /\ DiskTrimmed /\ RangeExact
<1>1. ASSUME MemoryExact
      PROVE  used \in Int
  <2>1. ToSet(lru) \in SUBSET Hashes
    BY <1>1, Members DEF MemoryExact
  <2> QED BY <1>1, <2>1, BytesOfFacts DEF MemoryExact, UsedExact
<1> QED BY <1>1 DEF CachesInv, TypeOK, RestTyped, MemoryExact, UsedExact,
                    DiskTrimmed, TiersBounded

\* The inductive invariant holds in every state.
LEMMA CachesInvariant == Spec => []CachesInv
<1>1. Init => CachesInv
  BY InitInv
<1>2. CachesInv /\ [Next]_vars => CachesInv'
  <2> SUFFICES ASSUME CachesInv, [Next]_vars
               PROVE  CachesInv'
    OBVIOUS
  <2>1. RestTyped /\ LocalsKnown /\ MemoryExact /\ DiskTrimmed /\ RangeExact
    BY InvSplit
  <2>2. RestTyped' /\ LocalsKnown' /\ MemoryExact' /\ DiskTrimmed' /\ RangeExact'
    BY <2>1, RequestsStayTyped, MemoryStaysExact, DiskStaysTrimmed, AnswersStayExact
  <2>3. CachesInv' <=> (RestTyped /\ LocalsKnown /\ MemoryExact
                        /\ DiskTrimmed /\ RangeExact)'
    BY InvSplit, PTL
  <2> QED BY <2>2, <2>3
<1> QED BY <1>1, <1>2, PTL DEF Spec

\* Every variable keeps its type, the list and the answers included.
THEOREM CachesTypes == Spec => []TypeOK
<1>1. CachesInv => TypeOK
  BY DEF CachesInv
<1> QED BY <1>1, CachesInvariant, PTL

\* usedBytes is the sum of the cached payloads and within max_bytes, whatever
\* order pulls insert, refresh and re-insert in, and the files are within
\* max_cache_bytes but for an eviction that is under way or was cut short.
THEOREM TiersAreBounded == Spec => []TiersBounded
<1>1. CachesInv => TiersBounded
  BY DEF CachesInv
<1> QED BY <1>1, CachesInvariant, PTL

\* Every tier answers a range with exactly the bytes asked for, for every
\* payload size, the empty payload included.
THEOREM RangesAreExact == Spec => []RangeExact
<1>1. CachesInv => RangeExact
  BY DEF CachesInv
<1> QED BY <1>1, CachesInvariant, PTL

(***************************************************************************)
(* LocalCaches implements CachePromise.                                    *)
(***************************************************************************)

\* The order of the files, as CachePromise sees it.
OlderFiles == {ab \in Files \X Files : disk[ab[1]] <= disk[ab[2]]}

\* What CachePromise sees.
Seen == <<ToSet(lru), newer, Files, OlderFiles, stored>>

\* The mapping takes a state of the caches to what is seen of it,
LEMMA SameView ==
  /\ Promise!promised = Seen
  /\ Promise!promised' = Seen'
BY DEF Promise!promised, Seen, OlderFiles

\* and both modules add sizes in the same way.
LEMMA SameBytes == \A S : Promise!Bytes(S) = BytesOf(S)
BY DEF Promise!Bytes, Promise!MapThenSumSet, Promise!MapThenFoldSet,
       BytesOf, MapThenSumSet, MapThenFoldSet

\* The initial states are initial states of CachePromise.
LEMMA PromiseStarts == Init => Promise!Init
<1> SUFFICES ASSUME Init PROVE Promise!Init
  OBVIOUS
<1>1. ToSet(lru) = {} /\ newer = {}
  BY EmptyMemory DEF Init
<1>2. stored \in SUBSET Hashes /\ Files \in SUBSET stored
  BY CachesAssumption DEF Init, Files
<1>3. OlderFiles \in SUBSET (Files \X Files)
  BY DEF OlderFiles
<1> QED BY <1>1, <1>2, <1>3 DEF Promise!Init, OlderFiles

\* A step that leaves the tiers and the bucket alone is a stutter.
LEMMA QuietStep ==
  ASSUME UNCHANGED <<lru, newer, disk, stored>>
  PROVE  UNCHANGED Promise!promised
<1>1. UNCHANGED Seen
  BY DEF Seen, Files, OlderFiles
<1> QED BY <1>1, SameView

\* A hit is a use, and drops nothing.
LEMMA HitIsUse ==
  ASSUME MemoryExact, NEW h \in Hashes, Hit(h)
  PROVE  Promise!Use(h)
<1>1. ToSet(lru') = ToSet(lru) /\ h \in ToSet(lru)
  BY HitKeepsMemory DEF Hit
<1>2. UNCHANGED <<Files, OlderFiles, stored>>
  BY DEF Hit, Files, OlderFiles
<1>3. newer' = Promise!Refreshed(h, ToSet(lru))
  BY <1>1 DEF Hit, Touch, Promise!Refreshed
<1> QED BY <1>1, <1>2, <1>3 DEF Promise!Use, OlderFiles

\* An insertion drops the payloads used least recently, and no more of them
\* than the new one needs.
LEMMA AddIsInsert ==
  ASSUME MemoryExact, LocalsKnown, NEW p \in Procs, CacheAdd(p)
  PROVE  Promise!Insert(hash[p])
<1> DEFINE h == hash[p]
           F == Fronted(lru, h)
           new == [list |-> lru', bytes |-> used']
           held == ToSet(lru)
           kept == ToSet(lru')
           gone == held \ kept
<1>1. /\ Distinct(lru) /\ lru \in Seq(Hashes) /\ UsedExact
      /\ h \in Hashes /\ h \in stored
  BY DEF MemoryExact, ListExact, CacheAdd, LocalsKnown
<1>2. /\ F \in Seq(Hashes) /\ Distinct(F) /\ F[1] = h
      /\ ToSet(F) = held \cup {h}
      /\ \A a, b \in Hashes : Ahead(F, a, b) <=>
           \/ a = h /\ b \in held \ {h}
           \/ Ahead(lru, a, b) /\ h \notin {a, b}
  BY <1>1, FrontedOrder
<1>3. PICK n \in 1..Len(F) : IsTrimmed(new, F, n)
  BY <1>1, AddEffect
<1> HIDE DEF F
<1>4. /\ Len(F) \in Nat /\ held \in SUBSET Hashes
      /\ \A x : x \in ToSet(F) <=> \E i \in 1..Len(F) : F[i] = x
  BY <1>1, <1>2, LenProperties, Members
<1>5. /\ kept = FirstOf(F, n) /\ BytesOf(kept) <= MaxBytes
      /\ \A m \in (n + 1)..Len(F) : BytesOf(FirstOf(F, m)) > MaxBytes
  BY <1>3 DEF IsTrimmed
<1>6. h \in kept
  BY <1>2, <1>3, <1>5 DEF FirstOf
<1>7. kept \in SUBSET (held \cup {h})
  BY <1>2, <1>3, <1>4, <1>5 DEF FirstOf
<1>8. newer' = Promise!Refreshed(h, kept)
  BY DEF CacheAdd, Touch, Promise!Refreshed
<1>9. UNCHANGED <<Files, OlderFiles, stored>>
  BY DEF CacheAdd, Files, OlderFiles
<1> HIDE DEF h, held, kept
<1>10. \A a, b \in Hashes : h \notin {a, b} =>
          (<<a, b>> \in newer <=> Ahead(F, a, b))
  BY <1>2 DEF MemoryExact, ListExact
\* A payload that is gone stood behind the kept ones.
<1>11. ASSUME NEW x \in gone
       PROVE  /\ x \in Hashes /\ x # h
              /\ \E m \in (n + 1)..Len(F) : F[m] = x
  <2>1. PICK m \in 1..Len(F) : F[m] = x
    BY <1>2, <1>4
  <2>2. ~(m <= n)
    BY <1>3, <1>5, <2>1 DEF FirstOf
  <2> QED BY <1>3, <1>4, <1>6, <2>1, <2>2
<1>12. (kept \ {h}) \X gone \subseteq newer
  <2> SUFFICES ASSUME NEW a \in kept \ {h}, NEW x \in gone
               PROVE  <<a, x>> \in newer
    OBVIOUS
  <2>1. PICK i \in 1..n : F[i] = a
    BY <1>5 DEF FirstOf
  <2>2. PICK m \in (n + 1)..Len(F) : F[m] = x
    BY <1>11
  <2>3. Ahead(F, a, x)
    BY <1>3, <1>4, <2>1, <2>2 DEF Ahead
  <2>4. a \in Hashes
    BY <1>1, <1>4, <1>7
  <2> QED BY <1>10, <1>11, <2>3, <2>4
<1>13. ASSUME NEW x \in gone
       PROVE  BytesOf(kept \cup {x} \cup {y \in gone : <<y, x>> \in newer}) > MaxBytes
  <2>1. PICK m \in (n + 1)..Len(F) : F[m] = x
    BY <1>11
  <2>2. \A y \in gone : <<y, x>> \in newer <=> \E j \in (n + 1)..(m - 1) : F[j] = y
    <3> SUFFICES ASSUME NEW y \in gone
                 PROVE  Ahead(F, y, x) <=> \E j \in (n + 1)..(m - 1) : F[j] = y
      BY <1>10, <1>11
    <3>1. ASSUME Ahead(F, y, x)
          PROVE  \E j \in (n + 1)..(m - 1) : F[j] = y
      <4>1. PICK i, k \in 1..Len(F) : i < k /\ F[i] = y /\ F[k] = x
        BY <3>1 DEF Ahead
      <4>2. k = m
        BY <1>2, <1>3, <1>4, <2>1, <4>1 DEF Distinct
      <4>3. PICK j \in (n + 1)..Len(F) : F[j] = y
        BY <1>11
      <4>4. i = j
        BY <1>2, <1>3, <1>4, <4>1, <4>3 DEF Distinct
      <4> QED BY <1>3, <1>4, <4>1, <4>2, <4>3, <4>4
    <3>2. ASSUME NEW j \in (n + 1)..(m - 1), F[j] = y
          PROVE  Ahead(F, y, x)
      BY <1>3, <1>4, <2>1, <3>2 DEF Ahead
    <3> QED BY <3>1, <3>2
  <2>3. \A j \in (n + 1)..(m - 1) : F[j] \in gone
    <3> SUFFICES ASSUME NEW j \in (n + 1)..(m - 1)
                 PROVE  F[j] \in gone
      OBVIOUS
    <3>1. j \in 1..Len(F) /\ 1 \in 1..Len(F) /\ j # 1
      BY <1>3, <1>4, <2>1
    <3>2. F[j] # h /\ F[j] \in held
      BY <1>2, <1>4, <3>1 DEF Distinct
    <3>3. F[j] \notin kept
      BY <1>2, <1>3, <1>4, <1>5, <3>1 DEF FirstOf, Distinct
    <3> QED BY <3>2, <3>3
  <2>4. FirstOf(F, m) = kept \cup {x} \cup {y \in gone : <<y, x>> \in newer}
    <3>1. ASSUME NEW z
          PROVE  z \in FirstOf(F, m) <=>
                   \/ z \in kept \/ z = x
                   \/ \E j \in (n + 1)..(m - 1) : F[j] = z
      <4>1. \A i \in 1..m : i \in 1..n \/ i = m \/ i \in (n + 1)..(m - 1)
        BY <1>3, <1>4, <2>1
      <4>2. \A i : (i \in 1..n \/ i = m \/ i \in (n + 1)..(m - 1)) => i \in 1..m
        BY <1>3, <1>4, <2>1
      <4> QED BY <1>5, <2>1, <4>1, <4>2 DEF FirstOf
    <3> QED BY <2>2, <2>3, <3>1
  <2> QED BY <1>5, <2>1, <2>4
<1>14. /\ h \in stored /\ h \in kept
       /\ newer' = Promise!Refreshed(h, kept)
       /\ kept \in SUBSET (held \cup {h})
       /\ Promise!Bytes(kept) <= MaxBytes
       /\ (kept \ {h}) \X gone \subseteq newer
       /\ \A x \in gone :
            Promise!Bytes(kept \cup {x} \cup {y \in gone : <<y, x>> \in newer}) > MaxBytes
  BY <1>1, <1>5, <1>6, <1>7, <1>8, <1>12, <1>13, SameBytes
<1> QED BY <1>9, <1>14 DEF Promise!Insert, h, held, kept, OlderFiles

\* Publishing adds one file, and the order of the others stays.
LEMMA LinkIsLink ==
  ASSUME RestTyped, LocalsKnown, NEW p \in Procs, Link(p), disk' # disk
  PROVE  \E h \in Hashes : Promise!Link(h)
<1>0. PICK h \in Hashes : h = hash[p]
  BY DEF Link, LocalsKnown
<1>1. /\ h \in stored /\ mtime[p] \in 0..MaxTime
      /\ disk[h] = None /\ disk' = [disk EXCEPT ![h] = mtime[p]]
      /\ UNCHANGED <<lru, newer, stored>>
  BY <1>0 DEF Link, LocalsKnown, memory
<1>2. mtime[p] # None
  BY <1>1, CachesAssumption
<1>3. h \notin Files /\ Files' = Files \cup {h}
  BY <1>1, <1>2 DEF Files, RestTyped
<1>4. {ab \in OlderFiles' : h \notin {ab[1], ab[2]}} = OlderFiles
  <2>1. \A g \in Hashes : g # h => disk'[g] = disk[g]
    BY <1>1 DEF RestTyped
  <2>2. \A ab : ab \in OlderFiles' /\ h \notin {ab[1], ab[2]} => ab \in OlderFiles
    BY <1>3, <2>1 DEF OlderFiles, Files
  <2>3. \A ab : ab \in OlderFiles => ab \in OlderFiles' /\ h \notin {ab[1], ab[2]}
    BY <1>3, <2>1 DEF OlderFiles, Files
  <2> QED BY <2>2, <2>3
<1> QED BY <1>1, <1>3, <1>4 DEF Promise!Link, OlderFiles

\* An eviction loses the file that was staged before all others.
LEMMA EvictIsLose ==
  ASSUME RestTyped, NEW p \in Procs, EvictOne(p)
  PROVE  Promise!Lose
<1>1. PICK h \in Files : Oldest(h) /\ disk' = [disk EXCEPT ![h] = None]
  BY DEF EvictOne
<1>2. Files' = Files \ {h}
  BY <1>1 DEF Files, RestTyped
<1>3. (Files \ Files') \X Files' \subseteq OlderFiles
  <2>1. \A g \in Files' : Before(h, g)
    BY <1>1, <1>2 DEF Oldest
  <2>2. \A g \in Files : disk[g] \in 0..MaxTime
    BY DEF Files, RestTyped
  <2>3. \A g \in Files' : disk[h] <= disk[g]
    BY <1>1, <1>2, <2>1, <2>2, CachesAssumption DEF Before
  <2> QED BY <1>1, <1>2, <2>3 DEF OlderFiles
<1>4. OlderFiles' = OlderFiles \cap (Files' \X Files')
  <2>1. \A g \in Files' : disk'[g] = disk[g]
    BY <1>1, <1>2 DEF Files, RestTyped
  <2> QED BY <1>2, <2>1 DEF OlderFiles
<1>5. UNCHANGED <<ToSet(lru), newer, stored>>
  BY DEF EvictOne, memory
<1> QED BY <1>2, <1>3, <1>4, <1>5 DEF Promise!Lose, OlderFiles

\* A completed PutObject stores the payload.
LEMMA PutIsStore ==
  ASSUME NEW p \in Procs, Put(p), stored' # stored
  PROVE  Promise!Store(hash[p])
<1>1. stored' = stored \cup {hash[p]} /\ UNCHANGED <<lru, newer, disk>>
  BY DEF Put, memory
<1>2. UNCHANGED <<Files, OlderFiles>>
  BY <1>1 DEF Files, OlderFiles
<1> QED BY <1>1, <1>2 DEF Promise!Store, OlderFiles

\* A new process has an empty memory cache and the files of the last one.
LEMMA CrashIsRestart ==
  ASSUME Crash
  PROVE  Promise!Restart
<1>1. lru' = <<>> /\ newer' = {} /\ UNCHANGED <<disk, stored>>
  BY DEF Crash
<1>2. ToSet(lru') = {} /\ UNCHANGED <<Files, OlderFiles>>
  BY <1>1 DEF ToSet, Files, OlderFiles
<1> QED BY <1>1, <1>2 DEF Promise!Restart, OlderFiles

\* Every step is a step of CachePromise or leaves what it sees alone.
LEMMA PromiseSteps ==
  ASSUME CachesInv, [Next]_vars
  PROVE  [Promise!Next]_(Promise!promised)
<1>1. RestTyped /\ LocalsKnown /\ MemoryExact
  BY InvSplit
<1>2. CASE UNCHANGED <<lru, newer, disk, stored>>
  BY <1>2, QuietStep
<1>3. ASSUME NEW h \in Hashes, Hit(h)
      PROVE  Promise!Next
  <2>1. Promise!Use(h)
    BY <1>1, <1>3, HitIsUse
  <2> QED BY <2>1 DEF Promise!Next
<1>4. ASSUME NEW p \in Procs, CacheAdd(p)
      PROVE  Promise!Next
  <2>1. hash[p] \in Hashes
    BY <1>1, <1>4 DEF CacheAdd, LocalsKnown
  <2>2. Promise!Insert(hash[p])
    BY <1>1, <1>4, AddIsInsert
  <2> QED BY <2>1, <2>2 DEF Promise!Next
<1>5. CASE Crash
  <2>1. Promise!Restart
    BY <1>5, CrashIsRestart
  <2> QED BY <2>1 DEF Promise!Next
<1>6. ASSUME UNCHANGED memory, ~UNCHANGED <<disk, stored>>
      PROVE  Promise!Next
  <2>1. PICK p \in Procs : Link(p) \/ EvictOne(p) \/ Put(p) \/ Crash
    <3>1. ASSUME NEW p \in Procs,
                 \/ LookupFails(p) \/ RangeOnDisk(p) \/ RangeRemote(p) \/ OnDisk(p)
                 \/ OpenRemote(p) \/ OpenDisk(p) \/ OpenEvicted(p) \/ CacheAdd(p)
                 \/ EvictDone(p) \/ PublishFails(p)
                 \/ \E h \in Hashes : Stage(p, h)
                 \/ \E ask \in Asks : Pull(p, ask[1], ask[2])
          PROVE  UNCHANGED <<disk, stored>>
      BY <3>1 DEF LookupFails, RangeOnDisk, RangeRemote, OnDisk, OpenRemote, OpenDisk,
                  OpenEvicted, CacheAdd, EvictDone, PublishFails, Stage, Pull, Serve
    <3>2. ~UNCHANGED vars /\ ~Crash
      BY <1>6 DEF vars, Crash
    <3> QED BY <1>6, <3>1, <3>2 DEF Next
  <2>2. ~Crash
    BY <1>6 DEF Crash
  <2>3. CASE Link(p)
    <3>1. disk' # disk
      BY <1>6, <2>3 DEF Link
    <3>2. PICK h \in Hashes : Promise!Link(h)
      BY <1>1, <2>3, <3>1, LinkIsLink
    <3> QED BY <3>2 DEF Promise!Next
  <2>4. CASE EvictOne(p)
    <3>1. Promise!Lose
      BY <1>1, <2>4, EvictIsLose
    <3> QED BY <3>1 DEF Promise!Next
  <2>5. CASE Put(p)
    <3>1. hash[p] \in Hashes /\ stored' # stored
      BY <1>1, <1>6, <2>5 DEF Put, LocalsKnown
    <3>2. Promise!Store(hash[p])
      BY <2>5, <3>1, PutIsStore
    <3> QED BY <3>1, <3>2 DEF Promise!Next
  <2> QED BY <2>1, <2>2, <2>3, <2>4, <2>5
<1> QED BY <1>2, <1>3, <1>4, <1>5, <1>6, MemorySteps DEF memory

\* The LRU list with its byte count and the directory with its modification
\* times implement CachePromise: the memory cache drops the least recently
\* used payloads and no more than it must, and the disk cache drops files in
\* the order of their staging, whatever pulls, pushes, failed evictions and
\* restarts interleave.
THEOREM CachesRefine == Spec => KeepsCachePromise
<1>1. Init => Promise!Init
  BY PromiseStarts
<1>2. CachesInv /\ [Next]_vars => [Promise!Next]_(Promise!promised)
  BY PromiseSteps
<1> QED BY <1>1, <1>2, CachesInvariant, PTL DEF Spec, KeepsCachePromise, Promise!Spec
=============================================================================
