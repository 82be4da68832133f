----------------------- MODULE RequestPipelineProofs -----------------------
(***************************************************************************)
(* What the request pipeline promises for any number of requests, sources, *)
(* tokens and records: the meter and the error log agree, the log holds no *)
(* more errors of a source than its requests were counted, and a source    *)
(* that asks again gets the token it has.                                  *)
(***************************************************************************)
EXTENDS RequestPipeline, FiniteSetTheorems, NaturalsInduction,
        WellFoundedInduction, TLAPS

(***************************************************************************)
(* Counting.                                                               *)
(***************************************************************************)

Is(b) == IF b THEN 1 ELSE 0

\* Two sets that differ in p at most.
LEMMA CardMove ==
  ASSUME NEW S, NEW T, NEW p, IsFiniteSet(S), S \ {p} = T \ {p}
  PROVE  /\ IsFiniteSet(T) /\ Cardinality(S) \in Nat /\ Cardinality(T) \in Nat
         /\ Cardinality(T) + Is(p \in S) = Cardinality(S) + Is(p \in T)
<1> DEFINE R == S \ {p}
<1>1. IsFiniteSet(R) /\ Cardinality(R) = Cardinality(S) - Is(p \in S)
  BY FS_RemoveElement, FS_CardinalityType DEF Is
<1>2. p \notin R
  OBVIOUS
<1>3. Cardinality(S) \in Nat /\ Cardinality(R) \in Nat
  BY <1>1, FS_CardinalityType
<1>4. T = IF p \in T THEN R \cup {p} ELSE R
  OBVIOUS
<1> HIDE DEF R
<1>5. IsFiniteSet(T) /\ Cardinality(T) = Cardinality(R) + Is(p \in T)
  <2>1. IsFiniteSet(R \cup {p}) /\ Cardinality(R \cup {p}) = Cardinality(R) + 1
    BY <1>1, <1>2, FS_AddElement
  <2>2. CASE p \in T
    <3>1. T = R \cup {p}
      BY <1>4, <2>2
    <3> QED BY <2>1, <2>2, <3>1 DEF Is
  <2>3. CASE p \notin T
    <3>1. T = R
      BY <1>4, <2>3
    <3> QED BY <1>1, <1>3, <2>3, <3>1 DEF Is
  <2> QED BY <2>2, <2>3
<1> QED BY <1>1, <1>3, <1>5 DEF Is

\* A step of p leaves what is counted about the other requests.
LEMMA OneProc ==
  ASSUME NEW p \in Procs, \A q \in Procs \ {p} : pc'[q] = pc[q] /\ req'[q] = req[q]
  PROVE  /\ Started' \ {p} = Started \ {p}
         /\ \A s : Between(s)' \ {p} = Between(s) \ {p}
         /\ \A t : InFlight(t)' \ {p} = InFlight(t) \ {p}
<1>1. \A q \in Procs \ {p} : Metered(q)' <=> Metered(q)
  BY DEF Metered
<1> QED BY <1>1 DEF Started, Between, InFlight

\* Requests can be counted.
LEMMA ProcsFinite ==
  /\ IsFiniteSet(Started) /\ Cardinality(Started) \in Nat
  /\ \A s : IsFiniteSet(Between(s)) /\ Cardinality(Between(s)) \in Nat
  /\ \A t : IsFiniteSet(InFlight(t)) /\ Cardinality(InFlight(t)) \in Nat
<1>1. ASSUME NEW S \in SUBSET Procs PROVE IsFiniteSet(S) /\ Cardinality(S) \in Nat
  BY PipelineAssumption, FS_Subset, FS_CardinalityType
<1>2. /\ Started \in SUBSET Procs
      /\ \A s : Between(s) \in SUBSET Procs
      /\ \A t : InFlight(t) \in SUBSET Procs
  BY DEF Started, Between, InFlight
<1> QED BY <1>1, <1>2

\* The positions of t's errors in a list of records.
ErrorsIn(rs, t) == {i \in 1..Len(rs) : rs[i].token = t /\ ~rs[i].dashboard}

\* What one record adds to them.
Adds(e, t) == IF e.token = t /\ ~e.dashboard THEN 1 ELSE 0

\* The errors of a source in a log are finitely many.
LEMMA ErrorsFinite ==
  ASSUME NEW rs \in Seq(Entries), NEW t
  PROVE  IsFiniteSet(ErrorsIn(rs, t)) /\ Cardinality(ErrorsIn(rs, t)) \in Nat
<1>1. IsFiniteSet(1..Len(rs))
  BY FS_Interval
<1>2. ErrorsIn(rs, t) \in SUBSET (1..Len(rs))
  BY DEF ErrorsIn
<1> QED BY <1>1, <1>2, FS_Subset, FS_CardinalityType

\* A record that is appended.
LEMMA ErrorsAppend ==
  ASSUME NEW rs \in Seq(Entries), NEW e \in Entries, NEW t
  PROVE  Cardinality(ErrorsIn(Append(rs, e), t))
           = Cardinality(ErrorsIn(rs, t)) + Adds(e, t)
<1> DEFINE S == ErrorsIn(rs, t)
           T == ErrorsIn(Append(rs, e), t)
           n == Len(rs) + 1
<1>1. Len(rs) \in Nat /\ Append(rs, e) \in Seq(Entries)
  OBVIOUS
<1>2. /\ Len(Append(rs, e)) = n /\ Append(rs, e)[n] = e
      /\ \A i \in 1..Len(rs) : Append(rs, e)[i] = rs[i]
  BY <1>1
<1>3. n \notin S
  BY <1>1 DEF ErrorsIn
<1>4. n \in T <=> e.token = t /\ ~e.dashboard
  BY <1>1, <1>2 DEF ErrorsIn
<1>5. S \ {n} = T \ {n}
  <2>1. \A i : i \in 1..n /\ i # n <=> i \in 1..Len(rs)
    BY <1>1
  <2>2. ASSUME NEW i PROVE i \in S \ {n} <=> i \in T \ {n}
    BY <1>2, <2>1 DEF ErrorsIn
  <2> HIDE DEF S, T
  <2> QED BY <2>2
<1>6. IsFiniteSet(S)
  BY ErrorsFinite
<1> HIDE DEF S, T, n
<1>7. Cardinality(T) + Is(n \in S) = Cardinality(S) + Is(n \in T)
      /\ Cardinality(S) \in Nat /\ Cardinality(T) \in Nat
  BY <1>5, <1>6, CardMove
<1>8. Cardinality(T) = Cardinality(S) + Adds(e, t)
  BY <1>3, <1>4, <1>7 DEF Is, Adds
<1> QED BY <1>8 DEF S, T

\* The oldest record is dropped.
LEMMA ErrorsTail ==
  ASSUME NEW rs \in Seq(Entries), rs # <<>>, NEW t
  PROVE  Cardinality(ErrorsIn(Tail(rs), t)) <= Cardinality(ErrorsIn(rs, t))
<1> DEFINE S == ErrorsIn(Tail(rs), t)
           T == ErrorsIn(rs, t)
           f == [i \in S |-> i + 1]
<1>1. /\ Len(rs) \in Nat \ {0} /\ Len(Tail(rs)) = Len(rs) - 1
      /\ \A i \in 1..Len(Tail(rs)) : Tail(rs)[i] = rs[i + 1]
  OBVIOUS
<1>2. S \subseteq Nat
  BY <1>1 DEF ErrorsIn
<1>3. \A i \in S : i + 1 \in T
  BY <1>1 DEF ErrorsIn
<1> HIDE DEF S, T
<1>4. f \in Injection(S, T)
  BY <1>2, <1>3 DEF Injection, IsInjective
<1>5. IsFiniteSet(T)
  BY ErrorsFinite DEF T
<1> HIDE DEF f
<1>6. Cardinality(S) <= Cardinality(T)
  BY <1>4, <1>5, FS_Injection
<1> QED BY <1>6 DEF S, T

\* reqlog.Store.Record adds at most the record itself to a source's errors,
\* and numbers it.
LEMMA RecordLogged ==
  ASSUME Shapes, NEW entry \in [token : Tokens \cup {None}, dashboard : BOOLEAN],
         NEW status, log' = Logged(entry, status),
         Len(log.records) <= MaxRecords,
         \A i \in 1..Len(log.records) :
           log.records[i].id = log.nextID - Len(log.records) + i
  PROVE  /\ log'.records \in Seq(Entries) /\ Len(log'.records) <= MaxRecords
         /\ log'.nextID = log.nextID + 1 /\ log'.total = log.total + 1
         /\ \A i \in 1..Len(log'.records) :
              /\ log'.records[i].id = log'.nextID - Len(log'.records) + i
              /\ \/ log'.records[i].token = entry.token
                 \/ \E j \in 1..Len(log.records) :
                      log'.records[i].token = log.records[j].token
         /\ \A t \in Tokens :
              Cardinality(ErrorsIn(log'.records, t))
                <= Cardinality(ErrorsIn(log.records, t))
                     + Adds(entry, t)
<1> DEFINE id == log.nextID + 1
           e == [id |-> id, token |-> entry.token, dashboard |-> entry.dashboard]
           rs == log.records
           grown == Append(rs, e)
           n == Len(rs)
<1>1. /\ rs \in Seq(Entries) /\ n \in Nat /\ log.nextID \in Nat /\ log.total \in Nat
      /\ e \in Entries /\ MaxRecords \in Nat \ {0} /\ id \in Nat
  BY PipelineAssumption DEF Shapes, Entries
<1>2. /\ log'.records = IF Len(grown) > MaxRecords THEN Tail(grown) ELSE grown
      /\ log'.nextID = id /\ log'.total = log.total + 1
  BY DEF Logged
<1>3. e.token = entry.token /\ e.dashboard = entry.dashboard /\ e.id = log.nextID + 1
  OBVIOUS
<1>4. \A i \in 1..n : rs[i].id = log.nextID - n + i
  OBVIOUS
<1> HIDE DEF e, id
<1>5. /\ grown \in Seq(Entries) /\ Len(grown) = n + 1 /\ grown[n + 1] = e
      /\ \A i \in 1..n : grown[i] = rs[i]
      /\ grown # <<>>
  BY <1>1
<1>6. \A i \in 1..(n + 1) : grown[i].id = log.nextID + 1 - (n + 1) + i
  <2>1. \A i \in 1..(n + 1) : i \in 1..n \/ i = n + 1
    BY <1>1
  <2>2. grown[n + 1].id = log.nextID + 1
    BY <1>3, <1>5
  <2> QED BY <1>1, <1>4, <1>5, <2>1, <2>2
<1>7. \A i \in 1..(n + 1) : grown[i].token = entry.token
                            \/ \E j \in 1..n : grown[i].token = rs[j].token
  <2>1. \A i \in 1..(n + 1) : i \in 1..n \/ i = n + 1
    BY <1>1
  <2> QED BY <1>3, <1>5, <2>1
<1>8. \A t \in Tokens : Cardinality(ErrorsIn(grown, t))
                          = Cardinality(ErrorsIn(rs, t)) + Adds(entry, t)
  <2>1. \A t \in Tokens : Adds(e, t) = Adds(entry, t)
    BY <1>3 DEF Adds
  <2> QED BY <1>1, <2>1, ErrorsAppend
<1> HIDE DEF grown
<1>9. /\ Tail(grown) \in Seq(Entries) /\ Len(Tail(grown)) = n
      /\ \A i \in 1..n : Tail(grown)[i] = grown[i + 1] /\ i + 1 \in 1..(n + 1)
  BY <1>1, <1>5
<1>10. PICK rs1 : rs1 = log'.records
  OBVIOUS
<1>11. /\ rs1 \in Seq(Entries) /\ Len(rs1) <= MaxRecords
       /\ \A i \in 1..Len(rs1) : rs1[i].id = log.nextID + 1 - Len(rs1) + i
       /\ \A i \in 1..Len(rs1) : \/ rs1[i].token = entry.token
                                 \/ \E j \in 1..n : rs1[i].token = rs[j].token
       /\ \A t \in Tokens : Cardinality(ErrorsIn(rs1, t))
                              <= Cardinality(ErrorsIn(rs, t)) + Adds(entry, t)
  <2>1. CASE Len(grown) > MaxRecords
    <3>1. rs1 = Tail(grown)
      BY <1>2, <1>10, <2>1
    <3>2. PICK l \in Nat : l = log.nextID
      BY <1>1
    <3>3. \A i \in 1..n : rs1[i].id = l + 1 - n + i
      <4>1. \A i \in 1..(n + 1) : grown[i].id = l + 1 - (n + 1) + i
        BY <1>6, <3>2
      <4>2. ASSUME NEW i \in 1..n PROVE rs1[i].id = l + 1 - n + i
        <5>1. rs1[i] = grown[i + 1] /\ i + 1 \in 1..(n + 1)
          BY <1>9, <3>1
        <5>2. grown[i + 1].id = l + 1 - (n + 1) + (i + 1)
          BY <4>1, <5>1
        <5>3. \A a, b, c \in Int : a + 1 - (b + 1) + (c + 1) = a + 1 - b + c
          OBVIOUS
        <5>4. l \in Int /\ n \in Int /\ i \in Int
          BY <1>1, <3>2
        <5> HIDE DEF n
        <5>5. l + 1 - (n + 1) + (i + 1) = l + 1 - n + i
          BY <5>3, <5>4
        <5> QED BY <5>1, <5>2, <5>5
      <4> QED BY <4>2
    <3>4. \A i \in 1..n : \/ rs1[i].token = entry.token
                          \/ \E j \in 1..n : rs1[i].token = rs[j].token
      BY <1>7, <1>9, <3>1
    <3>5. \A t \in Tokens : Cardinality(ErrorsIn(rs1, t))
                              <= Cardinality(ErrorsIn(rs, t)) + Adds(entry, t)
      <4>1. \A t \in Tokens : Cardinality(ErrorsIn(rs1, t)) <= Cardinality(ErrorsIn(grown, t))
        BY <1>5, <3>1, ErrorsTail
      <4> QED BY <1>8, <4>1
    <3>6. Len(rs1) = n /\ n <= MaxRecords /\ rs1 \in Seq(Entries)
      BY <1>9, <3>1
    <3> QED BY <3>2, <3>3, <3>4, <3>5, <3>6
  <2>2. CASE ~(Len(grown) > MaxRecords)
    <3>1. rs1 = grown /\ Len(rs1) = n + 1
      BY <1>2, <1>5, <1>10, <2>2
    <3>2. \A t \in Tokens : Cardinality(ErrorsIn(grown, t)) <= Cardinality(ErrorsIn(grown, t))
      BY <1>5, ErrorsFinite
    <3>3. Len(grown) <= MaxRecords
      BY <1>1, <1>5, <2>2
    <3>4. \A t \in Tokens : Cardinality(ErrorsIn(rs1, t))
                              <= Cardinality(ErrorsIn(rs, t)) + Adds(entry, t)
      BY <1>8, <3>1, <3>2
    <3> QED BY <1>5, <1>6, <1>7, <3>1, <3>3, <3>4
  <2> QED BY <2>1, <2>2
<1>12. log'.nextID = log.nextID + 1 /\ log'.total = log.total + 1
  BY <1>2 DEF id
<1>13. \A i \in 1..Len(rs1) : rs1[i].id = log'.nextID - Len(rs1) + i
  <2>1. PICK l \in Nat : l = log.nextID /\ log'.nextID = l + 1
    BY <1>1, <1>12
  <2>2. \A i \in 1..Len(rs1) : rs1[i].id = l + 1 - Len(rs1) + i
    BY <1>11, <2>1
  <2>3. \A i \in 1..Len(rs1) : rs1[i].id = (l + 1) - Len(rs1) + i
    BY <1>11, <2>1, <2>2
  <2> QED BY <2>1, <2>3, Zenon
<1>14. /\ log'.records \in Seq(Entries) /\ Len(log'.records) <= MaxRecords
       /\ \A t \in Tokens : Cardinality(ErrorsIn(log'.records, t))
                              <= Cardinality(ErrorsIn(log.records, t)) + Adds(entry, t)
  BY <1>10, <1>11, Zenon
<1>15. \A i \in 1..Len(log'.records) :
         /\ log'.records[i].id = log'.nextID - Len(log'.records) + i
         /\ \/ log'.records[i].token = entry.token
            \/ \E j \in 1..Len(log.records) : log'.records[i].token = log.records[j].token
  BY <1>10, <1>11, <1>13, Zenon
<1> QED BY <1>12, <1>14, <1>15

(***************************************************************************)
(* The token a source is given.                                            *)
(***************************************************************************)

\* The tokens Issue may choose from, and its order.
Own(s) == {t \in Tokens : tokens[t] # None /\ tokens[t].src = s /\ tokens[t].plain}
Before(t, u) == \/ tokens[t].born > tokens[u].born
                \/ tokens[t].born = tokens[u].born /\ t < u

\* The tokens of a source are finitely many, and the one to use again is the
\* least of them.
LEMMA OwnTyped ==
  ASSUME Shapes, NEW s
  PROVE  /\ Reusable(s) = {t \in Own(s) : \A u \in Own(s) \ {t} : Before(t, u)}
         /\ \A t \in Own(s) : t \in Nat /\ tokens[t].born \in Nat
         /\ IsFiniteSet(Own(s))
<1>1. Reusable(s) = {t \in Own(s) : \A u \in Own(s) \ {t} : Before(t, u)}
  BY DEF Reusable, Own, Before
<1>2. \A t \in Own(s) : t \in Nat /\ tokens[t].born \in Nat
  BY PipelineAssumption DEF Shapes, Own, TokenRecords
<1>3. IsFiniteSet(Own(s))
  BY PipelineAssumption, FS_Subset DEF Own
<1> QED BY <1>1, <1>2, <1>3

\* A set of naturals that is not empty has a least element.
LEMMA LeastRank ==
  ASSUME NEW T \in SUBSET Nat, T # {}
  PROVE  \E x \in T : \A y \in T : x <= y
<1> DEFINE R == OpToRel(<, Nat)
<1>1. IsWellFoundedOn(R, Nat)
  BY NatLessThanWellFounded
<1>2. \A x, y \in Nat : <<y, x>> \in R <=> y < x
  BY DEF OpToRel
<1> HIDE DEF R
<1>3. PICK x \in T : \A y \in T : ~(<<y, x>> \in R)
  BY <1>1, WFMin
<1>4. \A y \in T : x \in Nat /\ y \in Nat /\ ~(y < x)
  BY <1>2, <1>3
<1> QED BY <1>4

\* There is one newest token at most.
LEMMA ReusableOne ==
  ASSUME Shapes, NEW s, NEW t \in Reusable(s)
  PROVE  Reusable(s) = {t}
<1>1. /\ t \in Own(s) /\ \A u \in Own(s) \ {t} : Before(t, u)
      /\ \A u \in Own(s) : u \in Nat /\ tokens[u].born \in Nat
  BY OwnTyped
<1>2. ASSUME NEW u \in Reusable(s), u # t PROVE FALSE
  <2>1. u \in Own(s) /\ Before(u, t) /\ Before(t, u)
    BY <1>1, <1>2, OwnTyped
  <2> QED BY <1>1, <2>1 DEF Before
<1> QED BY <1>2

\* A source with a token that can be given again has a newest one: the one
\* with the fewest before it.
LEMMA ReusableSome ==
  ASSUME Shapes, NEW s, Own(s) # {}
  PROVE  Reusable(s) # {}
<1> DEFINE Above(t) == {u \in Own(s) : Before(u, t)}
           Ranks == {Cardinality(Above(t)) : t \in Own(s)}
<1>1. \A t \in Own(s) : t \in Nat /\ tokens[t].born \in Nat
  BY OwnTyped
<1>2. \A t \in Own(s) : IsFiniteSet(Above(t)) /\ Cardinality(Above(t)) \in Nat
  <2>1. IsFiniteSet(Own(s))
    BY OwnTyped
  <2>2. ASSUME NEW t \in Own(s) PROVE IsFiniteSet(Above(t)) /\ Cardinality(Above(t)) \in Nat
    BY <2>1, FS_Subset, FS_CardinalityType
  <2> QED BY <2>2
<1>3. PICK t \in Own(s) : \A u \in Own(s) : Cardinality(Above(t)) <= Cardinality(Above(u))
  <2>1. Ranks \in SUBSET Nat /\ Ranks # {}
    BY <1>2
  <2>2. PICK x \in Ranks : \A y \in Ranks : x <= y
    <3> HIDE DEF Ranks
    <3> QED BY <2>1, LeastRank
  <2>3. PICK t \in Own(s) : x = Cardinality(Above(t))
    BY <2>2
  <2>4. \A u \in Own(s) : Cardinality(Above(u)) \in Ranks
    OBVIOUS
  <2> HIDE DEF Ranks, Above
  <2> QED BY <2>2, <2>3, <2>4
<1>4. ASSUME NEW u \in Own(s) \ {t} PROVE Before(t, u)
  <2>1. SUFFICES ASSUME ~Before(t, u) PROVE FALSE
    OBVIOUS
  <2>2. Before(u, t)
    BY <1>1, <2>1 DEF Before
  <2>3. u \in Above(t) /\ u \notin Above(u)
    BY <1>1, <2>2 DEF Before
  <2>4. Above(u) \subseteq Above(t)
    BY <1>1, <2>2 DEF Before
  <2>5. Cardinality(Above(t)) <= Cardinality(Above(u))
    BY <1>3
  <2> HIDE DEF Above
  <2>6. Cardinality(Above(u)) <= Cardinality(Above(t))
    BY <1>2, <2>4, FS_Subset
  <2>7. Cardinality(Above(u)) = Cardinality(Above(t))
    BY <1>2, <2>5, <2>6
  <2>8. Above(u) = Above(t)
    BY <1>2, <2>4, <2>7, FS_Subset
  <2> QED BY <2>3, <2>8
<1>5. t \in Reusable(s)
  BY <1>4, OwnTyped
<1> QED BY <1>5

\* Issue gives the newest token again, or a new one that is then the newest.
LEMMA IssueRemembers ==
  ASSUME Shapes, Known, Remembered, NEW s \in Sources, NEW b \in Times,
         NEW t \in IF Reusable(s) # {} THEN Reusable(s) ELSE Fresh,
         tokens' = [tokens EXCEPT ![t] =
            [src |-> s, plain |-> TRUE,
             born |-> IF tokens[t] # None THEN tokens[t].born ELSE b]],
         issued' = [issued EXCEPT ![s] = t]
  PROVE  /\ Remembered'
         /\ tokens' \in [Tokens -> TokenRecords \cup {None}] /\ t \in Tokens
         /\ \A u \in Tokens \ {t} : tokens'[u] = tokens[u]
         /\ tokens[t] # None \/ t \notin given
         /\ issued[s] # None => t = issued[s]
<1>1. t \in Tokens
  BY DEF Reusable, Fresh
<1>2. /\ tokens'[t] = [src |-> s, plain |-> TRUE,
                       born |-> IF tokens[t] # None THEN tokens[t].born ELSE b]
      /\ \A u \in Tokens \ {t} : tokens'[u] = tokens[u]
  BY <1>1 DEF Shapes
<1>3. /\ issued'[s] = t /\ \A r \in Sources \ {s} : issued'[r] = issued[r]
  BY DEF Shapes
<1>4. tokens'[t] \in TokenRecords
  <2>1. (IF tokens[t] # None THEN tokens[t].born ELSE b) \in Times
    BY <1>1 DEF Shapes, TokenRecords
  <2>2. PICK c \in Times : c = IF tokens[t] # None THEN tokens[t].born ELSE b
    BY <2>1
  <2>3. tokens'[t] = [src |-> s, plain |-> TRUE, born |-> c]
    BY <1>2, <2>2
  <2>4. [src |-> s, plain |-> TRUE, born |-> c] \in TokenRecords
    BY Zenon DEF TokenRecords
  <2> QED BY <2>3, <2>4
<1>5. tokens' \in [Tokens -> TokenRecords \cup {None}]
  BY <1>1, <1>4 DEF Shapes
<1>6. CASE Reusable(s) # {}
  <2>1. t \in Reusable(s) /\ t \in Own(s)
    BY <1>6, OwnTyped
  <2>2. tokens[t] \in TokenRecords /\ tokens[t].src = s /\ tokens[t].plain /\ tokens[t] # None
    BY <1>1, <2>1 DEF Own, Shapes
  <2>3. tokens'[t] = tokens[t]
    <3>1. tokens[t].plain = TRUE
      BY <2>2 DEF TokenRecords
    <3>2. tokens[t] = [src |-> tokens[t].src, plain |-> tokens[t].plain,
                       born |-> tokens[t].born]
      BY <2>2 DEF TokenRecords
    <3> QED BY <1>2, <2>2, <3>1, <3>2
  <2>4. tokens' = tokens
    BY <1>2, <1>5, <2>3 DEF Shapes
  <2>5. \A r : Reusable(r)' = Reusable(r)
    BY <2>4 DEF Reusable
  <2>6. Reusable(s) = {t}
    BY <2>1, ReusableOne
  <2>7. issued[s] # None => t = issued[s]
    BY <2>6 DEF Remembered
  <2>8. Remembered'
    BY <1>3, <2>5, <2>6 DEF Remembered
  <2> QED BY <1>1, <1>2, <1>5, <2>2, <2>7, <2>8
<1>7. CASE Reusable(s) = {}
  <2>1. t \notin given /\ tokens[t] = None
    BY <1>1, <1>7 DEF Fresh, Known
  <2>2. Own(s) = {} /\ issued[s] = None
    BY <1>7, ReusableSome DEF Remembered
  <2>3. Own(s)' = {t}
    <3>1. t \in Own(s)'
      <4>1. tokens'[t].plain = TRUE /\ tokens'[t].src = s
        BY <1>2
      <4>2. tokens'[t] # None
        BY <1>4, PipelineAssumption
      <4> QED BY <1>1, <4>1, <4>2 DEF Own
    <3>2. \A u \in Own(s)' : u = t
      BY <1>2, <2>2 DEF Own
    <3> QED BY <3>1, <3>2
  <2>4. Reusable(s)' = {t}
    <3>1. Reusable(s)' = {u \in Own(s)' : \A v \in Own(s)' \ {u} :
                            \/ tokens'[u].born > tokens'[v].born
                            \/ tokens'[u].born = tokens'[v].born /\ u < v}
      BY DEF Reusable, Own
    <3> QED BY <2>3, <3>1
  <2>5. ASSUME NEW r \in Sources \ {s} PROVE Reusable(r)' = Reusable(r)
    <3>1. tokens'[t].src = s
      BY <1>2
    <3>2. t \notin Own(r) /\ t \notin Own(r)'
      BY <2>1, <3>1 DEF Own
    <3>3. Own(r)' = Own(r) /\ \A u \in Own(r) : tokens'[u] = tokens[u]
      BY <1>2, <3>2 DEF Own
    <3>4. Reusable(r)' = {u \in Own(r)' : \A v \in Own(r)' \ {u} :
                            \/ tokens'[u].born > tokens'[v].born
                            \/ tokens'[u].born = tokens'[v].born /\ u < v}
      BY DEF Reusable, Own
    <3>5. Reusable(r) = {u \in Own(r) : \A v \in Own(r) \ {u} :
                            \/ tokens[u].born > tokens[v].born
                            \/ tokens[u].born = tokens[v].born /\ u < v}
      BY DEF Reusable, Own
    <3> QED BY <3>3, <3>4, <3>5
  <2>6. Remembered'
    BY <1>3, <2>4, <2>5 DEF Remembered
  <2> QED BY <1>1, <1>2, <1>5, <2>1, <2>2, <2>6
<1> QED BY <1>6, <1>7

(***************************************************************************)
(* The invariant, action by action.                                        *)
(***************************************************************************)

\* A step of p between the counts of the meter and the log.
LEMMA CountsStay ==
  ASSUME Shapes, CountersAgree, NEW p \in Procs,
         \A q \in Procs \ {p} : pc'[q] = pc[q] /\ req'[q] = req[q],
         UNCHANGED <<counted, log>>,
         active' + Is(p \in Started) = active + Is(p \in Started'), active' \in Int,
         \A s \in {"client", "server"} : p \in Between(s)' <=> p \in Between(s)
  PROVE  CountersAgree'
<1>1. Started \ {p} = Started' \ {p}
  BY OneProc
<1>2. ASSUME NEW s \in {"client", "server"} PROVE Between(s)' = Between(s)
  <2>1. Between(s)' \ {p} = Between(s) \ {p} /\ (p \in Between(s)' <=> p \in Between(s))
    BY OneProc
  <2> QED BY <2>1
<1>3. active' = Cardinality(Started')
  <2>1. PICK S, T : S = Started /\ T = Started'
    OBVIOUS
  <2>2. /\ Cardinality(T) + Is(p \in S) = Cardinality(S) + Is(p \in T)
        /\ Cardinality(S) \in Nat /\ Cardinality(T) \in Nat
    BY <1>1, <2>1, ProcsFinite, CardMove
  <2>3. active = Cardinality(S) /\ active' + Is(p \in S) = active + Is(p \in T)
    BY <2>1 DEF CountersAgree
  <2>4. active' = Cardinality(T)
    BY <2>2, <2>3 DEF Is
  <2> QED BY <2>1, <2>4
<1> QED BY <1>2, <1>3 DEF CountersAgree

\* A step of p that does not enter a counted request.
LEMMA CountedStays ==
  ASSUME Shapes, Counted, NEW p \in Procs,
         \A q \in Procs \ {p} : pc'[q] = pc[q] /\ req'[q] = req[q],
         UNCHANGED <<log, activity, torn>>,
         \A t \in Tokens : tokens'[t] # None =>
           tokens[t] # None /\ (p \in InFlight(t)' => p \in InFlight(t))
  PROVE  Counted'
<1>1. SUFFICES ASSUME ~torn, NEW t \in Tokens, tokens'[t] # None
               PROVE  ErrorsOf(t)' + Cardinality(InFlight(t)') <= activity'[t]
  BY DEF Counted
<1>2. InFlight(t)' \subseteq InFlight(t)
  <2>1. InFlight(t)' \ {p} = InFlight(t) \ {p} /\ (p \in InFlight(t)' => p \in InFlight(t))
    BY <1>1, OneProc
  <2> QED BY <2>1
<1>3. PICK S, T : S = InFlight(t) /\ T = InFlight(t)'
  OBVIOUS
<1>4. Cardinality(T) <= Cardinality(S) /\ Cardinality(T) \in Nat /\ Cardinality(S) \in Nat
  <2>1. IsFiniteSet(S) /\ T \subseteq S
    BY <1>2, <1>3, ProcsFinite
  <2> QED BY <2>1, FS_Subset, FS_CardinalityType
<1>5. ErrorsOf(t)' = ErrorsOf(t) /\ ErrorsOf(t) \in Nat
  <2>1. ErrorsOf(t) = Cardinality(ErrorsIn(log.records, t)) /\ log.records \in Seq(Entries)
    BY DEF ErrorsOf, ErrorsIn, Shapes
  <2> QED BY <2>1, ErrorsFinite DEF ErrorsOf
<1>6. ErrorsOf(t) + Cardinality(S) <= activity[t] /\ activity[t] \in Nat
  BY <1>1, <1>3 DEF Counted, Shapes
<1>7. ErrorsOf(t) + Cardinality(T) <= activity[t]
  BY <1>4, <1>5, <1>6
<1> QED BY <1>3, <1>5, <1>7

\* A request comes in.
LEMMA ArriveStep ==
  ASSUME PipelineInv, NEW p \in Procs, NEW path \in Paths, NEW token \in Tokens \cup {None},
         Arrive(p, path, token)
  PROVE  PipelineInv'
<1> USE DEF PipelineInv
<1>1. /\ pc[p] = "idle" /\ token \in given \cup {None}
      /\ UNCHANGED <<tokens, activity, active, counted, log, issued, given, torn>>
      /\ req' = [req EXCEPT ![p] = [path |-> path, token |-> token, status |-> "ok"]]
      /\ pc' = [pc EXCEPT ![p] = IF token = None THEN "begin" ELSE "lookup"]
  BY DEF Arrive, history, Go
<1>2. PICK r : r = [path |-> path, token |-> token, status |-> "ok"]
  OBVIOUS
<1>3. req' = [req EXCEPT ![p] = r]
  BY <1>1, <1>2
<1>4. /\ r \in [path : Paths, token : Tokens \cup {None}, status : Statuses]
      /\ r.token = token /\ r.path = path /\ r.status = "ok"
  BY <1>2 DEF Statuses
<1>5. Shapes'
  <2>1. req' \in [Procs -> [path : Paths, token : Tokens \cup {None}, status : Statuses]]
    BY <1>3, <1>4 DEF Shapes
  <2>2. pc' \in [Procs -> {"idle", "lookup", "count", "begin", "handle", "commit",
                           "record", "finish"}]
    BY <1>1 DEF Shapes
  <2> QED BY <1>1, <2>1, <2>2 DEF Shapes
<1>6. /\ \A q \in Procs \ {p} : pc'[q] = pc[q] /\ req'[q] = req[q]
      /\ pc'[p] = IF token = None THEN "begin" ELSE "lookup"
      /\ req'[p] = r
  BY <1>1, <1>3 DEF Shapes
<1>7. Known'
  BY <1>1, <1>4, <1>6 DEF Known
<1>8. Requested'
  BY <1>1, <1>4, <1>6 DEF Requested, Metered
<1>9. CountersAgree'
  <2>1. p \notin Started /\ p \notin Started'
    BY <1>1, <1>6 DEF Started
  <2>2. \A s : p \notin Between(s) /\ p \notin Between(s)'
    BY <1>1, <1>6 DEF Between
  <2>3. active' + Is(p \in Started) = active + Is(p \in Started') /\ active' \in Int
    BY <1>1, <2>1, ProcsFinite DEF Is, CountersAgree
  <2> QED BY <1>1, <1>6, <2>2, <2>3, CountsStay
<1>10. Counted'
  <2>1. \A t \in Tokens : p \notin InFlight(t)'
    BY <1>4, <1>6, PipelineAssumption DEF InFlight
  <2> QED BY <1>1, <1>6, <2>1, CountedStays
<1>11. Remembered'
  BY <1>1 DEF Remembered, Reusable
<1> QED BY <1>5, <1>7, <1>8, <1>9, <1>10, <1>11

\* The token is looked up.
LEMMA LookupStep ==
  ASSUME PipelineInv, NEW p \in Procs, Lookup(p)
  PROVE  PipelineInv'
<1> USE DEF PipelineInv
<1>1. /\ pc[p] = "lookup"
      /\ UNCHANGED <<tokens, activity, active, counted, log, req, issued, given, torn>>
      /\ pc' = [pc EXCEPT ![p] = IF tokens[req[p].token] # None /\ Metered(p)
                                 THEN "count" ELSE "begin"]
  BY DEF Lookup, history, process, Go, Metered
<1>2. Shapes'
  BY <1>1 DEF Shapes
<1>3. /\ \A q \in Procs \ {p} : pc'[q] = pc[q] /\ req'[q] = req[q]
      /\ pc'[p] = IF tokens[req[p].token] # None /\ Metered(p) THEN "count" ELSE "begin"
      /\ \A q \in Procs : Metered(q)' <=> Metered(q)
  BY <1>1 DEF Shapes, Metered
<1>4. Known'
  BY <1>1 DEF Known
<1>5. Requested'
  BY <1>1, <1>3 DEF Requested
<1>6. CountersAgree'
  <2>1. p \notin Started /\ p \notin Started'
    BY <1>1, <1>3 DEF Started
  <2>2. \A s : p \notin Between(s) /\ p \notin Between(s)'
    BY <1>1, <1>3 DEF Between
  <2>3. active' + Is(p \in Started) = active + Is(p \in Started') /\ active' \in Int
    BY <1>1, <2>1, ProcsFinite DEF Is, CountersAgree
  <2> QED BY <1>1, <1>3, <2>2, <2>3, CountsStay
<1>7. Counted'
  <2>1. \A t \in Tokens : tokens[t] # None => p \notin InFlight(t)'
    BY <1>1, <1>3 DEF InFlight
  <2> QED BY <1>1, <1>3, <2>1, CountedStays
<1>8. Remembered'
  BY <1>1 DEF Remembered, Reusable
<1> QED BY <1>2, <1>4, <1>5, <1>6, <1>7, <1>8

\* The request is counted for its token.
LEMMA ObserveStep ==
  ASSUME PipelineInv, NEW p \in Procs, ObserveCount(p)
  PROVE  PipelineInv'
<1> USE DEF PipelineInv
<1>1. /\ pc[p] = "count"
      /\ UNCHANGED <<tokens, active, counted, log, req, issued, given, torn>>
      /\ pc' = [pc EXCEPT ![p] = "begin"]
  BY DEF ObserveCount, history, Go
<1>2. PICK u \in Tokens : u = req[p].token
  BY <1>1 DEF Requested, Shapes
<1>3. /\ activity' \in [Tokens -> Nat] /\ activity'[u] = activity[u] + 1
      /\ \A t \in Tokens \ {u} : activity'[t] = activity[t]
      /\ activity \in [Tokens -> Nat]
  BY <1>2 DEF ObserveCount, Shapes
<1>4. Shapes'
  BY <1>1, <1>3 DEF Shapes
<1>5. /\ \A q \in Procs \ {p} : pc'[q] = pc[q] /\ req'[q] = req[q]
      /\ pc'[p] = "begin" /\ req'[p] = req[p]
      /\ \A q \in Procs : Metered(q)' <=> Metered(q)
  BY <1>1 DEF Shapes, Metered
<1>6. Known'
  BY <1>1 DEF Known
<1>7. Requested'
  BY <1>1, <1>5 DEF Requested
<1>8. CountersAgree'
  <2>1. p \notin Started /\ p \notin Started'
    BY <1>1, <1>5 DEF Started
  <2>2. \A s : p \notin Between(s) /\ p \notin Between(s)'
    BY <1>1, <1>5 DEF Between
  <2>3. active' + Is(p \in Started) = active + Is(p \in Started') /\ active' \in Int
    BY <1>1, <2>1, ProcsFinite DEF Is, CountersAgree
  <2> QED BY <1>1, <1>5, <2>2, <2>3, CountsStay
<1>9. Counted'
  <2>1. SUFFICES ASSUME ~torn, NEW t \in Tokens, tokens[t] # None
                 PROVE  ErrorsOf(t)' + Cardinality(InFlight(t)') <= activity'[t]
    BY <1>1 DEF Counted
  <2>2. p \notin InFlight(t) /\ (p \in InFlight(t)' => t = u)
    BY <1>1, <1>2, <1>5 DEF InFlight
  <2>3. PICK S, T : S = InFlight(t) /\ T = InFlight(t)'
    OBVIOUS
  <2>4. /\ Cardinality(T) + Is(p \in S) = Cardinality(S) + Is(p \in T)
        /\ Cardinality(S) \in Nat /\ Cardinality(T) \in Nat
    <3>1. S \ {p} = T \ {p} /\ IsFiniteSet(S)
      BY <1>5, <2>3, OneProc, ProcsFinite
    <3> QED BY <3>1, CardMove
  <2>5. ErrorsOf(t)' = ErrorsOf(t) /\ ErrorsOf(t) \in Nat
    <3>1. ErrorsOf(t) = Cardinality(ErrorsIn(log.records, t)) /\ log.records \in Seq(Entries)
      BY DEF ErrorsOf, ErrorsIn, Shapes
    <3> QED BY <1>1, <3>1, ErrorsFinite DEF ErrorsOf
  <2>6. ErrorsOf(t) + Cardinality(S) <= activity[t]
    BY <2>1, <2>3 DEF Counted
  <2>7. ErrorsOf(t) + Cardinality(T) <= activity'[t]
    BY <1>3, <2>2, <2>3, <2>4, <2>5, <2>6 DEF Is
  <2> QED BY <2>3, <2>5, <2>7
<1>10. Remembered'
  BY <1>1 DEF Remembered, Reusable
<1> QED BY <1>4, <1>6, <1>7, <1>8, <1>9, <1>10

\* The meter begins.
LEMMA BeginStep ==
  ASSUME PipelineInv, NEW p \in Procs, Begin(p)
  PROVE  PipelineInv'
<1> USE DEF PipelineInv
<1>1. /\ pc[p] = "begin"
      /\ UNCHANGED <<tokens, activity, counted, log, req, issued, given, torn>>
      /\ pc' = [pc EXCEPT ![p] = "handle"]
      /\ active' = IF Metered(p) THEN active + 1 ELSE active
  BY DEF Begin, history, Go, Metered
<1>2. Shapes'
  BY <1>1 DEF Shapes
<1>3. /\ \A q \in Procs \ {p} : pc'[q] = pc[q] /\ req'[q] = req[q]
      /\ pc'[p] = "handle" /\ req'[p] = req[p]
      /\ \A q \in Procs : Metered(q)' <=> Metered(q)
  BY <1>1 DEF Shapes, Metered
<1>4. Known'
  BY <1>1 DEF Known
<1>5. Requested'
  BY <1>1, <1>3 DEF Requested
<1>6. CountersAgree'
  <2>1. p \notin Started /\ (p \in Started' <=> Metered(p))
    BY <1>1, <1>3 DEF Started
  <2>2. \A s : p \notin Between(s) /\ p \notin Between(s)'
    BY <1>1, <1>3 DEF Between
  <2>3. active \in Int
    BY ProcsFinite DEF CountersAgree
  <2>4. active' + Is(p \in Started) = active + Is(p \in Started') /\ active' \in Int
    <3>1. CASE Metered(p)
      BY <1>1, <2>1, <2>3, <3>1 DEF Is
    <3>2. CASE ~Metered(p)
      BY <1>1, <2>1, <2>3, <3>2 DEF Is
    <3> QED BY <3>1, <3>2
  <2> QED BY <1>1, <1>3, <2>2, <2>4, CountsStay
<1>7. Counted'
  <2>1. \A t \in Tokens : p \in InFlight(t)' => p \in InFlight(t)
    BY <1>1, <1>3 DEF InFlight
  <2> QED BY <1>1, <1>3, <2>1, CountedStays
<1>8. Remembered'
  BY <1>1 DEF Remembered, Reusable
<1> QED BY <1>2, <1>4, <1>5, <1>6, <1>7, <1>8

\* A handler answers: what does not depend on the tokens.
LEMMA Answered ==
  ASSUME PipelineInv, NEW p \in Procs, NEW status \in Statuses,
         pc[p] \in {"handle", "commit"}, With(p, status), Go(p, "record"),
         req[p].path = "stray" => status = "client",
         UNCHANGED <<counted, log>>, UNCHANGED active
  PROVE  /\ req' \in [Procs -> [path : Paths, token : Tokens \cup {None},
                                status : Statuses]]
         /\ pc' \in [Procs -> {"idle", "lookup", "count", "begin", "handle", "commit",
                               "record", "finish"}]
         /\ \A q \in Procs \ {p} : pc'[q] = pc[q] /\ req'[q] = req[q]
         /\ \A q \in Procs : req'[q].token = req[q].token
         /\ \A t : InFlight(t)' = InFlight(t)
         /\ Requested' /\ CountersAgree'
<1> USE DEF PipelineInv
<1>1. /\ pc' = [pc EXCEPT ![p] = "record"]
      /\ req' = [req EXCEPT ![p].status = status]
  BY DEF Go, With
<1>2. req' \in [Procs -> [path : Paths, token : Tokens \cup {None}, status : Statuses]]
  BY <1>1 DEF Shapes
<1>3. pc' \in [Procs -> {"idle", "lookup", "count", "begin", "handle", "commit",
                         "record", "finish"}]
  BY <1>1 DEF Shapes
<1>4. /\ \A q \in Procs \ {p} : pc'[q] = pc[q] /\ req'[q] = req[q]
      /\ pc'[p] = "record"
      /\ req'[p].token = req[p].token /\ req'[p].path = req[p].path
      /\ req'[p].status = status
  BY <1>1 DEF Shapes
<1>5. \A q \in Procs : Metered(q)' <=> Metered(q)
  BY <1>4 DEF Metered
<1>6. \A q \in Procs : req'[q].token = req[q].token
  BY <1>4
<1>7. Requested'
  BY <1>4, <1>5 DEF Requested
<1>8. CountersAgree'
  <2>1. p \in Started <=> p \in Started'
    BY <1>4, <1>5 DEF Started
  <2>2. \A s : p \notin Between(s) /\ p \notin Between(s)'
    BY <1>4 DEF Between
  <2>3. active' + Is(p \in Started) = active + Is(p \in Started') /\ active' \in Int
    BY <2>1, ProcsFinite DEF Is, CountersAgree
  <2> QED BY <1>4, <2>2, <2>3, CountsStay
<1>9. \A t : InFlight(t)' = InFlight(t)
  BY <1>4, <1>5 DEF InFlight
<1> QED BY <1>2, <1>3, <1>4, <1>6, <1>7, <1>8, <1>9

\* A handler answers and leaves the tokens alone.
LEMMA AnsweredStep ==
  ASSUME PipelineInv, NEW p \in Procs, NEW status \in Statuses,
         pc[p] \in {"handle", "commit"}, With(p, status), Go(p, "record"),
         req[p].path = "stray" => status = "client",
         UNCHANGED <<tokens, process, history>>
  PROVE  PipelineInv'
<1>1. UNCHANGED <<tokens, activity, active, counted, log, issued, given, torn>>
  BY DEF process, history
<1>2. /\ req' \in [Procs -> [path : Paths, token : Tokens \cup {None}, status : Statuses]]
      /\ pc' \in [Procs -> {"idle", "lookup", "count", "begin", "handle", "commit",
                            "record", "finish"}]
      /\ \A q \in Procs \ {p} : pc'[q] = pc[q] /\ req'[q] = req[q]
      /\ \A q \in Procs : req'[q].token = req[q].token
      /\ \A t : InFlight(t)' = InFlight(t)
      /\ Requested' /\ CountersAgree'
  BY <1>1, Answered
<1> USE DEF PipelineInv
<1>3. Shapes'
  BY <1>1, <1>2 DEF Shapes
<1>4. Known'
  BY <1>1, <1>2 DEF Known
<1>5. Counted'
  BY <1>1, <1>2, CountedStays
<1>6. Remembered'
  BY <1>1 DEF Remembered, Reusable
<1> QED BY <1>2, <1>3, <1>4, <1>5, <1>6

\* A handler that only answers keeps the invariant.
LEMMA HandleStep ==
  ASSUME PipelineInv, NEW p \in Procs, Handle(p)
  PROVE  PipelineInv'
<1>1. PICK status \in Statuses : With(p, status) /\ (req[p].path = "stray" => status = "client")
  BY DEF Handle
<1>2. pc[p] = "handle" /\ Go(p, "record") /\ UNCHANGED <<tokens, process, history>>
  BY DEF Handle
<1> QED BY <1>1, <1>2, AnsweredStep

\* A token that cannot be issued is an answer and nothing else.
LEMMA TokenErrorStep ==
  ASSUME PipelineInv, NEW p \in Procs, TokenError(p)
  PROVE  PipelineInv'
<1>1. /\ pc[p] = "handle" /\ Go(p, "record") /\ UNCHANGED <<tokens, process, history>>
      /\ req[p].path # "stray"
  BY DEF TokenError
<1>2. PICK status \in Statuses : With(p, status)
  BY DEF TokenError, Statuses
<1> QED BY <1>1, <1>2, AnsweredStep

\* A transaction of DeleteAll that fails is an answer and nothing else.
LEMMA DeleteFailsStep ==
  ASSUME PipelineInv, NEW p \in Procs, DeleteFails(p)
  PROVE  PipelineInv'
<1>1. /\ pc[p] = "commit" /\ Go(p, "record") /\ UNCHANGED <<tokens, process, history>>
      /\ With(p, "server") /\ "server" \in Statuses
  BY DEF DeleteFails, Statuses
<1>2. req[p].path # "stray"
  BY <1>1 DEF PipelineInv, Requested
<1> QED BY <1>1, <1>2, AnsweredStep

\* A source is given a token: one it has, or one nothing is known about yet.
LEMMA IssueStep ==
  ASSUME PipelineInv, NEW p \in Procs, NEW s \in Sources, Issue(p, s)
  PROVE  PipelineInv'
<1>1. /\ pc[p] = "handle" /\ req[p].path = "issue" /\ With(p, "ok") /\ Go(p, "record")
      /\ UNCHANGED <<activity, active, counted, log, torn>> /\ "ok" \in Statuses
  BY DEF Issue, process, Statuses
<1>2. PICK t \in IF Reusable(s) # {} THEN Reusable(s) ELSE Fresh, b \in Times :
        /\ tokens' = [tokens EXCEPT ![t] =
             [src |-> s, plain |-> TRUE,
              born |-> IF tokens[t] # None THEN tokens[t].born ELSE b]]
        /\ issued' = [issued EXCEPT ![s] = t]
        /\ given' = given \cup {t}
  BY DEF Issue
<1>3. /\ req' \in [Procs -> [path : Paths, token : Tokens \cup {None}, status : Statuses]]
      /\ pc' \in [Procs -> {"idle", "lookup", "count", "begin", "handle", "commit",
                            "record", "finish"}]
      /\ \A q \in Procs \ {p} : pc'[q] = pc[q] /\ req'[q] = req[q]
      /\ \A q \in Procs : req'[q].token = req[q].token
      /\ \A u : InFlight(u)' = InFlight(u)
      /\ Requested' /\ CountersAgree'
  BY <1>1, Answered
<1> USE DEF PipelineInv
<1>4. /\ Remembered'
      /\ tokens' \in [Tokens -> TokenRecords \cup {None}] /\ t \in Tokens
      /\ \A u \in Tokens \ {t} : tokens'[u] = tokens[u]
      /\ tokens[t] # None \/ t \notin given
  BY <1>2, IssueRemembers
<1>5. Shapes'
  <2>1. issued' \in [Sources -> Tokens \cup {None}] /\ given' \subseteq Tokens
    BY <1>2, <1>4 DEF Shapes
  <2> QED BY <1>1, <1>3, <1>4, <2>1 DEF Shapes
<1>6. Known'
  <2>1. \A u \in Tokens : tokens'[u] # None => u \in given'
    BY <1>2, <1>4 DEF Known
  <2>2. \A q \in Procs : req'[q].token \in given' \cup {None}
    BY <1>2, <1>3 DEF Known
  <2>3. \A i \in 1..Len(log'.records) : log'.records[i].token \in given' \cup {None}
    BY <1>1, <1>2 DEF Known
  <2> QED BY <2>1, <2>2, <2>3 DEF Known
<1>7. Counted'
  <2>1. SUFFICES ASSUME ~torn, NEW u \in Tokens, tokens'[u] # None
                 PROVE  ErrorsOf(u) + Cardinality(InFlight(u)) <= activity[u]
    <3>1. \A u : ErrorsOf(u)' = ErrorsOf(u)
      BY <1>1 DEF ErrorsOf
    <3> QED BY <1>1, <1>3, <3>1 DEF Counted
  <2>2. CASE tokens[u] # None
    BY <2>1, <2>2 DEF Counted
  <2>3. CASE tokens[u] = None
    <3>1. u \notin given /\ u # None
      BY <1>4, <2>1, <2>3, PipelineAssumption
    <3>2. InFlight(u) = {}
      BY <3>1 DEF InFlight, Known
    <3>3. {i \in 1..Len(log.records) :
             log.records[i].token = u /\ ~log.records[i].dashboard} = {}
      BY <3>1 DEF Known
    <3>4. ErrorsOf(u) = 0 /\ Cardinality(InFlight(u)) = 0
      BY <3>2, <3>3, FS_EmptySet DEF ErrorsOf
    <3>5. activity[u] \in Nat
      BY DEF Shapes
    <3> QED BY <3>4, <3>5
  <2> QED BY <2>2, <2>3
<1> QED BY <1>3, <1>4, <1>5, <1>6, <1>7

\* DeleteAll clears the activity while its transaction is open.
LEMMA DeleteAllStep ==
  ASSUME PipelineInv, NEW p \in Procs, DeleteAll(p)
  PROVE  PipelineInv'
<1> USE DEF PipelineInv
<1>1. /\ pc[p] = "handle" /\ req[p].path = "clear"
      /\ UNCHANGED <<tokens, active, counted, log, req, issued, given>>
      /\ pc' = [pc EXCEPT ![p] = "commit"]
      /\ activity' = [t \in Tokens |-> 0] /\ torn' = TRUE
  BY DEF DeleteAll, Go
<1>2. Shapes'
  BY <1>1 DEF Shapes
<1>3. /\ \A q \in Procs \ {p} : pc'[q] = pc[q] /\ req'[q] = req[q]
      /\ pc'[p] = "commit" /\ req'[p] = req[p]
      /\ \A q \in Procs : Metered(q)' <=> Metered(q)
  BY <1>1 DEF Shapes, Metered
<1>4. Known'
  BY <1>1 DEF Known
<1>5. Requested'
  BY <1>1, <1>3 DEF Requested
<1>6. CountersAgree'
  <2>1. p \in Started <=> p \in Started'
    BY <1>1, <1>3 DEF Started
  <2>2. \A s : p \notin Between(s) /\ p \notin Between(s)'
    BY <1>1, <1>3 DEF Between
  <2>3. active' + Is(p \in Started) = active + Is(p \in Started') /\ active' \in Int
    BY <1>1, <2>1, ProcsFinite DEF Is, CountersAgree
  <2> QED BY <1>1, <1>3, <2>2, <2>3, CountsStay
<1>7. Counted'
  BY <1>1 DEF Counted
<1>8. Remembered'
  BY <1>1 DEF Remembered, Reusable
<1> QED BY <1>2, <1>4, <1>5, <1>6, <1>7, <1>8

\* The tokens are deleted.
LEMMA DeleteCommitStep ==
  ASSUME PipelineInv, NEW p \in Procs, DeleteCommit(p)
  PROVE  PipelineInv'
<1>1. /\ pc[p] = "commit" /\ With(p, "ok") /\ Go(p, "record") /\ "ok" \in Statuses
      /\ UNCHANGED <<activity, active, counted, log, given>>
      /\ tokens' = [t \in Tokens |-> None] /\ issued' = [s \in Sources |-> None]
  BY DEF DeleteCommit, process, Statuses
<1> USE DEF PipelineInv
<1>2. req[p].path # "stray"
  BY <1>1 DEF Requested
<1>3. /\ req' \in [Procs -> [path : Paths, token : Tokens \cup {None}, status : Statuses]]
      /\ pc' \in [Procs -> {"idle", "lookup", "count", "begin", "handle", "commit",
                            "record", "finish"}]
      /\ \A q \in Procs \ {p} : pc'[q] = pc[q] /\ req'[q] = req[q]
      /\ \A q \in Procs : req'[q].token = req[q].token
      /\ \A u : InFlight(u)' = InFlight(u)
      /\ Requested' /\ CountersAgree'
  BY <1>1, <1>2, Answered
<1>4. Shapes'
  BY <1>1, <1>3 DEF Shapes
<1>5. Known'
  BY <1>1, <1>3 DEF Known
<1>6. Counted' /\ Remembered'
  BY <1>1 DEF Counted, Remembered
<1> QED BY <1>3, <1>4, <1>5, <1>6

\* The process is started again.
JustStarted ==
  /\ Shapes /\ Remembered /\ \A t \in Tokens : tokens[t] # None => t \in given
  /\ activity = [t \in Tokens |-> 0] /\ active = 0 /\ counted = NoCount /\ log = NoLog
  /\ pc = [p \in Procs |-> "idle"] /\ req = [p \in Procs |-> NoRequest]

\* A process that has just started satisfies the invariant.
LEMMA Restarted == JustStarted => PipelineInv
<1> SUFFICES ASSUME JustStarted PROVE PipelineInv
  OBVIOUS
<1> USE DEF JustStarted
<1>1. Len(log.records) = 0 /\ log.records = <<>>
  BY DEF NoLog
<1>2. Known
  BY <1>1 DEF Known, NoRequest
<1>3. Requested
  BY DEF Requested
<1>4. /\ Started = {} /\ \A s : Between(s) = {}
      /\ \A t : InFlight(t) = {}
      /\ \A t : {i \in 1..Len(log.records) :
                   log.records[i].token = t /\ ~log.records[i].dashboard} = {}
  BY <1>1 DEF Started, Between, InFlight
<1>5. /\ Cardinality(Started) = 0 /\ \A s : Cardinality(Between(s)) = 0
      /\ \A t : Cardinality(InFlight(t)) = 0
      /\ \A t : ErrorsOf(t) = 0
  BY <1>4, FS_EmptySet DEF ErrorsOf
<1>6. Counted
  BY <1>5 DEF Counted
<1>7. CountersAgree
  <2>1. /\ log.nextID = 0 /\ log.total = 0 /\ log.panelClient = 0 /\ log.panelServer = 0
        /\ counted.count = 0 /\ counted.ok = 0 /\ counted.client = 0 /\ counted.server = 0
    BY DEF NoLog, NoCount
  <2>2. MaxRecords \in Nat
    BY PipelineAssumption
  <2> QED BY <1>1, <1>5, <2>1, <2>2 DEF CountersAgree
<1> QED BY <1>2, <1>3, <1>6, <1>7 DEF PipelineInv

\* A restart forgets the counts, the log and the requests together.
LEMMA RestartStep ==
  ASSUME PipelineInv, Restart
  PROVE  PipelineInv'
<1>1. /\ activity' = [t \in Tokens |-> 0] /\ active' = 0 /\ counted' = NoCount
      /\ log' = NoLog /\ pc' = [p \in Procs |-> "idle"]
      /\ req' = [p \in Procs |-> NoRequest]
      /\ UNCHANGED <<tokens, issued, given>>
  BY DEF Restart
<1>2. /\ NoRequest \in [path : Paths, token : Tokens \cup {None}, status : Statuses]
      /\ NoCount \in [count : Nat, ok : Nat, client : Nat, server : Nat]
      /\ NoLog \in [records : Seq(Entries), nextID : Nat, total : Nat,
                    panelClient : Nat, panelServer : Nat]
  BY DEF NoRequest, NoCount, NoLog, Paths, Statuses
<1> USE DEF PipelineInv
<1>3. Shapes'
  BY <1>1, <1>2 DEF Shapes
<1>4. (\A t \in Tokens : tokens[t] # None => t \in given)'
  BY <1>1 DEF Known
<1>5. Remembered'
  BY <1>1 DEF Remembered, Reusable
<1>6. JustStarted'
  BY <1>1, <1>3, <1>4, <1>5 DEF JustStarted
<1> HIDE DEF PipelineInv
<1> QED BY <1>6, Restarted, PTL

\* What errorRecorder does to the log: it adds the request to the counters and
\* to the errors of its token, if it is one of theirs, and to nothing else.
LEMMA LogGrows ==
  ASSUME PipelineInv, NEW p \in Procs, Record(p)
  PROVE  /\ log' \in [records : Seq(Entries), nextID : Nat, total : Nat,
                      panelClient : Nat, panelServer : Nat]
         /\ log'.panelServer = log.panelServer + Is(req[p].status = "server" /\ Metered(p))
         /\ log'.panelClient <= log.panelClient + Is(req[p].status = "client" /\ Metered(p))
         /\ log'.total = log'.nextID /\ Len(log'.records) <= MaxRecords
         /\ \A i \in 1..Len(log'.records) :
              /\ log'.records[i].id = log'.nextID - Len(log'.records) + i
              /\ log'.records[i].token \in given \cup {None}
         /\ \A t \in Tokens : Cardinality(ErrorsIn(log'.records, t))
              <= Cardinality(ErrorsIn(log.records, t))
                   + Is(req[p].token = t /\ Metered(p))
<1> USE DEF PipelineInv
<1>1. PICK st, dash, token : /\ st = req[p].status /\ dash = isDashboardErrorPath(req[p].path)
                             /\ token = req[p].token
  OBVIOUS
<1>2. /\ st \in Statuses /\ dash \in BOOLEAN /\ token \in given \cup {None}
      /\ token \in Tokens \cup {None} /\ (Metered(p) <=> ~dash)
  <2>1. dash \in BOOLEAN
    BY <1>1 DEF isDashboardErrorPath
  <2>2. Metered(p) <=> ~dash
    BY <1>1 DEF Metered
  <2> QED BY <1>1, <2>1, <2>2 DEF Shapes, Known
<1>3. /\ log \in [records : Seq(Entries), nextID : Nat, total : Nat,
                  panelClient : Nat, panelServer : Nat]
      /\ log.panelServer \in Nat /\ log.panelClient \in Nat /\ log.nextID \in Nat
      /\ log.total = log.nextID /\ Len(log.records) <= MaxRecords
      /\ \A i \in 1..Len(log.records) :
           log.records[i].id = log.nextID - Len(log.records) + i
      /\ \A i \in 1..Len(log.records) : log.records[i].token \in given \cup {None}
  BY DEF Shapes, CountersAgree, Known
<1>4. CASE st # "ok" /\ isMonitoredErrorPath(req[p].path)
  <2>1. PICK entry : entry = [token |-> token, dashboard |-> dash]
    OBVIOUS
  <2>2. /\ log' = Logged(entry, st) /\ entry.token = token /\ entry.dashboard = dash
        /\ entry \in [token : Tokens \cup {None}, dashboard : BOOLEAN]
    <3>1. entry \in [token : Tokens \cup {None}, dashboard : BOOLEAN]
      BY <1>2, <2>1, Zenon
    <3>2. Logged(entry, st) = Logged([token |-> req[p].token,
                                      dashboard |-> isDashboardErrorPath(req[p].path)],
                                     req[p].status)
      BY <1>1, <2>1, Zenon
    <3>3. log' = Logged([token |-> req[p].token,
                         dashboard |-> isDashboardErrorPath(req[p].path)],
                        req[p].status)
      BY <1>1, <1>4 DEF Record
    <3> QED BY <2>1, <3>1, <3>2, <3>3
  <2>3. /\ log'.records \in Seq(Entries) /\ Len(log'.records) <= MaxRecords
        /\ log'.nextID = log.nextID + 1 /\ log'.total = log.total + 1
        /\ \A i \in 1..Len(log'.records) :
             /\ log'.records[i].id = log'.nextID - Len(log'.records) + i
             /\ \/ log'.records[i].token = entry.token
                \/ \E j \in 1..Len(log.records) :
                     log'.records[i].token = log.records[j].token
        /\ \A t \in Tokens :
             Cardinality(ErrorsIn(log'.records, t))
               <= Cardinality(ErrorsIn(log.records, t)) + Adds(entry, t)
    BY <1>3, <2>2, RecordLogged
  <2>4. /\ log'.panelServer = log.panelServer + (IF st = "server" /\ ~dash THEN 1 ELSE 0)
        /\ log'.panelClient = log.panelClient + (IF st = "client" /\ ~dash THEN 1 ELSE 0)
        /\ log' = [records |-> log'.records, nextID |-> log'.nextID, total |-> log'.total,
                   panelClient |-> log'.panelClient, panelServer |-> log'.panelServer]
    BY <2>2 DEF Logged
  <2>5. /\ log'.panelServer = log.panelServer + Is(st = "server" /\ Metered(p))
        /\ log'.panelClient = log.panelClient + Is(st = "client" /\ Metered(p))
    BY <1>2, <2>4 DEF Is
  <2>6. /\ log'.panelServer \in Nat /\ log'.panelClient \in Nat /\ log'.nextID \in Nat
        /\ log'.total \in Nat /\ log'.total = log'.nextID
    BY <1>3, <2>3, <2>5 DEF Is
  <2>7. log' \in [records : Seq(Entries), nextID : Nat, total : Nat,
                  panelClient : Nat, panelServer : Nat]
    BY <2>3, <2>4, <2>6
  <2>8. \A i \in 1..Len(log'.records) : log'.records[i].token \in given \cup {None}
    BY <1>2, <1>3, <2>2, <2>3
  <2>9. \A t \in Tokens : Adds(entry, t) = Is(token = t /\ Metered(p))
    BY <1>2, <2>2 DEF Adds, Is
  <2>10. \A t \in Tokens : Cardinality(ErrorsIn(log'.records, t))
           <= Cardinality(ErrorsIn(log.records, t)) + Is(token = t /\ Metered(p))
    BY <2>3, <2>9, Zenon
  <2>11. log'.panelClient <= log.panelClient + Is(st = "client" /\ Metered(p))
    BY <2>5, <2>6
  <2>12. \A i \in 1..Len(log'.records) :
           /\ log'.records[i].id = log'.nextID - Len(log'.records) + i
           /\ log'.records[i].token \in given \cup {None}
    BY <2>3, <2>8, Zenon
  <2>13. Len(log'.records) <= MaxRecords
    BY <2>3
  <2> QED BY <1>1, <2>5, <2>6, <2>7, <2>10, <2>11, <2>12, <2>13, Zenon
<1>5. CASE ~(st # "ok" /\ isMonitoredErrorPath(req[p].path))
  <2>1. log' = log
    BY <1>1, <1>5 DEF Record
  <2>2. ~(st = "server" /\ Metered(p))
    BY <1>1, <1>5 DEF Record, Requested, isMonitoredErrorPath
  <2>3. /\ log.panelServer = log.panelServer + Is(st = "server" /\ Metered(p))
        /\ log.panelClient <= log.panelClient + Is(st = "client" /\ Metered(p))
    BY <1>3, <2>2 DEF Is
  <2>4. \A t \in Tokens : Cardinality(ErrorsIn(log.records, t))
           <= Cardinality(ErrorsIn(log.records, t)) + Is(token = t /\ Metered(p))
    <3>1. \A t \in Tokens : Cardinality(ErrorsIn(log.records, t)) \in Nat
      BY <1>3, ErrorsFinite
    <3> QED BY <3>1 DEF Is
  <2>5. \A i \in 1..Len(log.records) :
           /\ log.records[i].id = log.nextID - Len(log.records) + i
           /\ log.records[i].token \in given \cup {None}
    BY <1>3
  <2> QED BY <1>1, <1>3, <2>1, <2>3, <2>4, <2>5, Zenon
<1> QED BY <1>4, <1>5

\* The error log gets the response before the meter does.
LEMMA RecordStep ==
  ASSUME PipelineInv, NEW p \in Procs, Record(p)
  PROVE  PipelineInv'
<1> USE DEF PipelineInv
<1>1. /\ pc[p] = "record" /\ pc' = [pc EXCEPT ![p] = "finish"]
      /\ UNCHANGED <<tokens, activity, active, counted, req, issued, given, torn>>
  BY DEF Record, Go, history
<1>2. /\ log' \in [records : Seq(Entries), nextID : Nat, total : Nat,
                   panelClient : Nat, panelServer : Nat]
      /\ log'.panelServer = log.panelServer + Is(req[p].status = "server" /\ Metered(p))
      /\ log'.panelClient <= log.panelClient + Is(req[p].status = "client" /\ Metered(p))
      /\ log'.total = log'.nextID /\ Len(log'.records) <= MaxRecords
      /\ \A i \in 1..Len(log'.records) :
           /\ log'.records[i].id = log'.nextID - Len(log'.records) + i
           /\ log'.records[i].token \in given \cup {None}
      /\ \A t \in Tokens : Cardinality(ErrorsIn(log'.records, t))
           <= Cardinality(ErrorsIn(log.records, t)) + Is(req[p].token = t /\ Metered(p))
  BY LogGrows
<1>3. Shapes'
  BY <1>1, <1>2 DEF Shapes
<1>4. /\ \A q \in Procs \ {p} : pc'[q] = pc[q] /\ req'[q] = req[q]
      /\ pc'[p] = "finish" /\ req'[p] = req[p]
      /\ \A q \in Procs : Metered(q)' <=> Metered(q)
  BY <1>1 DEF Shapes, Metered
<1>5. Known'
  BY <1>1, <1>2 DEF Known
<1>6. Requested'
  BY <1>1, <1>4 DEF Requested
<1>7. CountersAgree'
  <2>1. Started' = Started
    BY <1>1, <1>4 DEF Started
  <2>2. ASSUME NEW s
        PROVE  /\ Cardinality(Between(s)') = Cardinality(Between(s))
                                             + Is(req[p].status = s /\ Metered(p))
               /\ Cardinality(Between(s)) \in Nat
    <3>1. p \notin Between(s) /\ (p \in Between(s)' <=> req[p].status = s /\ Metered(p))
      BY <1>1, <1>4 DEF Between
    <3>2. PICK S, T : S = Between(s) /\ T = Between(s)'
      OBVIOUS
    <3>3. S \ {p} = T \ {p} /\ IsFiniteSet(S)
      BY <1>4, <3>2, OneProc, ProcsFinite
    <3>4. /\ Cardinality(T) + Is(p \in S) = Cardinality(S) + Is(p \in T)
          /\ Cardinality(S) \in Nat /\ Cardinality(T) \in Nat
      BY <3>3, CardMove
    <3>5. Cardinality(T) = Cardinality(S) + Is(req[p].status = s /\ Metered(p))
      BY <3>1, <3>2, <3>4 DEF Is
    <3> QED BY <3>2, <3>4, <3>5
  <2>3. /\ counted.server \in Nat /\ counted.client \in Nat
        /\ log.panelClient \in Nat /\ log'.panelClient \in Nat
    BY <1>2 DEF Shapes
  <2>4. log'.panelServer = counted'.server + Cardinality(Between("server")')
    <3>1. PICK a, b, c, d : /\ a = log.panelServer /\ b = Cardinality(Between("server"))
                            /\ c = Is(req[p].status = "server" /\ Metered(p))
                            /\ d = counted.server
      OBVIOUS
    <3>2. a = d + b /\ d \in Nat /\ b \in Nat /\ c \in Nat
      BY <2>2, <2>3, <3>1 DEF CountersAgree, Is
    <3>3. a + c = d + (b + c)
      BY <3>2
    <3>4. /\ log'.panelServer = a + c /\ Cardinality(Between("server")') = b + c
          /\ counted'.server = d
      BY <1>1, <1>2, <2>2, <3>1, Zenon
    <3> QED BY <3>3, <3>4, Zenon
  <2>5. log'.panelClient <= counted'.client + Cardinality(Between("client")')
    <3>1. PICK a, b, c, d, e : /\ a = log.panelClient /\ b = Cardinality(Between("client"))
                               /\ c = Is(req[p].status = "client" /\ Metered(p))
                               /\ d = counted.client /\ e = log'.panelClient
      OBVIOUS
    <3>2. /\ a <= d + b /\ d \in Nat /\ b \in Nat /\ c \in Nat /\ e <= a + c
          /\ a \in Nat /\ e \in Nat
      BY <1>2, <2>2, <2>3, <3>1 DEF CountersAgree, Is
    <3>3. e <= d + (b + c)
      BY <3>2
    <3>4. Cardinality(Between("client")') = b + c /\ counted'.client = d
      BY <1>1, <2>2, <3>1, Zenon
    <3> QED BY <3>1, <3>3, <3>4, Zenon
  <2>6. active' = Cardinality(Started')
    BY <1>1, <2>1 DEF CountersAgree
  <2>7. counted'.count = counted'.ok + counted'.client + counted'.server
    BY <1>1 DEF CountersAgree
  <2>8. \A i \in 1..Len(log'.records) :
          log'.records[i].id = log'.nextID - Len(log'.records) + i
    BY <1>2, Zenon
  <2>9. log'.total = log'.nextID /\ Len(log'.records) <= MaxRecords
    BY <1>2, Zenon
  <2> QED BY <2>4, <2>5, <2>6, <2>7, <2>8, <2>9, Zenon DEF CountersAgree
<1>8. Counted'
  <2>1. SUFFICES ASSUME ~torn, NEW t \in Tokens, tokens[t] # None
                 PROVE  ErrorsOf(t)' + Cardinality(InFlight(t)') <= activity'[t]
    BY <1>1 DEF Counted
  <2>2. p \notin InFlight(t)' /\ (p \in InFlight(t) <=> req[p].token = t /\ Metered(p))
    BY <1>1, <1>4 DEF InFlight
  <2>3. PICK S, T : S = InFlight(t) /\ T = InFlight(t)'
    OBVIOUS
  <2>4. /\ Cardinality(T) + Is(p \in S) = Cardinality(S) + Is(p \in T)
        /\ Cardinality(S) \in Nat /\ Cardinality(T) \in Nat
    <3>1. S \ {p} = T \ {p} /\ IsFiniteSet(S)
      BY <1>4, <2>3, OneProc, ProcsFinite
    <3> QED BY <3>1, CardMove
  <2>5. PICK e, f : e = ErrorsOf(t) /\ f = ErrorsOf(t)'
    OBVIOUS
  <2>6. /\ e = Cardinality(ErrorsIn(log.records, t)) /\ e \in Nat
        /\ f = Cardinality(ErrorsIn(log'.records, t)) /\ f \in Nat
    <3>1. log.records \in Seq(Entries) /\ log'.records \in Seq(Entries)
      BY <1>2 DEF Shapes
    <3> QED BY <2>5, <3>1, ErrorsFinite DEF ErrorsOf, ErrorsIn
  <2>7. f <= e + Is(req[p].token = t /\ Metered(p))
    BY <1>2, <2>6, Zenon
  <2>8. e + Cardinality(S) <= activity[t] /\ activity[t] \in Nat
    BY <2>1, <2>3, <2>5 DEF Counted, Shapes
  <2>9. f + Cardinality(T) <= activity[t]
    BY <2>2, <2>3, <2>4, <2>6, <2>7, <2>8 DEF Is
  <2> QED BY <1>1, <2>3, <2>5, <2>9
<1>9. Remembered'
  BY <1>1 DEF Remembered, Reusable
<1> QED BY <1>3, <1>5, <1>6, <1>7, <1>8, <1>9

\* The counter of a response's class, and the count of all.
LEMMA MeterCounts ==
  ASSUME Shapes, NEW st \in Statuses, counted' = Tallied(st)
  PROVE  /\ counted' \in [count : Nat, ok : Nat, client : Nat, server : Nat]
         /\ counted'.count = counted.count + 1
         /\ counted'.ok = counted.ok + Is(st = "ok")
         /\ counted'.client = counted.client + Is(st = "client")
         /\ counted'.server = counted.server + Is(st = "server")
BY DEF Shapes, Tallied, Is

\* The meter gets the response and the request is over.
LEMMA FinishStep ==
  ASSUME PipelineInv, NEW p \in Procs, Finish(p)
  PROVE  PipelineInv'
<1> USE DEF PipelineInv
<1>1. /\ pc[p] = "finish" /\ pc' = [pc EXCEPT ![p] = "idle"]
      /\ req' = [req EXCEPT ![p] = NoRequest]
      /\ UNCHANGED <<tokens, activity, log, issued, given, torn>>
  BY DEF Finish, Go, history
<1>2. NoRequest \in [path : Paths, token : Tokens \cup {None}, status : Statuses]
      /\ NoRequest.token = None
  BY DEF NoRequest, Paths, Statuses
<1>3. PICK st \in Statuses : st = req[p].status
  BY DEF Shapes
<1>4. /\ Metered(p) => active' = active - 1 /\ counted' = Tallied(st)
      /\ ~Metered(p) => active' = active /\ counted' = counted
  BY <1>3 DEF Finish, Metered
<1>5. /\ counted' \in [count : Nat, ok : Nat, client : Nat, server : Nat]
      /\ counted'.count = counted'.ok + counted'.client + counted'.server
      /\ counted'.client = counted.client + Is(st = "client" /\ Metered(p))
      /\ counted'.server = counted.server + Is(st = "server" /\ Metered(p))
  <2>1. /\ counted \in [count : Nat, ok : Nat, client : Nat, server : Nat]
        /\ counted.count = counted.ok + counted.client + counted.server
    BY DEF Shapes, CountersAgree
  <2>2. CASE ~Metered(p)
    BY <1>4, <2>1, <2>2 DEF Is
  <2>3. CASE Metered(p)
    <3>1. /\ counted' \in [count : Nat, ok : Nat, client : Nat, server : Nat]
          /\ counted'.count = counted.count + 1
          /\ counted'.ok = counted.ok + Is(st = "ok")
          /\ counted'.client = counted.client + Is(st = "client")
          /\ counted'.server = counted.server + Is(st = "server")
      BY <1>4, <2>3, MeterCounts
    <3>2. Is(st = "ok") + Is(st = "client") + Is(st = "server") = 1
      BY DEF Statuses, Is
    <3>3. /\ Is(st = "ok") \in Nat /\ Is(st = "client") \in Nat /\ Is(st = "server") \in Nat
      BY DEF Is
    <3>4. counted'.count = counted'.ok + counted'.client + counted'.server
      BY <2>1, <3>1, <3>2, <3>3
    <3>5. /\ Is(st = "client") = Is(st = "client" /\ Metered(p))
          /\ Is(st = "server") = Is(st = "server" /\ Metered(p))
      BY <2>3 DEF Is
    <3> QED BY <3>1, <3>4, <3>5, Zenon
  <2> QED BY <2>2, <2>3
<1>6. Shapes'
  BY <1>1, <1>2, <1>5 DEF Shapes
<1>7. /\ \A q \in Procs \ {p} : pc'[q] = pc[q] /\ req'[q] = req[q]
      /\ pc'[p] = "idle" /\ req'[p] = NoRequest
  BY <1>1 DEF Shapes
<1>8. Known'
  BY <1>1, <1>2, <1>7 DEF Known
<1>9. Requested'
  BY <1>7 DEF Requested, Metered
<1>10. active' = Cardinality(Started')
  <2>1. p \notin Started' /\ (p \in Started <=> Metered(p))
    BY <1>1, <1>7 DEF Started
  <2>2. PICK S, T : S = Started /\ T = Started'
    OBVIOUS
  <2>3. S \ {p} = T \ {p} /\ IsFiniteSet(S)
    BY <1>7, <2>2, OneProc, ProcsFinite
  <2>4. /\ Cardinality(T) + Is(p \in S) = Cardinality(S) + Is(p \in T)
        /\ Cardinality(S) \in Nat /\ Cardinality(T) \in Nat
    BY <2>3, CardMove
  <2>5. active = Cardinality(S)
    BY <2>2 DEF CountersAgree
  <2>6. active' = Cardinality(T)
    BY <1>4, <2>1, <2>2, <2>4, <2>5 DEF Is
  <2> QED BY <2>2, <2>6
<1>11. CountersAgree'
  <2>1. ASSUME NEW s \in Statuses
        PROVE  /\ Cardinality(Between(s)') + Is(st = s /\ Metered(p)) = Cardinality(Between(s))
               /\ Cardinality(Between(s)') \in Nat
    <3>1. p \notin Between(s)' /\ (p \in Between(s) <=> st = s /\ Metered(p))
      BY <1>1, <1>3, <1>7 DEF Between
    <3>2. PICK S, T : S = Between(s) /\ T = Between(s)'
      OBVIOUS
    <3>3. S \ {p} = T \ {p} /\ IsFiniteSet(S)
      BY <1>7, <3>2, OneProc, ProcsFinite
    <3>4. /\ Cardinality(T) + Is(p \in S) = Cardinality(S) + Is(p \in T)
          /\ Cardinality(S) \in Nat /\ Cardinality(T) \in Nat
      BY <3>3, CardMove
    <3>5. Cardinality(T) + Is(st = s /\ Metered(p)) = Cardinality(S)
      BY <3>1, <3>2, <3>4 DEF Is
    <3> QED BY <3>2, <3>4, <3>5
  <2>2. counted.server \in Nat /\ counted.client \in Nat /\ log.panelClient \in Nat
    BY DEF Shapes
  <2>3. log'.panelServer = counted'.server + Cardinality(Between("server")')
    <3>1. PICK a, b, c, d : /\ a = Cardinality(Between("server")')
                            /\ b = Cardinality(Between("server"))
                            /\ c = Is(st = "server" /\ Metered(p))
                            /\ d = counted.server
      OBVIOUS
    <3>2. a + c = b /\ a \in Nat /\ c \in Nat /\ d \in Nat
      BY <2>1, <2>2, <3>1 DEF Statuses, Is
    <3>3. d + b = (d + c) + a
      BY <3>2
    <3>4. log.panelServer = d + b
      BY <3>1 DEF CountersAgree
    <3>5. log' = log /\ counted'.server = d + c
      BY <1>1, <1>5, <3>1, Zenon
    <3> QED BY <3>1, <3>3, <3>4, <3>5, Zenon
  <2>4. log'.panelClient <= counted'.client + Cardinality(Between("client")')
    <3>1. PICK a, b, c, d : /\ a = Cardinality(Between("client")')
                            /\ b = Cardinality(Between("client"))
                            /\ c = Is(st = "client" /\ Metered(p))
                            /\ d = counted.client
      OBVIOUS
    <3>2. a + c = b /\ a \in Nat /\ c \in Nat /\ d \in Nat
      BY <2>1, <2>2, <3>1 DEF Statuses, Is
    <3>3. d + b = (d + c) + a
      BY <3>2
    <3>4. log.panelClient <= d + b
      BY <3>1 DEF CountersAgree
    <3>5. log' = log /\ counted'.client = d + c
      BY <1>1, <1>5, <3>1, Zenon
    <3> QED BY <3>1, <3>3, <3>4, <3>5, Zenon
  <2>5. /\ log.total = log.nextID /\ Len(log.records) <= MaxRecords
        /\ \A i \in 1..Len(log.records) :
             log.records[i].id = log.nextID - Len(log.records) + i
    BY DEF CountersAgree
  <2>6. log' = log
    BY <1>1
  <2> QED BY <1>5, <1>10, <2>3, <2>4, <2>5, <2>6, Zenon DEF CountersAgree
<1>12. Counted'
  <2>1. \A t \in Tokens : p \notin InFlight(t)'
    BY <1>7 DEF InFlight
  <2> QED BY <1>1, <1>7, <2>1, CountedStays
<1>13. Remembered'
  BY <1>1 DEF Remembered, Reusable
<1> QED BY <1>6, <1>8, <1>9, <1>11, <1>12, <1>13

(***************************************************************************)
(* The theorems.                                                           *)
(***************************************************************************)

\* Every step keeps the invariant.
LEMMA NextPipeline ==
  PipelineInv /\ [Next]_vars => PipelineInv'
<1> SUFFICES ASSUME PipelineInv, [Next]_vars PROVE PipelineInv'
  OBVIOUS
<1>1. CASE UNCHANGED vars
  <2>1. UNCHANGED <<tokens, activity, active, counted, log, pc, req, issued, given, torn>>
    BY <1>1 DEF vars
  <2>2. /\ Started' = Started /\ \A s : Between(s)' = Between(s)
        /\ \A t : InFlight(t)' = InFlight(t) /\ ErrorsOf(t)' = ErrorsOf(t)
    BY <2>1 DEF Started, Between, InFlight, ErrorsOf, Metered
  <2>3. Shapes' /\ Known' /\ Requested'
    BY <2>1 DEF PipelineInv, Shapes, Known, Requested, Metered
  <2>4. CountersAgree'
    BY <2>1, <2>2 DEF PipelineInv, CountersAgree
  <2>5. Counted' /\ Remembered'
    BY <2>1, <2>2 DEF PipelineInv, Counted, Remembered, Reusable
  <2> QED BY <2>3, <2>4, <2>5 DEF PipelineInv
<1>2. CASE \E p \in Procs, path \in Paths, t \in Tokens \cup {None} : Arrive(p, path, t)
  BY <1>2, ArriveStep
<1>3. CASE \E p \in Procs, s \in Sources : Issue(p, s)
  BY <1>3, IssueStep
<1>4. CASE Restart
  BY <1>4, RestartStep
<1>5. ASSUME NEW p \in Procs,
             \/ Lookup(p)     \/ ObserveCount(p) \/ Begin(p)       \/ Handle(p)
             \/ TokenError(p) \/ DeleteAll(p)    \/ DeleteCommit(p) \/ DeleteFails(p)
             \/ Record(p)     \/ Finish(p)
      PROVE  PipelineInv'
  BY <1>5, LookupStep, ObserveStep, BeginStep, HandleStep, TokenErrorStep, DeleteAllStep,
     DeleteCommitStep, DeleteFailsStep, RecordStep, FinishStep
<1> QED BY <1>1, <1>2, <1>3, <1>4, <1>5 DEF Next

\* Every database the first start may find satisfies it.
LEMMA InitPipeline ==
  Init => PipelineInv
<1> SUFFICES ASSUME Init PROVE JustStarted
  BY Restarted
<1>1. /\ tokens \in [Tokens -> TokenRecords \cup {None}]
      /\ given = {t \in Tokens : tokens[t] # None}
      /\ issued = [s \in Sources |-> None]
  BY PipelineAssumption DEF Init
<1>2. /\ NoRequest \in [path : Paths, token : Tokens \cup {None}, status : Statuses]
      /\ NoCount \in [count : Nat, ok : Nat, client : Nat, server : Nat]
      /\ NoLog \in [records : Seq(Entries), nextID : Nat, total : Nat,
                    panelClient : Nat, panelServer : Nat]
  BY DEF NoRequest, NoCount, NoLog, Paths, Statuses
<1>3. Shapes
  BY <1>1, <1>2 DEF Init, Shapes
<1>4. Remembered
  BY <1>1 DEF Remembered
<1> QED BY <1>1, <1>3, <1>4 DEF Init, JustStarted

\* The inductive invariant of every run of the process and its restarts.
THEOREM PipelineInvariant == Spec => []PipelineInv
BY InitPipeline, NextPipeline, PTL DEF Spec

\* The meter and the error log agree about every number of requests that
\* finish, fail and are logged at once, in any order.
THEOREM CountersAlwaysAgree == Spec => []CountersAgree
<1>1. PipelineInv => CountersAgree
  BY DEF PipelineInv
<1> QED BY <1>1, PipelineInvariant, PTL

\* The log never holds more errors of a registered source than requests have
\* been counted for it, whatever DeleteAll and Observe do in between.
THEOREM ErrorsAreWithinRequests == Spec => []ErrorsWithinRequests
<1>1. PipelineInv => ErrorsWithinRequests
  <2>1. SUFFICES ASSUME PipelineInv, ~torn, NEW t \in Tokens, tokens[t] # None
                 PROVE  ErrorsOf(t) <= activity[t]
    BY DEF ErrorsWithinRequests
  <2>2. ErrorsOf(t) + Cardinality(InFlight(t)) <= activity[t] /\ activity[t] \in Nat
    BY <2>1 DEF PipelineInv, Counted, Shapes
  <2>3. ErrorsOf(t) \in Nat
    <3>1. ErrorsOf(t) = Cardinality(ErrorsIn(log.records, t)) /\ log.records \in Seq(Entries)
      BY <2>1 DEF ErrorsOf, ErrorsIn, PipelineInv, Shapes
    <3> QED BY <3>1, ErrorsFinite
  <2> QED BY <2>2, <2>3, ProcsFinite
<1> QED BY <1>1, PipelineInvariant, PTL

\* No step gives a source another token than the one it was given last, unless
\* all are deleted: not a restart, not a concurrent request, and not the older
\* tokens an earlier release left behind.
THEOREM SourcesKeepTheirToken == Spec => SourceKeepsToken
<1>1. PipelineInv /\ [Next]_vars =>
        [\A s \in Sources :
           issued[s] # None /\ issued'[s] # None => issued'[s] = issued[s]]_vars
  <2>1. SUFFICES ASSUME PipelineInv, Next, NEW s \in Sources,
                        issued[s] # None, issued'[s] # None
                 PROVE  issued'[s] = issued[s]
    BY DEF vars
  <2>2. ASSUME NEW p \in Procs, NEW r \in Sources, Issue(p, r)
        PROVE  issued'[s] = issued[s]
    <3>1. PICK t \in IF Reusable(r) # {} THEN Reusable(r) ELSE Fresh, b \in Times :
            /\ tokens' = [tokens EXCEPT ![t] =
                 [src |-> r, plain |-> TRUE,
                  born |-> IF tokens[t] # None THEN tokens[t].born ELSE b]]
            /\ issued' = [issued EXCEPT ![r] = t]
      BY <2>2 DEF Issue
    <3>2. issued[r] # None => t = issued[r]
      BY <2>1, <3>1, IssueRemembers DEF PipelineInv
    <3> QED BY <2>1, <3>1, <3>2 DEF PipelineInv, Shapes
  <2>3. ASSUME NEW p \in Procs, DeleteCommit(p)
        PROVE  issued'[s] = issued[s]
    BY <2>1, <2>3 DEF DeleteCommit
  <2>4. CASE UNCHANGED issued
    BY <2>4
  <2>5. ASSUME ~(\E p \in Procs, r \in Sources : Issue(p, r)),
               ~(\E p \in Procs : DeleteCommit(p))
        PROVE  UNCHANGED issued
    BY <2>1, <2>5 DEF Next, Arrive, Lookup, ObserveCount, Begin, Handle, TokenError,
       DeleteAll, DeleteFails, Record, Finish, Restart, history
  <2> QED BY <2>2, <2>3, <2>4, <2>5
<1> QED BY <1>1, PipelineInvariant, PTL DEF Spec, SourceKeepsToken
=============================================================================
