------------------------- MODULE MetadataStoreProofs -------------------------
(***************************************************************************)
(* Machine-checked theorems about MetadataStore, for every number of       *)
(* writers, clients and hashes and every set of queries.                   *)
(***************************************************************************)
EXTENDS MetadataStore, FiniteSetTheorems, NaturalsInduction,
        SequenceTheorems, WellFoundedInduction, TLAPS

(***************************************************************************)
(* The dashboard index against bbolt.                                      *)
(***************************************************************************)

\* Steps that leave records and writers alone.
LEMMA IndexStutter ==
  ASSUME IndexInv, UNCHANGED <<db, index, writing, overlapped>>
  PROVE  IndexInv'
BY DEF IndexInv, StoresTyped, WriterShape, CommittedLast, IndexAgrees

\* A writer takes up a record to put, or gives up: it was not, and is not,
\* between its two critical sections.
LEMMA IndexWriterMoves ==
  ASSUME IndexInv, NEW w \in Writers, NEW v,
         writing[w].step # "index",
         v \in [step : {"idle", "put"}, hash : Hashes \cup {None},
                rec : Records \cup {None}],
         v.step = "put" => v.hash \in Hashes,
         writing' = [writing EXCEPT ![w] = v],
         UNCHANGED <<db, index, overlapped>>
  PROVE  IndexInv'
<1>1. StoresTyped'
  BY DEF IndexInv, StoresTyped
<1>2. \A u \in Writers : writing'[u] = IF u = w THEN v ELSE writing[u]
  BY DEF IndexInv, StoresTyped
<1>3. ASSUME NEW u \in Writers PROVE WriterShape(u)' /\ CommittedLast(u)'
  <2>1. CASE u = w
    BY <1>2, <2>1 DEF WriterShape, CommittedLast
  <2>2. CASE u # w
    BY <1>2, <2>2 DEF IndexInv, WriterShape, CommittedLast
  <2> QED BY <2>1, <2>2
<1>4. IndexAgrees'
  BY <1>2 DEF IndexInv, IndexAgrees
<1> QED BY <1>1, <1>3, <1>4 DEF IndexInv

\* The commit of a put: either it is the only one of its hash between the two
\* critical sections, and then it carries what bbolt has now, or the hash is
\* marked as crossed.
LEMMA IndexCommitted ==
  ASSUME IndexInv, NEW w \in Writers, PutPayload(w)
  PROVE  IndexInv'
<1> DEFINE h == writing[w].hash
<1>1. h \in Hashes /\ writing[w].rec \in Records \cup {None}
  BY DEF IndexInv, WriterShape, PutPayload
<1>2. StoresTyped'
  BY <1>1 DEF IndexInv, StoresTyped, PutPayload
<1>3. /\ db'[h] = writing[w].rec
      /\ \A g \in Hashes : g # h => db'[g] = db[g]
  BY <1>1 DEF IndexInv, StoresTyped, PutPayload
<1>4. /\ writing'[w] = [writing[w] EXCEPT !.step = "index"]
      /\ \A u \in Writers : u # w => writing'[u] = writing[u]
  BY DEF IndexInv, StoresTyped, PutPayload
<1>5. /\ writing'[w].step = "index"
      /\ writing'[w].hash = h
      /\ writing'[w].rec = writing[w].rec
      /\ WriterShape(w)'
  BY <1>1, <1>4 DEF IndexInv, WriterShape
<1>6. ASSUME NEW u \in Writers PROVE WriterShape(u)' /\ CommittedLast(u)'
  <2>1. CASE u = w
    BY <1>3, <1>5, <2>1 DEF CommittedLast
  <2>2. CASE u # w
    <3>1. WriterShape(u)'
      BY <1>4, <2>2 DEF IndexInv, WriterShape
    <3>2. CASE writing[u].step = "index" /\ writing[u].hash = h
      <4>1. Overlaps(w)
        BY <2>2, <3>2 DEF Overlaps
      <4>2. h \in overlapped'
        BY <4>1 DEF PutPayload
      <4> QED BY <1>4, <2>2, <3>1, <3>2, <4>2 DEF CommittedLast
    <3>3. CASE ~(writing[u].step = "index" /\ writing[u].hash = h)
      <4>1. \A g \in Hashes : g # h /\ g \notin overlapped' => g \notin overlapped
        BY DEF PutPayload
      <4> QED BY <1>3, <1>4, <2>2, <3>1, <3>3, <4>1
              DEF IndexInv, CommittedLast, WriterShape
    <3> QED BY <3>2, <3>3
  <2> QED BY <2>1, <2>2
<1>7. IndexAgrees'
  <2> SUFFICES ASSUME NEW g \in Hashes
               PROVE  \/ index'[g] = db'[g]
                      \/ g \in overlapped'
                      \/ \E u \in Writers : /\ writing'[u].step = "index"
                                            /\ writing'[u].hash = g
    BY DEF IndexAgrees
  <2>1. CASE g = h
    BY <1>5, <2>1
  <2>2. CASE g # h
    <3>1. index'[g] = index[g] /\ db'[g] = db[g]
      BY <1>3, <2>2 DEF PutPayload
    <3>2. g \in overlapped => g \in overlapped'
      BY <2>2 DEF PutPayload
    <3>3. ASSUME NEW u \in Writers, writing[u].step = "index", writing[u].hash = g
          PROVE  writing'[u].step = "index" /\ writing'[u].hash = g
      BY <1>4, <2>2, <3>3
    <3> QED BY <3>1, <3>2, <3>3 DEF IndexInv, IndexAgrees
  <2> QED BY <2>1, <2>2
<1> QED BY <1>2, <1>6, <1>7 DEF IndexInv

\* The second critical section copies what bbolt has, unless it was crossed.
LEMMA IndexCopied ==
  ASSUME IndexInv, NEW w \in Writers, PutIndex(w)
  PROVE  IndexInv'
<1> DEFINE h == writing[w].hash
<1>1. h \in Hashes /\ writing[w].rec \in Records \cup {None}
  BY DEF IndexInv, WriterShape, PutIndex
<1>2. StoresTyped'
  BY <1>1 DEF IndexInv, StoresTyped, PutIndex
<1>3. /\ index'[h] = writing[w].rec
      /\ \A g \in Hashes : g # h => index'[g] = index[g]
      /\ db' = db /\ overlapped' = overlapped
  BY <1>1 DEF IndexInv, StoresTyped, PutIndex
<1>4. \A u \in Writers : writing'[u] = IF u = w THEN NotWriting ELSE writing[u]
  BY DEF IndexInv, StoresTyped, PutIndex
<1>5. ASSUME NEW u \in Writers PROVE WriterShape(u)' /\ CommittedLast(u)'
  <2>1. CASE u = w
    BY <1>4, <2>1 DEF NotWriting, WriterShape, CommittedLast
  <2>2. CASE u # w
    BY <1>3, <1>4, <2>2 DEF IndexInv, WriterShape, CommittedLast
  <2> QED BY <2>1, <2>2
<1>6. h \in overlapped \/ writing[w].rec = db[h]
  BY DEF IndexInv, CommittedLast, PutIndex
<1>7. IndexAgrees'
  <2> SUFFICES ASSUME NEW g \in Hashes
               PROVE  \/ index'[g] = db'[g]
                      \/ g \in overlapped'
                      \/ \E u \in Writers : /\ writing'[u].step = "index"
                                            /\ writing'[u].hash = g
    BY DEF IndexAgrees
  <2>1. CASE g = h
    BY <1>3, <1>6, <2>1
  <2>2. CASE g # h
    BY <1>3, <1>4, <2>2 DEF IndexInv, IndexAgrees
  <2> QED BY <2>1, <2>2
<1> QED BY <1>2, <1>5, <1>7 DEF IndexInv

\* Every step of a put, of a query and of a restart keeps the index
\* invariant.
LEMMA IndexPreserved ==
  ASSUME IndexInv, [Next]_vars
  PROVE  IndexInv'
<1>1. ASSUME NEW w \in Writers, NEW h \in Hashes, CommitRead(w, h)
      PROVE  IndexInv'
  <2>1. PICK onDisk \in BOOLEAN :
          writing' = [writing EXCEPT ![w] =
            [step |-> "put", hash |-> h,
             rec |-> [cached |-> onDisk, dated |-> TRUE]]]
    BY <1>1 DEF CommitRead
  <2>2. [cached |-> onDisk, dated |-> TRUE] \in Records
    BY DEF Records
  <2> QED BY <1>1, <2>1, <2>2, IndexWriterMoves DEF CommitRead
<1>2. ASSUME NEW w \in Writers, NEW h \in Hashes, markCached(w, h)
      PROVE  IndexInv'
  <2> DEFINE r == [db[h] EXCEPT !.cached = TRUE]
  <2>1. r \in Records
    BY <1>2 DEF IndexInv, StoresTyped, markCached, Records
  <2>2. writing' = [writing EXCEPT ![w] = [step |-> "put", hash |-> h, rec |-> r]]
    BY <1>2 DEF markCached
  <2> HIDE DEF r
  <2> QED BY <1>2, <2>1, <2>2, IndexWriterMoves DEF markCached
<1>3. ASSUME NEW w \in Writers, PutPayload(w) PROVE IndexInv'
  BY <1>3, IndexCommitted
<1>4. ASSUME NEW w \in Writers, PutPayloadError(w) PROVE IndexInv'
  BY <1>4, IndexWriterMoves DEF PutPayloadError, NotWriting
<1>5. ASSUME NEW w \in Writers, PutIndex(w) PROVE IndexInv'
  BY <1>5, IndexCopied
<1>6. ASSUME NEW c \in Clients,
             (\E q \in Queries : Open(c, q)) \/ Begin(c) \/ Collect(c) \/ Reply(c)
      PROVE  IndexInv'
  BY <1>6, IndexStutter DEF Open, Begin, Collect, Reply
<1>7. CASE Restart
  BY <1>7 DEF Restart, IndexInv, StoresTyped, WriterShape, CommittedLast,
     IndexAgrees, NotWriting
<1>8. CASE UNCHANGED vars
  BY <1>8, IndexStutter DEF vars
<1> QED BY <1>1, <1>2, <1>3, <1>4, <1>5, <1>6, <1>7, <1>8 DEF Next

\* The index is loaded from the records.
LEMMA InitIndex ==
  Init => IndexInv
<1> SUFFICES ASSUME Init PROVE IndexInv
  OBVIOUS
<1>1. [cached |-> FALSE, dated |-> FALSE] \in Records
  BY DEF Records
<1>2. StoresTyped
  BY <1>1 DEF Init, StoresTyped
<1>3. \A w \in Writers : WriterShape(w) /\ CommittedLast(w)
  BY DEF Init, WriterShape, CommittedLast, NotWriting
<1>4. IndexAgrees
  BY DEF Init, IndexAgrees
<1> QED BY <1>2, <1>3, <1>4 DEF IndexInv

\* The dashboard index is behind the records only while a put is between its
\* two critical sections or after two puts of the same payload have crossed.
THEOREM IndexFollowsRecords == Spec => []IndexAgrees
<1>1. IndexInv /\ [Next]_vars => IndexInv'
  BY IndexPreserved
<1>2. IndexInv => IndexAgrees
  BY DEF IndexInv
<1> QED BY InitIndex, <1>1, <1>2, PTL DEF Spec
-----------------------------------------------------------------------------
(***************************************************************************)
(* The busy flag.                                                          *)
(***************************************************************************)

\* Steps that leave the queries alone.
LEMMA QueryStutter ==
  ASSUME QueryInv, UNCHANGED <<asking, querying>>
  PROVE  QueryInv'
BY DEF QueryInv, Running

\* A client moves between two steps that are both inside, or both outside,
\* of a query.
LEMMA QueryMoves ==
  ASSUME QueryInv, NEW c \in Clients, NEW v,
         DOMAIN v = {"step", "query", "offset", "matched"},
         asking' = [asking EXCEPT ![c] = v],
         v.step \in {"collect", "reply"} <=> Running(c),
         querying' = querying
  PROVE  QueryInv'
<1>1. \A d \in Clients : asking'[d] = IF d = c THEN v ELSE asking[d]
  BY DEF QueryInv
<1>2. \A d \in Clients : Running(d)' <=> Running(d)
  BY <1>1 DEF Running
<1> QED BY <1>1, <1>2 DEF QueryInv

\* A query that finds the flag down is the only one and takes it up.
LEMMA QueryBegins ==
  ASSUME QueryInv, NEW c \in Clients, Begin(c)
  PROVE  QueryInv'
<1>1. \A d \in Clients : ~Running(d)
  BY DEF QueryInv, Begin
<1>2. \A d \in Clients : d # c => asking'[d] = asking[d]
  BY DEF QueryInv, Begin, Step
<1>3. asking'[c] = [asking[c] EXCEPT !.step = "collect"]
  BY DEF QueryInv, Begin, Step
<1>4. \A d \in Clients : Running(d)' <=> d = c
  BY <1>1, <1>2, <1>3 DEF Running, QueryInv
<1>5. DOMAIN asking' = Clients /\ querying' = TRUE
  BY DEF QueryInv, Begin, Step
<1>6. \A d \in Clients :
        DOMAIN asking'[d] = {"step", "query", "offset", "matched"}
  BY <1>2, <1>3 DEF QueryInv
<1> QED BY <1>4, <1>5, <1>6 DEF QueryInv

\* The reply takes the flag down, and nobody else is in a query then.
LEMMA QueryEnds ==
  ASSUME QueryInv, NEW c \in Clients, Reply(c)
  PROVE  QueryInv'
<1>1. Running(c)
  BY DEF Reply, Running
<1>2. \A d \in Clients : Running(d) => d = c
  BY <1>1 DEF QueryInv
<1> DEFINE next == asking[c].offset
                   + Len(Page(asking[c].query, asking[c].offset, asking[c].matched))
           step == IF next >= Len(asking[c].matched) THEN "done" ELSE "more"
<1>3. /\ step \in {"done", "more"}
      /\ asking' = [asking EXCEPT ![c] =
           [step |-> step, query |-> asking[c].query, offset |-> next,
            matched |-> <<>>]]
  BY DEF Reply
<1> HIDE DEF step, next
<1>4. \A d \in Clients : d # c => asking'[d] = asking[d]
  BY <1>3 DEF QueryInv
<1>5. asking'[c] = [step |-> step, query |-> asking[c].query, offset |-> next,
                    matched |-> <<>>]
  BY <1>3 DEF QueryInv
<1>6. \A d \in Clients : ~Running(d)'
  BY <1>2, <1>3, <1>4, <1>5 DEF Running
<1>7. DOMAIN asking' = Clients /\ querying' = FALSE
  BY <1>3 DEF QueryInv, Reply
<1>8. \A d \in Clients :
        DOMAIN asking'[d] = {"step", "query", "offset", "matched"}
  BY <1>4, <1>5 DEF QueryInv
<1> QED BY <1>6, <1>7, <1>8 DEF QueryInv

\* Every step keeps the flag exact.
LEMMA QueryPreserved ==
  ASSUME QueryInv, [Next]_vars
  PROVE  QueryInv'
<1>1. ASSUME NEW c \in Clients, NEW q \in Queries, Open(c, q) PROVE QueryInv'
  BY <1>1, QueryMoves DEF Open, Running
<1>2. ASSUME NEW c \in Clients, Begin(c) PROVE QueryInv'
  BY <1>2, QueryBegins
<1>3. ASSUME NEW c \in Clients, Collect(c) PROVE QueryInv'
  <2>1. PICK s \in Sorted(asking[c].query, Matching(asking[c].query)) :
          asking' = [asking EXCEPT ![c].step = "reply", ![c].matched = s]
    BY <1>3 DEF Collect
  <2> DEFINE v == [asking[c] EXCEPT !.step = "reply", !.matched = s]
  <2>2. asking' = [asking EXCEPT ![c] = v]
    BY <2>1 DEF QueryInv
  <2>3. DOMAIN v = {"step", "query", "offset", "matched"} /\ v.step = "reply"
    BY DEF QueryInv
  <2> HIDE DEF v
  <2> QED BY <1>3, <2>2, <2>3, QueryMoves DEF Collect, Running
<1>4. ASSUME NEW c \in Clients, Reply(c) PROVE QueryInv'
  BY <1>4, QueryEnds
<1>5. ASSUME NEW w \in Writers,
             \/ \E h \in Hashes : CommitRead(w, h) \/ markCached(w, h)
             \/ PutPayload(w) \/ PutPayloadError(w) \/ PutIndex(w)
      PROVE  QueryInv'
  BY <1>5, QueryStutter
     DEF CommitRead, markCached, PutPayload, PutPayloadError, PutIndex
<1>6. CASE Restart
  BY <1>6 DEF Restart, QueryInv, Running, NotAsking
<1>7. CASE UNCHANGED vars
  BY <1>7, QueryStutter DEF vars
<1> QED BY <1>1, <1>2, <1>3, <1>4, <1>5, <1>6, <1>7 DEF Next

\* The flag counts the running queries.
LEMMA FlagCounts ==
  ASSUME QueryInv
  PROVE  BusyWhileQuerying
<1> DEFINE running == {c \in Clients : Running(c)}
<1>1. CASE querying
  <2>1. PICK c \in Clients : Running(c)
    BY <1>1 DEF QueryInv
  <2>2. running = {c}
    BY <2>1 DEF QueryInv
  <2>3. Cardinality(running) = 1
    BY <2>2, FS_Singleton
  <2> QED BY <1>1, <2>3 DEF BusyWhileQuerying, Running
<1>2. CASE ~querying
  <2>1. running = {}
    BY <1>2 DEF QueryInv
  <2>2. Cardinality(running) = 0
    BY <2>1, FS_EmptySet
  <2> QED BY <1>2, <2>2 DEF BusyWhileQuerying, Running
<1> QED BY <1>1, <1>2

\* The busy flag of QueryPayloads is up exactly while one query runs.
THEOREM BusyFlagExact == Spec => []BusyWhileQuerying
<1>1. Init => QueryInv
  <2> SUFFICES ASSUME Init PROVE QueryInv
    OBVIOUS
  <2>1. /\ DOMAIN asking = Clients
        /\ querying = FALSE
        /\ \A c \in Clients : asking[c] = NotAsking
    BY DEF Init
  <2>2. /\ DOMAIN NotAsking = {"step", "query", "offset", "matched"}
        /\ NotAsking.step = "idle"
    BY DEF NotAsking
  <2>3. \A c \in Clients : ~Running(c)
    BY <2>1, <2>2 DEF Running
  <2> QED BY <2>1, <2>2, <2>3 DEF QueryInv
<1>2. QueryInv /\ [Next]_vars => QueryInv'
  BY QueryPreserved
<1>3. QueryInv => BusyWhileQuerying
  BY FlagCounts
<1> QED BY <1>1, <1>2, <1>3, PTL DEF Spec

(***************************************************************************)
(* The pages of a query.                                                   *)
(***************************************************************************)

\* sortPayloads decides between any two records that match: sizes, creation
\* times and the lack of them may be equal, the hashes are not.
LEMMA LessTotal ==
  ASSUME NEW q \in AllQueries, index \in [Hashes -> Records \cup {None}],
         NEW g \in Matching(q), NEW h \in Matching(q), g # h
  PROVE  Less(q, g, h) \/ Less(q, h, g)
<1>1. /\ g \in Hashes /\ h \in Hashes /\ g \in Nat /\ h \in Nat
      /\ index[g].dated \in BOOLEAN /\ index[h].dated \in BOOLEAN
  BY StoreAssumption DEF Matching, matches, Records
<1>2. \A x, y \in Int : x # y => Ascending(q, x, y) \/ Ascending(q, y, x)
  BY DEF Ascending
<1>3. Size[g] \in Int /\ Size[h] \in Int /\ Created[g] \in Int /\ Created[h] \in Int
  BY <1>1, StoreAssumption
<1>4. q.by \in {"size", "created"}
  BY DEF AllQueries
<1>5. CASE q.by = "size"
  BY <1>1, <1>2, <1>3, <1>5 DEF Less
<1>6. CASE q.by = "created" /\ (index[g].dated <=> index[h].dated)
  BY <1>1, <1>2, <1>3, <1>6 DEF Less
<1>7. CASE q.by = "created" /\ ~(index[g].dated <=> index[h].dated)
  BY <1>1, <1>7 DEF Less
<1> QED BY <1>4, <1>5, <1>6, <1>7

\* A sorted list of a finite set holds every element once.
LEMMA SortedShape ==
  ASSUME NEW q, NEW S \in SUBSET Hashes, NEW s \in Sorted(q, S)
  PROVE  /\ s \in Seq(Hashes) /\ Len(s) \in Nat /\ DOMAIN s = 1..Len(s)
         /\ Len(s) = Cardinality(S)
         /\ \A i \in 1..Len(s) : s[i] \in S
         /\ \A x \in S : \E i \in 1..Len(s) : s[i] = x
         /\ \A i, j \in 1..Len(s) : i # j => s[i] # s[j]
         /\ \A i, j \in 1..Len(s) : i < j => ~Less(q, s[j], s[i])
<1> DEFINE n == Cardinality(S)
<1>1. IsFiniteSet(S) /\ n \in Nat
  BY StoreAssumption, FS_Subset, FS_CardinalityType
<1>2. /\ s \in [1..n -> S] /\ \A i, j \in 1..n : i # j => s[i] # s[j]
      /\ \A i, j \in 1..Len(s) : i < j => ~Less(q, s[j], s[i])
  BY DEF Sorted, SetToSeqs
<1> HIDE DEF n
<1>3. s \in Seq(Hashes) /\ Len(s) = n
  <2>1. s \in [1..n -> Hashes]
    BY <1>2
  <2> QED BY <1>1, <2>1
<1>4. s \in Injection(1..n, S)
  BY <1>2 DEF Injection, IsInjective
<1>5. IsFiniteSet(1..n) /\ Cardinality(1..n) = n
  <2>1. IsFiniteSet(1..n) /\ Cardinality(1..n) = IF 1 > n THEN 0 ELSE n - 1 + 1
    BY <1>1, FS_Interval
  <2> QED BY <1>1, <2>1
<1>6. s \in Surjection(1..n, S)
  BY <1>1, <1>4, <1>5, FS_Injection DEF n
<1>7. \A x \in S : \E i \in 1..n : s[i] = x
  BY <1>6 DEF Surjection
<1> QED BY <1>1, <1>2, <1>3, <1>7 DEF n

\* The well-founded order of the naturals, without an operator parameter.
LEMMA FirstOf ==
  ASSUME NEW T \in SUBSET Nat, T # {}
  PROVE  \E x \in T : \A y \in T : x <= y
<1> DEFINE R == OpToRel(<, Nat)
<1>1. IsWellFoundedOn(R, Nat)
  BY NatLessThanWellFounded
<1>2. \A x, y \in Nat : <<y, x>> \in R <=> y < x
  BY DEF OpToRel
<1> HIDE DEF R
<1>3. PICK x \in T : \A y \in T : ~(<<y, x>> \in R)
  BY <1>1, WFMin
<1>4. \A y \in T : x \in Nat /\ y \in Nat /\ ~(y < x)
  BY <1>2, <1>3
<1> QED BY <1>4

\* However a query collects its matches, sorting leaves one order: at the
\* first place where two sorted lists differ, each would have the element of
\* the other further behind.
LEMMA SortedOne ==
  ASSUME NEW q \in AllQueries, index \in [Hashes -> Records \cup {None}],
         NEW s \in Sorted(q, Matching(q)), NEW t \in Sorted(q, Matching(q))
  PROVE  s = t
<1> DEFINE M == Matching(q)
           n == Len(s)
           Differ == {i \in 1..n : s[i] # t[i]}
<1>0. M \in SUBSET Hashes
  BY DEF Matching
<1> HIDE DEF M
<1>1. /\ s \in Seq(Hashes) /\ n \in Nat /\ DOMAIN s = 1..n /\ n = Cardinality(M)
      /\ \A i \in 1..n : s[i] \in M
      /\ \A x \in M : \E i \in 1..n : s[i] = x
      /\ \A i, j \in 1..n : i # j => s[i] # s[j]
      /\ \A i, j \in 1..n : i < j => ~Less(q, s[j], s[i])
  <2>1. s \in Sorted(q, M)
    BY DEF M
  <2> QED BY <1>0, <2>1, SortedShape
<1>2. /\ t \in Seq(Hashes) /\ DOMAIN t = 1..Len(t) /\ Len(t) = Cardinality(M)
      /\ \A i \in 1..Len(t) : t[i] \in M
      /\ \A x \in M : \E i \in 1..Len(t) : t[i] = x
      /\ \A i, j \in 1..Len(t) : i # j => t[i] # t[j]
      /\ \A i, j \in 1..Len(t) : i < j => ~Less(q, t[j], t[i])
  <2>1. t \in Sorted(q, M)
    BY DEF M
  <2> QED BY <1>0, <2>1, SortedShape
<1>3. Len(t) = n
  BY <1>1, <1>2
<1>4. Differ = {}
  <2>1. SUFFICES ASSUME Differ # {} PROVE FALSE
    OBVIOUS
  <2>2. PICK i \in Differ : \A j \in Differ : i <= j
    <3>1. Differ \in SUBSET Nat
      BY <1>1
    <3> HIDE DEF Differ
    <3> QED BY <2>1, <3>1, FirstOf
  <2>3. i \in 1..n /\ s[i] # t[i] /\ \A j \in 1..n : j < i => s[j] = t[j]
    <3>1. \A j \in 1..n : j < i => j \notin Differ
      BY <1>1, <2>2
    <3> QED BY <3>1
  <2> HIDE DEF n, M, Differ
  <2>4. PICK k \in 1..n : t[k] = s[i]
    BY <1>1, <1>2, <1>3, <2>3
  <2>5. PICK m \in 1..n : s[m] = t[i]
    BY <1>1, <1>2, <1>3, <2>3
  <2>6. i < k /\ i < m
    <3>1. i \in Int /\ k \in Int /\ m \in Int
      BY <1>1, <2>3
    <3>2. k # i /\ m # i
      BY <2>3, <2>4, <2>5
    <3>3. ~(k < i)
      <4>1. SUFFICES ASSUME k < i PROVE FALSE
        OBVIOUS
      <4>2. s[k] = s[i]
        BY <2>3, <2>4, <4>1
      <4> QED BY <1>1, <2>3, <3>2, <4>2
    <3>4. ~(m < i)
      <4>1. SUFFICES ASSUME m < i PROVE FALSE
        OBVIOUS
      <4>2. t[m] = t[i]
        BY <2>3, <2>5, <4>1
      <4> QED BY <1>2, <1>3, <2>3, <3>2, <4>2
    <3> QED BY <3>1, <3>2, <3>3, <3>4
  <2>7. ~Less(q, t[i], s[i])
    BY <1>1, <2>3, <2>5, <2>6
  <2>8. ~Less(q, s[i], t[i])
    BY <1>2, <1>3, <2>3, <2>4, <2>6
  <2>9. s[i] \in Matching(q) /\ t[i] \in Matching(q)
    BY <1>1, <1>2, <1>3, <2>3 DEF M
  <2> QED BY <2>3, <2>7, <2>8, <2>9, LessTotal
<1>5. \A i \in 1..n : s[i] = t[i]
  BY <1>4
<1> QED BY <1>1, <1>2, <1>3, <1>5

\* A list and its next piece are a longer beginning of the same list.
LEMMA PiecesJoin ==
  ASSUME NEW s \in Seq(Hashes), NEW o \in Nat, NEW e \in Nat, o <= e, e <= Len(s)
  PROVE  /\ SubSeq(s, 1, o) \o SubSeq(s, o + 1, e) = SubSeq(s, 1, e)
         /\ Len(SubSeq(s, o + 1, e)) = e - o
<1>1. /\ SubSeq(s, 1, o) \in Seq(Hashes) /\ Len(SubSeq(s, 1, o)) = o
      /\ \A i \in 1..o : SubSeq(s, 1, o)[i] = s[i]
  OBVIOUS
<1>2. /\ SubSeq(s, o + 1, e) \in Seq(Hashes) /\ Len(SubSeq(s, o + 1, e)) = e - o
      /\ \A i \in 1..(e - o) : SubSeq(s, o + 1, e)[i] = s[o + i]
  OBVIOUS
<1>3. /\ SubSeq(s, 1, e) \in Seq(Hashes) /\ Len(SubSeq(s, 1, e)) = e
      /\ \A i \in 1..e : SubSeq(s, 1, e)[i] = s[i]
  OBVIOUS
<1> DEFINE a == SubSeq(s, 1, o)
           b == SubSeq(s, o + 1, e)
           c == SubSeq(s, 1, e)
<1> HIDE DEF a, b, c
<1>4. a \o b \in Seq(Hashes) /\ Len(a \o b) = e
  BY <1>1, <1>2 DEF a, b
<1>5. ASSUME NEW i \in 1..e PROVE (a \o b)[i] = c[i]
  <2>1. CASE i <= o
    <3>1. (a \o b)[i] = a[i]
      BY <1>1, <1>2, <2>1 DEF a, b
    <3> QED BY <1>1, <1>3, <2>1, <3>1 DEF a, c
  <2>2. CASE i > o
    <3>1. (a \o b)[i] = b[i - o]
      <4>1. /\ a \in Seq(Hashes) /\ b \in Seq(Hashes) /\ Len(a) = o /\ Len(b) = e - o
            /\ i \in 1..(Len(a) + Len(b)) /\ ~(i <= Len(a))
        BY <1>1, <1>2, <2>2 DEF a, b
      <4> QED BY <4>1, ConcatProperties
    <3>2. i - o \in 1..(e - o) /\ o + (i - o) = i
      BY <2>2
    <3>3. b[i - o] = s[o + (i - o)]
      BY <1>2, <3>2 DEF b
    <3> QED BY <1>3, <3>1, <3>2, <3>3 DEF c
  <2>3. i <= o \/ i > o
    OBVIOUS
  <2> QED BY <2>1, <2>2, <2>3, Zenon
<1>6. a \o b = c
  BY <1>3, <1>4, <1>5 DEF c
<1> QED BY <1>2, <1>6 DEF a, b, c

\* The answer to a query depends on the index alone.
LEMMA AnswersStay ==
  ASSUME UNCHANGED index, NEW q
  PROVE  Answers(q)' = Answers(q)
<1>1. Matching(q)' = Matching(q)
  BY DEF Matching
<1>2. \A g, h : Less(q, g, h)' = Less(q, g, h)
  BY DEF Less
<1> QED BY <1>1, <1>2 DEF Answers, Sorted

\* A step that changes neither the index nor any client.
LEMMA WalkStutter ==
  ASSUME WalkInv, UNCHANGED <<index, asking, seen>>, steady' \subseteq steady
  PROVE  WalkInv'
<1>1. WalkShapes'
  BY DEF WalkInv, WalkShapes
<1>2. ASSUME NEW c \in steady', NEW q \in Queries, asking[c].query = q PROVE Walked(c, q)'
  <2>1. Walked(c, q) /\ Answers(q)' = Answers(q)
    BY <1>2, AnswersStay DEF WalkInv
  <2> QED BY <2>1 DEF Walked
<1>3. \A c \in steady' : asking'[c].step # "idle"
  BY DEF WalkInv
<1> QED BY <1>1, <1>2, <1>3 DEF WalkInv

\* A step of client c that does not change the index.
LEMMA WalkMoves ==
  ASSUME WalkInv, NEW c \in Clients, UNCHANGED index, NEW v \in AskShapes,
         NEW l \in Seq(Hashes), v.step # "idle", v.query \in Queries,
         asking' = [asking EXCEPT ![c] = v], seen' = [seen EXCEPT ![c] = l],
         steady' \subseteq steady \cup {c},
         c \in steady' => Walked(c, v.query)'
  PROVE  WalkInv'
<1>1. /\ asking'[c] = v /\ seen'[c] = l
      /\ \A d \in Clients \ {c} : asking'[d] = asking[d] /\ seen'[d] = seen[d]
  BY DEF WalkInv, WalkShapes
<1>2. WalkShapes'
  <2>1. asking' \in [Clients -> AskShapes] /\ seen' \in [Clients -> Seq(Hashes)]
    BY DEF WalkInv, WalkShapes
  <2> QED BY <1>1, <2>1 DEF WalkInv, WalkShapes
<1>3. ASSUME NEW d \in steady', NEW q \in Queries, asking'[d].query = q PROVE Walked(d, q)'
  <2>1. CASE d = c
    BY <1>1, <1>3, <2>1
  <2>2. CASE d # c
    <3>1. asking'[d] = asking[d] /\ seen'[d] = seen[d] /\ d \in steady
      BY <1>1, <1>3, <2>2 DEF WalkInv, WalkShapes
    <3>2. Walked(d, q) /\ Answers(q)' = Answers(q)
      BY <1>3, <3>1, AnswersStay DEF WalkInv
    <3> QED BY <3>1, <3>2 DEF Walked
  <2> QED BY <2>1, <2>2
<1>4. \A d \in steady' : asking'[d].step # "idle"
  BY <1>1 DEF WalkInv, WalkShapes
<1> QED BY <1>2, <1>3, <1>4 DEF WalkInv

\* The index may be another one: no client is steady any more.
LEMMA WalkIndexed ==
  ASSUME IndexInv, WalkInv, NEW w \in Writers, PutIndex(w)
  PROVE  WalkInv'
<1>1. UNCHANGED <<asking, seen>> /\ steady' = IF index[writing[w].hash] = writing[w].rec
                                              THEN steady ELSE {}
  BY DEF PutIndex
<1>2. CASE index[writing[w].hash] = writing[w].rec
  <2>1. index' = [index EXCEPT ![writing[w].hash] = index[writing[w].hash]]
    BY <1>2 DEF PutIndex
  <2>2. index' = index
    BY <2>1 DEF IndexInv, StoresTyped
  <2> QED BY <1>1, <1>2, <2>2, WalkStutter
<1>3. CASE index[writing[w].hash] # writing[w].rec
  BY <1>1, <1>3 DEF WalkInv, WalkShapes
<1> QED BY <1>2, <1>3

\* A client begins to walk.
LEMMA WalkOpens ==
  ASSUME WalkInv, NEW c \in Clients, NEW q \in Queries, Open(c, q)
  PROVE  WalkInv'
<1>1. PICK v : v = [step |-> "more", query |-> q, offset |-> 0, matched |-> <<>>]
  OBVIOUS
<1>2. /\ UNCHANGED index /\ asking' = [asking EXCEPT ![c] = v]
      /\ seen' = [seen EXCEPT ![c] = <<>>] /\ steady' = steady \cup {c}
  BY <1>1 DEF Open
<1>3. v \in AskShapes /\ v.step = "more" /\ v.query = q /\ v.offset = 0
      /\ <<>> \in Seq(Hashes)
  BY <1>1 DEF AskShapes
<1>4. asking'[c] = v /\ seen'[c] = <<>>
  BY <1>2 DEF WalkInv, WalkShapes
<1>5. Walked(c, v.query)'
  BY <1>3, <1>4 DEF Walked
<1> QED BY <1>2, <1>3, <1>5, WalkMoves

\* A query that begins has not sorted anything yet.
LEMMA WalkBegins ==
  ASSUME WalkInv, NEW c \in Clients, Begin(c)
  PROVE  WalkInv'
<1>1. /\ asking \in [Clients -> AskShapes] /\ seen \in [Clients -> Seq(Hashes)]
      /\ asking[c] \in AskShapes /\ asking[c].query \in Queries
  BY DEF WalkInv, WalkShapes, Begin
<1>2. PICK v : v = [asking[c] EXCEPT !.step = "collect"]
  OBVIOUS
<1>3. /\ v \in AskShapes /\ v.step = "collect" /\ v.query = asking[c].query
      /\ v.offset = asking[c].offset
  BY <1>1, <1>2 DEF AskShapes
<1>4. /\ UNCHANGED <<index, steady, seen>> /\ asking' = [asking EXCEPT ![c] = v]
  BY <1>2 DEF Begin, Step
<1>5. seen' = [seen EXCEPT ![c] = seen[c]] /\ asking'[c] = v /\ seen[c] \in Seq(Hashes)
  BY <1>1, <1>4
<1>6. c \in steady' => Walked(c, v.query)'
  <2>1. SUFFICES ASSUME c \in steady PROVE Walked(c, v.query)'
    BY <1>4
  <2>2. Walked(c, v.query) /\ Answers(v.query)' = Answers(v.query)
    BY <1>1, <1>3, <1>4, <2>1, AnswersStay DEF WalkInv
  <2> QED BY <1>3, <1>4, <1>5, <2>2 DEF Walked
<1> QED BY <1>1, <1>3, <1>4, <1>5, <1>6, WalkMoves

\* What a client gets to sort is an answer of its query, in the order of the
\* query.
LEMMA WalkCollects ==
  ASSUME WalkInv, NEW c \in Clients, Collect(c)
  PROVE  WalkInv'
<1>1. /\ asking \in [Clients -> AskShapes] /\ seen \in [Clients -> Seq(Hashes)]
      /\ asking[c] \in AskShapes /\ asking[c].query \in Queries
  BY DEF WalkInv, WalkShapes, Collect
<1>2. PICK s \in Answers(asking[c].query) :
        asking' = [asking EXCEPT ![c].step = "reply", ![c].matched = s]
  BY DEF Collect, Answers
<1>3. s \in Seq(Hashes)
  BY SortedShape DEF Matching, Answers
<1>4. PICK v : v = [step |-> "reply", query |-> asking[c].query,
                    offset |-> asking[c].offset, matched |-> s]
  OBVIOUS
<1>5. /\ v \in AskShapes /\ v.step = "reply" /\ v.query = asking[c].query
      /\ v.offset = asking[c].offset /\ v.matched = s
  BY <1>1, <1>3, <1>4 DEF AskShapes
<1>6. /\ UNCHANGED <<index, steady, seen>> /\ asking' = [asking EXCEPT ![c] = v]
  BY <1>1, <1>2, <1>4 DEF Collect, AskShapes
<1>7. seen' = [seen EXCEPT ![c] = seen[c]] /\ asking'[c] = v /\ seen[c] \in Seq(Hashes)
  BY <1>1, <1>6
<1>8. c \in steady' => Walked(c, v.query)'
  <2>1. SUFFICES ASSUME c \in steady PROVE Walked(c, v.query)'
    BY <1>6
  <2>2. Walked(c, v.query) /\ Answers(v.query)' = Answers(v.query)
    BY <1>1, <1>5, <1>6, <2>1, AnswersStay DEF WalkInv
  <2> QED BY <1>2, <1>5, <1>6, <1>7, <2>2 DEF Walked
<1> QED BY <1>1, <1>5, <1>6, <1>7, <1>8, WalkMoves

\* The next page of an answer is the piece of it that follows.
LEMMA PageShape ==
  ASSUME NEW q \in AllQueries, NEW o \in Nat, NEW m \in Seq(Hashes)
  PROVE  /\ Page(q, o, m) \in Seq(Hashes) /\ Len(Page(q, o, m)) \in Nat
         /\ o <= Len(m) => \E e \in Nat : /\ o <= e /\ e <= Len(m)
                                          /\ Page(q, o, m) = SubSeq(m, o + 1, e)
<1> DEFINE e == IF q.limit > 0 /\ o + q.limit < Len(m) THEN o + q.limit ELSE Len(m)
<1>1. q.limit \in Nat /\ Len(m) \in Nat /\ e \in Nat /\ e <= Len(m)
  BY DEF AllQueries
<1>2. Page(q, o, m) = SubSeq(m, o + 1, e)
  BY DEF Page
<1>3. o <= Len(m) => o <= e
  BY <1>1
<1> HIDE DEF e
<1>4. SubSeq(m, o + 1, e) \in Seq(Hashes)
  BY <1>1
<1>5. Len(SubSeq(m, o + 1, e)) \in Nat
  BY <1>4
<1> QED BY <1>1, <1>2, <1>3, <1>4, <1>5

\* The page a reply carries continues what the client has seen, or ends the
\* walk.
LEMMA WalkReplies ==
  ASSUME IndexInv, WalkInv, NEW c \in Clients, Reply(c)
  PROVE  WalkInv'
<1>1. /\ asking \in [Clients -> AskShapes] /\ seen \in [Clients -> Seq(Hashes)]
      /\ asking[c] \in AskShapes /\ asking[c].query \in Queries
      /\ asking[c].step = "reply" /\ seen[c] \in Seq(Hashes)
  BY DEF WalkInv, WalkShapes, Reply
<1>2. PICK q \in Queries, o \in Nat, m \in Seq(Hashes) :
        q = asking[c].query /\ o = asking[c].offset /\ m = asking[c].matched
  BY <1>1 DEF AskShapes
<1>3. q \in AllQueries
  BY StoreAssumption
<1>4. PICK items : items = Page(q, o, m)
  OBVIOUS
<1>5. items \in Seq(Hashes) /\ Len(items) \in Nat
  BY <1>3, <1>4, PageShape
<1>6. PICK v : v = [step |-> IF o + Len(items) >= Len(m) THEN "done" ELSE "more",
                    query |-> q, offset |-> o + Len(items), matched |-> <<>>]
  OBVIOUS
<1>7. /\ v \in AskShapes /\ v.query = q /\ v.offset = o + Len(items)
      /\ v.step = IF o + Len(items) >= Len(m) THEN "done" ELSE "more"
  <2>1. (IF o + Len(items) >= Len(m) THEN "done" ELSE "more")
          \in {"idle", "collect", "reply", "more", "done"}
    OBVIOUS
  <2>2. o + Len(items) \in Nat
    BY <1>5
  <2> QED BY <1>6, <2>1, <2>2 DEF AskShapes
<1>8. /\ UNCHANGED <<index, steady>> /\ asking' = [asking EXCEPT ![c] = v]
      /\ seen' = [seen EXCEPT ![c] = seen[c] \o items]
  BY <1>2, <1>4, <1>6 DEF Reply
<1>9. asking'[c] = v /\ seen'[c] = seen[c] \o items /\ seen[c] \o items \in Seq(Hashes)
  BY <1>1, <1>5, <1>8
<1>10. c \in steady' => Walked(c, v.query)'
  <2>1. SUFFICES ASSUME c \in steady PROVE Walked(c, q)'
    BY <1>7, <1>8
  <2>2. Walked(c, q) /\ Answers(q)' = Answers(q)
    BY <1>2, <1>8, <2>1, AnswersStay DEF WalkInv
  <2>3. m \in Answers(q)
    BY <1>1, <1>2, <2>2 DEF Walked
  <2>4. o <= Len(m) /\ seen[c] = SubSeq(m, 1, o)
    <3>1. CASE o = 0 /\ seen[c] = <<>>
      BY <3>1
    <3>2. CASE \E s \in Answers(q) : o <= Len(s) /\ seen[c] = SubSeq(s, 1, o)
      <4>1. PICK s \in Answers(q) : o <= Len(s) /\ seen[c] = SubSeq(s, 1, o)
        BY <3>2
      <4>2. s = m
        BY <1>3, <2>3, SortedOne DEF Answers, IndexInv, StoresTyped
      <4> QED BY <4>1, <4>2
    <3> QED BY <1>2, <2>2, <3>1, <3>2 DEF Walked
  <2>5. PICK e \in Nat : o <= e /\ e <= Len(m) /\ items = SubSeq(m, o + 1, e)
    BY <1>3, <1>4, <2>4, PageShape
  <2>6. seen[c] \o items = SubSeq(m, 1, e) /\ Len(items) = e - o
    BY <2>4, <2>5, PiecesJoin
  <2>7. v.offset = e /\ (v.step = "done" => e = Len(m)) /\ v.step # "reply"
    BY <1>7, <2>5, <2>6
  <2>8. SubSeq(m, 1, Len(m)) = m
    BY SubSeqFull
  <2>9. v.step = "done" => seen'[c] = m
    BY <1>9, <2>6, <2>7, <2>8
  <2> QED BY <1>9, <2>2, <2>3, <2>5, <2>6, <2>7, <2>9 DEF Walked
<1>11. v.step # "idle" /\ v.query \in Queries /\ steady' \subseteq steady \cup {c}
  BY <1>7, <1>8
<1> QED BY <1>7, <1>8, <1>9, <1>10, <1>11, WalkMoves

\* After a restart nobody walks.
LEMMA WalkRestarts ==
  ASSUME Restart
  PROVE  WalkInv'
<1>1. /\ asking' = [d \in Clients |-> NotAsking] /\ steady' = {}
      /\ seen' = [d \in Clients |-> <<>>]
  BY DEF Restart
<1>2. NotAsking \in AskShapes /\ NotAsking.step = "idle" /\ <<>> \in Seq(Hashes)
  BY DEF NotAsking, AskShapes
<1> QED BY <1>1, <1>2 DEF WalkInv, WalkShapes

\* Every step keeps it; the index is what IndexInv says.
LEMMA WalkPreserved ==
  IndexInv /\ WalkInv /\ [Next]_vars => WalkInv'
<1> SUFFICES ASSUME IndexInv, WalkInv, [Next]_vars PROVE WalkInv'
  OBVIOUS
<1>1. CASE UNCHANGED vars
  BY <1>1, WalkStutter DEF vars
<1>2. ASSUME NEW w \in Writers, NEW h \in Hashes, CommitRead(w, h) \/ markCached(w, h)
      PROVE  WalkInv'
  BY <1>2, WalkStutter DEF CommitRead, markCached
<1>3. ASSUME NEW w \in Writers, PutPayload(w) \/ PutPayloadError(w)
      PROVE  WalkInv'
  BY <1>3, WalkStutter DEF PutPayload, PutPayloadError
<1>4. ASSUME NEW w \in Writers, PutIndex(w) PROVE WalkInv'
  BY <1>4, WalkIndexed
<1>5. ASSUME NEW c \in Clients, NEW q \in Queries, Open(c, q) PROVE WalkInv'
  BY <1>5, WalkOpens
<1>6. ASSUME NEW c \in Clients, Begin(c) \/ Collect(c) \/ Reply(c) PROVE WalkInv'
  BY <1>6, WalkBegins, WalkCollects, WalkReplies
<1>7. CASE Restart
  BY <1>7, WalkRestarts
<1> QED BY <1>1, <1>2, <1>3, <1>4, <1>5, <1>6, <1>7 DEF Next

\* What a client has seen of an answer holds no item twice, and all of it once
\* the client is done.
LEMMA WalkPartitions ==
  IndexInv /\ WalkInv => PagesPartition
<1> SUFFICES ASSUME IndexInv, WalkInv, NEW c \in steady
             PROVE  /\ IsInjective(seen[c])
                    /\ asking[c].step = "done" =>
                         ToSet(seen[c]) = Matching(asking[c].query)
  BY DEF PagesPartition
<1>1. PICK q \in Queries : q = asking[c].query
  BY DEF WalkInv, WalkShapes
<1>2. Walked(c, q)
  BY <1>1 DEF WalkInv
<1>3. ASSUME NEW s \in Answers(q)
      PROVE  /\ s \in Seq(Hashes) /\ Len(s) \in Nat /\ DOMAIN s = 1..Len(s)
             /\ \A i \in 1..Len(s) : s[i] \in Matching(q)
             /\ \A x \in Matching(q) : \E i \in 1..Len(s) : s[i] = x
             /\ \A i, j \in 1..Len(s) : i # j => s[i] # s[j]
  <2>1. Matching(q) \in SUBSET Hashes /\ s \in Sorted(q, Matching(q))
    BY DEF Matching, Answers
  <2> QED BY <2>1, SortedShape
<1>4. IsInjective(seen[c])
  <2>1. CASE seen[c] = <<>>
    BY <2>1 DEF IsInjective
  <2>2. ASSUME NEW s \in Answers(q), asking[c].offset <= Len(s),
               seen[c] = SubSeq(s, 1, asking[c].offset)
        PROVE  IsInjective(seen[c])
    <3>1. PICK o \in Nat : o = asking[c].offset
      BY DEF WalkInv, WalkShapes, AskShapes
    <3>2. /\ s \in Seq(Hashes) /\ Len(s) \in Nat /\ o <= Len(s)
          /\ \A i, j \in 1..Len(s) : i # j => s[i] # s[j]
      BY <1>3, <2>2, <3>1
    <3>3. PICK l : l = SubSeq(s, 1, o)
      OBVIOUS
    <3>4. DOMAIN l = 1..o /\ \A i \in 1..o : l[i] = s[i]
      BY <3>2, <3>3
    <3>5. \A i, j \in DOMAIN l : l[i] = l[j] => i = j
      BY <3>2, <3>4
    <3> QED BY <2>2, <3>1, <3>3, <3>5 DEF IsInjective
  <2> QED BY <1>2, <2>1, <2>2 DEF Walked
<1>5. ASSUME asking[c].step = "done" PROVE ToSet(seen[c]) = Matching(q)
  <2>1. PICK s \in Answers(q) : s = seen[c]
    BY <1>2, <1>5 DEF Walked
  <2> QED BY <1>3, <2>1 DEF ToSet
<1> QED BY <1>1, <1>4, <1>5

\* Walking through the pages of any query over an index that does not change
\* yields every match exactly once, whatever the order in which each page's
\* query has met the records.
THEOREM PagesArePartition == Spec => []PagesPartition
<1>1. Init => IndexInv
  BY InitIndex
<1>2. Init => WalkInv
  <2>1. NotAsking \in AskShapes /\ NotAsking.step = "idle" /\ <<>> \in Seq(Hashes)
    BY DEF NotAsking, AskShapes
  <2> QED BY <2>1 DEF Init, WalkInv, WalkShapes
<1>3. IndexInv /\ [Next]_vars => IndexInv'
  BY IndexPreserved
<1> QED BY <1>1, <1>2, <1>3, WalkPreserved, WalkPartitions, PTL DEF Spec
=============================================================================
