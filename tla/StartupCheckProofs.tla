------------------------- MODULE StartupCheckProofs -------------------------
(***************************************************************************)
(* What the startup validation promises, for every number of payloads and  *)
(* workers: types, that nothing is left running, that the reported error   *)
(* is the cause, that the count is exact, and that the pool of workers     *)
(* implements StartupPromise.                                              *)
(***************************************************************************)
EXTENDS StartupCheck, FiniteSetTheorems, TLAPS

(***************************************************************************)
(* Records.                                                                *)
(***************************************************************************)

Stamp(r, e) == [r EXCEPT !.etag = e]

\* The record of a payload whose ETag is filled in: everything else is kept.
LEMMA Stamped ==
  ASSUME TypeOK, NEW h \in Hashes, meta[h] # None, objects[h] # None
  PROVE  LET m == Stamp(meta[h], objects[h].etag)
         IN  /\ m # None /\ m.etag = objects[h].etag
             /\ m.size = meta[h].size /\ m.checksum = meta[h].checksum
             /\ \E r \in RecordValues : r # None /\ m = Stamp(r, objects[h].etag)
<1> DEFINE m == [meta[h] EXCEPT !.etag = objects[h].etag]
<1>1. PICK r \in RecordValues :
        \/ meta[h] = r
        \/ r # None /\ meta[h] = [r EXCEPT !.etag = objects[h].etag]
  BY DEF TypeOK
<1>2. r # None /\ objects[h] \in ObjectValues \ {None}
  BY <1>1 DEF TypeOK
<1>3. PICK c, s, e : r = [checksum |-> c, size |-> s, etag |-> e]
  BY <1>2, ValuesAssumption
<1>4. m = [checksum |-> c, size |-> s, etag |-> objects[h].etag]
  BY <1>1, <1>3
<1>5. meta[h].size = s /\ meta[h].checksum = c
  BY <1>1, <1>3
<1>6. m = [r EXCEPT !.etag = objects[h].etag]
  BY <1>3, <1>4
<1>7. m # None
  BY <1>2, <1>6, ValuesAssumption
<1>8. m.etag = objects[h].etag /\ m.size = s /\ m.checksum = c
  BY <1>4
<1> QED BY <1>2, <1>5, <1>6, <1>7, <1>8, Zenon DEF Stamp

\* A HeadObject accepts no payload that the promise does not.
LEMMA OpenValid ==
  ASSUME NEW h \in Hashes, Open(h)
  PROVE  Promise!Valid(h) <=> Promise!HeadValid(h)
BY DEF Open, Promise!Valid

\* While metadata, bucket and lister stay, nobody's judgement changes.
LEMMA SameWorld ==
  ASSUME UNCHANGED <<meta, objects, lister>>
  PROVE  /\ \A h \in Hashes : /\ Good(h)' <=> Good(h)
                              /\ Open(h)' <=> Open(h)
                              /\ Promise!Valid(h)' <=> Promise!Valid(h)
                              /\ Promise!HeadValid(h)' <=> Promise!HeadValid(h)
         /\ Payloads' = Payloads
BY DEF Good, Open, Promise!Valid, Promise!HeadValid, Promise!ListValid, Payloads

\* The sets that are counted are finite.
LEMMA Finite ==
  ASSUME TypeOK
  PROVE  /\ IsFiniteSet(todo) /\ Cardinality(todo) \in Nat
         /\ IsFiniteSet(Busy) /\ Cardinality(Busy) \in Nat
         /\ IsFiniteSet(Payloads) /\ Cardinality(Payloads) \in Nat
         /\ Cardinality(Payloads) <= Cardinality(Hashes)
         /\ Cardinality(Hashes) \in Nat
<1>1. todo \subseteq Hashes /\ Payloads \subseteq Hashes /\ Busy \subseteq Workers
  BY DEF TypeOK, Payloads, Busy
<1>2. /\ IsFiniteSet(todo) /\ IsFiniteSet(Payloads) /\ IsFiniteSet(Busy)
      /\ Cardinality(Payloads) <= Cardinality(Hashes)
  BY <1>1, WorkersAssumption, FS_Subset
<1> QED BY <1>2, WorkersAssumption, FS_CardinalityType

(***************************************************************************)
(* Types.  The bound on checked is the subject of Counting.                *)
(***************************************************************************)
Typed ==
  /\ objects \in [Hashes -> ObjectValues]
  /\ DOMAIN meta = Hashes
  /\ \A h \in Hashes :
       \E r \in RecordValues : \/ meta[h] = r
                               \/ r # None /\ objects[h] # None
                                  /\ meta[h] = [r EXCEPT !.etag = objects[h].etag]
  /\ {lister, fault, ctxDone, cancelled, closed} \subseteq BOOLEAN
  /\ verdict \in {None, "accept", "refuse"}
  /\ main \in {"query", "list", "send", "close", "wait", "progress", "result",
               "final", "done"}
  /\ todo \subseteq Hashes
  /\ firstErr \in Errors \cup {None}
  /\ worker \in [Workers -> {"off", "select", "head", "put", "fail", "gone"}]
  /\ job \in [Workers -> Hashes \cup {None}]
  /\ err \in [Workers -> Errors \cup {None}]
  /\ progress \in {"off", "on", "gone"}
  /\ checked \in Nat

\* The main goroutine keeps the types.
LEMMA MainTyped ==
  ASSUME TypeOK, Main
  PROVE  Typed'
<1>1. CASE Query
  BY <1>1, Finite DEF Query, TypeOK, Typed, ReturnWith, NoPool, StartPool, Go, world, Payloads
<1>2. CASE List
  <2>1. Cardinality(Payloads \ WithoutETag) \in Nat
    BY Finite, FS_Difference, FS_CardinalityType
  <2>2. WithoutETag \subseteq Hashes
    BY DEF WithoutETag, Payloads
  <2>3. CASE Go("final") /\ NoPool /\ checked' \in Nat
    BY <1>2, <2>3 DEF List, TypeOK, Typed, NoPool, Go, world
  <2>4. CASE StartPool(WithoutETag) /\ checked' \in Nat
    BY <1>2, <2>2, <2>4 DEF List, TypeOK, Typed, StartPool, Go, world
  <2>5. CASE ReturnWith("refuse") /\ NoPool /\ UNCHANGED checked
    BY <1>2, <2>5, Finite DEF List, TypeOK, Typed, ReturnWith, NoPool, world
  <2> QED BY <1>2, <2>1, <2>3, <2>4, <2>5 DEF List
<1>3. CASE ListError
  <2>1. fault' \in BOOLEAN
    <3>1. (fault \/ ~ctxDone) \in BOOLEAN
      OBVIOUS
    <3>2. fault' = (fault \/ ~ctxDone) \/ fault' = TRUE
      BY <1>3 DEF ListError
    <3> QED BY <3>1, <3>2, Zenon
  <2>2. {lister, ctxDone, cancelled, closed} \subseteq BOOLEAN
    BY DEF TypeOK
  <2>3. {lister', fault', ctxDone', cancelled', closed'} \subseteq BOOLEAN
    BY <1>3, <2>1, <2>2, Zenon DEF ListError, world
  <2> QED BY <1>3, <2>3, Finite DEF ListError, TypeOK, Typed, ReturnWith, world, pool
<1>4. ASSUME NEW w \in Workers, Send(w) PROVE Typed'
  BY <1>4, Finite DEF Send, TypeOK, Typed, world
<1>5. CASE SendEnd
  BY <1>5, Finite DEF SendEnd, TypeOK, Typed, Go, world, pool
<1>6. CASE Close
  BY <1>6, Finite DEF Close, TypeOK, Typed, Go, world, pool
<1>7. CASE Wait
  BY <1>7, Finite DEF Wait, TypeOK, Typed, Go, world, pool
<1>8. CASE WaitProgress
  BY <1>8, Finite DEF WaitProgress, TypeOK, Typed, Go, world, pool
<1>9. CASE Result
  BY <1>9, Finite DEF Result, TypeOK, Typed, Go, ReturnWith, world, pool
<1>10. CASE Final
  BY <1>10, Finite DEF Final, TypeOK, Typed, ReturnWith, world, pool
<1> QED BY <1>1, <1>2, <1>3, <1>4, <1>5, <1>6, <1>7, <1>8, <1>9, <1>10 DEF Main

\* A worker keeps the types.
LEMMA WorkerTyped ==
  ASSUME StartupInv, NEW w \in Workers, Worker(w)
  PROVE  Typed'
<1> USE DEF StartupInv
<1>1. TypeOK /\ checked \in Nat /\ checked + 1 \in Nat
  BY Finite DEF TypeOK
<1>2. CASE Leave(w)
  BY <1>1, <1>2 DEF Leave, TypeOK, Typed, Move, world
<1>3. CASE Head(w)
  <2>1. CASE Failed(w, "invalid")
    BY <1>1, <1>3, <2>1 DEF Head, TypeOK, Typed, Failed, Move, world, Errors
  <2>2. CASE Passed(w)
    BY <1>1, <1>3, <2>2 DEF Head, TypeOK, Typed, Passed, Move, world
  <2>3. CASE Move(w, "put") /\ UNCHANGED <<job, err, checked>>
    BY <1>1, <1>3, <2>3 DEF Head, TypeOK, Typed, Move, world
  <2> QED BY <1>3, <2>1, <2>2, <2>3 DEF Head
<1>4. CASE HeadError(w)
  <2>1. PICK e \in Errors : Failed(w, e)
    BY <1>4 DEF HeadError, Errors
  <2>2. fault' = TRUE \/ fault' = fault
    BY <1>4 DEF HeadError
  <2> QED BY <1>1, <1>4, <2>1, <2>2 DEF HeadError, TypeOK, Typed, Failed, Move, world
<1>5. CASE PutETag(w)
  <2>1. /\ job[w] \in Hashes /\ meta[job[w]] # None /\ objects[job[w]] # None
    BY <1>5 DEF PutETag, WorkerShape, Busy, Open, Promise!HeadValid, Promise!ListValid
  <2> DEFINE m == Stamp(meta[job[w]], objects[job[w]].etag)
  <2>2. \E r \in RecordValues : r # None /\ m = [r EXCEPT !.etag = objects[job[w]].etag]
    BY <1>1, <2>1, Stamped, Zenon DEF Stamp
  <2>3. meta' = [meta EXCEPT ![job[w]] = m]
    BY <1>5 DEF PutETag, Stamp
  <2> HIDE DEF m
  <2>4. DOMAIN meta' = Hashes /\ objects' = objects
    BY <1>1, <1>5, <2>3 DEF PutETag, TypeOK, world
  <2>5. ASSUME NEW h \in Hashes
        PROVE  \E r \in RecordValues :
                 \/ meta'[h] = r
                 \/ r # None /\ objects'[h] # None
                    /\ meta'[h] = [r EXCEPT !.etag = objects'[h].etag]
    <3>1. CASE h = job[w]
      BY <1>1, <2>1, <2>2, <2>3, <2>4, <3>1 DEF TypeOK
    <3>2. CASE h # job[w]
      BY <1>1, <2>3, <2>4, <3>2 DEF TypeOK
    <3> QED BY <3>1, <3>2
  <2> QED BY <1>1, <1>5, <2>4, <2>5 DEF PutETag, TypeOK, Typed, Passed, Move, world
<1>6. CASE PutError(w)
  BY <1>1, <1>6 DEF PutError, TypeOK, Typed, Failed, Move, world, Errors
<1>7. CASE RecordError(w)
  BY <1>1, <1>7 DEF RecordError, TypeOK, Typed, WorkerReturns, Move, world
<1> QED BY <1>2, <1>3, <1>4, <1>5, <1>6, <1>7 DEF Worker

\* Every step keeps the types.
LEMMA NextTyped ==
  ASSUME StartupInv, [Next]_vars
  PROVE  Typed'
<1>1. TypeOK
  BY DEF StartupInv
<1>2. CASE ProgressEnd
  BY <1>1, <1>2, Finite DEF ProgressEnd, TypeOK, Typed, world, pool
<1>3. CASE Interrupt
  BY <1>1, <1>3, Finite DEF Interrupt, TypeOK, Typed, world, pool
<1>4. CASE UNCHANGED vars
  BY <1>1, <1>4, Finite DEF vars, TypeOK, Typed
<1> QED BY <1>1, <1>2, <1>3, <1>4, MainTyped, WorkerTyped DEF Next

(***************************************************************************)
(* The invariant.                                                          *)
(***************************************************************************)
Rest ==
  /\ MainShape /\ Covered /\ Counting
  /\ \A w \in Workers : WorkerShape(w)
  /\ \A h \in todo : Open(h)
  /\ Justified(firstErr)

\* Causes do not go away while the records stay.
LEMMA SameCauses ==
  ASSUME UNCHANGED <<meta, objects, lister>>,
         fault => fault', ctxDone => ctxDone', NEW e, Justified(e)
  PROVE  Justified(e)'
BY SameWorld DEF Justified

\* A step that leaves the pool alone.
LEMMA SamePool ==
  ASSUME StartupInv, UNCHANGED <<meta, objects, lister, todo, job, err, worker, firstErr>>,
         fault => fault', ctxDone => ctxDone'
  PROVE  /\ \A w \in Workers : WorkerShape(w)'
         /\ \A h \in todo' : Open(h)'
         /\ Justified(firstErr)'
         /\ Busy' = Busy /\ Failing' = Failing /\ Payloads' = Payloads
         /\ \A h \in Hashes : Good(h)' <=> Good(h)
         /\ WorkersGone' <=> WorkersGone
<1> USE DEF StartupInv
<1>1. Busy' = Busy /\ Failing' = Failing /\ (WorkersGone' <=> WorkersGone)
  BY DEF Busy, Failing, WorkersGone
<1>2. \A h \in todo' : Open(h)'
  BY SameWorld DEF TypeOK
<1>3. Justified(firstErr)'
  <2>1. PICK e : e = firstErr
    OBVIOUS
  <2> QED BY <2>1, SameCauses DEF Justified
<1>4. ASSUME NEW w \in Workers PROVE WorkerShape(w)'
  <2>1. WorkerShape(w)
    OBVIOUS
  <2>2. Justified(err[w]) => Justified(err[w])'
    <3>1. PICK e : e = err[w]
      OBVIOUS
    <3>2. Justified(e) => Justified(e)'
      BY SameCauses
    <3> QED BY <3>1, <3>2 DEF Justified
  <2>3. worker[w] \in {"head", "put"} => job[w] \in Hashes
    BY <2>1 DEF WorkerShape, Busy
  <2> QED BY <1>1, <2>1, <2>2, <2>3, SameWorld DEF WorkerShape, Busy
<1> QED BY <1>1, <1>2, <1>3, <1>4, SameWorld

\* The main goroutine before the pool.
LEMMA QueryRest ==
  ASSUME StartupInv, Typed', Query
  PROVE  Rest'
<1> USE DEF StartupInv
<1>1. /\ main = "query" /\ UNCHANGED <<meta, objects, lister, job, err, firstErr, fault,
                                       ctxDone, cancelled, checked>>
  BY DEF Query, world
<1>2. /\ \A w \in Workers : worker[w] = "off"
      /\ progress = "off" /\ todo = {} /\ checked = 0 /\ firstErr = None
      /\ ~cancelled /\ verdict = None
  BY <1>1 DEF MainShape
<1>3. Payloads = {} => Cardinality(Payloads) = 0
  BY FS_EmptySet
<1>4. CASE Payloads = {} /\ ReturnWith("accept") /\ NoPool
  <2>1. UNCHANGED <<todo, worker, progress>> /\ main' = "done" /\ verdict' = "accept"
    BY <1>4 DEF NoPool, ReturnWith
  <2>2. MainShape'
    BY <1>1, <1>2, <2>1, ValuesAssumption DEF MainShape, Typed
  <2>3. Covered'
    BY <2>1 DEF Covered, InPool
  <2>4. Counting'
    BY <1>1, <1>2, <1>3, <1>4, <2>1, SamePool DEF Counting, InPool
  <2> QED BY <1>1, <2>1, <2>2, <2>3, <2>4, SamePool DEF Rest
<1>5. CASE lister /\ Go("list") /\ NoPool
  <2>1. UNCHANGED <<todo, worker, progress>> /\ main' = "list" /\ verdict' = verdict
    BY <1>5 DEF NoPool, Go
  <2>2. MainShape'
    BY <1>1, <1>2, <1>5, <2>1 DEF MainShape
  <2>3. Covered' /\ Counting'
    BY <2>1 DEF Covered, Counting, InPool
  <2> QED BY <1>1, <2>1, <2>2, <2>3, SamePool DEF Rest
<1>6. CASE ~lister /\ StartPool(Payloads)
  <2>1. /\ todo' = Payloads /\ main' = "send" /\ verdict' = verdict /\ progress' = "on"
        /\ \A w \in Workers : worker'[w] = "select"
    BY <1>6 DEF StartPool, Go
  <2>2. MainShape'
    BY <1>1, <1>2, <2>1 DEF MainShape
  <2>3. Busy' = {} /\ Payloads' = Payloads
    BY <1>1, <2>1, SameWorld DEF Busy
  <2>4. Covered'
    <3>1. \A h \in Hashes : Good(h)' \/ h \in todo'
      BY <1>1, <2>1 DEF Good, Payloads
    <3> QED BY <2>1, <3>1 DEF Covered, InPool
  <2>5. Counting'
    BY <1>1, <1>2, <2>1, <2>3, Finite, FS_EmptySet DEF Counting, InPool
  <2>6. \A w \in Workers : WorkerShape(w)'
    BY <2>1 DEF WorkerShape, Busy
  <2>7. \A h \in todo' : Open(h)'
    BY <1>1, <1>6, <2>1 DEF Open, Payloads
  <2>8. Justified(firstErr)'
    BY <1>1, <1>2, ValuesAssumption DEF Justified
  <2> QED BY <2>2, <2>4, <2>5, <2>6, <2>7, <2>8 DEF Rest
<1> QED BY <1>4, <1>5, <1>6 DEF Query

\* The listing of the bucket keeps what is not about types.
LEMMA ListRest ==
  ASSUME StartupInv, Typed', List \/ ListError
  PROVE  Rest'
<1> USE DEF StartupInv
<1>1. /\ main = "list" /\ UNCHANGED <<meta, objects, lister, job, err, firstErr,
                                      ctxDone, cancelled>>
      /\ fault => fault'
  <2>1. fault => fault'
    <3>1. fault' = fault \/ fault' = (fault \/ ~ctxDone) \/ fault' = TRUE
      BY DEF List, ListError
    <3> QED BY <3>1, Zenon
  <2> QED BY <2>1 DEF List, ListError, world, pool
<1>2. /\ \A w \in Workers : worker[w] = "off"
      /\ progress = "off" /\ todo = {} /\ checked = 0 /\ firstErr = None
      /\ ~cancelled /\ verdict = None /\ lister
  BY <1>1 DEF MainShape
<1>3. CASE ReturnWith("refuse") /\ UNCHANGED <<todo, worker, progress, checked>>
  <2>1. main' = "done" /\ verdict' = "refuse"
    BY <1>3 DEF ReturnWith
  <2>2. MainShape'
    BY <1>1, <1>2, <1>3, <2>1, ValuesAssumption DEF MainShape, Typed
  <2>3. Covered'
    BY <2>1 DEF Covered, InPool
  <2>4. Counting'
    BY <1>1, <1>2, <1>3, <2>1, SamePool, Finite, FS_EmptySet DEF Counting, InPool
  <2> QED BY <1>1, <1>3, <2>1, <2>2, <2>3, <2>4, SamePool DEF Rest
<1>4. ASSUME \A h \in Payloads : Listed(h), checked' = Cardinality(Payloads \ WithoutETag)
      PROVE  \A h \in Hashes \ WithoutETag : Good(h)'
  BY <1>1, <1>2, <1>4, SameWorld DEF Good, Listed, Payloads, WithoutETag, Promise!Valid
<1>5. CASE /\ \A h \in Payloads : Listed(h)
           /\ checked' = Cardinality(Payloads \ WithoutETag)
           /\ WithoutETag = {} /\ Go("final") /\ NoPool
  <2>1. /\ main' = "final" /\ UNCHANGED <<verdict, todo, worker, progress>>
    BY <1>5 DEF Go, NoPool
  <2>2. MainShape'
    BY <1>1, <1>2, <2>1 DEF MainShape
  <2>3. Covered'
    BY <1>4, <1>5, <2>1 DEF Covered, InPool
  <2>4. Counting'
    <3>1. Payloads \ WithoutETag = Payloads
      BY <1>5
    <3> QED BY <1>1, <1>2, <1>5, <2>1, <3>1, SameWorld DEF Counting, InPool
  <2> QED BY <1>1, <2>1, <2>2, <2>3, <2>4, SamePool DEF Rest
<1>6. CASE /\ \A h \in Payloads : Listed(h)
           /\ checked' = Cardinality(Payloads \ WithoutETag)
           /\ StartPool(WithoutETag)
  <2>1. /\ todo' = WithoutETag /\ main' = "send" /\ verdict' = verdict /\ progress' = "on"
        /\ \A w \in Workers : worker'[w] = "select"
    BY <1>6 DEF StartPool, Go
  <2>2. MainShape'
    BY <1>1, <1>2, <2>1 DEF MainShape
  <2>3. Busy' = {} /\ Payloads' = Payloads
    BY <1>1, <2>1, SameWorld DEF Busy
  <2>4. Covered'
    BY <1>4, <1>6, <2>1 DEF Covered, InPool
  <2>5. Counting'
    <3>1. WithoutETag \subseteq Payloads
      BY DEF WithoutETag
    <3>2. WithoutETag = Payloads \cap WithoutETag
      BY <3>1
    <3>3. /\ Cardinality(Payloads \ WithoutETag)
               = Cardinality(Payloads) - Cardinality(Payloads \cap WithoutETag)
          /\ IsFiniteSet(WithoutETag)
      <4>1. IsFiniteSet(Payloads)
        BY Finite
      <4>2. IsFiniteSet(WithoutETag)
        BY <3>1, <4>1, FS_Subset
      <4> QED BY <4>1, <4>2, FS_Difference
    <3>4. Cardinality(WithoutETag) \in Nat
      BY <3>3, FS_CardinalityType
    <3>5. checked' + Cardinality(WithoutETag) + 0 = Cardinality(Payloads)
      <4>1. Cardinality(Payloads) \in Nat
        BY Finite
      <4>2. Cardinality(Payloads \cap WithoutETag) = Cardinality(WithoutETag)
        BY <3>2
      <4>3. checked' = Cardinality(Payloads) - Cardinality(WithoutETag)
        BY <1>6, <3>3, <4>2
      <4> HIDE DEF WithoutETag, Payloads
      <4> QED BY <3>4, <4>1, <4>3
    <3> QED BY <2>1, <2>3, <3>5, FS_EmptySet DEF Counting, InPool
  <2>6. \A w \in Workers : WorkerShape(w)'
    BY <2>1 DEF WorkerShape, Busy
  <2>7. \A h \in todo' : Open(h)'
    BY <1>1, <2>1 DEF Open, Payloads, WithoutETag
  <2>8. Justified(firstErr)'
    BY <1>1, <1>2, ValuesAssumption DEF Justified
  <2> QED BY <2>2, <2>4, <2>5, <2>6, <2>7, <2>8 DEF Rest
<1> QED BY <1>3, <1>5, <1>6 DEF List, ListError, NoPool, pool

\* The main goroutine ends its part in the pool.
LEMMA EndRest ==
  ASSUME StartupInv, Typed', SendEnd \/ Close \/ Wait \/ WaitProgress
  PROVE  Rest'
<1> USE DEF StartupInv
<1>1. UNCHANGED <<meta, objects, lister, todo, job, err, worker, firstErr, fault,
                  ctxDone, checked, progress, verdict>>
  BY DEF SendEnd, Close, Wait, WaitProgress, world, pool, Go
<1>2. /\ \A w \in Workers : WorkerShape(w)'
      /\ \A h \in todo' : Open(h)'
      /\ Justified(firstErr)'
      /\ Busy' = Busy /\ Failing' = Failing /\ Payloads' = Payloads
      /\ \A h \in Hashes : Good(h)' <=> Good(h)
      /\ WorkersGone' <=> WorkersGone
  BY <1>1, SamePool
<1>3. /\ InPool /\ InPool'
      /\ main' # "send" /\ main' \notin {"query", "list", "final", "done"}
      /\ main \notin {"query", "list", "final", "done"}
  BY DEF SendEnd, Close, Wait, WaitProgress, InPool, Go
<1>4. MainShape'
  <2>1. CASE SendEnd \/ Close
    BY <1>1, <1>3, <2>1 DEF MainShape, SendEnd, Close, Go
  <2>2. CASE Wait
    BY <1>1, <1>2, <1>3, <2>2 DEF MainShape, Wait, Go
  <2>3. CASE WaitProgress
    BY <1>1, <1>2, <1>3, <2>3 DEF MainShape, WaitProgress, Go
  <2> QED BY <2>1, <2>2, <2>3
<1>5. Covered'
  <2>1. todo = {} \/ ctxDone \/ firstErr # None
    <3>1. CASE SendEnd
      BY <3>1 DEF SendEnd, Done, MainShape
    <3>2. CASE Close \/ Wait \/ WaitProgress
      BY <1>3, <3>2 DEF Close, Wait, WaitProgress, Covered
    <3> QED BY <3>1, <3>2
  <2>2. \/ firstErr # None \/ ctxDone \/ Failing # {}
        \/ \A h \in Hashes : Good(h) \/ h \in todo \/ \E w \in Busy : job[w] = h
    BY <1>3 DEF Covered
  <2>3. \/ firstErr' # None \/ ctxDone' \/ Failing' # {}
        \/ \A h \in Hashes : Good(h)' \/ h \in todo' \/ \E w \in Busy' : job'[w] = h
    BY <1>1, <1>2, <2>2
  <2> QED BY <1>1, <1>3, <2>1, <2>3 DEF Covered
<1>6. Counting'
  BY <1>1, <1>2, <1>3 DEF Counting
<1> QED BY <1>2, <1>4, <1>5, <1>6 DEF Rest

\* When the workers are gone and nothing went wrong, every payload is good and
\* counted.
LEMMA PoolDone ==
  ASSUME StartupInv, main = "result"
  PROVE  /\ Busy = {} /\ Failing = {}
         /\ checked + Cardinality(todo) = Cardinality(Payloads)
         /\ firstErr = None /\ ~ctxDone =>
              /\ todo = {} /\ checked = Cardinality(Payloads)
              /\ \A h \in Hashes : Good(h)
<1> USE DEF StartupInv
<1>1. Busy = {} /\ Failing = {}
  BY DEF MainShape, WorkersGone, Busy, Failing
<1>2. Cardinality(Busy) = 0
  BY <1>1, FS_EmptySet
<1>3. checked \in Nat /\ Cardinality(todo) \in Nat /\ Cardinality(Payloads) \in Nat
  BY Finite DEF TypeOK
<1>4. checked + Cardinality(todo) + Cardinality(Busy) = Cardinality(Payloads)
  BY DEF Counting, InPool
<1>5. checked + Cardinality(todo) = Cardinality(Payloads)
  BY <1>2, <1>3, <1>4
<1>6. ASSUME firstErr = None, ~ctxDone
      PROVE  /\ todo = {} /\ checked = Cardinality(Payloads)
             /\ \A h \in Hashes : Good(h)
  <2>1. todo = {} /\ \A h \in Hashes : Good(h)
    BY <1>1, <1>6 DEF Covered, InPool
  <2>2. Cardinality(todo) = 0
    BY <2>1, FS_EmptySet
  <2> QED BY <1>3, <1>5, <2>1, <2>2
<1> QED BY <1>1, <1>5, <1>6

\* The main goroutine leaves the pool with its result.
LEMMA ResultRest ==
  ASSUME StartupInv, Typed', Result \/ Final
  PROVE  Rest'
<1> USE DEF StartupInv
<1>1. UNCHANGED <<meta, objects, lister, todo, job, err, worker, firstErr, fault,
                  ctxDone, checked, progress>>
  BY DEF Result, Final, world, pool
<1>2. /\ \A w \in Workers : WorkerShape(w)'
      /\ \A h \in todo' : Open(h)'
      /\ Justified(firstErr)'
      /\ Busy' = Busy /\ Failing' = Failing /\ Payloads' = Payloads
      /\ \A h \in Hashes : Good(h)' <=> Good(h)
      /\ WorkersGone' <=> WorkersGone
  BY <1>1, SamePool
<1>3. /\ main' \in {"final", "done"} /\ ~InPool'
      /\ \A w \in Workers : worker'[w] \in {"off", "gone"}
      /\ progress' \in {"off", "gone"}
  BY <1>1 DEF Result, Final, Go, ReturnWith, InPool, MainShape, WorkersGone
<1>4. MainShape'
  <2>1. main' = "done" <=> verdict' # None
    BY ValuesAssumption DEF Result, Final, Go, ReturnWith, MainShape
  <2> QED BY <1>3, <2>1 DEF MainShape
<1>5. checked \in Nat /\ Cardinality(todo) \in Nat /\ Cardinality(Payloads) \in Nat
  BY Finite DEF TypeOK
<1>6. CASE Result
  <2>1. main = "result"
    BY <1>6 DEF Result
  <2>2. CASE ReturnWith("refuse")
    <3>1. main' = "done" /\ verdict' = "refuse"
      BY <2>2 DEF ReturnWith
    <3>2. checked' + Cardinality(todo') <= Cardinality(Payloads')
      BY <1>1, <1>2, <1>5, <2>1, PoolDone
    <3>3. Counting' /\ Covered'
      BY <1>3, <3>1, <3>2 DEF Counting, Covered
    <3> QED BY <1>2, <1>4, <3>3 DEF Rest
  <2>3. CASE firstErr = None /\ ~ctxDone
    <3>1. /\ todo = {} /\ checked = Cardinality(Payloads)
          /\ \A h \in Hashes : Good(h)
      BY <2>1, <2>3, PoolDone
    <3>2. Counting'
      BY <1>1, <1>2, <1>3, <3>1 DEF Counting
    <3>3. Covered'
      BY <1>1, <1>2, <1>3, <3>1 DEF Covered
    <3> QED BY <1>2, <1>4, <3>2, <3>3 DEF Rest
  <2> QED BY <1>6, <2>2, <2>3 DEF Result
<1>7. CASE Final
  <2>1. main = "final" /\ main' = "done"
    BY <1>7 DEF Final, ReturnWith
  <2>2. todo = {} /\ checked = Cardinality(Payloads)
    BY <2>1 DEF Counting
  <2>3. Counting' /\ Covered'
    BY <1>1, <1>2, <1>3, <2>1, <2>2 DEF Counting, Covered
  <2> QED BY <1>2, <1>4, <2>3 DEF Rest
<1> QED BY <1>6, <1>7

\* The progress goroutine and the signal.
LEMMA AsideRest ==
  ASSUME StartupInv, Typed', ProgressEnd \/ Interrupt
  PROVE  Rest'
<1> USE DEF StartupInv
<1>1. /\ UNCHANGED <<meta, objects, lister, todo, job, err, worker, firstErr, fault,
                     checked, main, verdict, cancelled>>
      /\ ctxDone => ctxDone'
  BY DEF ProgressEnd, Interrupt, world, pool
<1>2. /\ \A w \in Workers : WorkerShape(w)'
      /\ \A h \in todo' : Open(h)'
      /\ Justified(firstErr)'
      /\ Busy' = Busy /\ Failing' = Failing /\ Payloads' = Payloads
      /\ \A h \in Hashes : Good(h)' <=> Good(h)
      /\ WorkersGone' <=> WorkersGone
  BY <1>1, SamePool
<1>3. MainShape'
  <2>1. CASE ProgressEnd
    BY <1>1, <1>2, <2>1 DEF ProgressEnd, MainShape
  <2>2. CASE Interrupt
    BY <1>1, <1>2, <2>2 DEF Interrupt, MainShape
  <2> QED BY <2>1, <2>2
<1>4. Counting' /\ (InPool' <=> InPool)
  BY <1>1, <1>2 DEF Counting, InPool
<1>5. Covered'
  <2>1. InPool => \/ firstErr # None \/ ctxDone \/ Failing # {}
                  \/ \A h \in Hashes : Good(h) \/ h \in todo \/ \E w \in Busy : job[w] = h
    BY DEF Covered
  <2>2. InPool' => \/ firstErr' # None \/ ctxDone' \/ Failing' # {}
                   \/ \A h \in Hashes : Good(h)' \/ h \in todo' \/ \E w \in Busy' : job'[w] = h
    BY <1>1, <1>2, <1>4, <2>1
  <2>3. InPool' /\ main' # "send" => todo' = {} \/ ctxDone' \/ firstErr' # None
    BY <1>1, <1>4 DEF Covered
  <2>4. main' = "final" => \A h \in Hashes : Good(h)'
    BY <1>1, <1>2 DEF Covered
  <2> QED BY <2>2, <2>3, <2>4 DEF Covered
<1> QED BY <1>2, <1>3, <1>4, <1>5 DEF Rest

\* Workers are only at work while the main goroutine sends, closes or waits.
LEMMA ActiveMain ==
  ASSUME StartupInv, NEW w \in Workers, worker[w] \in {"select", "head", "put", "fail"}
  PROVE  /\ main \in {"send", "close", "wait"} /\ InPool
         /\ ~WorkersGone /\ verdict = None
         /\ cancelled => firstErr # None
BY DEF StartupInv, TypeOK, MainShape, WorkersGone, InPool

\* A step of worker w leaves the others their payloads and errors.
LEMMA OtherWorkers ==
  ASSUME StartupInv, NEW w \in Workers, todo' \subseteq todo,
         \A v \in Workers \ {w} :
           worker'[v] = worker[v] /\ job'[v] = job[v] /\ err'[v] = err[v],
         worker'[w] \in {"head", "put"} => \A v \in Busy \ {w} : job'[w] # job[v],
         \A h \in Hashes : (h \in todo' \/ \E v \in Busy \ {w} : job[v] = h) =>
           /\ Open(h) => Open(h)'
           /\ meta'[h] = meta[h]
           /\ Promise!HeadValid(h) => Promise!HeadValid(h)',
         \A e \in Errors : Justified(e) => Justified(e)',
         firstErr # None => firstErr' # None
  PROVE  /\ \A v \in Workers \ {w} : WorkerShape(v)'
         /\ \A h \in todo' : Open(h)'
<1> USE DEF StartupInv
<1>1. \A h \in todo' : Open(h)'
  BY DEF TypeOK
<1>2. ASSUME NEW v \in Workers \ {w} PROVE WorkerShape(v)'
  <2>1. WorkerShape(v)
    OBVIOUS
  <2>2. worker[v] = worker'[v] /\ job'[v] = job[v] /\ err'[v] = err[v]
    OBVIOUS
  <2>3. worker[v] = "fail" => /\ err[v] # None
                              /\ (Justified(err[v]) \/ (err[v] = "canceled" /\ firstErr # None))'
    <3>1. worker[v] = "fail" => err[v] \in Errors
      BY <2>1 DEF WorkerShape, TypeOK
    <3>2. PICK e : e = err[v]
      OBVIOUS
    <3>3. e \in Errors /\ Justified(e) => Justified(e)'
      OBVIOUS
    <3> QED BY <2>1, <3>1, <3>2, <3>3 DEF WorkerShape, Justified
  <2>4. CASE v \in Busy'
    <3>1. v \in Busy
      BY <2>2, <2>4 DEF Busy
    <3>2. PICK h \in Hashes : h = job[v]
      BY <2>1, <3>1 DEF WorkerShape
    <3>3. h \notin todo /\ Open(h) /\ \A u \in Busy \ {v} : job[u] # h
      BY <2>1, <3>1, <3>2 DEF WorkerShape
    <3>4. /\ Open(h)' /\ meta'[h] = meta[h]
          /\ Promise!HeadValid(h) => Promise!HeadValid(h)'
      BY <3>1, <3>2, <3>3
    <3>5. ASSUME NEW u \in Busy' \ {v} PROVE job'[u] # h
      <4>1. CASE u = w
        BY <3>1, <3>2, <4>1 DEF Busy
      <4>2. CASE u # w
        BY <3>2, <3>3, <4>2 DEF Busy
      <4> QED BY <4>1, <4>2
    <3>6. worker[v] = "put" => Promise!HeadValid(h) /\ meta[h].etag = Unset
      BY <2>1, <3>2 DEF WorkerShape
    <3>7. worker[v] # "fail" /\ job'[v] = h /\ h \notin todo'
      BY <2>2, <3>1, <3>2, <3>3 DEF Busy
    <3>8. (/\ job[v] \in Hashes \ todo /\ Open(job[v])
           /\ \A u \in Busy \ {v} : job[u] # job[v])'
      BY <3>4, <3>5, <3>7 DEF Open
    <3>9. (worker[v] = "put" => Promise!HeadValid(job[v]) /\ meta[job[v]].etag = Unset)'
      BY <2>2, <3>4, <3>6, <3>7 DEF Promise!HeadValid, Promise!ListValid
    <3> QED BY <2>2, <3>7, <3>8, <3>9 DEF WorkerShape
  <2>5. CASE v \notin Busy'
    <3>1. worker'[v] # "put"
      BY <2>5 DEF Busy
    <3> QED BY <2>2, <2>3, <2>5, <3>1 DEF WorkerShape, Justified
  <2> QED BY <2>4, <2>5
<1> QED BY <1>1, <1>2

\* What a step inside the pool has to show.
LEMMA PoolStep ==
  ASSUME StartupInv, NEW w \in Workers, worker[w] \in {"select", "head", "put", "fail"},
         UNCHANGED <<main, verdict, progress, ctxDone>>, todo' \subseteq todo,
         cancelled' => cancelled \/ firstErr' # None,
         firstErr # None => firstErr' # None,
         \/ firstErr' # None \/ ctxDone' \/ Failing' # {}
         \/ \A h \in Hashes : Good(h)' \/ h \in todo' \/ \E v \in Busy' : job'[v] = h,
         checked' + Cardinality(todo') + Cardinality(Busy') = Cardinality(Payloads')
  PROVE  MainShape' /\ Covered' /\ Counting'
<1>1. /\ main \in {"send", "close", "wait"} /\ InPool /\ verdict = None
      /\ cancelled => firstErr # None
  BY ActiveMain
<1>2. MainShape'
  BY <1>1 DEF MainShape
<1>3. InPool'
  BY <1>1 DEF InPool
<1>4. main # "send" => todo = {} \/ ctxDone \/ firstErr # None
  BY <1>1 DEF StartupInv, Covered
<1>5. Covered'
  BY <1>1, <1>3, <1>4 DEF Covered
<1>6. Counting'
  BY <1>1, <1>3 DEF Counting
<1> QED BY <1>2, <1>5, <1>6

\* A payload is handed over.
LEMMA SendRest ==
  ASSUME StartupInv, Typed', NEW w \in Workers, Send(w)
  PROVE  Rest'
<1> USE DEF StartupInv
<1>1. /\ UNCHANGED <<meta, objects, lister, fault, ctxDone, verdict, main, cancelled,
                     firstErr, err, progress, checked>>
      /\ worker[w] = "select" /\ worker' = [worker EXCEPT ![w] = "head"]
  BY DEF Send, world
<1>2. PICK h \in todo : todo' = todo \ {h} /\ job' = [job EXCEPT ![w] = h]
  BY DEF Send
<1>3. /\ h \in Hashes /\ Open(h)
      /\ job'[w] = h /\ worker'[w] = "head" /\ err'[w] = err[w]
      /\ \A v \in Workers \ {w} :
           worker'[v] = worker[v] /\ job'[v] = job[v] /\ err'[v] = err[v]
  BY <1>1, <1>2 DEF TypeOK
<1>4. \A v \in Busy \ {w} : job[v] # h
  BY <1>2 DEF Busy, WorkerShape
<1>5. Justified(firstErr)' /\ \A e \in Errors : Justified(e) => Justified(e)'
  <2>1. \A e \in Errors \cup {None} : Justified(e) => Justified(e)'
    BY <1>1, SameCauses
  <2> QED BY <1>1, <2>1 DEF TypeOK, Justified
<1>6. /\ \A v \in Workers \ {w} : WorkerShape(v)'
      /\ \A g \in todo' : Open(g)'
  BY <1>1, <1>2, <1>3, <1>4, <1>5, OtherWorkers, SameWorld
<1>7. Busy' = Busy \cup {w} /\ w \notin Busy /\ Failing' = Failing
  BY <1>1, <1>3 DEF Busy, Failing
<1>8. WorkerShape(w)'
  <2>1. Open(h)'
    BY <1>1, <1>3, SameWorld
  <2>2. \A v \in Busy' \ {w} : job'[v] # h
    BY <1>3, <1>4, <1>7 DEF Busy
  <2>3. h \notin todo'
    BY <1>2
  <2> QED BY <1>3, <2>1, <2>2, <2>3 DEF WorkerShape, Open
<1>9. checked' + Cardinality(todo') + Cardinality(Busy') = Cardinality(Payloads')
  <2>1. Cardinality(todo') = Cardinality(todo) - 1
    BY <1>2, Finite, FS_RemoveElement
  <2>2. Cardinality(Busy') = Cardinality(Busy) + 1
    BY <1>7, Finite, FS_AddElement
  <2>3. checked + Cardinality(todo) + Cardinality(Busy) = Cardinality(Payloads)
    BY <1>1, ActiveMain DEF Counting
  <2>4. /\ checked \in Nat /\ Cardinality(todo) \in Nat /\ Cardinality(Busy) \in Nat
        /\ checked' = checked /\ Payloads' = Payloads
    BY <1>1, Finite, SameWorld DEF TypeOK
  <2> QED BY <2>1, <2>2, <2>3, <2>4
<1>10. \/ firstErr' # None \/ ctxDone' \/ Failing' # {}
       \/ \A g \in Hashes : Good(g)' \/ g \in todo' \/ \E v \in Busy' : job'[v] = g
  <2>1. \/ firstErr # None \/ ctxDone \/ Failing # {}
        \/ \A g \in Hashes : Good(g) \/ g \in todo \/ \E v \in Busy : job[v] = g
    BY <1>1, ActiveMain DEF Covered
  <2>2. ASSUME NEW g \in Hashes, Good(g) \/ g \in todo \/ \E v \in Busy : job[v] = g
        PROVE  Good(g)' \/ g \in todo' \/ \E v \in Busy' : job'[v] = g
    <3>1. CASE g = h
      BY <1>3, <1>7, <3>1
    <3>2. CASE g # h /\ g \in todo
      BY <1>2, <3>2
    <3>3. CASE Good(g)
      BY <1>1, <3>3, SameWorld
    <3>4. CASE \E v \in Busy : job[v] = g
      <4>1. PICK v \in Busy : job[v] = g
        BY <3>4
      <4>2. v \in Busy' /\ job'[v] = g
        BY <1>3, <1>7, <4>1 DEF Busy
      <4> QED BY <4>2
    <3> QED BY <2>2, <3>1, <3>2, <3>3, <3>4
  <2> QED BY <1>1, <1>7, <2>1, <2>2
<1>11. MainShape' /\ Covered' /\ Counting'
  BY <1>1, <1>2, <1>9, <1>10, PoolStep
<1> QED BY <1>5, <1>6, <1>8, <1>11 DEF Rest

\* A worker leaves, or goes on to write an ETag: it holds what it held.
LEMMA SameHands ==
  ASSUME StartupInv, Typed', NEW w \in Workers,
         UNCHANGED <<meta, objects, lister, fault, ctxDone, verdict, main, todo, cancelled,
                     firstErr, job, err, progress, checked>>,
         \/ worker[w] = "select" /\ worker' = [worker EXCEPT ![w] = "gone"]
         \/ /\ worker[w] = "head" /\ worker' = [worker EXCEPT ![w] = "put"]
            /\ Promise!HeadValid(job[w]) /\ meta[job[w]].etag = Unset
  PROVE  Rest'
<1> USE DEF StartupInv
<1>1. /\ \A v \in Workers \ {w} :
           worker'[v] = worker[v] /\ job'[v] = job[v] /\ err'[v] = err[v]
      /\ worker[w] \in {"select", "head"}
      /\ \/ worker[w] = "select" /\ worker'[w] = "gone"
         \/ worker[w] = "head" /\ worker'[w] = "put"
            /\ Promise!HeadValid(job[w]) /\ meta[job[w]].etag = Unset
  BY DEF TypeOK
<1>2. Busy' = Busy /\ Failing' = Failing
  BY <1>1 DEF Busy, Failing
<1>3. Justified(firstErr)' /\ \A e \in Errors : Justified(e) => Justified(e)'
  <2>1. \A e \in Errors \cup {None} : Justified(e) => Justified(e)'
    BY SameCauses
  <2> QED BY <2>1 DEF TypeOK, Justified
<1>4. worker'[w] \in {"head", "put"} => \A v \in Busy \ {w} : job'[w] # job[v]
  BY <1>1 DEF Busy, WorkerShape
<1>5. /\ \A v \in Workers \ {w} : WorkerShape(v)'
      /\ \A g \in todo' : Open(g)'
  BY <1>1, <1>3, <1>4, OtherWorkers, SameWorld
<1>6. WorkerShape(w)'
  <2>1. CASE worker[w] = "select"
    BY <1>1, <2>1 DEF WorkerShape, Busy
  <2>2. CASE worker[w] = "head"
    <3>1. WorkerShape(w) /\ w \in Busy /\ worker'[w] = "put"
      BY <1>1, <2>2 DEF Busy
    <3>2. PICK h \in Hashes : h = job[w]
      BY <3>1 DEF WorkerShape
    <3>3. /\ Promise!HeadValid(h)' /\ meta'[h].etag = Unset /\ Open(h)'
          /\ h \notin todo' /\ \A v \in Busy' \ {w} : job'[v] # h
      BY <1>1, <1>2, <2>2, <3>1, <3>2, SameWorld DEF WorkerShape
    <3> QED BY <3>1, <3>2, <3>3 DEF WorkerShape, Open, Promise!HeadValid, Promise!ListValid
  <2> QED BY <1>1, <2>1, <2>2
<1>7. checked' + Cardinality(todo') + Cardinality(Busy') = Cardinality(Payloads')
  BY <1>1, <1>2, ActiveMain, SameWorld DEF Counting
<1>8. \/ firstErr' # None \/ ctxDone' \/ Failing' # {}
      \/ \A g \in Hashes : Good(g)' \/ g \in todo' \/ \E v \in Busy' : job'[v] = g
  <2>1. \/ firstErr # None \/ ctxDone \/ Failing # {}
        \/ \A g \in Hashes : Good(g) \/ g \in todo \/ \E v \in Busy : job[v] = g
    BY <1>1, ActiveMain DEF Covered
  <2> QED BY <1>2, <2>1, SameWorld
<1>9. MainShape' /\ Covered' /\ Counting'
  BY <1>1, <1>7, <1>8, PoolStep
<1> QED BY <1>3, <1>5, <1>6, <1>9 DEF Rest

\* One worker less holds a payload, and one payload more is counted.
LEMMA CountOne ==
  ASSUME StartupInv, NEW w \in Workers, w \in Busy, todo' = todo,
         Busy' = Busy \ {w}, checked' = checked + 1, Payloads' = Payloads
  PROVE  checked' + Cardinality(todo') + Cardinality(Busy') = Cardinality(Payloads')
<1>1. worker[w] \in {"head", "put"}
  BY DEF Busy
<1>2. checked + Cardinality(todo) + Cardinality(Busy) = Cardinality(Payloads)
  BY <1>1, ActiveMain DEF StartupInv, Counting
<1>3. TypeOK /\ checked \in Nat
  BY DEF StartupInv, TypeOK
<1>4. IsFiniteSet(Busy) /\ Cardinality(Busy) \in Nat /\ Cardinality(todo) \in Nat
  BY <1>3, Finite
<1>5. Cardinality(Busy') = Cardinality(Busy) - 1
  BY <1>4, FS_RemoveElement
<1> HIDE DEF Busy, Payloads
<1> QED BY <1>2, <1>3, <1>4, <1>5

\* HeadObject or PutPayload fails, or the object does not fit: the error is
\* justified, or somebody's error is already recorded.
LEMMA FailedRest ==
  ASSUME StartupInv, Typed', NEW w \in Workers, NEW e \in Errors, Failed(w, e),
         worker[w] \in {"head", "put"}, fault => fault',
         UNCHANGED <<meta, objects, lister, ctxDone, verdict, main, todo, cancelled,
                     firstErr, progress>>,
         Justified(e)' \/ (e = "canceled" /\ firstErr # None)
  PROVE  Rest'
<1> USE DEF StartupInv
<1>1. /\ \A v \in Workers \ {w} :
           worker'[v] = worker[v] /\ job'[v] = job[v] /\ err'[v] = err[v]
      /\ worker'[w] = "fail" /\ err'[w] = e /\ checked' = checked + 1
  BY DEF TypeOK, Failed, Move
<1>2. w \in Busy /\ Busy' = Busy \ {w} /\ w \in Failing'
  BY <1>1 DEF Busy, Failing
<1>3. Justified(firstErr)' /\ \A x \in Errors : Justified(x) => Justified(x)'
  <2>1. \A x \in Errors \cup {None} : Justified(x) => Justified(x)'
    BY SameCauses
  <2> QED BY <2>1 DEF TypeOK, Justified
<1>4. /\ \A v \in Workers \ {w} : WorkerShape(v)'
      /\ \A g \in todo' : Open(g)'
  <2>1. worker'[w] \notin {"head", "put"}
    BY <1>1
  <2> QED BY <1>1, <1>3, <2>1, OtherWorkers, SameWorld
<1>5. WorkerShape(w)'
  <2>1. e # None
    BY ValuesAssumption DEF Errors
  <2>2. (err[w] # None /\ (Justified(err[w]) \/ (err[w] = "canceled" /\ firstErr # None)))'
    BY <1>1, <2>1 DEF Justified
  <2> QED BY <1>1, <1>2, <2>2 DEF WorkerShape
<1>6. checked' + Cardinality(todo') + Cardinality(Busy') = Cardinality(Payloads')
  BY <1>1, <1>2, CountOne, SameWorld
<1>7. MainShape' /\ Covered' /\ Counting'
  <2>1. Failing' # {}
    BY <1>2
  <2> QED BY <1>6, <2>1, PoolStep
<1> QED BY <1>3, <1>4, <1>5, <1>7 DEF Rest

\* HeadObject agrees, and nothing has to be written.
LEMMA PassedRest ==
  ASSUME StartupInv, Typed', NEW w \in Workers, Passed(w), worker[w] = "head",
         Promise!HeadValid(job[w]), meta[job[w]].etag # Unset,
         UNCHANGED <<meta, objects, lister, fault, ctxDone, verdict, main, todo,
                     cancelled, firstErr, progress>>
  PROVE  Rest'
<1> USE DEF StartupInv
<1>1. /\ \A v \in Workers \ {w} :
           worker'[v] = worker[v] /\ job'[v] = job[v] /\ err'[v] = err[v]
      /\ worker'[w] = "select" /\ checked' = checked + 1
  BY DEF TypeOK, Passed, Move
<1>2. w \in Busy /\ Busy' = Busy \ {w} /\ Failing' = Failing
  BY <1>1 DEF Busy, Failing
<1>3. Justified(firstErr)' /\ \A x \in Errors : Justified(x) => Justified(x)'
  <2>1. \A x \in Errors \cup {None} : Justified(x) => Justified(x)'
    BY SameCauses
  <2> QED BY <2>1 DEF TypeOK, Justified
<1>4. /\ \A v \in Workers \ {w} : WorkerShape(v)'
      /\ \A g \in todo' : Open(g)'
  <2>1. worker'[w] \notin {"head", "put"}
    BY <1>1
  <2> QED BY <1>1, <1>3, <2>1, OtherWorkers, SameWorld
<1>5. WorkerShape(w)'
  BY <1>1 DEF WorkerShape, Busy
<1>6. checked' + Cardinality(todo') + Cardinality(Busy') = Cardinality(Payloads')
  BY <1>1, <1>2, CountOne, SameWorld
<1>7. PICK h \in Hashes : h = job[w]
  BY <1>2 DEF WorkerShape
<1>8. Good(h)
  <2>1. Open(h) /\ Promise!HeadValid(h) /\ meta[h].etag # Unset
    BY <1>2, <1>7 DEF WorkerShape
  <2> QED BY <2>1, OpenValid DEF Good
<1>9. \/ firstErr' # None \/ ctxDone' \/ Failing' # {}
      \/ \A g \in Hashes : Good(g)' \/ g \in todo' \/ \E v \in Busy' : job'[v] = g
  <2>1. \/ firstErr # None \/ ctxDone \/ Failing # {}
        \/ \A g \in Hashes : Good(g) \/ g \in todo \/ \E v \in Busy : job[v] = g
    BY ActiveMain DEF Covered
  <2>2. ASSUME NEW g \in Hashes, Good(g) \/ g \in todo \/ \E v \in Busy : job[v] = g
        PROVE  Good(g)' \/ g \in todo' \/ \E v \in Busy' : job'[v] = g
    <3>1. CASE g = h \/ Good(g)
      BY <1>8, <3>1, SameWorld
    <3>2. CASE g # h /\ \E v \in Busy : job[v] = g
      <4>1. PICK v \in Busy : job[v] = g
        BY <3>2
      <4>2. v \in Busy' /\ job'[v] = g
        BY <1>1, <1>2, <1>7, <3>2, <4>1 DEF Busy
      <4> QED BY <4>2
    <3> QED BY <2>2, <3>1, <3>2
  <2> QED BY <1>2, <2>1, <2>2
<1>10. MainShape' /\ Covered' /\ Counting'
  BY <1>6, <1>9, PoolStep
<1> QED BY <1>3, <1>4, <1>5, <1>10 DEF Rest

\* The first error is recorded and everybody cancelled.
LEMMA RecordRest ==
  ASSUME StartupInv, Typed', NEW w \in Workers, RecordError(w)
  PROVE  Rest'
<1> USE DEF StartupInv
<1>1. /\ worker[w] = "fail"
      /\ UNCHANGED <<meta, objects, lister, fault, ctxDone, verdict, main, todo, progress,
                     checked>>
      /\ \A v \in Workers \ {w} :
           worker'[v] = worker[v] /\ job'[v] = job[v] /\ err'[v] = err[v]
      /\ worker'[w] = "gone"
  BY DEF RecordError, WorkerReturns, TypeOK, Move, world
<1>2. /\ err[w] \in Errors /\ err[w] # None
      /\ Justified(err[w]) \/ (err[w] = "canceled" /\ firstErr # None)
  BY <1>1 DEF WorkerShape, TypeOK
<1>3. \A x \in Errors \cup {None} : Justified(x) => Justified(x)'
  BY <1>1, SameCauses
<1>4. firstErr' # None /\ (firstErr' = firstErr \/ (firstErr = None /\ firstErr' = err[w]))
  BY <1>1, <1>2 DEF RecordError
<1>5. Justified(firstErr)'
  <2>1. PICK x \in Errors \cup {None} : x = firstErr' /\ Justified(x)
    BY <1>2, <1>4 DEF TypeOK
  <2> QED BY <1>3, <2>1 DEF Justified
<1>6. /\ \A v \in Workers \ {w} : WorkerShape(v)'
      /\ \A g \in todo' : Open(g)'
  <2>1. worker'[w] \notin {"head", "put"}
    BY <1>1
  <2> QED BY <1>1, <1>3, <1>4, <2>1, OtherWorkers, SameWorld
<1>7. WorkerShape(w)'
  BY <1>1 DEF WorkerShape, Busy
<1>8. checked' + Cardinality(todo') + Cardinality(Busy') = Cardinality(Payloads')
  <2>1. Busy' = Busy
    BY <1>1 DEF Busy
  <2> QED BY <1>1, <2>1, ActiveMain, SameWorld DEF Counting
<1>9. MainShape' /\ Covered' /\ Counting'
  BY <1>1, <1>4, <1>8, PoolStep
<1> QED BY <1>5, <1>6, <1>7, <1>9 DEF Rest

\* A payload whose ETag is written from the object a HeadObject agreed with.
LEMMA StampedGood ==
  ASSUME TypeOK, NEW h \in Hashes, Open(h), Promise!HeadValid(h), meta[h].etag = Unset,
         meta' = [meta EXCEPT ![h].etag = objects[h].etag], UNCHANGED <<objects, lister>>
  PROVE  /\ Good(h)' /\ meta'[h] # None /\ Promise!Valid(h) /\ Promise!Valid(h)'
         /\ \A g \in Hashes \ {h} : meta'[g] = meta[g]
         /\ Payloads' = Payloads
<1>1. meta[h] # None /\ objects[h] # None
  BY DEF Open, Promise!HeadValid, Promise!ListValid
<1>2. PICK m : m = Stamp(meta[h], objects[h].etag)
  OBVIOUS
<1>3. /\ m # None /\ m.etag = objects[h].etag
      /\ m.size = meta[h].size /\ m.checksum = meta[h].checksum
  BY <1>1, <1>2, Stamped, Zenon
<1>4. DOMAIN meta = Hashes /\ meta' = [meta EXCEPT ![h] = m]
  BY <1>2 DEF Stamp, TypeOK
<1>5. meta'[h] = m /\ \A g \in Hashes \ {h} : meta'[g] = meta[g]
  BY <1>4
<1>6. /\ objects[h].size = meta[h].size /\ objects[h].checksum = meta[h].checksum
      /\ objects[h].etag # Unset
  BY DEF Promise!HeadValid, Promise!ListValid
<1>7. Promise!HeadValid(h)' /\ Promise!ListValid(h)'
  BY <1>1, <1>3, <1>5, <1>6 DEF Promise!HeadValid, Promise!ListValid
<1>8. Promise!Valid(h)
  BY OpenValid
<1>9. Promise!Valid(h)'
  BY <1>7 DEF Promise!Valid
<1>10. Good(h)'
  BY <1>3, <1>5, <1>6, <1>9 DEF Good
<1>11. Payloads' = Payloads
  BY <1>1, <1>3, <1>5 DEF Payloads
<1> QED BY <1>3, <1>5, <1>8, <1>9, <1>10, <1>11

\* The ETag is stored.
LEMMA PutRest ==
  ASSUME StartupInv, Typed', NEW w \in Workers, PutETag(w)
  PROVE  Rest'
<1> USE DEF StartupInv
<1>1. /\ worker[w] = "put"
      /\ UNCHANGED <<objects, lister, fault, ctxDone, verdict, main, todo, cancelled,
                     firstErr, progress>>
      /\ \A v \in Workers \ {w} :
           worker'[v] = worker[v] /\ job'[v] = job[v] /\ err'[v] = err[v]
      /\ worker'[w] = "select" /\ checked' = checked + 1
  BY DEF PutETag, TypeOK, Passed, Move, world
<1>2. w \in Busy /\ Busy' = Busy \ {w} /\ Failing' = Failing
  BY <1>1 DEF Busy, Failing
<1>3. PICK h \in Hashes : h = job[w]
  BY <1>2 DEF WorkerShape
<1>4. /\ Open(h) /\ Promise!HeadValid(h) /\ meta[h].etag = Unset /\ h \notin todo
      /\ \A v \in Busy \ {w} : job[v] # h
  BY <1>1, <1>2, <1>3 DEF WorkerShape
<1>5. /\ Good(h)' /\ meta'[h] # None /\ Promise!Valid(h) /\ Promise!Valid(h)'
      /\ \A g \in Hashes \ {h} : meta'[g] = meta[g]
      /\ Payloads' = Payloads
  BY <1>1, <1>3, <1>4, StampedGood DEF PutETag
<1>6. \A g \in Hashes \ {h} : /\ Good(g)' <=> Good(g)
                              /\ Open(g)' <=> Open(g)
                              /\ Promise!Valid(g)' <=> Promise!Valid(g)
                              /\ Promise!HeadValid(g)' <=> Promise!HeadValid(g)
  BY <1>1, <1>5 DEF Good, Open, Promise!Valid, Promise!HeadValid, Promise!ListValid
<1>7. Justified(firstErr)' /\ \A x \in Errors : Justified(x) => Justified(x)'
  <2>1. (\E g \in Hashes : ~Promise!Valid(g)) => \E g \in Hashes : ~Promise!Valid(g)'
    BY <1>5, <1>6
  <2>2. \A x \in Errors \cup {None} : Justified(x) => Justified(x)'
    BY <1>1, <2>1 DEF Justified
  <2> QED BY <1>1, <2>2 DEF TypeOK, Justified
<1>8. /\ \A v \in Workers \ {w} : WorkerShape(v)'
      /\ \A g \in todo' : Open(g)'
  <2>1. worker'[w] \notin {"head", "put"}
    BY <1>1
  <2>2. \A g \in Hashes : (g \in todo' \/ \E v \in Busy \ {w} : job[v] = g) => g # h
    BY <1>1, <1>4
  <2> QED BY <1>1, <1>5, <1>6, <1>7, <2>1, <2>2, OtherWorkers
<1>9. WorkerShape(w)'
  BY <1>1 DEF WorkerShape, Busy
<1>10. checked' + Cardinality(todo') + Cardinality(Busy') = Cardinality(Payloads')
  BY <1>1, <1>2, <1>5, CountOne
<1>11. \/ firstErr' # None \/ ctxDone' \/ Failing' # {}
       \/ \A g \in Hashes : Good(g)' \/ g \in todo' \/ \E v \in Busy' : job'[v] = g
  <2>1. \/ firstErr # None \/ ctxDone \/ Failing # {}
        \/ \A g \in Hashes : Good(g) \/ g \in todo \/ \E v \in Busy : job[v] = g
    BY <1>1, ActiveMain DEF Covered
  <2>2. ASSUME NEW g \in Hashes, Good(g) \/ g \in todo \/ \E v \in Busy : job[v] = g
        PROVE  Good(g)' \/ g \in todo' \/ \E v \in Busy' : job'[v] = g
    <3>1. CASE g = h
      BY <1>5, <3>1
    <3>2. CASE g # h /\ (Good(g) \/ g \in todo)
      BY <1>1, <1>6, <3>2
    <3>3. CASE g # h /\ \E v \in Busy : job[v] = g
      <4>1. PICK v \in Busy : job[v] = g
        BY <3>3
      <4>2. v \in Busy' /\ job'[v] = g
        BY <1>1, <1>2, <1>3, <3>3, <4>1 DEF Busy
      <4> QED BY <4>2
    <3> QED BY <2>2, <3>1, <3>2, <3>3
  <2> QED BY <1>1, <1>2, <2>1, <2>2
<1>12. MainShape' /\ Covered' /\ Counting'
  BY <1>1, <1>10, <1>11, PoolStep
<1> QED BY <1>7, <1>8, <1>9, <1>12 DEF Rest

\* A worker keeps what is not about types.
LEMMA WorkerRest ==
  ASSUME StartupInv, Typed', NEW w \in Workers, Worker(w)
  PROVE  Rest'
<1> USE DEF StartupInv
<1>1. CASE Leave(w)
  BY <1>1, SameHands DEF Leave, Move, world
<1>2. CASE Head(w)
  <2>1. worker[w] = "head" /\ w \in Busy
    BY <1>2 DEF Head, Busy
  <2>2. PICK h \in Hashes : h = job[w] /\ Open(h)
    BY <2>1 DEF WorkerShape
  <2>3. UNCHANGED <<meta, objects, lister, fault, ctxDone, verdict, main, todo, cancelled,
                    firstErr, progress>>
    BY <1>2 DEF Head, world
  <2>4. CASE ~Promise!HeadValid(job[w]) /\ Failed(w, "invalid")
    <3>1. ~Promise!HeadValid(h)
      BY <2>2, <2>4
    <3>2. ~Promise!Valid(h)'
      BY <2>2, <2>3, <3>1, OpenValid, SameWorld
    <3>3. Justified("invalid")'
      BY <3>2 DEF Justified
    <3> QED BY <2>1, <2>3, <2>4, <3>3, FailedRest DEF Errors
  <2>5. CASE Promise!HeadValid(job[w]) /\ meta[job[w]].etag # Unset /\ Passed(w)
    BY <2>1, <2>3, <2>5, PassedRest
  <2>6. CASE /\ Promise!HeadValid(job[w]) /\ meta[job[w]].etag = Unset
             /\ Move(w, "put") /\ UNCHANGED <<job, err, checked>>
    BY <2>1, <2>3, <2>6, SameHands DEF Move
  <2> QED BY <1>2, <2>4, <2>5, <2>6 DEF Head
<1>3. CASE HeadError(w)
  <2>1. /\ worker[w] \in {"head", "put"}
        /\ UNCHANGED <<meta, objects, lister, ctxDone, verdict, main, todo, cancelled,
                       firstErr, progress>>
    BY <1>3 DEF HeadError, world
  <2>2. CASE fault' = TRUE /\ Failed(w, "io")
    <3>1. Justified("io")' /\ "io" \in Errors
      BY <2>2 DEF Justified, Errors
    <3> QED BY <2>1, <2>2, <3>1, FailedRest
  <2>3. CASE Done /\ Failed(w, "canceled") /\ UNCHANGED fault
    <3>1. ctxDone \/ firstErr # None
      BY <2>1, <2>3, ActiveMain DEF Done
    <3>2. Justified("canceled")' \/ firstErr # None
      BY <2>1, <3>1 DEF Justified
    <3> QED BY <2>1, <2>3, <3>2, FailedRest DEF Errors
  <2> QED BY <1>3, <2>2, <2>3 DEF HeadError
<1>4. CASE PutETag(w)
  BY <1>4, PutRest
<1>5. CASE PutError(w)
  <2>1. Justified("io")' /\ "io" \in Errors
    BY <1>5 DEF PutError, Justified, Errors
  <2> QED BY <1>5, <2>1, FailedRest DEF PutError, world
<1>6. CASE RecordError(w)
  BY <1>6, RecordRest
<1> QED BY <1>1, <1>2, <1>3, <1>4, <1>5, <1>6 DEF Worker

\* Nothing moves.
LEMMA StutterRest ==
  ASSUME StartupInv, UNCHANGED vars
  PROVE  Rest'
<1>1. /\ \A w \in Workers : WorkerShape(w)'
      /\ \A h \in todo' : Open(h)'
      /\ Justified(firstErr)'
      /\ Busy' = Busy /\ Failing' = Failing /\ Payloads' = Payloads
      /\ \A h \in Hashes : Good(h)' <=> Good(h)
      /\ WorkersGone' <=> WorkersGone
  BY SamePool DEF vars
<1>2. MainShape'
  BY <1>1 DEF vars, MainShape, StartupInv
<1>3. Counting'
  BY <1>1 DEF vars, Counting, InPool, StartupInv
<1>4. Covered'
  BY <1>1 DEF vars, Covered, InPool, StartupInv
<1> QED BY <1>1, <1>2, <1>3, <1>4 DEF Rest

\* Every step keeps the invariant.
LEMMA NextStartup == StartupInv /\ [Next]_vars => StartupInv'
<1>1. SUFFICES ASSUME StartupInv, [Next]_vars PROVE StartupInv'
  OBVIOUS
<1>2. Typed'
  BY <1>1, NextTyped
<1>3. Rest'
  <2>1. CASE Main
    BY <1>1, <1>2, <2>1, QueryRest, ListRest, SendRest, EndRest, ResultRest DEF Main
  <2>2. ASSUME NEW w \in Workers, Worker(w) PROVE Rest'
    BY <1>1, <1>2, <2>2, WorkerRest
  <2>3. CASE ProgressEnd \/ Interrupt
    BY <1>1, <1>2, <2>3, AsideRest
  <2>4. CASE UNCHANGED vars
    BY <1>1, <2>4, StutterRest
  <2> QED BY <1>1, <2>1, <2>2, <2>3, <2>4 DEF Next
<1>4. checked' <= Cardinality(Hashes) /\ Cardinality(Hashes) \in Nat
  <2>1. todo' \subseteq Hashes /\ Payloads' \subseteq Hashes /\ Busy' \subseteq Workers
    BY <1>2 DEF Typed, Payloads, Busy
  <2>2. /\ IsFiniteSet(todo') /\ IsFiniteSet(Payloads') /\ IsFiniteSet(Busy')
        /\ Cardinality(Payloads') <= Cardinality(Hashes)
    BY <2>1, WorkersAssumption, FS_Subset
  <2>3. /\ Cardinality(todo') \in Nat /\ Cardinality(Busy') \in Nat
        /\ Cardinality(Payloads') \in Nat /\ Cardinality(Hashes) \in Nat /\ checked' \in Nat
    BY <1>2, <2>2, WorkersAssumption, FS_CardinalityType DEF Typed
  <2>4. \/ checked' + Cardinality(todo') + Cardinality(Busy') = Cardinality(Payloads')
        \/ checked' = Cardinality(Payloads')
        \/ checked' + Cardinality(todo') <= Cardinality(Payloads')
        \/ checked' = 0
    BY <1>2, <1>3 DEF Rest, Counting, MainShape, InPool, Typed
  <2> HIDE DEF Busy, Payloads
  <2> QED BY <2>2, <2>3, <2>4
<1>5. TypeOK'
  <2>1. checked' \in 0..Cardinality(Hashes)
    BY <1>2, <1>4 DEF Typed
  <2> QED BY <1>2, <2>1 DEF Typed, TypeOK
<1> QED BY <1>3, <1>5 DEF Rest, StartupInv

\* A process that has just started satisfies the invariant.
LEMMA InitStartup == Init => StartupInv
<1>1. SUFFICES ASSUME Init PROVE StartupInv
  OBVIOUS
<1>2. Cardinality(Hashes) \in Nat
  BY WorkersAssumption, FS_CardinalityType
<1>3. TypeOK
  <2>1. DOMAIN meta = Hashes /\ \A h \in Hashes : meta[h] \in RecordValues
    BY <1>1 DEF Init
  <2>2. \A h \in Hashes :
          \E r \in RecordValues : \/ meta[h] = r
                                  \/ r # None /\ objects[h] # None
                                     /\ meta[h] = [r EXCEPT !.etag = objects[h].etag]
    BY <2>1
  <2>3. {lister, fault, ctxDone, cancelled, closed} \subseteq BOOLEAN
    BY <1>1, Zenon DEF Init
  <2>4. checked \in 0..Cardinality(Hashes)
    BY <1>1, <1>2 DEF Init
  <2>5. /\ worker \in [Workers -> {"off", "select", "head", "put", "fail", "gone"}]
        /\ job \in [Workers -> Hashes \cup {None}]
        /\ err \in [Workers -> Errors \cup {None}]
    BY <1>1 DEF Init
  <2>6. /\ objects \in [Hashes -> ObjectValues] /\ verdict = None /\ main = "query"
        /\ todo = {} /\ firstErr = None /\ progress = "off"
    BY <1>1 DEF Init
  <2> QED BY <2>1, <2>2, <2>3, <2>4, <2>5, <2>6 DEF TypeOK
<1>4. MainShape
  BY <1>1, ValuesAssumption DEF Init, MainShape
<1>5. Covered /\ Counting
  BY <1>1 DEF Init, Covered, Counting, InPool
<1>6. \A w \in Workers : WorkerShape(w)
  BY <1>1 DEF Init, WorkerShape, Busy
<1>7. Justified(firstErr)
  BY <1>1, ValuesAssumption DEF Init, Justified
<1> QED BY <1>1, <1>3, <1>4, <1>5, <1>6, <1>7 DEF StartupInv, Init

(***************************************************************************)
(* The theorems.                                                           *)
(***************************************************************************)

\* The invariant holds for every number of payloads and workers.
THEOREM StartupInvariant == Spec => []StartupInv
<1>1. Init => StartupInv
  BY InitStartup
<1>2. StartupInv /\ [Next]_vars => StartupInv'
  BY NextStartup
<1> QED BY <1>1, <1>2, PTL DEF Spec

\* Metadata only ever holds records it held before, with the ETag of the
\* bucket's object filled in; the count stays within the payloads.
THEOREM StartupTypes == Spec => []TypeOK
<1>1. StartupInv => TypeOK
  BY DEF StartupInv
<1> QED BY <1>1, StartupInvariant, PTL

\* validateMetadataPayloads returns with all its goroutines gone.
THEOREM NothingRunsOn == Spec => []NothingLeftRunning
<1>1. ASSUME StartupInv, verdict # None
      PROVE  /\ \A w \in Workers : worker[w] \in {"off", "gone"}
             /\ progress \in {"off", "gone"}
  <2>1. MainShape /\ main = "done"
    BY <1>1 DEF StartupInv, MainShape
  <2> QED BY <2>1 DEF MainShape
<1>2. StartupInv => NothingLeftRunning
  BY <1>1 DEF NothingLeftRunning
<1> QED BY <1>2, StartupInvariant, PTL

\* A request that another worker's error cancelled is never the error that
\* the operator reads.
THEOREM ReportedErrorIsCause == Spec => []FirstErrorIsCause
<1>1. StartupInv => FirstErrorIsCause
  BY DEF StartupInv, Justified, FirstErrorIsCause
<1> QED BY <1>1, StartupInvariant, PTL

\* A validation that has gone through every payload has counted every
\* payload.
LEMMA CountsExact == StartupInv => CheckedExact
<1>1. SUFFICES ASSUME StartupInv PROVE CheckedExact
  OBVIOUS
<1>2. /\ checked \in Nat /\ Cardinality(todo) \in Nat /\ Cardinality(Busy) \in Nat
      /\ Cardinality(Payloads) \in Nat
  BY <1>1, Finite DEF StartupInv, TypeOK
<1>3. checked + Cardinality(todo) + Cardinality(Busy) <= Cardinality(Payloads)
  <2>1. CASE InPool
    <3>1. checked + Cardinality(todo) + Cardinality(Busy) = Cardinality(Payloads)
      BY <1>1, <2>1 DEF StartupInv, Counting
    <3> QED BY <1>2, <3>1
  <2>2. CASE main \in {"query", "list"}
    <3>1. Busy = {} /\ todo = {} /\ checked = 0
      BY <1>1, <2>2 DEF StartupInv, MainShape, Busy
    <3>2. Cardinality(Busy) = 0 /\ Cardinality(todo) = 0
      BY <3>1, FS_EmptySet
    <3> QED BY <1>2, <3>1, <3>2
  <2>3. CASE main \in {"final", "done"}
    <3>1. Busy = {}
      <4>1. \A w \in Workers : worker[w] \in {"off", "gone"}
        BY <1>1, <2>3 DEF StartupInv, MainShape
      <4> QED BY <4>1 DEF Busy
    <3>2. Cardinality(Busy) = 0
      BY <3>1, FS_EmptySet
    <3>3. todo = {} => Cardinality(todo) = 0
      BY FS_EmptySet
    <3>4. \/ checked = Cardinality(Payloads) /\ todo = {}
          \/ checked + Cardinality(todo) <= Cardinality(Payloads)
      BY <1>1, <2>3 DEF StartupInv, Counting
    <3> HIDE DEF Busy, Payloads
    <3> QED BY <1>2, <3>2, <3>3, <3>4
  <2> QED BY <1>1, <2>1, <2>2, <2>3 DEF StartupInv, TypeOK, InPool
<1>4. verdict = "accept" => checked = Cardinality(Payloads)
  <2>1. SUFFICES ASSUME verdict = "accept" PROVE checked = Cardinality(Payloads)
    OBVIOUS
  <2>2. main = "done"
    BY <1>1, <2>1, ValuesAssumption DEF StartupInv, MainShape
  <2> QED BY <1>1, <2>1, <2>2 DEF StartupInv, Counting
<1> QED BY <1>3, <1>4 DEF CheckedExact, Busy

\* No payload is counted twice and an accepted validation has counted all.
THEOREM CheckedIsExact == Spec => []CheckedExact
BY CountsExact, StartupInvariant, PTL

(***************************************************************************)
(* The pool implements StartupPromise.                                     *)
(***************************************************************************)

\* Good payloads are what the promise accepts.
LEMMA AcceptsGood ==
  ASSUME verdict = None, \A h \in Hashes : Good(h), verdict' = "accept",
         UNCHANGED <<meta, objects, lister, fault, ctxDone>>
  PROVE  Promise!Next
BY DEF Good, Promise!Next, Promise!Accept

\* A refusal that has a cause.
LEMMA RefusesForCause ==
  ASSUME verdict = None, verdict' = "refuse", fault' = fault \/ fault' = TRUE,
         UNCHANGED <<meta, objects, lister, ctxDone>>,
         (\E h \in Hashes : ~Promise!Valid(h)) \/ fault' \/ ctxDone
  PROVE  Promise!Next
BY Zenon DEF Promise!Next, Promise!Refuse

\* A step of the main goroutine is a step of StartupPromise or none.
LEMMA MainPromise ==
  ASSUME StartupInv, Main
  PROVE  Promise!Next \/ UNCHANGED Promise!vars
<1> USE DEF StartupInv
<1>1. verdict = None
  BY DEF Main, Query, List, ListError, Send, SendEnd, Close, Wait, WaitProgress, Result,
         Final, MainShape
<1>2. CASE Query
  <2>1. UNCHANGED <<meta, objects, lister, fault, ctxDone>>
    BY <1>2 DEF Query, world
  <2>2. CASE Payloads = {} /\ ReturnWith("accept")
    <3>1. \A h \in Hashes : Good(h)
      BY <2>2 DEF Good, Payloads
    <3> QED BY <1>1, <2>1, <2>2, <3>1, AcceptsGood DEF ReturnWith
  <2>3. CASE UNCHANGED verdict
    BY <2>1, <2>3 DEF Promise!vars
  <2> QED BY <1>2, <2>2, <2>3 DEF Query, Go, StartPool
<1>3. CASE List
  <2>1. /\ UNCHANGED <<meta, objects, lister, fault, ctxDone>> /\ lister
    BY <1>3 DEF List, world, MainShape
  <2>2. CASE (\E h \in Payloads : ~Listed(h)) /\ ReturnWith("refuse")
    <3>1. PICK h \in Hashes : meta[h] # None /\ ~Promise!ListValid(h)
      BY <2>2 DEF Listed, Payloads
    <3>2. ~Promise!Valid(h)
      BY <3>1 DEF Promise!Valid, Promise!HeadValid
    <3> QED BY <1>1, <2>1, <2>2, <3>2, RefusesForCause DEF ReturnWith
  <2>3. CASE UNCHANGED verdict
    BY <2>1, <2>3 DEF Promise!vars
  <2> QED BY <1>3, <2>2, <2>3 DEF List, Go, StartPool
<1>4. CASE ListError
  <2>1. UNCHANGED <<meta, objects, lister, ctxDone>> /\ verdict' = "refuse"
    BY <1>4 DEF ListError, world, ReturnWith
  <2>2. fault \in BOOLEAN /\ ctxDone \in BOOLEAN
    BY DEF TypeOK
  <2>3. fault' = (fault \/ ~ctxDone) \/ fault' = TRUE
    BY <1>4 DEF ListError
  <2>4. fault' = fault \/ fault' = TRUE
    BY <2>2, <2>3, Zenon
  <2>5. fault' \/ ctxDone
    BY <2>2, <2>3, Zenon
  <2> QED BY <1>1, <2>1, <2>4, <2>5, RefusesForCause
<1>5. CASE \/ (\E w \in Workers : Send(w)) \/ SendEnd \/ Close \/ Wait \/ WaitProgress
  BY <1>5 DEF Send, SendEnd, Close, Wait, WaitProgress, Go, world, pool, Promise!vars
<1>6. CASE Result
  <2>1. UNCHANGED <<meta, objects, lister, fault, ctxDone>> /\ main = "result"
    BY <1>6 DEF Result, world
  <2>2. CASE (firstErr # None \/ ctxDone) /\ ReturnWith("refuse")
    <3>1. (\E h \in Hashes : ~Promise!Valid(h)) \/ fault \/ ctxDone
      BY <2>2 DEF Justified, TypeOK, Errors
    <3> QED BY <1>1, <2>1, <2>2, <3>1, RefusesForCause, Zenon DEF ReturnWith
  <2>3. CASE firstErr = None /\ ~ctxDone /\ ReturnWith("accept")
    BY <1>1, <2>1, <2>3, PoolDone, AcceptsGood DEF ReturnWith
  <2>4. CASE UNCHANGED verdict
    BY <2>1, <2>4 DEF Promise!vars
  <2> QED BY <1>6, <2>2, <2>3, <2>4 DEF Result, Go
<1>7. CASE Final
  <2>1. UNCHANGED <<meta, objects, lister, fault, ctxDone>> /\ main = "final"
    BY <1>7 DEF Final, world
  <2>2. CASE ctxDone /\ verdict' = "refuse"
    BY <1>1, <2>1, <2>2, RefusesForCause, Zenon
  <2>3. CASE ~ctxDone /\ verdict' = "accept"
    BY <1>1, <2>1, <2>3, AcceptsGood DEF Covered
  <2> QED BY <1>7, <2>2, <2>3 DEF Final, ReturnWith
<1> QED BY <1>2, <1>3, <1>4, <1>5, <1>6, <1>7 DEF Main

\* A step of a worker is a step of StartupPromise or none: only a stored ETag
\* shows.
LEMMA WorkerPromise ==
  ASSUME StartupInv, NEW w \in Workers, Worker(w)
  PROVE  Promise!Next \/ UNCHANGED Promise!vars
<1> USE DEF StartupInv
<1>1. CASE Leave(w) \/ Head(w) \/ RecordError(w)
  BY <1>1 DEF Leave, Head, RecordError, WorkerReturns, world, Promise!vars
<1>2. CASE HeadError(w) \/ PutError(w)
  <2>1. worker[w] \in {"head", "put"}
    BY <1>2 DEF HeadError, PutError
  <2>2. verdict = None /\ UNCHANGED <<meta, objects, lister, ctxDone, verdict>>
    BY <1>2, <2>1, ActiveMain DEF HeadError, PutError, world
  <2>3. fault' = TRUE \/ fault' = fault
    BY <1>2 DEF HeadError, PutError
  <2> QED BY <2>2, <2>3 DEF Promise!Next, Promise!Fail, Promise!vars
<1>3. CASE PutETag(w)
  <2>1. /\ worker[w] = "put" /\ verdict = None
        /\ UNCHANGED <<objects, lister, fault, ctxDone, verdict>>
    BY <1>3, ActiveMain DEF PutETag, world
  <2>2. PICK h \in Hashes : h = job[w]
    BY <2>1 DEF WorkerShape, Busy
  <2>3. meta[h] # None /\ Promise!HeadValid(h) /\ meta[h].etag = Unset
    BY <2>1, <2>2 DEF WorkerShape, Busy, Open
  <2>4. meta' = [meta EXCEPT ![h].etag = objects[h].etag]
    BY <1>3, <2>2 DEF PutETag
  <2>5. Promise!StoreETag(h)
    BY <2>1, <2>3, <2>4 DEF Promise!StoreETag
  <2> QED BY <2>5 DEF Promise!Next
<1> QED BY <1>1, <1>2, <1>3 DEF Worker

\* The pool of workers decides as if it checked the payloads one after the
\* other: it starts the server only when all agree with S3 and have their
\* ETag, refuses only for a reason, and writes only ETags of payloads that
\* agree.
THEOREM StartupRefines == Spec => KeepsPromise
<1>1. Init => Promise!Init
  BY DEF Init, Promise!Init
<1>2. StartupInv /\ [Next]_vars => [Promise!Next]_Promise!vars
  <2>1. SUFFICES ASSUME StartupInv, [Next]_vars PROVE Promise!Next \/ UNCHANGED Promise!vars
    OBVIOUS
  <2>2. CASE ProgressEnd
    BY <2>2 DEF ProgressEnd, world, Promise!vars
  <2>3. CASE Interrupt
    BY <2>3 DEF Interrupt, world, Promise!Next, Promise!Interrupt
  <2>4. CASE UNCHANGED vars
    BY <2>4 DEF vars, Promise!vars
  <2> QED BY <2>1, <2>2, <2>3, <2>4, MainPromise, WorkerPromise DEF Next
<1> QED BY <1>1, <1>2, StartupInvariant, PTL DEF Spec, KeepsPromise, Promise!Spec
=============================================================================
