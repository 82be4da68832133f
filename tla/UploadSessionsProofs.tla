------------------------ MODULE UploadSessionsProofs ------------------------
(***************************************************************************)
(* What UploadSessions promises, for every number of requests, ids, bytes  *)
(* and partial uploads.                                                    *)
(***************************************************************************)
EXTENDS UploadSessions, SequenceTheorems, WellFoundedInduction, TLAPS

USE DEF Goto, Continue

(***************************************************************************)
(* Induction over numbers: a set of naturals has a least element.          *)
(***************************************************************************)

\* The well-founded order of the naturals, without an operator parameter.
LEMMA LeastNumber ==
  ASSUME NEW T \in SUBSET Nat, T # {}
  PROVE  \E x \in T : \A y \in T : x <= y
<1> DEFINE R == OpToRel(<, Nat)
<1>1. IsWellFoundedOn(R, Nat)
  BY NatLessThanWellFounded
<1>2. \A x, y \in Nat : <<y, x>> \in R <=> y < x
  BY DEF OpToRel
<1> HIDE DEF R
<1>3. PICK x \in T : \A y \in T : ~(<<y, x>> \in R)
  BY <1>1, WFMin
<1>4. ASSUME NEW y \in T PROVE x <= y
  <2>1. x \in Nat /\ y \in Nat
    OBVIOUS
  <2>2. ~(y < x)
    BY <1>2, <1>3, <2>1
  <2> QED BY <2>1, <2>2
<1> QED BY <1>4

\* f adds up the first N values of g.
SumsUp(f, g, N) == f = [k \in 0..N |-> IF k = 0 THEN 0 ELSE f[k - 1] + g[k]]

\* A recursive sum exists: extend the one that is a step shorter.
LEMMA SumExists ==
  ASSUME NEW N \in Nat, NEW g \in [1..N -> Nat]
  PROVE  \E f \in [0..N -> Nat] : SumsUp(f, g, N)
<1> DEFINE Sums(m) == {f \in [0..m -> Nat] : SumsUp(f, g, m)}
           Bad == {m \in 0..N : Sums(m) = {}}
<1>1. SUFFICES ASSUME Bad # {} PROVE FALSE
  <2>1. N \notin Bad
    BY <1>1
  <2> QED BY <2>1
<1>2. PICK m \in Bad : \A k \in Bad : m <= k
  <2>1. Bad \in SUBSET Nat
    OBVIOUS
  <2> HIDE DEF Bad
  <2> QED BY <1>1, <2>1, LeastNumber
<1>3. CASE m = 0
  <2> DEFINE z == [k \in 0..0 |-> 0]
  <2>1. z \in [0..0 -> Nat] /\ SumsUp(z, g, 0)
    BY DEF SumsUp
  <2> HIDE DEF z
  <2>2. z \in Sums(0)
    BY <2>1
  <2>3. Sums(m) = {}
    OBVIOUS
  <2> HIDE DEF Sums
  <2> QED BY <1>3, <2>2, <2>3
<1>4. CASE m # 0
  <2>1. m \in 1..N /\ m - 1 \in 0..N /\ m - 1 \notin Bad
    <3>1. m \in 1..N /\ m - 1 \in 0..N
      BY <1>4
    <3> HIDE DEF Bad
    <3> QED BY <1>2, <3>1
  <2>2. PICK f \in Sums(m - 1) : TRUE
    BY <2>1
  <2> DEFINE e == [k \in 0..m |-> IF k = m THEN f[m - 1] + g[m] ELSE f[k]]
  <2>3. f \in [0..(m - 1) -> Nat] /\ f[m - 1] \in Nat /\ g[m] \in Nat
    BY <2>1, <2>2
  <2>4. e \in [0..m -> Nat]
    BY <2>1, <2>3
  <2>5. ASSUME NEW k \in 0..m
        PROVE  e[k] = IF k = 0 THEN 0 ELSE e[k - 1] + g[k]
    <3>1. CASE k = m
      BY <2>1, <3>1
    <3>2. CASE k # m
      <4>1. k \in 0..(m - 1) /\ e[k] = f[k]
        BY <2>1, <3>2
      <4>2. f[k] = IF k = 0 THEN 0 ELSE f[k - 1] + g[k]
        BY <2>2, <4>1 DEF SumsUp
      <4> QED BY <2>1, <4>1, <4>2
    <3> QED BY <3>1, <3>2
  <2>6. SumsUp(e, g, m)
    <3> HIDE DEF e
    <3> QED BY <2>4, <2>5 DEF SumsUp
  <2> HIDE DEF e
  <2>7. e \in Sums(m)
    BY <2>4, <2>6
  <2> QED BY <2>7
<1> QED BY <1>3, <1>4

\* Whatever satisfies the recursion is a natural number everywhere.
LEMMA SumTyped ==
  ASSUME NEW N \in Nat, NEW g \in [1..N -> Nat], NEW f, SumsUp(f, g, N)
  PROVE  f[N] \in Nat
<1> DEFINE Bad == {m \in 0..N : f[m] \notin Nat}
<1>1. ASSUME NEW k \in 0..N PROVE f[k] = IF k = 0 THEN 0 ELSE f[k - 1] + g[k]
  BY DEF SumsUp
<1>2. CASE Bad = {}
  BY <1>2
<1>3. CASE Bad # {}
  <2>1. PICK m \in Bad : \A k \in Bad : m <= k
    <3>1. Bad \in SUBSET Nat
      OBVIOUS
    <3> HIDE DEF Bad
    <3> QED BY <1>3, <3>1, LeastNumber
  <2>2. m # 0
    BY <1>1, <2>1
  <2>3. m \in 1..N /\ m - 1 \in 0..N /\ m - 1 \notin Bad
    BY <2>1, <2>2
  <2>4. f[m] = f[m - 1] + g[m] /\ f[m - 1] \in Nat /\ g[m] \in Nat
    BY <1>1, <2>2, <2>3
  <2> QED BY <2>1, <2>4
<1> QED BY <1>2, <1>3

\* The declared length of a concatenation is a number.
LEMMA TotalTyped ==
  ASSUME NEW rs \in Seq(Ids),
         \A k \in 1..Len(rs) : sessions[rs[k]] \in Sessions
  PROVE  TotalLength(rs) \in Nat
<1> DEFINE N == Len(rs)
           g == [k \in 1..N |-> sessions[rs[k]].length]
           Eq(f) == f = [k \in 0..N |-> IF k = 0 THEN 0
                                        ELSE f[k - 1] + sessions[rs[k]].length]
           total == CHOOSE f : Eq(f)
<1>1. N \in Nat /\ g \in [1..N -> Nat]
  BY DEF Sessions
<1>2. TotalLength(rs) = total[N]
  BY Zenon DEF TotalLength
<1>3. ASSUME NEW f PROVE Eq(f) <=> SumsUp(f, g, N)
  <2>1. \A k \in 1..N : g[k] = sessions[rs[k]].length
    OBVIOUS
  <2>2. [k \in 0..N |-> IF k = 0 THEN 0 ELSE f[k - 1] + sessions[rs[k]].length]
          = [k \in 0..N |-> IF k = 0 THEN 0 ELSE f[k - 1] + g[k]]
    <3> HIDE DEF g
    <3> QED BY <1>1, <2>1
  <2> QED BY <2>2 DEF SumsUp
<1>4. Eq(total)
  <2>1. \E f : Eq(f)
    BY <1>1, <1>3, SumExists
  <2> HIDE DEF Eq
  <2> QED BY <2>1
<1>5. SumsUp(total, g, N)
  BY <1>3, <1>4
<1> HIDE DEF N, g, total
<1> QED BY <1>1, <1>2, <1>5, SumTyped

(***************************************************************************)
(* Sequences of bytes.                                                     *)
(***************************************************************************)

\* A chunk is a sequence of its length.
LEMMA SliceTyped ==
  ASSUME NEW b \in Nat, NEW k \in Nat
  PROVE  Slice(b, k) \in Seq(Bytes) /\ Len(Slice(b, k)) = k
<1>1. Slice(b, k) \in [1..k -> Nat]
  BY DEF Slice
<1> QED BY <1>1 DEF Bytes

\* Two chunks that follow each other are one.
LEMMA SliceJoined ==
  ASSUME NEW b \in Nat, NEW k \in Nat, NEW m \in Nat
  PROVE  Slice(b, k) \o Slice(b + k, m) = Slice(b, k + m)
<1> DEFINE s == Slice(b, k)
           t == Slice(b + k, m)
           u == Slice(b, k + m)
<1>1. /\ s \in Seq(Bytes) /\ Len(s) = k
      /\ t \in Seq(Bytes) /\ Len(t) = m
      /\ u \in Seq(Bytes) /\ Len(u) = k + m
  <2>1. b + k \in Nat /\ k + m \in Nat
    OBVIOUS
  <2> QED BY <2>1, SliceTyped
<1>2. /\ \A i \in 1..k : s[i] = b + i
      /\ \A i \in 1..m : t[i] = b + k + i
      /\ \A i \in 1..(k + m) : u[i] = b + i
  BY DEF Slice
<1> HIDE DEF s, t, u
<1>3. s \o t \in Seq(Bytes) /\ Len(s \o t) = k + m
  BY <1>1
<1>4. ASSUME NEW i \in 1..(k + m) PROVE (s \o t)[i] = u[i]
  <2>1. CASE i <= k
    BY <1>1, <1>2, <2>1
  <2>2. CASE i > k
    <3>1. PICK j \in 1..m : i = k + j
      <4>1. i - k \in 1..m /\ i = k + (i - k)
        BY <2>2
      <4> QED BY <4>1
    <3>2. (s \o t)[k + j] = t[j]
      BY <1>1, <3>1
    <3>3. t[j] = u[k + j]
      BY <1>2, <3>1
    <3> QED BY <3>1, <3>2, <3>3
  <2>3. i <= k \/ i > k
    OBVIOUS
  <2> QED BY <2>1, <2>2, <2>3, Zenon
<1>5. s \o t = u
  BY <1>1, <1>3, <1>4, SeqEqual
<1> QED BY <1>5 DEF s, t, u

(***************************************************************************)
(* Types.                                                                  *)
(***************************************************************************)

\* What the invariant says of the id a request works on.
LEMMA NamedId ==
  ASSUME UploadInv, NEW p \in Procs, pc[p] \notin {"idle", "createFile"}
  PROVE  id[p] \in Ids /\ id[p] \in used
BY DEF UploadInv, RequestShape, Named, TypeOK

\* The end of a request keeps the types.
LEMMA FreeTyped ==
  ASSUME TypeOK, NEW p \in Procs, Free(p)
  PROVE  /\ pc' \in [Procs -> Labels]
         /\ id' \in [Procs -> Ids \cup {None}]
         /\ off' \in [Procs -> Nat]
         /\ n' \in [Procs -> 0..MaxChunk]
         /\ kind' \in [Procs -> Kinds]
         /\ refs' \in [Procs -> Seq(Ids)]
         /\ unlink' \in [Procs -> SUBSET Ids]
BY UploadConstants DEF TypeOK, Free, Labels, Kinds

\* A new request.
LEMMA RequestTyped ==
  ASSUME UploadInv, NEW p \in Procs, Request(p)
  PROVE  TypeOK'
<1> USE DEF UploadInv
<1>1. ASSUME NEW k \in Kinds, NEW m \in 0..MaxChunk, StartCreate(p, k, m)
      PROVE  TypeOK'
  BY <1>1 DEF StartCreate, TypeOK, Labels, cleaner
<1>2. ASSUME NEW i \in Ids, NEW o \in 0..MaxFile, NEW m \in 0..MaxChunk,
             StartPatch(p, i, o, m)
      PROVE  TypeOK'
  BY <1>2, UploadConstants DEF StartPatch, TypeOK, Labels, cleaner
<1>3. ASSUME NEW i \in Ids, StartDelete(p, i) PROVE TypeOK'
  BY <1>3 DEF StartDelete, TypeOK, Labels, cleaner
<1>4. ASSUME NEW code \in {"refused", "incomplete"}, Refuse(code) PROVE TypeOK'
  BY <1>4 DEF Refuse, TypeOK, cleaner, locals
<1>5. ASSUME NEW rs \in RefLists, StartFinal(p, rs) PROVE TypeOK'
  <2>1. rs \in Seq(Ids)
    BY UploadConstants DEF RefLists
  <2>2. \A k \in 1..Len(rs) : sessions[rs[k]] \in Sessions
    BY <1>5, <2>1 DEF StartFinal, Active, TypeOK
  <2>3. TotalLength(rs) \in Nat
    BY <2>1, <2>2, TotalTyped
  <2> QED BY <1>5, <2>1, <2>3 DEF StartFinal, TypeOK, Labels, Kinds, cleaner
<1> QED
  BY <1>1, <1>2, <1>3, <1>4, <1>5 DEF Request, GoneRefused, FinalIncomplete

\* Creating a session.
LEMMA CreateTyped ==
  ASSUME UploadInv, NEW p \in Procs,
         \/ \E i \in Ids, b \in 0..PayloadLen : CreateFile(p, i, b)
         \/ CreatePut(p) \/ CreatePutError(p)
  PROVE  TypeOK'
<1> USE DEF UploadInv
<1>1. ASSUME NEW i \in Ids, NEW b \in 0..PayloadLen, CreateFile(p, i, b)
      PROVE  TypeOK'
  BY <1>1 DEF CreateFile, TypeOK, Labels, cleaner
<1>2. CASE CreatePut(p)
  <2> DEFINE s == [kind |-> kind[p], length |-> NewLength(p), offset |-> 0,
                   refs |-> refs[p], expires |-> now + Expiration, done |-> FALSE]
  <2>1. NewLength(p) \in Nat
    <3>1. kind[p] \in Kinds /\ off[p] \in Nat
      BY DEF TypeOK
    <3> QED BY <3>1, UploadConstants DEF NewLength, Kinds
  <2>2. s \in Sessions
    BY <2>1, UploadConstants DEF TypeOK, Sessions
  <2>3. id[p] \in Ids
    BY <1>2, NamedId DEF CreatePut
  <2>4. sessions' = [sessions EXCEPT ![id[p]] = s]
    BY <1>2 DEF CreatePut
  <2> HIDE DEF s
  <2>5. sessions' \in [Ids -> Sessions \cup {None}]
    BY <2>2, <2>3, <2>4 DEF TypeOK
  <2>6. CASE Free(p) /\ answer' = "ok"
    BY <1>2, <2>5, <2>6, FreeTyped DEF CreatePut, TypeOK, cleaner
  <2>7. CASE UNCHANGED locals
    BY <1>2, <2>5, <2>7 DEF CreatePut, Answer, TypeOK, Labels, cleaner, locals, Free
  <2> QED BY <1>2, <2>6, <2>7 DEF CreatePut, Answer
<1>3. CASE CreatePutError(p)
  BY <1>3, FreeTyped DEF CreatePutError, Answer, TypeOK, cleaner
<1> QED BY <1>1, <1>2, <1>3

\* A session whose offset and expiry are replaced is a session.
LEMMA TouchedTyped ==
  ASSUME TypeOK, NEW i \in Ids, sessions[i] # None, NEW o \in Nat,
         sessions' = [sessions EXCEPT ![i].offset = o,
                                      ![i].expires = now + Expiration]
  PROVE  /\ sessions' \in [Ids -> Sessions \cup {None}]
         /\ sessions'[i] # None
         /\ sessions'[i].offset = o
         /\ sessions'[i].kind = sessions[i].kind
         /\ sessions'[i].length = sessions[i].length
         /\ \A j \in Ids \ {i} : sessions'[j] = sessions[j]
<1> DEFINE s == [sessions[i] EXCEPT !.offset = o, !.expires = now + Expiration]
<1>1. sessions[i] \in Sessions /\ now + Expiration \in Nat
  BY UploadConstants DEF TypeOK
<1>2. /\ s \in Sessions /\ s.offset = o /\ s.kind = sessions[i].kind
      /\ s.length = sessions[i].length
  BY <1>1 DEF Sessions
<1>3. sessions' = [sessions EXCEPT ![i] = s]
  BY DEF TypeOK
<1> HIDE DEF s
<1>4. sessions'[i] = s /\ s # None /\ \A j \in Ids \ {i} : sessions'[j] = sessions[j]
  BY <1>2, <1>3, UploadConstants DEF TypeOK
<1>5. sessions' \in [Ids -> Sessions \cup {None}]
  BY <1>2, <1>3 DEF TypeOK
<1> QED BY <1>2, <1>4, <1>5

\* Store.Append.
LEMMA AppendTyped ==
  ASSUME UploadInv, NEW p \in Procs,
         AppendRefused(p) \/ AppendWrite(p) \/ AppendCommit(p) \/ AppendError(p)
  PROVE  TypeOK'
<1> USE DEF UploadInv
<1>1. id[p] \in Ids
  BY NamedId DEF AppendRefused, AppendWrite, AppendCommit, AppendError
<1>2. Chunk(p) \in Seq(Bytes) /\ Len(Chunk(p)) = n[p]
  <2>1. base[id[p]] + off[p] \in Nat /\ n[p] \in Nat
    BY <1>1, UploadConstants DEF TypeOK
  <2> QED BY <2>1, SliceTyped DEF Chunk
<1>3. CASE AppendRefused(p)
  BY <1>3, FreeTyped DEF AppendRefused, Answer, TypeOK, cleaner
<1>4. CASE AppendWrite(p)
  <2>1. files[id[p]] \o Chunk(p) \in Seq(Bytes)
    BY <1>1, <1>2, <1>4 DEF AppendWrite, Appendable, TypeOK
  <2> QED BY <1>1, <1>4, <2>1 DEF AppendWrite, TypeOK, Labels, cleaner, locals
<1>5. CASE AppendCommit(p)
  <2>1. /\ sessions[id[p]] # None /\ sessions[id[p]] \in Sessions
        /\ sessions[id[p]].offset + n[p] \in Nat
    BY <1>1, <1>5 DEF AppendCommit, RequestShape, TypeOK, Sessions
  <2>2. sessions' \in [Ids -> Sessions \cup {None}]
    <3>1. PICK o \in Nat : o = sessions[id[p]].offset + n[p]
      BY <2>1
    <3>2. sessions' = [sessions EXCEPT ![id[p]].offset = o,
                                       ![id[p]].expires = now + Expiration]
      BY <1>1, <1>5, <3>1 DEF AppendCommit, TypeOK
    <3> QED BY <1>1, <2>1, <3>2, TouchedTyped
  <2>3. CASE Free(p) /\ answer' = "ok"
    BY <1>5, <2>2, <2>3, FreeTyped DEF AppendCommit, TypeOK, cleaner
  <2>4. CASE UNCHANGED locals /\ Continue(p, "read")
    BY <1>5, <2>2, <2>4 DEF AppendCommit, TypeOK, Labels, cleaner, locals
  <2> QED BY <1>5, <2>3, <2>4 DEF AppendCommit, Answer
<1>6. CASE AppendError(p)
  <2>1. files' \in [Ids -> Seq(Bytes) \cup {None}]
    <3>1. CASE files' = files
      BY <3>1 DEF TypeOK
    <3>2. ASSUME NEW k \in 0..n[p], files[id[p]] # None,
                 files' = [files EXCEPT ![id[p]] = @ \o SubSeq(Chunk(p), 1, k)]
          PROVE  files' \in [Ids -> Seq(Bytes) \cup {None}]
      <4>1. SubSeq(Chunk(p), 1, k) \in Seq(Bytes)
        BY <1>2 DEF TypeOK
      <4>2. files[id[p]] \in Seq(Bytes)
        BY <1>1, <3>2 DEF TypeOK
      <4>3. files[id[p]] \o SubSeq(Chunk(p), 1, k) \in Seq(Bytes)
        BY <4>1, <4>2
      <4> QED BY <1>1, <3>2, <4>3 DEF TypeOK
    <3> QED BY <1>6, <3>1, <3>2 DEF AppendError, Appendable
  <2>2. tx' \in Procs \cup {None}
    BY <1>6 DEF AppendError, TypeOK
  <2> QED BY <1>6, <2>1, <2>2, FreeTyped DEF AppendError, Answer, TypeOK, cleaner
<1> QED BY <1>3, <1>4, <1>5, <1>6

\* finalizeUpload and Terminate.
LEMMA FinalizeTyped ==
  ASSUME UploadInv, NEW p \in Procs,
         \/ FinalizeRead(p) \/ FinalizeStore(p) \/ MarkCompleted(p)
         \/ Terminate(p) \/ TransactionError(p) \/ (\E i \in Ids : Unlink(p, i))
  PROVE  TypeOK'
<1> USE DEF UploadInv
<1>1. CASE FinalizeRead(p)
  <2>1. CASE Free(p)
    BY <1>1, <2>1, FreeTyped DEF FinalizeRead, Answer, TypeOK, cleaner
  <2>2. CASE UNCHANGED locals /\ Continue(p, "store")
    BY <1>1, <2>2 DEF FinalizeRead, TypeOK, Labels, cleaner, locals
  <2> QED BY <1>1, <2>1, <2>2 DEF FinalizeRead, Answer
<1>2. CASE FinalizeStore(p)
  <2>1. CASE Free(p)
    BY <1>2, <2>1, FreeTyped DEF FinalizeStore, Answer, TypeOK, cleaner
  <2>2. CASE UNCHANGED locals /\ Continue(p, "complete") /\ stored' = TRUE
    BY <1>2, <2>2 DEF FinalizeStore, TypeOK, Labels, cleaner, locals
  <2> QED BY <1>2, <2>1, <2>2 DEF FinalizeStore, Answer
<1>3. CASE MarkCompleted(p)
  <2>1. id[p] \in Ids
    BY <1>3, NamedId DEF MarkCompleted
  <2>2. CASE Free(p) /\ answer' = "refused" /\ UNCHANGED <<sessions, completed>>
    BY <1>3, <2>2, FreeTyped DEF MarkCompleted, TypeOK, cleaner
  <2>3. CASE sessions[id[p]] # None /\ Continue(p, "unlink")
    <3> DEFINE gone == {id[p]} \cup {i \in PartialsOf(sessions[id[p]]) :
                                       sessions[i] # None}
    <3>1. sessions[id[p]] \in Sessions
      BY <2>1, <2>3 DEF TypeOK
    <3>2. PartialsOf(sessions[id[p]]) \in SUBSET Ids
      BY <3>1 DEF PartialsOf, Sessions
    <3>3. gone \in SUBSET Ids
      BY <2>1, <3>2
    <3>4. pc[p] # "idle" /\ pc'[p] = "unlink"
      BY <1>3, <2>3 DEF MarkCompleted, TypeOK
    <3>5. /\ sessions' = [i \in Ids |-> IF i \in gone THEN None ELSE sessions[i]]
          /\ unlink' = [unlink EXCEPT ![p] = gone]
          /\ completed' = [completed EXCEPT ![id[p]] = IF @ < 2 THEN @ + 1 ELSE @]
          /\ UNCHANGED <<id, off, n, kind, refs>>
      BY <1>3, <2>3 DEF MarkCompleted
    <3> HIDE DEF gone
    <3>6. sessions' \in [Ids -> Sessions \cup {None}]
      BY <3>5 DEF TypeOK
    <3>7. completed' \in [Ids -> 0..2]
      BY <3>5, <2>1 DEF TypeOK
    <3>8. unlink' \in [Procs -> SUBSET Ids]
      BY <3>3, <3>5 DEF TypeOK
    <3> QED BY <1>3, <2>3, <3>5, <3>6, <3>7, <3>8 DEF MarkCompleted, TypeOK, Labels, cleaner
  <2> QED BY <1>3, <2>2, <2>3 DEF MarkCompleted, Answer
<1>4. CASE Terminate(p)
  <2>1. id[p] \in Ids
    BY <1>4, NamedId DEF Terminate
  <2>2. sessions' \in [Ids -> Sessions \cup {None}]
    BY <1>4, <2>1 DEF Terminate, TypeOK
  <2>3. CASE Free(p) /\ answer' \in {"ok", "refused"}
    BY <1>4, <2>2, <2>3, FreeTyped DEF Terminate, TypeOK, cleaner
  <2>4. CASE /\ unlink' = [unlink EXCEPT ![p] = {id[p]}]
             /\ \E l \in UnlinkLabels : Continue(p, l)
             /\ UNCHANGED <<id, off, n, kind, refs>>
    BY <1>4, <2>1, <2>2, <2>4 DEF Terminate, TypeOK, Labels, UnlinkLabels, cleaner
  <2> QED BY <1>4, <2>3, <2>4 DEF Terminate, Answer, UnlinkLabels
<1>5. CASE TransactionError(p)
  BY <1>5, FreeTyped DEF TransactionError, Answer, TypeOK, cleaner
<1>6. ASSUME NEW i \in Ids, Unlink(p, i) PROVE TypeOK'
  <2>1. files' \in [Ids -> Seq(Bytes) \cup {None}]
    BY <1>6 DEF Unlink, TypeOK
  <2>2. CASE Free(p) /\ answer' \in {"ok", "refused"}
    BY <1>6, <2>1, <2>2, FreeTyped DEF Unlink, TypeOK, cleaner
  <2>3. CASE /\ unlink' = [unlink EXCEPT ![p] = @ \ {i}] /\ answer' = None
             /\ UNCHANGED <<pc, id, off, n, kind, refs>>
    BY <1>6, <2>1, <2>3 DEF Unlink, TypeOK, cleaner
  <2> QED BY <1>6, <2>2, <2>3 DEF Unlink, Answer
<1> QED BY <1>1, <1>2, <1>3, <1>4, <1>5, <1>6

\* BuildFinalFromPartials.
LEMMA ConcatTyped ==
  ASSUME UploadInv, NEW p \in Procs,
         CopyPartial(p) \/ CopyDone(p) \/ RefreshOffset(p)
  PROVE  TypeOK'
<1> USE DEF UploadInv
<1>1. id[p] \in Ids
  BY NamedId DEF CopyPartial, CopyDone, RefreshOffset
<1>2. CASE CopyPartial(p)
  <2>1. refs[p] \in Seq(Ids) /\ refs[p] # <<>> /\ Head(refs[p]) \in Ids
        /\ Tail(refs[p]) \in Seq(Ids)
    BY <1>2 DEF CopyPartial, TypeOK
  <2>2. CASE UNCHANGED <<files, refs>>
    BY <1>2, <2>2 DEF CopyPartial, TypeOK, Labels, cleaner
  <2>3. CASE /\ files[Head(refs[p])] # None
             /\ files' = [files EXCEPT ![id[p]] =
                            IF @ = None THEN None ELSE @ \o files[Head(refs[p])]]
             /\ refs' = [refs EXCEPT ![p] = Tail(@)]
    <3>1. files[Head(refs[p])] \in Seq(Bytes)
      BY <2>1, <2>3 DEF TypeOK
    <3> DEFINE f == IF files[id[p]] = None THEN None
                    ELSE files[id[p]] \o files[Head(refs[p])]
    <3>2. f \in Seq(Bytes) \cup {None}
      BY <1>1, <3>1 DEF TypeOK
    <3>3. files' = [files EXCEPT ![id[p]] = f]
      BY <1>1, <2>3 DEF TypeOK
    <3> HIDE DEF f
    <3>4. files' \in [Ids -> Seq(Bytes) \cup {None}]
      BY <3>2, <3>3 DEF TypeOK
    <3> QED BY <1>2, <2>1, <2>3, <3>4 DEF CopyPartial, TypeOK, Labels, cleaner
  <2> QED BY <1>2, <2>2, <2>3 DEF CopyPartial
<1>3. CASE CopyDone(p)
  BY <1>3 DEF CopyDone, TypeOK, Labels, cleaner, locals
<1>4. CASE RefreshOffset(p)
  <2>1. CASE Free(p) /\ answer' = "refused" /\ UNCHANGED sessions
    BY <1>4, <2>1, FreeTyped DEF RefreshOffset, TypeOK, cleaner
  <2>2. CASE sessions[id[p]] # None /\ UNCHANGED locals /\ Continue(p, "read")
    <3>1. PICK o \in Nat : o = off[p]
      BY DEF TypeOK
    <3>2. sessions' = [sessions EXCEPT ![id[p]].offset = o,
                                       ![id[p]].expires = now + Expiration]
      BY <1>4, <2>2, <3>1 DEF RefreshOffset
    <3>3. sessions' \in [Ids -> Sessions \cup {None}]
      BY <1>1, <2>2, <3>2, TouchedTyped
    <3> QED BY <1>4, <2>2, <3>3 DEF RefreshOffset, TypeOK, Labels, cleaner, locals
  <2> QED BY <1>4, <2>1, <2>2 DEF RefreshOffset, Answer
<1> QED BY <1>2, <1>3, <1>4

\* Every step keeps the types.
LEMMA NextTyped ==
  ASSUME UploadInv, [Next]_vars
  PROVE  TypeOK'
<1> USE DEF UploadInv
<1>1. CASE Clean
  <2>1. CASE CleanScan
    BY <1>1, <2>1 DEF CleanScan, TypeOK, locals
  <2>2. ASSUME NEW i \in Ids, CleanTerminate(i) PROVE TypeOK'
    BY <2>2 DEF CleanTerminate, TypeOK, locals
  <2>3. CASE CleanUnlink
    BY <2>3 DEF CleanUnlink, TypeOK, locals
  <2> QED BY <1>1, <2>1, <2>2, <2>3 DEF Clean
<1>2. CASE Tick
  BY <1>2, UploadConstants DEF Tick, TypeOK, locals, cleaner
<1>3. CASE Crash
  BY <1>3, UploadConstants DEF Crash, TypeOK, Labels, Kinds
<1>4. CASE UNCHANGED vars
  BY <1>4 DEF vars, TypeOK
<1>5. ASSUME NEW p \in Procs, Request(p) \/ Step(p) PROVE TypeOK'
  BY <1>5, RequestTyped, CreateTyped, AppendTyped, FinalizeTyped, ConcatTyped DEF Step
<1> QED BY <1>1, <1>2, <1>3, <1>4, <1>5 DEF Next

(***************************************************************************)
(* The invariant.                                                          *)
(***************************************************************************)

\* What a step of p leaves alone: the other requests.
Others(p) ==
  \A q \in Procs \ {p} :
    /\ pc'[q] = pc[q] /\ id'[q] = id[q] /\ off'[q] = off[q]
    /\ n'[q] = n[q] /\ unlink'[q] = unlink[q]

\* The invariant beyond the types.
Shape ==
  /\ SessionHasFile /\ AckedBytesKept
  /\ \A p \in Procs : RequestShape(p)
  /\ \A i \in Ids : IdShape(i)

\* A request that answers is idle again and has nothing left to remove.
LEMMA Freed ==
  ASSUME TypeOK, NEW p \in Procs, Free(p)
  PROVE  Others(p) /\ pc'[p] = "idle" /\ unlink'[p] = {}
BY DEF TypeOK, Free, Others

\* A request that moves on and keeps what it holds.
LEMMA Moved ==
  ASSUME TypeOK, NEW p \in Procs, NEW l, Continue(p, l), UNCHANGED locals
  PROVE  /\ Others(p) /\ pc'[p] = l /\ id'[p] = id[p] /\ off'[p] = off[p]
         /\ n'[p] = n[p] /\ unlink'[p] = unlink[p]
BY DEF TypeOK, Others, locals

\* A step of one request outside every store call: the request may name an id
\* that was drawn, or give up.
LEMMA QuietShape ==
  ASSUME UploadInv, NEW p \in Procs, Others(p),
         UNCHANGED <<sessions, files, used, cleaning, completed>>,
         stored' \in BOOLEAN, stored => stored',
         tx' = IF tx = p THEN None ELSE tx,
         pc'[p] \in {"idle", "createFile", "append", "terminate", "read", "store",
                     "complete", "abort"},
         pc'[p] \notin {"idle", "createFile"} =>
           /\ id'[p] \in used
           /\ (id'[p] = id[p] /\ Named(p)) \/ sessions[id'[p]] # None,
         pc'[p] = "complete" => stored',
         unlink'[p] = {}
  PROVE  Shape'
<1> USE DEF UploadInv
<1>1. SessionHasFile' /\ AckedBytesKept'
  BY DEF SessionHasFile, AckedBytesKept
<1>2. ASSUME NEW i \in Ids, Doomed(i) PROVE Doomed(i)'
  BY <1>2 DEF Doomed, Others
<1>3. ASSUME NEW i \in Ids PROVE IdShape(i)'
  BY <1>2 DEF IdShape
<1>4. ASSUME NEW q \in Procs PROVE RequestShape(q)'
  <2>1. CASE q = p
    BY <2>1, UploadConstants DEF RequestShape, Named, UnlinkLabels, TypeOK
  <2>2. CASE q # p
    <3>1. RequestShape(q)
      OBVIOUS
    <3>2. /\ pc'[q] = pc[q] /\ id'[q] = id[q] /\ off'[q] = off[q]
          /\ n'[q] = n[q] /\ unlink'[q] = unlink[q] /\ (tx' = q <=> tx = q)
      BY <2>2, UploadConstants DEF Others
    <3>3. \A i \in unlink'[q] : pc'[q] \in UnlinkLabels /\ Doomed(i)'
      BY <1>2, <3>1, <3>2 DEF RequestShape, TypeOK
    <3>4. pc[q] = "createPut" => \A r \in Procs : r # q /\ Named(r)' => id'[r] # id'[q]
      BY <3>1, <3>2 DEF RequestShape, Named, Others
    <3> QED BY <3>1, <3>2, <3>3, <3>4 DEF RequestShape, Named
  <2> QED BY <2>1, <2>2
<1> QED BY <1>1, <1>3, <1>4 DEF Shape

\* A step that touches nothing the invariant reads.
LEMMA StutterShape ==
  ASSUME UploadInv,
         UNCHANGED <<sessions, files, used, stored, tx, cleaning, completed, pc,
                     id, off, n, unlink>>
  PROVE  Shape'
BY DEF UploadInv, Shape, SessionHasFile, AckedBytesKept, RequestShape, IdShape,
       Doomed, Named

\* A new request holds nothing yet.
LEMMA RequestShaped ==
  ASSUME UploadInv, NEW p \in Procs, Request(p)
  PROVE  Shape'
<1> USE DEF UploadInv
<1>1. pc[p] = "idle" => unlink[p] = {} /\ tx # p
  BY DEF RequestShape, UnlinkLabels
<1>2. ASSUME NEW k \in Kinds, NEW m \in 0..MaxChunk, StartCreate(p, k, m)
      PROVE  Shape'
  <2>1. Others(p) /\ pc'[p] = "createFile" /\ unlink'[p] = {}
    BY <1>1, <1>2 DEF StartCreate, TypeOK, Others
  <2> QED BY <1>1, <1>2, <2>1, QuietShape DEF StartCreate, cleaner, TypeOK
<1>3. ASSUME NEW i \in Ids, NEW o \in 0..MaxFile, NEW m \in 0..MaxChunk,
             StartPatch(p, i, o, m)
      PROVE  Shape'
  <2>1. /\ Others(p) /\ pc'[p] = "append" /\ unlink'[p] = {}
        /\ id'[p] = i /\ sessions[i] # None
    BY <1>1, <1>3 DEF StartPatch, TypeOK, Others, Active
  <2>2. i \in used
    BY <2>1 DEF IdShape
  <2> QED BY <1>1, <1>3, <2>1, <2>2, QuietShape DEF StartPatch, cleaner, TypeOK
<1>4. ASSUME NEW i \in Ids, StartDelete(p, i) PROVE Shape'
  <2>1. /\ Others(p) /\ pc'[p] = "terminate" /\ unlink'[p] = {}
        /\ id'[p] = i /\ sessions[i] # None
    BY <1>1, <1>4 DEF StartDelete, TypeOK, Others, Active
  <2>2. i \in used
    BY <2>1 DEF IdShape
  <2> QED BY <1>1, <1>4, <2>1, <2>2, QuietShape DEF StartDelete, cleaner, TypeOK
<1>5. ASSUME NEW rs \in RefLists, StartFinal(p, rs) PROVE Shape'
  <2>1. Others(p) /\ pc'[p] = "createFile" /\ unlink'[p] = {}
    BY <1>1, <1>5 DEF StartFinal, TypeOK, Others
  <2> QED BY <1>1, <1>5, <2>1, QuietShape DEF StartFinal, cleaner, TypeOK
<1>6. ASSUME NEW code, Refuse(code) PROVE Shape'
  BY <1>6, StutterShape DEF Refuse, cleaner, locals
<1> QED
  BY <1>2, <1>3, <1>4, <1>5, <1>6 DEF Request, GoneRefused, FinalIncomplete

\* A request that gives up.
LEMMA GaveUpShape ==
  ASSUME UploadInv, NEW p \in Procs, Free(p),
         UNCHANGED <<sessions, files, used, stored, cleaning, completed>>,
         tx' = IF tx = p THEN None ELSE tx
  PROVE  Shape'
BY Freed, QuietShape DEF UploadInv, TypeOK

\* The file of a new session: nobody knows its id.
LEMMA CreateFileShape ==
  ASSUME UploadInv, NEW p \in Procs, NEW i \in Ids, NEW b \in 0..PayloadLen,
         CreateFile(p, i, b)
  PROVE  Shape'
<1> USE DEF UploadInv
<1>1. /\ Others(p) /\ pc'[p] = "createPut" /\ id'[p] = i /\ unlink'[p] = unlink[p]
      /\ files'[i] = <<>> /\ \A j \in Ids \ {i} : files'[j] = files[j]
      /\ used' = used \cup {i} /\ i \notin used
      /\ UNCHANGED <<sessions, stored, tx, cleaning, completed>>
      /\ pc[p] = "createFile"
  BY DEF CreateFile, TypeOK, Others, cleaner
<1>2. sessions[i] = None /\ completed[i] = 0
  BY <1>1 DEF IdShape
<1>3. unlink[p] = {} /\ tx # p
  BY <1>1 DEF RequestShape, UnlinkLabels
<1>4. SessionHasFile' /\ AckedBytesKept'
  BY <1>1, <1>2 DEF SessionHasFile, AckedBytesKept
<1>5. ASSUME NEW j \in Ids, Doomed(j) PROVE Doomed(j)'
  BY <1>1, <1>5 DEF Doomed, Others
<1>6. ASSUME NEW j \in Ids PROVE IdShape(j)'
  BY <1>1, <1>2, <1>5 DEF IdShape
<1>7. ASSUME NEW q \in Procs PROVE RequestShape(q)'
  <2>1. CASE q = p
    <3>1. \A r \in Procs : r # p /\ Named(r)' => id'[r] # i
      BY <1>1 DEF RequestShape, Named, Others
    <3> QED BY <1>1, <1>2, <1>3, <2>1, <3>1 DEF RequestShape, Named
  <2>2. CASE q # p
    <3>1. RequestShape(q)
      OBVIOUS
    <3>2. /\ pc'[q] = pc[q] /\ id'[q] = id[q] /\ off'[q] = off[q]
          /\ n'[q] = n[q] /\ unlink'[q] = unlink[q]
      BY <1>1, <2>2 DEF Others
    <3>3. \A j \in unlink'[q] : pc'[q] \in UnlinkLabels /\ Doomed(j)'
      BY <1>5, <3>1, <3>2 DEF RequestShape, TypeOK
    <3>4. pc[q] = "createPut" => \A r \in Procs : r # q /\ Named(r)' => id'[r] # id'[q]
      BY <1>1, <3>1, <3>2 DEF RequestShape, Named, Others
    <3>5. Named(q) => id[q] # i /\ files'[id[q]] = files[id[q]]
      BY <1>1, <3>1 DEF RequestShape, Named, TypeOK
    <3> QED BY <1>1, <3>1, <3>2, <3>3, <3>4, <3>5 DEF RequestShape, Named
  <2> QED BY <2>1, <2>2
<1> QED BY <1>4, <1>6, <1>7 DEF Shape

\* The record of a new session: its file is there and empty.
LEMMA CreatePutShape ==
  ASSUME UploadInv, TypeOK', NEW p \in Procs, CreatePut(p)
  PROVE  Shape'
<1> USE DEF UploadInv
<1> DEFINE s == sessions'[id[p]]
<1>1. pc[p] = "createPut" /\ id[p] \in Ids /\ id[p] \in used
  BY NamedId DEF CreatePut
<1>2. /\ s # None /\ s.offset = 0 /\ s.kind = kind[p]
      /\ \A j \in Ids \ {id[p]} : sessions'[j] = sessions[j]
      /\ UNCHANGED <<files, used, stored, tx, cleaning, completed>> /\ tx = None
  <2> DEFINE r == [kind |-> kind[p], length |-> NewLength(p), offset |-> 0,
                   refs |-> refs[p], expires |-> now + Expiration, done |-> FALSE]
  <2>1. r.offset = 0 /\ r.kind = kind[p]
    OBVIOUS
  <2>2. NewLength(p) \in Nat
    <3>1. kind[p] \in Kinds /\ off[p] \in Nat
      BY DEF TypeOK
    <3> QED BY <3>1, UploadConstants DEF NewLength, Kinds
  <2>3. r \in Sessions
    BY <2>2, UploadConstants DEF TypeOK, Sessions
  <2>4. sessions' = [sessions EXCEPT ![id[p]] = r]
    BY DEF CreatePut
  <2> HIDE DEF r
  <2>5. s = r /\ \A j \in Ids \ {id[p]} : sessions'[j] = sessions[j]
    BY <1>1, <2>4 DEF TypeOK
  <2>6. UNCHANGED <<files, used, stored, tx, cleaning, completed>> /\ tx = None
    BY DEF CreatePut, cleaner
  <2>7. r # None
    BY <2>3, UploadConstants
  <2> HIDE DEF s
  <2> QED BY <2>1, <2>5, <2>6, <2>7
<1>3. /\ Others(p) /\ unlink'[p] = {}
      /\ pc'[p] \in {"copy", "append", "idle"}
      /\ pc'[p] # "idle" => id'[p] = id[p]
      /\ pc'[p] = "copy" => kind[p] = "final"
  <2>1. unlink[p] = {}
    BY <1>1 DEF RequestShape, UnlinkLabels
  <2>2. CASE Free(p)
    BY <2>2, Freed
  <2>3. CASE Continue(p, "copy") /\ UNCHANGED locals /\ kind[p] = "final"
    BY <2>1, <2>3, Moved
  <2>4. CASE Continue(p, "append") /\ UNCHANGED locals
    BY <2>1, <2>4, Moved
  <2> QED BY <2>2, <2>3, <2>4, Zenon DEF CreatePut, Answer
<1>4. /\ files[id[p]] = <<>> /\ sessions[id[p]] = None /\ completed[id[p]] = 0
      /\ \A q \in Procs : q # p /\ Named(q) => id[q] # id[p]
  BY <1>1 DEF RequestShape
<1> HIDE DEF s
<1>5. SessionHasFile' /\ AckedBytesKept'
  <2>1. files'[id[p]] # None /\ Len(files'[id[p]]) = 0
    <3>1. <<>> \in Seq(Bytes) /\ Len(<<>>) = 0
      OBVIOUS
    <3>2. files[id[p]] # None
      BY <1>4, <3>1, UploadConstants, Zenon
    <3> QED BY <1>2, <1>4, <3>1, <3>2
  <2>2. ASSUME NEW i \in Ids, sessions'[i] # None PROVE files'[i] # None
    BY <1>2, <2>1, <2>2 DEF SessionHasFile
  <2>3. ASSUME NEW i \in Ids, sessions'[i] # None, sessions'[i].kind # "final"
        PROVE  Len(files'[i]) >= sessions'[i].offset
    BY <1>2, <2>1, <2>3 DEF AckedBytesKept, s
  <2> QED BY <2>2, <2>3 DEF SessionHasFile, AckedBytesKept
<1>6. ASSUME NEW j \in Ids, Doomed(j) PROVE Doomed(j)'
  <2>1. j # id[p]
    BY <1>1, <1>6 DEF Doomed
  <2> QED BY <1>2, <1>3, <1>6, <2>1 DEF Doomed, Others
<1>7. ASSUME NEW j \in Ids PROVE IdShape(j)'
  <2>1. CASE j = id[p]
    <3>1. cleaning # j
      BY <1>1, <2>1 DEF IdShape, Doomed
    <3> QED BY <1>1, <1>2, <1>4, <2>1, <3>1 DEF IdShape
  <2>2. CASE j # id[p]
    BY <1>2, <1>6, <2>2 DEF IdShape
  <2> QED BY <2>1, <2>2
<1>8. ASSUME NEW q \in Procs PROVE RequestShape(q)'
  <2>1. CASE q = p
    BY <1>1, <1>2, <1>3, <2>1, UploadConstants DEF RequestShape, Named, s
  <2>2. CASE q # p
    <3>1. RequestShape(q)
      OBVIOUS
    <3>2. /\ pc'[q] = pc[q] /\ id'[q] = id[q] /\ off'[q] = off[q]
          /\ n'[q] = n[q] /\ unlink'[q] = unlink[q]
      BY <1>3, <2>2 DEF Others
    <3>3. \A j \in unlink'[q] : pc'[q] \in UnlinkLabels /\ Doomed(j)'
      BY <1>6, <3>1, <3>2 DEF RequestShape, TypeOK
    <3>4. pc[q] = "createPut" => \A r \in Procs : r # q /\ Named(r)' => id'[r] # id'[q]
      BY <1>1, <1>3, <3>1, <3>2 DEF RequestShape, Named, Others
    <3>5. Named(q) => sessions'[id[q]] = sessions[id[q]]
      BY <1>2, <1>4, <2>2, <3>1 DEF RequestShape, TypeOK
    <3>6. pc[q] # "commit"
      BY <1>2, <3>1, UploadConstants DEF RequestShape
    <3> QED BY <1>2, <3>1, <3>2, <3>3, <3>4, <3>5, <3>6 DEF RequestShape, Named
  <2> QED BY <2>1, <2>2
<1> QED BY <1>5, <1>7, <1>8 DEF Shape

\* The file of a session that could not be recorded goes again.
LEMMA CreatePutErrorShape ==
  ASSUME UploadInv, NEW p \in Procs, CreatePutError(p)
  PROVE  Shape'
<1> USE DEF UploadInv
<1>1. /\ pc[p] = "createPut" /\ id[p] \in Ids
      /\ Others(p) /\ unlink'[p] = {} /\ pc'[p] = "idle"
      /\ \A j \in Ids \ {id[p]} : files'[j] = files[j]
      /\ UNCHANGED <<sessions, used, stored, tx, cleaning, completed>>
      /\ files'[id[p]] = None
  BY NamedId, Freed DEF CreatePutError, Answer, TypeOK, cleaner
<1>2. /\ sessions[id[p]] = None /\ tx # p
      /\ \A q \in Procs : q # p /\ Named(q) => id[q] # id[p]
  BY <1>1 DEF RequestShape
<1>3. SessionHasFile' /\ AckedBytesKept'
  BY <1>1, <1>2 DEF SessionHasFile, AckedBytesKept
<1>4. ASSUME NEW j \in Ids, Doomed(j) PROVE Doomed(j)'
  BY <1>1, <1>4 DEF Doomed, Others
<1>5. ASSUME NEW j \in Ids PROVE IdShape(j)'
  BY <1>1, <1>4 DEF IdShape
<1>6. ASSUME NEW q \in Procs PROVE RequestShape(q)'
  <2>1. CASE q = p
    BY <1>1, <1>2, <2>1 DEF RequestShape, Named
  <2>2. CASE q # p
    <3>1. RequestShape(q)
      OBVIOUS
    <3>2. /\ pc'[q] = pc[q] /\ id'[q] = id[q] /\ off'[q] = off[q]
          /\ n'[q] = n[q] /\ unlink'[q] = unlink[q]
      BY <1>1, <2>2 DEF Others
    <3>3. \A j \in unlink'[q] : pc'[q] \in UnlinkLabels /\ Doomed(j)'
      BY <1>4, <3>1, <3>2 DEF RequestShape, TypeOK
    <3>4. pc[q] = "createPut" => \A r \in Procs : r # q /\ Named(r)' => id'[r] # id'[q]
      BY <1>1, <3>1, <3>2 DEF RequestShape, Named, Others
    <3>5. Named(q) => files'[id[q]] = files[id[q]]
      BY <1>1, <1>2, <2>2, <3>1 DEF RequestShape, TypeOK
    <3> QED BY <1>1, <3>1, <3>2, <3>3, <3>4, <3>5 DEF RequestShape, Named
  <2> QED BY <2>1, <2>2
<1> QED BY <1>3, <1>5, <1>6 DEF Shape

\* The file of a session grows while no other transaction is open.
LEMMA FileGrownShape ==
  ASSUME UploadInv, NEW p \in Procs, Others(p), pc[p] = "append", tx = None,
         sessions[id[p]] # None,
         files'[id[p]] # None, Len(files'[id[p]]) >= Len(files[id[p]]),
         Len(files[id[p]]) \in Nat, Len(files'[id[p]]) \in Nat,
         \A j \in Ids \ {id[p]} : files'[j] = files[j],
         UNCHANGED <<sessions, used, stored, cleaning, completed>>,
         unlink'[p] = {},
         \/ pc'[p] = "idle" /\ tx' = None
         \/ /\ pc'[p] = "commit" /\ tx' = p /\ id'[p] = id[p]
            /\ sessions[id[p]].kind # "final" /\ sessions[id[p]].offset = off'[p]
            /\ Len(files'[id[p]]) >= off'[p] + n'[p]
  PROVE  Shape'
<1> USE DEF UploadInv
<1>1. id[p] \in Ids /\ id[p] \in used
  BY NamedId
<1>2. SessionHasFile'
  BY DEF SessionHasFile
<1>3. AckedBytesKept'
  <2>1. ASSUME NEW i \in Ids, sessions'[i] # None, sessions'[i].kind # "final"
        PROVE  Len(files'[i]) >= sessions'[i].offset
    <3>1. Len(files[i]) >= sessions[i].offset /\ sessions[i].offset \in Nat
      BY <2>1 DEF AckedBytesKept, TypeOK, Sessions
    <3> QED BY <3>1
  <2> QED BY <2>1 DEF AckedBytesKept
<1>4. ASSUME NEW j \in Ids, Doomed(j) PROVE Doomed(j)'
  BY <1>4 DEF Doomed, Others
<1>5. ASSUME NEW j \in Ids PROVE IdShape(j)'
  BY <1>1, <1>4 DEF IdShape
<1>6. ASSUME NEW q \in Procs PROVE RequestShape(q)'
  <2>1. CASE q = p
    BY <1>1, <2>1, UploadConstants DEF RequestShape, Named
  <2>2. CASE q # p
    <3>1. RequestShape(q)
      OBVIOUS
    <3>2. /\ pc'[q] = pc[q] /\ id'[q] = id[q] /\ off'[q] = off[q]
          /\ n'[q] = n[q] /\ unlink'[q] = unlink[q]
      BY <2>2 DEF Others
    <3>3. \A j \in unlink'[q] : pc'[q] \in UnlinkLabels /\ Doomed(j)'
      BY <1>4, <3>1, <3>2 DEF RequestShape, TypeOK
    <3>4. pc[q] = "createPut" => /\ \A r \in Procs : r # q /\ Named(r)' => id'[r] # id'[q]
                                 /\ files'[id[q]] = files[id[q]]
      <4>1. pc[q] = "createPut" => id[q] \in Ids /\ sessions[id[q]] = None /\ id[q] # id[p]
        BY <3>1, NamedId DEF RequestShape
      <4>2. pc[q] = "createPut" => \A r \in Procs \ {p, q} : Named(r)' => id'[r] # id'[q]
        BY <3>1, <3>2 DEF RequestShape, Named, Others
      <4>3. Named(p)' => id'[p] = id[p]
        BY DEF Named
      <4> QED BY <3>2, <4>1, <4>2, <4>3
    <3>5. pc[q] # "commit" /\ tx' # q
      BY <2>2, <3>1, UploadConstants DEF RequestShape
    <3> QED BY <3>1, <3>2, <3>3, <3>4, <3>5 DEF RequestShape, Named
  <2> QED BY <2>1, <2>2
<1> QED BY <1>2, <1>3, <1>5, <1>6 DEF Shape

\* Store.Append up to its commit.
LEMMA AppendShape ==
  ASSUME UploadInv, NEW p \in Procs,
         AppendRefused(p) \/ AppendWrite(p) \/ AppendError(p)
  PROVE  Shape'
<1> USE DEF UploadInv
<1>1. id[p] \in Ids
  BY NamedId DEF AppendRefused, AppendWrite, AppendError
<1>2. Chunk(p) \in Seq(Bytes) /\ Len(Chunk(p)) = n[p] /\ n[p] \in Nat
  <2>1. base[id[p]] + off[p] \in Nat /\ n[p] \in Nat
    BY <1>1, UploadConstants DEF TypeOK
  <2> QED BY <2>1, SliceTyped DEF Chunk
<1>3. pc[p] = "append" => unlink[p] = {}
  BY DEF RequestShape, UnlinkLabels
<1>4. Appendable(p) => /\ files[id[p]] \in Seq(Bytes) /\ sessions[id[p]] # None
                       /\ sessions[id[p]].kind # "final"
                       /\ sessions[id[p]].offset = off[p]
                       /\ off[p] \in Nat
                       /\ Len(files[id[p]]) >= off[p]
  BY <1>1 DEF Appendable, Active, TypeOK, AckedBytesKept
<1>5. CASE AppendRefused(p)
  <2>1. tx # p
    BY <1>5, UploadConstants DEF AppendRefused
  <2> QED BY <1>5, <2>1, GaveUpShape DEF AppendRefused, Answer, cleaner
<1>6. CASE AppendWrite(p)
  <2>1. /\ files'[id[p]] = files[id[p]] \o Chunk(p)
        /\ \A j \in Ids \ {id[p]} : files'[j] = files[j]
    BY <1>1, <1>6 DEF AppendWrite, TypeOK
  <2>2. /\ files'[id[p]] \in Seq(Bytes)
        /\ Len(files'[id[p]]) = Len(files[id[p]]) + n[p]
    BY <1>2, <1>4, <1>6, <2>1 DEF AppendWrite
  <2>3. /\ Others(p) /\ pc'[p] = "commit" /\ id'[p] = id[p] /\ off'[p] = off[p]
        /\ n'[p] = n[p] /\ unlink'[p] = {} /\ pc[p] = "append" /\ tx = None /\ tx' = p
    BY <1>3, <1>6, Moved DEF AppendWrite
  <2>4. files'[id[p]] # None
    BY <2>2, UploadConstants
  <2>5. /\ Len(files'[id[p]]) >= Len(files[id[p]]) /\ Len(files[id[p]]) \in Nat
        /\ Len(files'[id[p]]) \in Nat /\ Len(files'[id[p]]) >= off'[p] + n'[p]
    BY <1>2, <1>4, <1>6, <2>2, <2>3 DEF AppendWrite
  <2> QED BY <1>4, <1>6, <2>1, <2>3, <2>4, <2>5, FileGrownShape DEF AppendWrite, cleaner
<1>7. CASE AppendError(p)
  <2>1. CASE pc[p] = "commit" /\ tx' = None /\ UNCHANGED files
    <3>1. tx = p
      BY <2>1 DEF RequestShape
    <3> QED BY <1>7, <2>1, <3>1, GaveUpShape DEF AppendError, Answer, cleaner
  <2>2. ASSUME pc[p] = "append", tx = None, Appendable(p), UNCHANGED tx,
               NEW k \in 0..n[p],
               files' = [files EXCEPT ![id[p]] = @ \o SubSeq(Chunk(p), 1, k)]
        PROVE  Shape'
    <3> DEFINE x == SubSeq(Chunk(p), 1, k)
    <3>1. x \in Seq(Bytes)
      BY <1>2
    <3>2. /\ files'[id[p]] = files[id[p]] \o x
          /\ \A j \in Ids \ {id[p]} : files'[j] = files[j]
      BY <1>1, <2>2 DEF TypeOK
    <3> HIDE DEF x
    <3>3. /\ files'[id[p]] \in Seq(Bytes)
          /\ Len(files'[id[p]]) >= Len(files[id[p]])
          /\ Len(files'[id[p]]) \in Nat /\ Len(files[id[p]]) \in Nat
      <4>1. files[id[p]] \in Seq(Bytes)
        BY <1>4, <2>2
      <4>2. PICK f \in Seq(Bytes) : f = files[id[p]]
        BY <4>1
      <4>3. /\ f \o x \in Seq(Bytes) /\ Len(f \o x) = Len(f) + Len(x)
            /\ Len(f) \in Nat /\ Len(x) \in Nat
        BY <3>1
      <4> QED BY <3>2, <4>2, <4>3
    <3>4. files'[id[p]] # None
      BY <3>3, UploadConstants
    <3>5. Others(p) /\ pc'[p] = "idle" /\ unlink'[p] = {}
      BY <1>7, Freed DEF AppendError, Answer
    <3> QED BY <1>4, <1>7, <2>2, <3>2, <3>3, <3>4, <3>5, FileGrownShape
            DEF AppendError, cleaner
  <2> QED BY <1>7, <2>1, <2>2 DEF AppendError
<1> QED BY <1>5, <1>6, <1>7

\* A session whose offset moves keeps its kind and its bytes.
LEMMA TouchedShape ==
  ASSUME UploadInv, TypeOK', NEW p \in Procs, Others(p),
         tx \in {None, p}, id[p] \in Ids,
         sessions[id[p]] # None, sessions'[id[p]] # None,
         sessions'[id[p]].kind = sessions[id[p]].kind,
         \A j \in Ids \ {id[p]} : sessions'[j] = sessions[j],
         sessions[id[p]].kind # "final" =>
           Len(files[id[p]]) >= sessions'[id[p]].offset,
         UNCHANGED <<files, used, stored, cleaning, completed>>,
         tx' = None, pc'[p] \in {"idle", "read"}, unlink'[p] = {},
         pc'[p] = "read" => id'[p] = id[p]
  PROVE  Shape'
<1> USE DEF UploadInv
<1>1. id[p] \in used
  BY DEF IdShape
<1>2. SessionHasFile' /\ AckedBytesKept'
  BY DEF SessionHasFile, AckedBytesKept
<1>3. ASSUME NEW j \in Ids, Doomed(j) PROVE Doomed(j)'
  BY <1>3 DEF Doomed, Others
<1>4. ASSUME NEW j \in Ids PROVE IdShape(j)'
  BY <1>1, <1>3 DEF IdShape
<1>5. ASSUME NEW q \in Procs PROVE RequestShape(q)'
  <2>1. CASE q = p
    BY <1>1, <2>1, UploadConstants DEF RequestShape, Named
  <2>2. CASE q # p
    <3>1. RequestShape(q)
      OBVIOUS
    <3>2. /\ pc'[q] = pc[q] /\ id'[q] = id[q] /\ off'[q] = off[q]
          /\ n'[q] = n[q] /\ unlink'[q] = unlink[q]
      BY <2>2 DEF Others
    <3>3. \A j \in unlink'[q] : pc'[q] \in UnlinkLabels /\ Doomed(j)'
      BY <1>3, <3>1, <3>2 DEF RequestShape, TypeOK
    <3>4. pc[q] = "createPut" => /\ \A r \in Procs : r # q /\ Named(r)' => id'[r] # id'[q]
                                 /\ sessions'[id[q]] = sessions[id[q]]
      <4>1. pc[q] = "createPut" => id[q] \in Ids /\ sessions[id[q]] = None /\ id[q] # id[p]
        BY <3>1, NamedId DEF RequestShape
      <4>2. pc[q] = "createPut" => \A r \in Procs \ {p, q} : Named(r)' => id'[r] # id'[q]
        BY <3>1, <3>2 DEF RequestShape, Named, Others
      <4>3. Named(p)' => id'[p] = id[p]
        BY DEF Named
      <4> QED BY <3>2, <4>1, <4>2, <4>3
    <3>5. pc[q] # "commit" /\ tx' # q
      BY <2>2, <3>1, UploadConstants DEF RequestShape
    <3>6. /\ id[q] \in Ids /\ sessions'[id[q]] # None /\ sessions[id[q]] # None
          => sessions'[id[q]].kind = sessions[id[q]].kind
      OBVIOUS
    <3>7. Named(q) => id[q] \in Ids /\ (sessions'[id[q]] # None => sessions[id[q]] # None)
      BY <3>1 DEF RequestShape, TypeOK
    <3> QED BY <3>1, <3>2, <3>3, <3>4, <3>5, <3>6, <3>7 DEF RequestShape, Named
  <2> QED BY <2>1, <2>2
<1> QED BY <1>2, <1>4, <1>5 DEF Shape

\* The commit of Append: the bytes it acknowledges are in the file.
LEMMA AppendCommitShape ==
  ASSUME UploadInv, TypeOK', NEW p \in Procs, AppendCommit(p)
  PROVE  Shape'
<1> USE DEF UploadInv
<1>1. pc[p] = "commit" /\ id[p] \in Ids
  BY NamedId DEF AppendCommit
<1>2. /\ tx = p /\ sessions[id[p]] # None /\ sessions[id[p]].offset = off[p]
      /\ Len(files[id[p]]) >= off[p] + n[p] /\ off[p] + n[p] \in Nat
      /\ unlink[p] = {}
  <2>1. off[p] \in Nat /\ n[p] \in Nat
    BY UploadConstants DEF TypeOK
  <2>2. unlink[p] = {}
    BY <1>1 DEF RequestShape, UnlinkLabels
  <2>3. /\ tx = p /\ sessions[id[p]] # None /\ sessions[id[p]].offset = off[p]
        /\ Len(files[id[p]]) >= off[p] + n[p]
    <3>1. RequestShape(p)
      OBVIOUS
    <3> QED BY <1>1, <3>1, Zenon DEF RequestShape
  <2>4. off[p] + n[p] \in Nat
    BY <2>1
  <2> QED BY <2>2, <2>3, <2>4
<1>3. /\ sessions'[id[p]] # None /\ sessions'[id[p]].offset = off[p] + n[p]
      /\ sessions'[id[p]].kind = sessions[id[p]].kind
      /\ \A j \in Ids \ {id[p]} : sessions'[j] = sessions[j]
  <2>1. PICK o \in Nat : o = off[p] + n[p]
    BY <1>2
  <2>2. sessions' = [sessions EXCEPT ![id[p]].offset = o,
                                     ![id[p]].expires = now + Expiration]
    BY <1>1, <1>2, <2>1 DEF AppendCommit, TypeOK
  <2> QED BY <1>1, <1>2, <2>1, <2>2, TouchedTyped
<1>4. /\ Others(p) /\ pc'[p] \in {"idle", "read"} /\ unlink'[p] = {}
      /\ pc'[p] = "read" => id'[p] = id[p]
  <2>1. CASE Free(p)
    BY <2>1, Freed
  <2>2. CASE Continue(p, "read") /\ UNCHANGED locals
    BY <1>2, <2>2, Moved
  <2> QED BY <2>1, <2>2, Zenon DEF AppendCommit, Answer
<1> QED BY <1>1, <1>2, <1>3, <1>4, TouchedShape DEF AppendCommit, cleaner

\* The records G are deleted in one transaction: their files are doomed, and
\* whoever deletes them takes the files over.
LEMMA RemovedShape ==
  ASSUME UploadInv, NEW G \in SUBSET Ids, tx = None, tx' = None,
         \A i \in G : sessions[i] # None,
         \A i \in Ids : sessions'[i] = IF i \in G THEN None ELSE sessions[i],
         UNCHANGED <<files, used, stored>>,
         \A q \in Procs : id'[q] = id[q] /\ off'[q] = off[q] /\ n'[q] = n[q],
         \A q \in Procs :
           \/ pc'[q] = pc[q] /\ unlink'[q] = unlink[q]
           \/ /\ pc[q] \in {"complete", "terminate", "abort"}
              /\ pc'[q] \in UnlinkLabels /\ unlink'[q] = G,
         cleaning' \in Ids => cleaning' = cleaning \/ cleaning' \in G,
         \A i \in Ids : \/ completed'[i] = completed[i]
                        \/ i \in G /\ completed'[i] = 1 /\ stored
  PROVE  Shape'
<1> USE DEF UploadInv
<1>1. SessionHasFile' /\ AckedBytesKept'
  BY DEF SessionHasFile, AckedBytesKept
<1>2. ASSUME NEW i \in Ids, Doomed(i) \/ i \in G PROVE Doomed(i)'
  <2>1. i \in used /\ sessions'[i] = None
    BY <1>2 DEF Doomed, IdShape
  <2>2. \A q \in Procs : pc'[q] = "createPut" => pc[q] = "createPut" /\ id'[q] = id[q]
    BY DEF UnlinkLabels
  <2>3. \A q \in Procs : pc[q] = "createPut" => id[q] # i
    BY <1>2 DEF Doomed, RequestShape
  <2> QED BY <2>1, <2>2, <2>3 DEF Doomed
<1>3. ASSUME NEW i \in Ids PROVE IdShape(i)'
  <2>1. IdShape(i)
    OBVIOUS
  <2>2. i \notin used' => sessions'[i] = None /\ files'[i] = None /\ completed'[i] = 0
    BY <2>1 DEF IdShape
  <2>3. completed'[i] # 0 => completed'[i] = 1 /\ stored' /\ sessions'[i] = None
    BY <2>1 DEF IdShape
  <2>4. cleaning' = i => Doomed(i)'
    BY <1>2, <2>1 DEF IdShape
  <2> QED BY <2>2, <2>3, <2>4 DEF IdShape
<1>4. ASSUME NEW q \in Procs PROVE RequestShape(q)'
  <2>1. RequestShape(q)
    OBVIOUS
  <2>2. pc[q] # "commit" /\ tx' # q
    BY <2>1, UploadConstants DEF RequestShape
  <2>3. \A r \in Procs : Named(r)' => Named(r) /\ id'[r] = id[r]
    BY DEF Named
  <2>4. pc'[q] = "createPut" => pc[q] = "createPut"
    BY DEF UnlinkLabels
  <2>5. pc[q] = "createPut" =>
          /\ sessions'[id[q]] = None /\ completed'[id[q]] = 0
          /\ \A r \in Procs : r # q /\ Named(r)' => id'[r] # id'[q]
    <3>1. pc[q] = "createPut" => id[q] \in Ids
      BY NamedId
    <3> QED BY <2>1, <2>3, <3>1 DEF RequestShape
  <2>6. \A i \in unlink'[q] : pc'[q] \in UnlinkLabels /\ Doomed(i)'
    BY <1>2, <2>1 DEF RequestShape, TypeOK
  <2>7. pc'[q] \in {"copy", "refresh"} /\ sessions'[id[q]] # None =>
          sessions'[id[q]].kind = "final"
    <3>1. pc'[q] \in {"copy", "refresh"} => pc[q] = pc'[q] /\ id[q] \in Ids
      BY NamedId DEF UnlinkLabels
    <3> QED BY <2>1, <3>1 DEF RequestShape
  <2>8. pc'[q] # "commit" /\ (pc'[q] = "complete" => stored')
    BY <2>1, <2>2 DEF RequestShape, UnlinkLabels
  <2> QED BY <2>1, <2>2, <2>3, <2>4, <2>5, <2>6, <2>7, <2>8 DEF RequestShape
<1> QED BY <1>1, <1>3, <1>4 DEF Shape

\* finalizeUpload up to MarkCompleted: nothing is removed yet.
LEMMA FinalizeShape ==
  ASSUME UploadInv, NEW p \in Procs,
         FinalizeRead(p) \/ FinalizeStore(p) \/ TransactionError(p)
  PROVE  Shape'
<1> USE DEF UploadInv
<1>1. tx # p /\ unlink[p] = {} /\ Named(p) /\ id[p] \in used
  BY DEF RequestShape, FinalizeRead, FinalizeStore, TransactionError, UnlinkLabels, Named
<1>2. CASE Free(p) /\ UNCHANGED <<sessions, files, used, stored, tx, cleaning, completed>>
  BY <1>1, <1>2, GaveUpShape
<1>3. CASE FinalizeRead(p)
  <2>1. CASE Continue(p, "store") /\ UNCHANGED locals
    <3>1. Others(p) /\ pc'[p] = "store" /\ id'[p] = id[p] /\ unlink'[p] = {}
      BY <1>1, <2>1, Moved
    <3> QED BY <1>1, <1>3, <3>1, QuietShape DEF FinalizeRead, TypeOK, cleaner
  <2> QED BY <1>2, <1>3, <2>1 DEF FinalizeRead, Answer, cleaner
<1>4. CASE FinalizeStore(p)
  <2>1. CASE Continue(p, "complete") /\ UNCHANGED locals /\ stored' = TRUE
    <3>1. Others(p) /\ pc'[p] = "complete" /\ id'[p] = id[p] /\ unlink'[p] = {}
      BY <1>1, <2>1, Moved
    <3> QED BY <1>1, <1>4, <2>1, <3>1, QuietShape DEF FinalizeStore, cleaner
  <2> QED BY <1>2, <1>4, <2>1 DEF FinalizeStore, Answer, cleaner
<1>5. CASE TransactionError(p)
  BY <1>2, <1>5 DEF TransactionError, Answer, cleaner
<1> QED BY <1>3, <1>4, <1>5

\* MarkCompleted: the session and its partials.
LEMMA MarkCompletedShape ==
  ASSUME UploadInv, NEW p \in Procs, MarkCompleted(p)
  PROVE  Shape'
<1> USE DEF UploadInv
<1>1. /\ id[p] \in Ids /\ pc[p] = "complete" /\ stored /\ tx = None
  BY NamedId DEF RequestShape, MarkCompleted
<1>2. CASE Free(p) /\ UNCHANGED <<sessions, completed>>
  BY <1>1, <1>2, UploadConstants, GaveUpShape DEF MarkCompleted, cleaner
<1>3. CASE sessions[id[p]] # None /\ Continue(p, "unlink")
  <2> DEFINE gone == {id[p]} \cup {i \in PartialsOf(sessions[id[p]]) :
                                     sessions[i] # None}
  <2>1. pc'[p] = "unlink" /\ pc' = [pc EXCEPT ![p] = "unlink"]
    BY <1>3 DEF TypeOK
  <2>2. sessions[id[p]] \in Sessions
    BY <1>1, <1>3 DEF TypeOK
  <2>3. PartialsOf(sessions[id[p]]) \in SUBSET Ids
    BY <2>2 DEF PartialsOf, Sessions
  <2>4. gone \in SUBSET Ids /\ id[p] \in gone /\ \A i \in gone : sessions[i] # None
    BY <1>1, <1>3, <2>3
  <2>5. /\ sessions' = [i \in Ids |-> IF i \in gone THEN None ELSE sessions[i]]
        /\ unlink' = [unlink EXCEPT ![p] = gone]
        /\ completed' = [completed EXCEPT ![id[p]] = IF @ < 2 THEN @ + 1 ELSE @]
        /\ UNCHANGED <<id, off, n, files, used, stored, tx, cleaning>>
    BY <1>3 DEF MarkCompleted, cleaner
  <2> HIDE DEF gone
  <2>6. PICK G \in SUBSET Ids : G = gone
    BY <2>4
  <2>7. completed[id[p]] = 0
    BY <1>1, <1>3 DEF IdShape
  <2>8. \A i \in Ids : \/ completed'[i] = completed[i]
                       \/ i \in G /\ completed'[i] = 1 /\ stored
    BY <1>1, <2>4, <2>5, <2>6, <2>7 DEF TypeOK
  <2>9. \A q \in Procs :
           \/ pc'[q] = pc[q] /\ unlink'[q] = unlink[q]
           \/ /\ pc[q] \in {"complete", "terminate", "abort"}
              /\ pc'[q] \in UnlinkLabels /\ unlink'[q] = G
    BY <1>1, <2>1, <2>5, <2>6 DEF TypeOK, UnlinkLabels
  <2> QED BY <1>1, <2>4, <2>5, <2>6, <2>8, <2>9, RemovedShape
<1> QED BY <1>2, <1>3 DEF MarkCompleted, Answer

\* Terminate: the one session.
LEMMA TerminateShape ==
  ASSUME UploadInv, NEW p \in Procs, Terminate(p)
  PROVE  Shape'
<1> USE DEF UploadInv
<1>1. id[p] \in Ids /\ pc[p] \in {"terminate", "abort"} /\ tx = None
  BY NamedId DEF Terminate
<1>2. CASE Free(p) /\ sessions[id[p]] = None
  <2>1. sessions' = sessions
    BY <1>1, <1>2 DEF Terminate, TypeOK
  <2> QED BY <1>1, <1>2, <2>1, UploadConstants, GaveUpShape DEF Terminate, cleaner
<1>3. CASE /\ sessions[id[p]] # None /\ unlink' = [unlink EXCEPT ![p] = {id[p]}]
           /\ \E l \in UnlinkLabels : Continue(p, l)
           /\ UNCHANGED <<id, off, n>>
  <2>1. PICK G \in SUBSET Ids : G = {id[p]}
    BY <1>1
  <2>2. \A i \in Ids : sessions'[i] = IF i \in G THEN None ELSE sessions[i]
    BY <1>1, <2>1 DEF Terminate, TypeOK
  <2>3. \A q \in Procs :
           \/ pc'[q] = pc[q] /\ unlink'[q] = unlink[q]
           \/ /\ pc[q] \in {"complete", "terminate", "abort"}
              /\ pc'[q] \in UnlinkLabels /\ unlink'[q] = G
    BY <1>1, <1>3, <2>1 DEF TypeOK, UnlinkLabels
  <2> QED BY <1>1, <1>3, <2>1, <2>2, <2>3, RemovedShape DEF Terminate, cleaner
<1> QED BY <1>2, <1>3 DEF Terminate, Answer, UnlinkLabels

\* A doomed file is removed.
LEMMA FileRemovedShape ==
  ASSUME UploadInv, NEW i \in Ids, Doomed(i),
         files'[i] = None, \A j \in Ids \ {i} : files'[j] = files[j],
         UNCHANGED <<sessions, used, stored, tx, completed>>,
         cleaning' = cleaning \/ cleaning' = None,
         \A q \in Procs : \/ id'[q] = id[q] /\ off'[q] = off[q] /\ n'[q] = n[q]
                          \/ pc'[q] = "idle",
         \A q \in Procs :
           \/ pc'[q] = pc[q] /\ unlink'[q] \subseteq unlink[q]
           \/ pc[q] \in UnlinkLabels /\ pc'[q] = "idle" /\ unlink'[q] = {}
  PROVE  Shape'
<1> USE DEF UploadInv
<1>1. SessionHasFile' /\ AckedBytesKept'
  BY DEF SessionHasFile, AckedBytesKept, Doomed
<1>2. \A q \in Procs : pc'[q] # "idle" =>
        pc'[q] = pc[q] /\ id'[q] = id[q] /\ off'[q] = off[q] /\ n'[q] = n[q]
  OBVIOUS
<1>3. ASSUME NEW j \in Ids, Doomed(j) PROVE Doomed(j)'
  BY <1>2, <1>3 DEF Doomed
<1>4. ASSUME NEW j \in Ids PROVE IdShape(j)'
  <2>1. IdShape(j)
    OBVIOUS
  <2>2. cleaning' = j => Doomed(j)'
    BY <1>3, <2>1, UploadConstants DEF IdShape
  <2> QED BY <2>1, <2>2 DEF IdShape
<1>5. ASSUME NEW q \in Procs PROVE RequestShape(q)'
  <2>1. RequestShape(q)
    OBVIOUS
  <2>2. \A r \in Procs : Named(r)' => Named(r) /\ id'[r] = id[r]
    BY <1>2 DEF Named
  <2>3. pc'[q] = "createPut" =>
          /\ files'[id[q]] = files[id[q]]
          /\ \A r \in Procs : r # q /\ Named(r)' => id'[r] # id'[q]
    <3>1. pc'[q] = "createPut" => pc[q] = "createPut" /\ id[q] \in Ids /\ id'[q] = id[q]
      BY <1>2, NamedId
    <3>2. pc'[q] = "createPut" => id[q] # i
      BY <3>1 DEF Doomed
    <3> QED BY <2>1, <2>2, <3>1, <3>2 DEF RequestShape
  <2>4. pc[q] = "commit" => files'[id[q]] = files[id[q]]
    <3>1. pc[q] = "commit" => id[q] \in Ids /\ sessions[id[q]] # None
      BY <2>1, NamedId DEF RequestShape
    <3> QED BY <3>1 DEF Doomed
  <2>5. \A j \in unlink'[q] : pc'[q] \in UnlinkLabels /\ Doomed(j)'
    BY <1>3, <2>1 DEF RequestShape, TypeOK
  <2>6. pc'[q] = "commit" <=> tx' = q
    BY <2>1 DEF RequestShape, UnlinkLabels
  <2> QED BY <1>2, <2>1, <2>2, <2>3, <2>4, <2>5, <2>6 DEF RequestShape, Named
<1> QED BY <1>1, <1>4, <1>5 DEF Shape

\* os.Remove after the transaction.
LEMMA UnlinkShape ==
  ASSUME UploadInv, NEW p \in Procs, NEW i \in Ids, Unlink(p, i)
  PROVE  Shape'
<1> USE DEF UploadInv
<1>1. Doomed(i) /\ pc[p] \in UnlinkLabels
  BY DEF Unlink, RequestShape, UnlinkLabels
<1>2. /\ files'[i] = None /\ \A j \in Ids \ {i} : files'[j] = files[j]
      /\ UNCHANGED <<sessions, used, stored, tx, completed, cleaning>>
  BY DEF Unlink, TypeOK, cleaner
<1>3. CASE Free(p)
  <2>1. Others(p) /\ pc'[p] = "idle" /\ unlink'[p] = {}
    BY <1>3, Freed
  <2> QED BY <1>1, <1>2, <2>1, FileRemovedShape DEF Others
<1>4. CASE unlink' = [unlink EXCEPT ![p] = @ \ {i}] /\ UNCHANGED <<pc, id, off, n>>
  BY <1>1, <1>2, <1>4, FileRemovedShape DEF TypeOK
<1> QED BY <1>3, <1>4 DEF Unlink, Answer

\* The copies of a concatenation go to a final session, or to an id whose
\* session is gone.
LEMMA CopyShape ==
  ASSUME UploadInv, TypeOK', NEW p \in Procs, CopyPartial(p) \/ CopyDone(p)
  PROVE  Shape'
<1> USE DEF UploadInv
<1>1. /\ id[p] \in Ids /\ id[p] \in used /\ pc[p] = "copy" /\ tx # p
      /\ unlink[p] = {}
      /\ sessions[id[p]] # None => sessions[id[p]].kind = "final"
  BY NamedId DEF CopyPartial, CopyDone, RequestShape, UnlinkLabels
<1>2. /\ Others(p) /\ id'[p] = id[p] /\ unlink'[p] = {}
      /\ pc'[p] \in {"copy", "refresh", "abort"}
      /\ UNCHANGED <<sessions, used, stored, tx, completed, cleaning>>
      /\ \A j \in Ids \ {id[p]} : files'[j] = files[j]
  BY <1>1 DEF CopyPartial, CopyDone, Others, TypeOK, cleaner, locals
<1>3. files[id[p]] # None => files'[id[p]] # None
  <2>1. CASE files' = files
    BY <2>1
  <2>2. CASE /\ refs[p] # <<>> /\ files[Head(refs[p])] # None
             /\ files' = [files EXCEPT ![id[p]] =
                            IF @ = None THEN None ELSE @ \o files[Head(refs[p])]]
    <3>1. Head(refs[p]) \in Ids
      BY <2>2 DEF TypeOK
    <3>2. files[Head(refs[p])] \in Seq(Bytes)
      BY <2>2, <3>1 DEF TypeOK
    <3>3. files[id[p]] # None => files[id[p]] \o files[Head(refs[p])] \in Seq(Bytes)
      BY <1>1, <3>2 DEF TypeOK
    <3>4. files[id[p]] # None => files'[id[p]] = files[id[p]] \o files[Head(refs[p])]
      BY <1>1, <2>2 DEF TypeOK
    <3>5. files[id[p]] # None => files'[id[p]] \in Seq(Bytes)
      BY <3>3, <3>4
    <3> QED BY <3>5, UploadConstants
  <2> QED BY <2>1, <2>2 DEF CopyPartial, CopyDone
<1>4. SessionHasFile' /\ AckedBytesKept'
  BY <1>1, <1>2, <1>3 DEF SessionHasFile, AckedBytesKept
<1>5. ASSUME NEW j \in Ids, Doomed(j) PROVE Doomed(j)'
  BY <1>2, <1>5 DEF Doomed, Others
<1>6. ASSUME NEW j \in Ids PROVE IdShape(j)'
  BY <1>1, <1>2, <1>5 DEF IdShape
<1>7. ASSUME NEW q \in Procs PROVE RequestShape(q)'
  <2>1. CASE q = p
    BY <1>1, <1>2, <2>1 DEF RequestShape, Named
  <2>2. CASE q # p
    <3>1. RequestShape(q)
      OBVIOUS
    <3>2. /\ pc'[q] = pc[q] /\ id'[q] = id[q] /\ off'[q] = off[q]
          /\ n'[q] = n[q] /\ unlink'[q] = unlink[q]
      BY <1>2, <2>2 DEF Others
    <3>3. \A j \in unlink'[q] : pc'[q] \in UnlinkLabels /\ Doomed(j)'
      BY <1>5, <3>1, <3>2 DEF RequestShape, TypeOK
    <3>4. pc[q] = "createPut" =>
            /\ files'[id[q]] = files[id[q]]
            /\ \A r \in Procs : r # q /\ Named(r)' => id'[r] # id'[q]
      <4>1. pc[q] = "createPut" => id[q] \in Ids /\ id[q] # id[p]
        BY <1>1, <2>2, <3>1, NamedId DEF RequestShape, Named
      <4>2. \A r \in Procs : Named(r)' => Named(r) /\ id'[r] = id[r]
        BY <1>1, <1>2 DEF Named, Others
      <4> QED BY <1>2, <3>1, <3>2, <4>1, <4>2 DEF RequestShape
    <3>5. pc[q] = "commit" => files'[id[q]] = files[id[q]]
      <4>1. pc[q] = "commit" => id[q] \in Ids /\ id[q] # id[p]
        BY <1>1, <3>1, NamedId DEF RequestShape
      <4> QED BY <1>2, <4>1
    <3> QED BY <1>2, <3>1, <3>2, <3>3, <3>4, <3>5 DEF RequestShape, Named
  <2> QED BY <2>1, <2>2
<1> QED BY <1>4, <1>6, <1>7 DEF Shape

\* refreshOffset of a final session.
LEMMA RefreshShape ==
  ASSUME UploadInv, TypeOK', NEW p \in Procs, RefreshOffset(p)
  PROVE  Shape'
<1> USE DEF UploadInv
<1>1. id[p] \in Ids /\ pc[p] = "refresh" /\ tx = None /\ unlink[p] = {}
  BY NamedId DEF RefreshOffset, RequestShape, UnlinkLabels
<1>2. CASE Free(p) /\ UNCHANGED sessions
  BY <1>1, <1>2, UploadConstants, GaveUpShape DEF RefreshOffset, cleaner
<1>3. CASE sessions[id[p]] # None /\ UNCHANGED locals /\ Continue(p, "read")
  <2>1. Others(p) /\ pc'[p] = "read" /\ id'[p] = id[p] /\ unlink'[p] = {}
    BY <1>1, <1>3, Moved
  <2>2. PICK o \in Nat : o = off[p]
    BY DEF TypeOK
  <2>3. sessions' = [sessions EXCEPT ![id[p]].offset = o,
                                     ![id[p]].expires = now + Expiration]
    BY <1>3, <2>2 DEF RefreshOffset
  <2>4. /\ sessions'[id[p]] # None /\ sessions'[id[p]].kind = sessions[id[p]].kind
        /\ \A j \in Ids \ {id[p]} : sessions'[j] = sessions[j]
    BY <1>1, <1>3, <2>3, TouchedTyped
  <2>5. sessions[id[p]].kind = "final"
    BY <1>1, <1>3 DEF RequestShape
  <2> QED BY <1>1, <1>3, <2>1, <2>4, <2>5, TouchedShape DEF RefreshOffset, cleaner
<1> QED BY <1>2, <1>3 DEF RefreshOffset, Answer

\* The clean-up goroutine.
LEMMA CleanShape ==
  ASSUME UploadInv, Clean
  PROVE  Shape'
<1> USE DEF UploadInv
<1>1. CASE CleanScan
  BY <1>1, StutterShape DEF CleanScan, locals
<1>2. ASSUME NEW i \in Ids, CleanTerminate(i) PROVE Shape'
  <2>1. PICK G \in SUBSET Ids : G = IF sessions[i] = None THEN {} ELSE {i}
    BY UploadConstants
  <2>2. \A j \in Ids : sessions'[j] = IF j \in G THEN None ELSE sessions[j]
    BY <1>2, <2>1 DEF CleanTerminate, TypeOK
  <2>3. cleaning' \in Ids => cleaning' \in G
    BY <1>2, <2>1, UploadConstants DEF CleanTerminate
  <2> QED BY <1>2, <2>1, <2>2, <2>3, RemovedShape DEF CleanTerminate, locals
<1>3. CASE CleanUnlink
  <2>1. PICK i \in Ids : i = cleaning
    BY <1>3 DEF CleanUnlink, TypeOK
  <2>2. Doomed(i)
    BY <2>1 DEF IdShape
  <2>3. files'[i] = None /\ \A j \in Ids \ {i} : files'[j] = files[j]
    BY <1>3, <2>1 DEF CleanUnlink, TypeOK
  <2> QED BY <1>3, <2>2, <2>3, FileRemovedShape DEF CleanUnlink, locals
<1> QED BY <1>1, <1>2, <1>3 DEF Clean

\* The process dies: no request is left, what is on disk stays.
LEMMA CrashShape ==
  ASSUME UploadInv, Crash
  PROVE  Shape'
<1> USE DEF UploadInv
<1>1. SessionHasFile' /\ AckedBytesKept'
  BY DEF Crash, SessionHasFile, AckedBytesKept
<1>2. \A q \in Procs : pc'[q] = "idle" /\ unlink'[q] = {} /\ tx' # q
  BY UploadConstants DEF Crash
<1>3. \A i \in Ids : IdShape(i)'
  BY UploadConstants DEF Crash, IdShape
<1>4. \A q \in Procs : RequestShape(q)'
  BY <1>2 DEF RequestShape, Named
<1> QED BY <1>1, <1>3, <1>4 DEF Shape

\* Every step keeps the invariant.
LEMMA NextUpload ==
  ASSUME UploadInv, [Next]_vars
  PROVE  UploadInv'
<1>1. TypeOK'
  BY NextTyped
<1>2. Shape'
  <2>1. CASE Clean
    BY <2>1, CleanShape
  <2>2. CASE Tick
    BY <2>2, StutterShape DEF Tick, locals, cleaner
  <2>3. CASE Crash
    BY <2>3, CrashShape
  <2>4. CASE UNCHANGED vars
    BY <2>4, StutterShape DEF vars
  <2>5. ASSUME NEW p \in Procs, Request(p) \/ Step(p) PROVE Shape'
    BY <1>1, <2>5, RequestShaped, CreateFileShape, CreatePutShape, CreatePutErrorShape,
       AppendShape, AppendCommitShape, FinalizeShape, MarkCompletedShape,
       TerminateShape, UnlinkShape, CopyShape, RefreshShape
       DEF Step
  <2> QED BY <2>1, <2>2, <2>3, <2>4, <2>5 DEF Next
<1> QED BY <1>1, <1>2 DEF UploadInv, Shape

\* A server starts with nothing, or with a completed session of an older
\* release.
LEMMA InitUpload ==
  ASSUME Init
  PROVE  UploadInv
<1>1. Slice(0, PayloadLen) \in Seq(Bytes) /\ Len(Slice(0, PayloadLen)) = PayloadLen
  BY SliceTyped, UploadConstants
<1>2. Residue \in Sessions /\ Residue.offset = PayloadLen
  BY UploadConstants DEF Residue, Sessions, Kinds
<1>3. TypeOK
  <2>1. used \subseteq Ids
    BY DEF Init
  <2>2. sessions \in [Ids -> Sessions \cup {None}]
    BY <1>2 DEF Init
  <2>3. files \in [Ids -> Seq(Bytes) \cup {None}]
    BY <1>1 DEF Init
  <2> QED BY <2>1, <2>2, <2>3, UploadConstants DEF Init, TypeOK, Labels, Kinds
<1>4. ASSUME NEW i \in Ids
      PROVE  /\ i \in used => /\ sessions[i] = Residue /\ files[i] = Slice(0, PayloadLen)
             /\ i \notin used => sessions[i] = None /\ files[i] = None
  BY DEF Init
<1>5. Slice(0, PayloadLen) # None
  BY <1>1, UploadConstants
<1>6. SessionHasFile
  BY <1>4, <1>5 DEF SessionHasFile
<1>7. AckedBytesKept
  BY <1>1, <1>2, <1>4, UploadConstants DEF AckedBytesKept
<1>8. \A p \in Procs : RequestShape(p)
  BY UploadConstants DEF Init, RequestShape, Named
<1>9. \A i \in Ids : IdShape(i)
  BY <1>4, UploadConstants DEF Init, IdShape
<1> QED BY <1>3, <1>6, <1>7, <1>8, <1>9 DEF UploadInv

(***************************************************************************)
(* Without faults the files are exact.                                     *)
(***************************************************************************)

Exact == ContiguousUpload /\ WrittenExactly /\ Accounted

\* A step that leaves the store alone and gives up no file.
LEMMA SameExact ==
  ASSUME ExactInv, UNCHANGED <<sessions, files, base, tx, cleaning>>,
         \A q \in Procs :
           /\ pc'[q] = "commit" <=> pc[q] = "commit"
           /\ pc[q] = "commit" =>
                id'[q] = id[q] /\ off'[q] = off[q] /\ n'[q] = n[q]
           /\ pc[q] = "createPut" => pc'[q] = "createPut" /\ id'[q] = id[q]
           /\ unlink[q] \subseteq unlink'[q]
  PROVE  Exact'
<1> USE DEF ExactInv, UploadInv
<1>1. \A q \in Procs : tx = q => pc[q] = "commit"
  BY DEF RequestShape
<1>2. ContiguousUpload'
  BY <1>1 DEF ContiguousUpload
<1>3. WrittenExactly'
  BY DEF WrittenExactly
<1>4. Accounted'
  <2> SUFFICES ASSUME NEW i \in Ids, files'[i] # None
               PROVE  \/ sessions'[i] # None \/ cleaning' = i
                      \/ \E p \in Procs : (pc'[p] = "createPut" /\ id'[p] = i)
                                          \/ i \in unlink'[p]
    BY DEF Accounted
  <2> QED BY DEF Accounted
<1> QED BY <1>2, <1>3, <1>4 DEF Exact

\* A request that moves between labels outside the store.
LEMMA MovedExact ==
  ASSUME ExactInv, NEW p \in Procs, Others(p),
         UNCHANGED <<sessions, files, base, tx, cleaning>>,
         pc[p] \notin {"createPut", "commit"}, pc'[p] # "commit",
         unlink[p] \subseteq unlink'[p]
  PROVE  Exact'
BY SameExact DEF Others

\* A request that gives up without a file of its own.
LEMMA GaveUpExact ==
  ASSUME ExactInv, NEW p \in Procs, Free(p),
         UNCHANGED <<sessions, files, base, tx, cleaning>>,
         pc[p] \notin {"createPut", "commit"} \cup UnlinkLabels
  PROVE  Exact'
<1>1. TypeOK /\ unlink[p] = {}
  BY DEF ExactInv, UploadInv, RequestShape
<1>2. Others(p) /\ pc'[p] = "idle"
  BY <1>1, Freed
<1> QED BY <1>1, <1>2, MovedExact

\* A new request.
LEMMA RequestExact ==
  ASSUME ExactInv, NEW p \in Procs, Request(p)
  PROVE  Exact'
<1> USE DEF ExactInv, UploadInv
<1>1. ASSUME NEW code, Refuse(code) PROVE Exact'
  BY <1>1, SameExact DEF Refuse, cleaner, locals
<1>2. ASSUME NEW l \in Labels \ {"commit"}, pc[p] = "idle", Continue(p, l),
             Others(p), UNCHANGED <<sessions, files, base, tx, cleaning, unlink>>
      PROVE  Exact'
  <2>1. pc'[p] = l
    BY <1>2 DEF TypeOK
  <2> QED BY <1>2, <2>1, MovedExact
<1>3. ASSUME NEW k \in Kinds, NEW m \in 0..MaxChunk, StartCreate(p, k, m)
      PROVE  Exact'
  <2>1. Others(p)
    BY <1>3 DEF StartCreate, TypeOK, Others
  <2> QED BY <1>2, <1>3, <2>1 DEF StartCreate, Labels, cleaner
<1>4. ASSUME NEW i \in Ids, NEW o \in 0..MaxFile, NEW m \in 0..MaxChunk,
             StartPatch(p, i, o, m)
      PROVE  Exact'
  <2>1. Others(p)
    BY <1>4 DEF StartPatch, TypeOK, Others
  <2> QED BY <1>2, <1>4, <2>1 DEF StartPatch, Labels, cleaner
<1>5. ASSUME NEW i \in Ids, StartDelete(p, i) PROVE Exact'
  <2>1. Others(p)
    BY <1>5 DEF StartDelete, TypeOK, Others
  <2> QED BY <1>2, <1>5, <2>1 DEF StartDelete, Labels, cleaner
<1>6. ASSUME NEW rs \in RefLists, StartFinal(p, rs) PROVE Exact'
  <2>1. Others(p)
    BY <1>6 DEF StartFinal, TypeOK, Others
  <2> QED BY <1>2, <1>6, <2>1 DEF StartFinal, Labels, cleaner
<1> QED
  BY <1>1, <1>3, <1>4, <1>5, <1>6 DEF Request, GoneRefused, FinalIncomplete

\* The new file belongs to its request.
LEMMA CreateFileExact ==
  ASSUME ExactInv, NEW p \in Procs, NEW i \in Ids, NEW b \in 0..PayloadLen,
         CreateFile(p, i, b)
  PROVE  Exact'
<1> USE DEF ExactInv, UploadInv
<1>1. /\ Others(p) /\ pc'[p] = "createPut" /\ id'[p] = i /\ unlink'[p] = unlink[p]
      /\ \A j \in Ids \ {i} : files'[j] = files[j] /\ base'[j] = base[j]
      /\ i \notin used /\ UNCHANGED <<sessions, tx, cleaning>>
      /\ pc[p] = "createFile"
  BY DEF CreateFile, TypeOK, Others, cleaner
<1>2. sessions[i] = None
  BY <1>1 DEF IdShape
<1>3. tx # p
  BY <1>1 DEF RequestShape
<1>4. ContiguousUpload'
  BY <1>1, <1>2, <1>3 DEF ContiguousUpload, Others
<1>5. WrittenExactly'
  <2>1. ASSUME NEW q \in Procs, pc'[q] = "commit"
        PROVE  files'[id'[q]] = Slice(base'[id'[q]], off'[q] + n'[q])
    <3>1. q # p /\ pc[q] = "commit" /\ id'[q] = id[q] /\ off'[q] = off[q] /\ n'[q] = n[q]
      BY <1>1, <2>1 DEF Others
    <3>2. id[q] \in Ids /\ id[q] # i
      BY <1>1, <3>1, NamedId
    <3> QED BY <1>1, <3>1, <3>2 DEF WrittenExactly
  <2> QED BY <2>1 DEF WrittenExactly
<1>6. Accounted'
  BY <1>1 DEF Accounted, Others
<1> QED BY <1>4, <1>5, <1>6 DEF Exact

\* The new session announces what its empty file holds: nothing.
LEMMA CreatePutExact ==
  ASSUME ExactInv, NEW p \in Procs, CreatePut(p)
  PROVE  Exact'
<1> USE DEF ExactInv, UploadInv
<1>1. pc[p] = "createPut" /\ id[p] \in Ids /\ files[id[p]] = <<>> /\ unlink[p] = {}
      /\ tx = None
  BY NamedId DEF CreatePut, RequestShape, UnlinkLabels
<1>2. /\ Others(p) /\ pc'[p] \notin {"createPut", "commit"}
      /\ UNCHANGED <<files, base, tx, cleaning>>
  <2>1. UNCHANGED <<files, base, tx, cleaning>>
    BY DEF CreatePut, cleaner
  <2>2. CASE Free(p)
    BY <2>1, <2>2, Freed
  <2>3. ASSUME NEW l \in {"copy", "append"}, Continue(p, l), UNCHANGED locals
        PROVE  Others(p) /\ pc'[p] \notin {"createPut", "commit"}
    <3>1. TypeOK
      OBVIOUS
    <3>2. Others(p) /\ pc'[p] = l
      BY <2>3, <3>1, Moved
    <3> QED BY <3>2
  <2> QED BY <2>1, <2>2, <2>3, Zenon DEF CreatePut, Answer
<1>3. /\ sessions'[id[p]] # None /\ sessions'[id[p]].offset = 0
      /\ \A j \in Ids \ {id[p]} : sessions'[j] = sessions[j]
  <2> DEFINE r == [kind |-> kind[p], length |-> NewLength(p), offset |-> 0,
                   refs |-> refs[p], expires |-> now + Expiration, done |-> FALSE]
  <2>1. NewLength(p) \in Nat
    <3>1. kind[p] \in Kinds /\ off[p] \in Nat
      BY DEF TypeOK
    <3> QED BY <3>1, UploadConstants DEF NewLength, Kinds
  <2>2. r \in Sessions /\ r.offset = 0
    BY <2>1, UploadConstants DEF TypeOK, Sessions
  <2>3. sessions' = [sessions EXCEPT ![id[p]] = r]
    BY DEF CreatePut
  <2> HIDE DEF r
  <2>4. sessions'[id[p]] = r /\ \A j \in Ids \ {id[p]} : sessions'[j] = sessions[j]
    BY <1>1, <2>3 DEF TypeOK
  <2>5. r # None
    BY <2>2, UploadConstants
  <2> QED BY <2>2, <2>4, <2>5
<1>4. Slice(base[id[p]], 0) = <<>>
  <2>1. base[id[p]] \in Nat
    BY <1>1, UploadConstants DEF TypeOK
  <2>2. Slice(base[id[p]], 0) \in Seq(Bytes) /\ Len(Slice(base[id[p]], 0)) = 0
    BY <2>1, SliceTyped
  <2> QED BY <2>2
<1>5. ContiguousUpload'
  <2> SUFFICES ASSUME NEW i \in Ids, sessions'[i] # None, sessions'[i].kind # "final",
                      \A q \in Procs : tx' = q => id'[q] # i
               PROVE  files'[i] = Slice(base'[i], sessions'[i].offset)
    BY DEF ContiguousUpload
  <2>1. CASE i = id[p]
    BY <1>1, <1>2, <1>3, <1>4, <2>1
  <2>2. CASE i # id[p]
    <3>1. \A q \in Procs : tx # q
      BY <1>1, UploadConstants
    <3> QED BY <1>2, <1>3, <2>2, <3>1 DEF ContiguousUpload
  <2> QED BY <2>1, <2>2
<1>6. WrittenExactly'
  BY <1>2 DEF WrittenExactly, Others
<1>7. Accounted'
  <2> SUFFICES ASSUME NEW i \in Ids, files'[i] # None, i # id[p]
               PROVE  \/ sessions'[i] # None \/ cleaning' = i
                      \/ \E q \in Procs : (pc'[q] = "createPut" /\ id'[q] = i)
                                          \/ i \in unlink'[q]
    BY <1>3 DEF Accounted
  <2>1. CASE sessions[i] # None \/ cleaning = i
    BY <1>2, <1>3, <2>1
  <2>2. ASSUME NEW q \in Procs, (pc[q] = "createPut" /\ id[q] = i) \/ i \in unlink[q]
        PROVE  (pc'[q] = "createPut" /\ id'[q] = i) \/ i \in unlink'[q]
    BY <1>1, <1>2, <2>2 DEF Others
  <2> QED BY <1>2, <2>1, <2>2 DEF Accounted
<1> QED BY <1>5, <1>6, <1>7 DEF Exact

\* The chunk continues the file where the session's offset says.
LEMMA AppendWriteExact ==
  ASSUME ExactInv, NEW p \in Procs, AppendWrite(p)
  PROVE  Exact'
<1> USE DEF ExactInv, UploadInv
<1>1. pc[p] = "append" /\ id[p] \in Ids /\ unlink[p] = {} /\ tx = None /\ tx' = p
  BY NamedId DEF AppendWrite, RequestShape, UnlinkLabels
<1>2. /\ Others(p) /\ pc'[p] = "commit" /\ id'[p] = id[p] /\ off'[p] = off[p]
      /\ n'[p] = n[p]
  BY Moved DEF AppendWrite
<1>3. /\ UNCHANGED <<sessions, base, cleaning>>
      /\ files'[id[p]] = files[id[p]] \o Chunk(p)
      /\ \A j \in Ids \ {id[p]} : files'[j] = files[j]
  BY <1>1 DEF AppendWrite, TypeOK, cleaner
<1>4. \A q \in Procs : tx # q
  BY <1>1, UploadConstants
<1>5. sessions[id[p]] # None /\ files[id[p]] = Slice(base[id[p]], off[p])
  <2>1. /\ sessions[id[p]] # None /\ sessions[id[p]].kind # "final"
        /\ sessions[id[p]].offset = off[p]
    BY DEF AppendWrite, Appendable, Active
  <2> QED BY <1>1, <1>4, <2>1 DEF ContiguousUpload
<1>6. files'[id[p]] = Slice(base[id[p]], off[p] + n[p])
  <2>1. base[id[p]] \in Nat /\ off[p] \in Nat /\ n[p] \in Nat
    BY <1>1, UploadConstants DEF TypeOK
  <2>2. Slice(base[id[p]], off[p]) \o Slice(base[id[p]] + off[p], n[p])
          = Slice(base[id[p]], off[p] + n[p])
    BY <2>1, SliceJoined
  <2> QED BY <1>3, <1>5, <2>2 DEF Chunk
<1>7. ContiguousUpload'
  BY <1>1, <1>2, <1>3, <1>4 DEF ContiguousUpload
<1>8. WrittenExactly'
  <2>1. ASSUME NEW q \in Procs, pc'[q] = "commit" PROVE q = p
    <3>1. pc[q] # "commit"
      BY <1>4 DEF RequestShape
    <3> QED BY <1>2, <2>1, <3>1 DEF Others
  <2> QED BY <1>2, <1>3, <1>6, <2>1 DEF WrittenExactly
<1>9. Accounted'
  <2> SUFFICES ASSUME NEW i \in Ids, files'[i] # None, i # id[p]
               PROVE  \/ sessions'[i] # None \/ cleaning' = i
                      \/ \E q \in Procs : (pc'[q] = "createPut" /\ id'[q] = i)
                                          \/ i \in unlink'[q]
    BY <1>3, <1>5 DEF Accounted
  <2>1. CASE sessions[i] # None \/ cleaning = i
    BY <1>3, <2>1
  <2>2. ASSUME NEW q \in Procs, (pc[q] = "createPut" /\ id[q] = i) \/ i \in unlink[q]
        PROVE  (pc'[q] = "createPut" /\ id'[q] = i) \/ i \in unlink'[q]
    BY <1>1, <1>2, <2>2 DEF Others
  <2> QED BY <1>3, <2>1, <2>2 DEF Accounted
<1> QED BY <1>7, <1>8, <1>9 DEF Exact

\* The commit announces what was written.
LEMMA AppendCommitExact ==
  ASSUME ExactInv, NEW p \in Procs, AppendCommit(p)
  PROVE  Exact'
<1> USE DEF ExactInv, UploadInv
<1>1. pc[p] = "commit" /\ id[p] \in Ids /\ unlink[p] = {} /\ tx' = None
  BY NamedId DEF AppendCommit, RequestShape, UnlinkLabels
<1>2. tx = p /\ sessions[id[p]] # None /\ sessions[id[p]].offset = off[p]
  BY <1>1 DEF RequestShape
<1>3. off[p] + n[p] \in Nat
  BY UploadConstants DEF TypeOK
<1>4. /\ sessions'[id[p]] # None /\ sessions'[id[p]].offset = off[p] + n[p]
      /\ \A j \in Ids \ {id[p]} : sessions'[j] = sessions[j]
  <2>1. PICK o \in Nat : o = off[p] + n[p]
    BY <1>3
  <2>2. sessions' = [sessions EXCEPT ![id[p]].offset = o,
                                     ![id[p]].expires = now + Expiration]
    BY <1>1, <1>2, <2>1 DEF AppendCommit, TypeOK
  <2> QED BY <1>1, <1>2, <2>1, <2>2, TouchedTyped
<1>5. Others(p) /\ pc'[p] \in {"idle", "read"} /\ UNCHANGED <<files, base, cleaning>>
  <2>1. UNCHANGED <<files, base, cleaning>>
    BY DEF AppendCommit, cleaner
  <2>2. TypeOK
    OBVIOUS
  <2>3. CASE Free(p)
    BY <2>1, <2>2, <2>3, Freed
  <2>4. CASE Continue(p, "read") /\ UNCHANGED locals
    BY <2>1, <2>2, <2>4, Moved
  <2> QED BY <2>3, <2>4, Zenon DEF AppendCommit, Answer
<1>6. files[id[p]] = Slice(base[id[p]], off[p] + n[p])
  BY <1>1 DEF WrittenExactly
<1>7. ContiguousUpload'
  <2> SUFFICES ASSUME NEW i \in Ids, sessions'[i] # None, sessions'[i].kind # "final"
               PROVE  files'[i] = Slice(base'[i], sessions'[i].offset)
    BY DEF ContiguousUpload
  <2>1. CASE i = id[p]
    BY <1>4, <1>5, <1>6, <2>1
  <2>2. CASE i # id[p]
    BY <1>2, <1>4, <1>5, <2>2 DEF ContiguousUpload
  <2> QED BY <2>1, <2>2
<1>8. WrittenExactly'
  BY <1>5 DEF WrittenExactly, Others
<1>9. Accounted'
  <2> SUFFICES ASSUME NEW i \in Ids, files'[i] # None, i # id[p]
               PROVE  \/ sessions'[i] # None \/ cleaning' = i
                      \/ \E q \in Procs : (pc'[q] = "createPut" /\ id'[q] = i)
                                          \/ i \in unlink'[q]
    BY <1>4 DEF Accounted
  <2>1. CASE sessions[i] # None \/ cleaning = i
    BY <1>4, <1>5, <2>1
  <2>2. ASSUME NEW q \in Procs, (pc[q] = "createPut" /\ id[q] = i) \/ i \in unlink[q]
        PROVE  (pc'[q] = "createPut" /\ id'[q] = i) \/ i \in unlink'[q]
    BY <1>1, <1>5, <2>2 DEF Others
  <2> QED BY <1>5, <2>1, <2>2 DEF Accounted
<1> QED BY <1>7, <1>8, <1>9 DEF Exact

\* Records go, and somebody takes their files over.
LEMMA RemovedExact ==
  ASSUME ExactInv, NEW G \in SUBSET Ids, tx = None, tx' = None,
         \A i \in Ids : sessions'[i] = IF i \in G THEN None ELSE sessions[i],
         UNCHANGED <<files, base>>,
         \A q \in Procs :
           /\ pc'[q] # "commit" \/ pc'[q] = pc[q]
           /\ pc[q] = "createPut" => pc'[q] = "createPut" /\ id'[q] = id[q]
           /\ unlink[q] \subseteq unlink'[q],
         cleaning' = cleaning \/ cleaning = None,
         \A i \in G : cleaning' = i \/ \E q \in Procs : i \in unlink'[q]
  PROVE  Exact'
<1> USE DEF ExactInv, UploadInv
<1>1. \A q \in Procs : tx # q /\ pc[q] # "commit"
  BY UploadConstants DEF RequestShape
<1>2. ContiguousUpload'
  BY <1>1 DEF ContiguousUpload
<1>3. WrittenExactly'
  BY <1>1 DEF WrittenExactly
<1>4. Accounted'
  <2> SUFFICES ASSUME NEW i \in Ids, files'[i] # None, i \notin G
               PROVE  \/ sessions'[i] # None \/ cleaning' = i
                      \/ \E q \in Procs : (pc'[q] = "createPut" /\ id'[q] = i)
                                          \/ i \in unlink'[q]
    BY DEF Accounted
  <2>1. CASE sessions[i] # None \/ cleaning = i
    BY <2>1, UploadConstants
  <2>2. ASSUME NEW q \in Procs, (pc[q] = "createPut" /\ id[q] = i) \/ i \in unlink[q]
        PROVE  (pc'[q] = "createPut" /\ id'[q] = i) \/ i \in unlink'[q]
    BY <2>2
  <2> QED BY <2>1, <2>2 DEF Accounted
<1> QED BY <1>2, <1>3, <1>4 DEF Exact

\* finalizeUpload up to MarkCompleted touches no file and no session.
LEMMA FinalizeExact ==
  ASSUME ExactInv, NEW p \in Procs, FinalizeRead(p) \/ FinalizeStore(p)
  PROVE  Exact'
<1> USE DEF ExactInv, UploadInv
<1>1. /\ pc[p] \in {"read", "store"}
      /\ UNCHANGED <<sessions, files, base, tx, cleaning>>
  BY DEF FinalizeRead, FinalizeStore, cleaner
<1>2. CASE Free(p)
  BY <1>1, <1>2, GaveUpExact DEF UnlinkLabels
<1>3. ASSUME NEW l \in {"store", "complete"}, Continue(p, l), UNCHANGED locals
      PROVE  Exact'
  <2>1. TypeOK
    OBVIOUS
  <2>2. Others(p) /\ pc'[p] = l /\ unlink'[p] = unlink[p]
    BY <1>3, <2>1, Moved
  <2> QED BY <1>1, <2>2, MovedExact
<1> QED BY <1>2, <1>3 DEF FinalizeRead, FinalizeStore, Answer

\* MarkCompleted hands all the files over to the removal.
LEMMA MarkCompletedExact ==
  ASSUME ExactInv, NEW p \in Procs, MarkCompleted(p)
  PROVE  Exact'
<1> USE DEF ExactInv, UploadInv
<1>1. id[p] \in Ids /\ pc[p] = "complete" /\ tx = None /\ unlink[p] = {}
  BY NamedId DEF RequestShape, MarkCompleted, UnlinkLabels
<1>2. CASE Free(p) /\ UNCHANGED <<sessions, completed>>
  BY <1>1, <1>2, GaveUpExact DEF MarkCompleted, cleaner, UnlinkLabels
<1>3. CASE sessions[id[p]] # None /\ Continue(p, "unlink")
  <2> DEFINE gone == {id[p]} \cup {i \in PartialsOf(sessions[id[p]]) :
                                     sessions[i] # None}
  <2>1. pc' = [pc EXCEPT ![p] = "unlink"]
    BY <1>3
  <2>2. PartialsOf(sessions[id[p]]) \in SUBSET Ids
    <3>1. sessions[id[p]] \in Sessions
      BY <1>1, <1>3 DEF TypeOK
    <3> QED BY <3>1 DEF PartialsOf, Sessions
  <2>3. gone \in SUBSET Ids
    BY <1>1, <2>2
  <2>4. /\ sessions' = [i \in Ids |-> IF i \in gone THEN None ELSE sessions[i]]
        /\ unlink' = [unlink EXCEPT ![p] = gone]
        /\ UNCHANGED <<id, files, base, tx, cleaning>>
    BY <1>3 DEF MarkCompleted, cleaner
  <2> HIDE DEF gone
  <2>5. PICK G \in SUBSET Ids : G = gone
    BY <2>3
  <2>6. \A q \in Procs :
           /\ pc'[q] # "commit" \/ pc'[q] = pc[q]
           /\ pc[q] = "createPut" => pc'[q] = "createPut" /\ id'[q] = id[q]
           /\ unlink[q] \subseteq unlink'[q]
    BY <1>1, <2>1, <2>4 DEF TypeOK
  <2>7. \A i \in G : i \in unlink'[p]
    BY <2>4, <2>5 DEF TypeOK
  <2> QED BY <1>1, <2>4, <2>5, <2>6, <2>7, RemovedExact
<1> QED BY <1>2, <1>3 DEF MarkCompleted, Answer

\* So does Terminate.
LEMMA TerminateExact ==
  ASSUME ExactInv, NEW p \in Procs, Terminate(p)
  PROVE  Exact'
<1> USE DEF ExactInv, UploadInv
<1>1. /\ id[p] \in Ids /\ pc[p] \in {"terminate", "abort"} /\ tx = None
      /\ unlink[p] = {}
  BY NamedId DEF Terminate, RequestShape, UnlinkLabels
<1>2. CASE Free(p) /\ sessions[id[p]] = None
  <2>1. sessions' = sessions
    BY <1>1, <1>2 DEF Terminate, TypeOK
  <2> QED BY <1>1, <1>2, <2>1, GaveUpExact DEF Terminate, cleaner, UnlinkLabels
<1>3. CASE /\ sessions[id[p]] # None /\ unlink' = [unlink EXCEPT ![p] = {id[p]}]
           /\ \E l \in UnlinkLabels : Continue(p, l)
           /\ UNCHANGED <<id, off, n>>
  <2>1. PICK G \in SUBSET Ids : G = {id[p]}
    BY <1>1
  <2>2. \A i \in Ids : sessions'[i] = IF i \in G THEN None ELSE sessions[i]
    BY <1>1, <2>1 DEF Terminate, TypeOK
  <2>3. \A q \in Procs :
           /\ pc'[q] # "commit" \/ pc'[q] = pc[q]
           /\ pc[q] = "createPut" => pc'[q] = "createPut" /\ id'[q] = id[q]
           /\ unlink[q] \subseteq unlink'[q]
    BY <1>1, <1>3, <2>1 DEF TypeOK, UnlinkLabels
  <2>4. \A i \in G : i \in unlink'[p]
    BY <1>3, <2>1 DEF TypeOK
  <2> QED BY <1>1, <1>3, <2>1, <2>2, <2>3, <2>4, RemovedExact DEF Terminate, cleaner
<1> QED BY <1>2, <1>3 DEF Terminate, Answer, UnlinkLabels

\* A doomed file goes, and with it the debt.
LEMMA FileRemovedExact ==
  ASSUME ExactInv, NEW i \in Ids, Doomed(i),
         files'[i] = None, \A j \in Ids \ {i} : files'[j] = files[j],
         UNCHANGED <<sessions, base, tx>>,
         cleaning' = cleaning \/ cleaning = i,
         \A q \in Procs :
           /\ pc[q] \in {"createPut", "commit"} \/ pc'[q] \in {"createPut", "commit"} =>
                pc'[q] = pc[q] /\ id'[q] = id[q] /\ off'[q] = off[q] /\ n'[q] = n[q]
           /\ unlink[q] \ {i} \subseteq unlink'[q]
  PROVE  Exact'
<1> USE DEF ExactInv, UploadInv
<1>1. \A q \in Procs : tx = q => pc[q] = "commit"
  BY DEF RequestShape
<1>2. ContiguousUpload'
  BY <1>1 DEF ContiguousUpload, Doomed
<1>3. WrittenExactly'
  <2>1. ASSUME NEW q \in Procs, pc'[q] = "commit"
        PROVE  files'[id'[q]] = Slice(base'[id'[q]], off'[q] + n'[q])
    <3>1. pc[q] = "commit" /\ id'[q] = id[q] /\ off'[q] = off[q] /\ n'[q] = n[q]
      BY <2>1
    <3>2. id[q] \in Ids /\ sessions[id[q]] # None
      BY <3>1, NamedId DEF RequestShape
    <3>3. id[q] # i
      BY <3>2 DEF Doomed
    <3> QED BY <3>1, <3>2, <3>3 DEF WrittenExactly
  <2> QED BY <2>1 DEF WrittenExactly
<1>4. Accounted'
  <2> SUFFICES ASSUME NEW j \in Ids, files'[j] # None, j # i
               PROVE  \/ sessions'[j] # None \/ cleaning' = j
                      \/ \E q \in Procs : (pc'[q] = "createPut" /\ id'[q] = j)
                                          \/ j \in unlink'[q]
    BY DEF Accounted
  <2>1. CASE sessions[j] # None \/ cleaning = j
    BY <2>1
  <2>2. ASSUME NEW q \in Procs, (pc[q] = "createPut" /\ id[q] = j) \/ j \in unlink[q]
        PROVE  (pc'[q] = "createPut" /\ id'[q] = j) \/ j \in unlink'[q]
    BY <2>2
  <2> QED BY <2>1, <2>2 DEF Accounted
<1> QED BY <1>2, <1>3, <1>4 DEF Exact

\* Removing the file of a doomed id orphans nothing: its session has gone
\* before.
LEMMA UnlinkExact ==
  ASSUME ExactInv, NEW p \in Procs, NEW i \in Ids, Unlink(p, i)
  PROVE  Exact'
<1> USE DEF ExactInv, UploadInv
<1>1. Doomed(i) /\ pc[p] \in UnlinkLabels
  BY DEF Unlink, RequestShape, UnlinkLabels
<1>2. /\ files'[i] = None /\ \A j \in Ids \ {i} : files'[j] = files[j]
      /\ UNCHANGED <<sessions, base, tx, cleaning>>
  BY DEF Unlink, TypeOK, cleaner
<1>3. CASE Free(p) /\ unlink[p] = {i}
  <2>1. Others(p) /\ pc'[p] = "idle" /\ unlink'[p] = {}
    BY <1>3, Freed
  <2> QED BY <1>1, <1>2, <1>3, <2>1, FileRemovedExact DEF Others, UnlinkLabels
<1>4. CASE unlink' = [unlink EXCEPT ![p] = @ \ {i}] /\ UNCHANGED <<pc, id, off, n>>
  BY <1>1, <1>2, <1>4, FileRemovedExact DEF TypeOK
<1> QED BY <1>3, <1>4 DEF Unlink, Answer

\* A concatenation writes to no file that a regular or partial session owns.
LEMMA CopyExact ==
  ASSUME ExactInv, NEW p \in Procs, CopyPartial(p) \/ CopyDone(p)
  PROVE  Exact'
<1> USE DEF ExactInv, UploadInv
<1>1. /\ id[p] \in Ids /\ pc[p] = "copy" /\ unlink[p] = {}
      /\ sessions[id[p]] # None => sessions[id[p]].kind = "final"
  BY NamedId DEF CopyPartial, CopyDone, RequestShape, UnlinkLabels
<1>2. /\ Others(p) /\ unlink'[p] = {} /\ pc'[p] \in {"copy", "refresh", "abort"}
      /\ UNCHANGED <<sessions, base, tx, cleaning>>
      /\ \A j \in Ids \ {id[p]} : files'[j] = files[j]
      /\ files[id[p]] = None => files'[id[p]] = None
  BY <1>1 DEF CopyPartial, CopyDone, Others, TypeOK, cleaner, locals
<1>3. \A q \in Procs : tx = q => pc[q] = "commit" /\ q # p
  BY <1>1 DEF RequestShape
<1>4. ContiguousUpload'
  <2> SUFFICES ASSUME NEW i \in Ids, sessions'[i] # None, sessions'[i].kind # "final",
                      \A q \in Procs : tx' = q => id'[q] # i
               PROVE  files'[i] = Slice(base'[i], sessions'[i].offset)
    BY DEF ContiguousUpload
  <2>1. i # id[p] /\ files'[i] = files[i]
    BY <1>1, <1>2
  <2>2. \A q \in Procs : tx = q => id[q] # i
    BY <1>2, <1>3 DEF Others
  <2> QED BY <1>2, <2>1, <2>2 DEF ContiguousUpload
<1>5. WrittenExactly'
  <2>1. ASSUME NEW q \in Procs, pc'[q] = "commit"
        PROVE  files'[id'[q]] = Slice(base'[id'[q]], off'[q] + n'[q])
    <3>1. pc[q] = "commit" /\ id'[q] = id[q] /\ off'[q] = off[q] /\ n'[q] = n[q]
      BY <1>2, <2>1 DEF Others
    <3>2. id[q] \in Ids /\ id[q] # id[p]
      BY <1>1, <3>1, NamedId DEF RequestShape
    <3> QED BY <1>2, <3>1, <3>2 DEF WrittenExactly
  <2> QED BY <2>1 DEF WrittenExactly
<1>6. Accounted'
  <2> SUFFICES ASSUME NEW i \in Ids, files'[i] # None
               PROVE  \/ sessions'[i] # None \/ cleaning' = i
                      \/ \E q \in Procs : (pc'[q] = "createPut" /\ id'[q] = i)
                                          \/ i \in unlink'[q]
    BY DEF Accounted
  <2>1. files[i] # None
    BY <1>2
  <2>2. CASE sessions[i] # None \/ cleaning = i
    BY <1>2, <2>2
  <2>3. ASSUME NEW q \in Procs, (pc[q] = "createPut" /\ id[q] = i) \/ i \in unlink[q]
        PROVE  (pc'[q] = "createPut" /\ id'[q] = i) \/ i \in unlink'[q]
    BY <1>1, <1>2, <2>3 DEF Others
  <2> QED BY <2>1, <2>2, <2>3 DEF Accounted
<1> QED BY <1>4, <1>5, <1>6 DEF Exact

\* refreshOffset concerns a final session only.
LEMMA RefreshExact ==
  ASSUME ExactInv, NEW p \in Procs, RefreshOffset(p)
  PROVE  Exact'
<1> USE DEF ExactInv, UploadInv
<1>1. id[p] \in Ids /\ pc[p] = "refresh" /\ tx = None /\ unlink[p] = {}
  BY NamedId DEF RefreshOffset, RequestShape, UnlinkLabels
<1>2. CASE Free(p) /\ UNCHANGED sessions
  BY <1>1, <1>2, GaveUpExact DEF RefreshOffset, cleaner, UnlinkLabels
<1>3. CASE sessions[id[p]] # None /\ UNCHANGED locals /\ Continue(p, "read")
  <2>1. Others(p) /\ pc'[p] = "read" /\ unlink'[p] = {}
    BY <1>1, <1>3, Moved
  <2>2. PICK o \in Nat : o = off[p]
    BY DEF TypeOK
  <2>3. sessions' = [sessions EXCEPT ![id[p]].offset = o,
                                     ![id[p]].expires = now + Expiration]
    BY <1>3, <2>2 DEF RefreshOffset
  <2>4. /\ sessions'[id[p]] # None /\ sessions'[id[p]].kind = "final"
        /\ \A j \in Ids \ {id[p]} : sessions'[j] = sessions[j]
    <3>1. sessions[id[p]].kind = "final"
      BY <1>1, <1>3 DEF RequestShape
    <3> QED BY <1>1, <1>3, <2>3, <3>1, TouchedTyped
  <2>5. UNCHANGED <<files, base, tx, cleaning>>
    BY DEF RefreshOffset, cleaner
  <2>6. \A q \in Procs : tx # q /\ pc[q] # "commit"
    BY <1>1, UploadConstants DEF RequestShape
  <2>7. ContiguousUpload'
    <3> SUFFICES ASSUME NEW i \in Ids, sessions'[i] # None, sessions'[i].kind # "final"
                 PROVE  files'[i] = Slice(base'[i], sessions'[i].offset)
      BY DEF ContiguousUpload
    <3>1. i # id[p] /\ sessions'[i] = sessions[i]
      BY <2>4
    <3> QED BY <2>5, <2>6, <3>1 DEF ContiguousUpload
  <2>8. WrittenExactly'
    BY <2>1, <2>6 DEF WrittenExactly, Others
  <2>9. Accounted'
    <3> SUFFICES ASSUME NEW i \in Ids, files'[i] # None, i # id[p]
                 PROVE  \/ sessions'[i] # None \/ cleaning' = i
                        \/ \E q \in Procs : (pc'[q] = "createPut" /\ id'[q] = i)
                                            \/ i \in unlink'[q]
      BY <2>4 DEF Accounted
    <3>1. CASE sessions[i] # None \/ cleaning = i
      BY <2>4, <2>5, <3>1
    <3>2. ASSUME NEW q \in Procs, (pc[q] = "createPut" /\ id[q] = i) \/ i \in unlink[q]
          PROVE  (pc'[q] = "createPut" /\ id'[q] = i) \/ i \in unlink'[q]
      BY <1>1, <2>1, <3>2 DEF Others
    <3> QED BY <2>5, <3>1, <3>2 DEF Accounted
  <2> QED BY <2>7, <2>8, <2>9 DEF Exact
<1> QED BY <1>2, <1>3 DEF RefreshOffset, Answer

\* The clean-up goroutine takes over the file of a session it deletes.
LEMMA CleanExact ==
  ASSUME ExactInv, Clean
  PROVE  Exact'
<1> USE DEF ExactInv, UploadInv
<1>1. CASE CleanScan
  BY <1>1, SameExact DEF CleanScan, locals
<1>2. ASSUME NEW i \in Ids, CleanTerminate(i) PROVE Exact'
  <2>1. PICK G \in SUBSET Ids : G = IF sessions[i] = None THEN {} ELSE {i}
    BY UploadConstants
  <2>2. \A j \in Ids : sessions'[j] = IF j \in G THEN None ELSE sessions[j]
    BY <1>2, <2>1 DEF CleanTerminate, TypeOK
  <2>3. \A j \in G : cleaning' = j
    BY <1>2, <2>1 DEF CleanTerminate
  <2> QED BY <1>2, <2>1, <2>2, <2>3, RemovedExact DEF CleanTerminate, locals
<1>3. CASE CleanUnlink
  <2>1. PICK i \in Ids : i = cleaning
    BY <1>3 DEF CleanUnlink, TypeOK
  <2>2. Doomed(i)
    BY <2>1 DEF IdShape
  <2>3. files'[i] = None /\ \A j \in Ids \ {i} : files'[j] = files[j]
    BY <1>3, <2>1 DEF CleanUnlink, TypeOK
  <2> QED BY <1>3, <2>1, <2>2, <2>3, FileRemovedExact DEF CleanUnlink, locals
<1> QED BY <1>1, <1>2, <1>3 DEF Clean

\* Every step that is not a fault keeps the files exact.
LEMMA NextExact ==
  ASSUME ExactInv, ~Faulty, [Next]_vars
  PROVE  ExactInv'
<1>1. UploadInv'
  BY NextUpload DEF ExactInv
<1>2. Exact'
  <2>1. CASE Clean
    BY <2>1, CleanExact
  <2>2. CASE Tick
    BY <2>2, SameExact DEF Tick, locals, cleaner
  <2>3. CASE UNCHANGED vars
    BY <2>3, SameExact DEF vars
  <2>4. ASSUME NEW p \in Procs, AppendRefused(p) PROVE Exact'
    BY <2>4, GaveUpExact DEF AppendRefused, Answer, cleaner, UnlinkLabels
  <2>5. ASSUME NEW p \in Procs,
               CreatePutError(p) \/ AppendError(p) \/ TransactionError(p)
        PROVE  FALSE
    BY <2>5 DEF CreatePutError, AppendError, TransactionError
  <2>6. ASSUME NEW p \in Procs, Request(p) \/ Step(p) PROVE Exact'
    BY <2>4, <2>5, <2>6, RequestExact, CreateFileExact, CreatePutExact,
       AppendWriteExact, AppendCommitExact, FinalizeExact, MarkCompletedExact,
       TerminateExact, UnlinkExact, CopyExact, RefreshExact
       DEF Step
  <2> QED BY <2>1, <2>2, <2>3, <2>6 DEF Next, Crash
<1> QED BY <1>1, <1>2 DEF ExactInv, Exact

\* An empty store satisfies the exact invariant.
LEMMA InitExact ==
  ASSUME Init
  PROVE  ExactInv
<1>1. UploadInv
  BY InitUpload
<1>2. ContiguousUpload
  <2>1. Residue.offset = PayloadLen
    BY DEF Residue
  <2>2. ASSUME NEW i \in Ids, sessions[i] # None
        PROVE  /\ sessions[i] = Residue /\ files[i] = Slice(0, PayloadLen)
               /\ base[i] = 0
    BY <2>2 DEF Init
  <2> QED BY <2>1, <2>2 DEF ContiguousUpload
<1>3. WrittenExactly
  BY DEF Init, WrittenExactly
<1>4. Accounted
  <2>1. Residue \in Sessions
    BY UploadConstants DEF Residue, Sessions, Kinds
  <2>2. Residue # None
    BY <2>1, UploadConstants
  <2> QED BY <2>2 DEF Init, Accounted
<1> QED BY <1>1, <1>2, <1>3, <1>4 DEF ExactInv

(***************************************************************************)
(* Theorems.                                                               *)
(***************************************************************************)

\* The invariant of the session store, for any number of requests and ids,
\* with faults or without: it holds initially and every step keeps it.
THEOREM UploadInvariant == Spec => []UploadInv
BY InitUpload, NextUpload, PTL DEF Spec

\* The variables of the session store, its handlers and the clean-up keep
\* their types.
THEOREM UploadTypes == Spec => []TypeOK
<1>1. UploadInv => TypeOK
  BY DEF UploadInv
<1> QED BY <1>1, UploadInvariant, PTL

\* A session always has its temporary file: Create writes the file before the
\* record, Terminate, MarkCompleted and the clean-up delete the record before
\* the file, and no other request removes a file under a live record; also
\* when the process dies between the two.
THEOREM SessionsHaveFiles == Spec => []SessionHasFile
<1>1. UploadInv => SessionHasFile
  BY DEF UploadInv
<1> QED BY <1>1, UploadInvariant, PTL

\* The bytes that an Upload-Offset acknowledged are in the file of the session,
\* over failed writes, rolled-back transactions and crashes.
THEOREM AcknowledgedBytesAreKept == Spec => []AckedBytesKept
<1>1. UploadInv => AckedBytesKept
  BY DEF UploadInv
<1> QED BY <1>1, UploadInvariant, PTL

\* However many requests reach the end of one upload, MarkCompleted succeeds
\* for one of them, and only when the payload was stored before.
THEOREM UploadsCompleteOnce == Spec => []CompletedOnce
<1>1. UploadInv => CompletedOnce
  BY DEF UploadInv, IdShape, CompletedOnce, TypeOK
<1> QED BY <1>1, UploadInvariant, PTL

\* Without faults the files are exact.
THEOREM ExactInvariant == ~Faulty => (Spec => []ExactInv)
<1> SUFFICES ASSUME ~Faulty PROVE Spec => []ExactInv
  OBVIOUS
<1>1. ExactInv /\ [Next]_vars => ExactInv'
  BY NextExact
<1> QED BY <1>1, InitExact, PTL DEF Spec

\* Without faults the file of a session is exactly the part of the payload
\* that its offset announces: of two appends that race for one offset exactly
\* one writes, because the offset is compared inside the transaction that
\* writes.
THEOREM UploadsAreContiguous == ~Faulty => (Spec => []ContiguousUpload)
<1>1. ExactInv => ContiguousUpload
  BY DEF ExactInv
<1> QED BY <1>1, ExactInvariant, PTL

\* Without faults no temporary file is orphaned: a file without a session is
\* still in the hands of the request that creates it, of one that has to remove
\* it, or of the clean-up.
THEOREM NoFileIsOrphaned == ~Faulty => (Spec => []NoOrphanFile)
<1>1. ExactInv => NoOrphanFile
  <2> SUFFICES ASSUME ExactInv, \A p \in Procs : pc[p] = "idle", cleaning = None,
                      NEW i \in Ids, files[i] # None
               PROVE  sessions[i] # None
    BY DEF NoOrphanFile
  <2>1. \A p \in Procs : unlink[p] = {}
    BY DEF ExactInv, UploadInv, RequestShape, UnlinkLabels
  <2> QED BY <2>1, UploadConstants DEF ExactInv, Accounted
<1> QED BY <1>1, ExactInvariant, PTL
=============================================================================
