------------------------ MODULE PayloadServiceProofs ------------------------
(***************************************************************************)
(* Machine-checked theorems about PayloadService, for every number of      *)
(* requests, hashes, contents, checksums and mutexes.                      *)
(***************************************************************************)
EXTENDS PayloadService, TLAPS

USE DEF TypedInv, TypeOK, RequestsShape, Goto, Continue

(***************************************************************************)
(* Helpers.                                                                *)
(***************************************************************************)

\* A handler that returns leaves well-typed, consistent local variables.
LEMMA FreeShape ==
  ASSUME TypedInv, NEW p \in Procs, Free(p), up' = up
  PROVE  RequestsTyped' /\ RequestsShape'
<1>1. RequestsTyped'
  BY NoneAssumption DEF RequestsTyped, Free, PcLabels
<1>2. ASSUME NEW q \in Procs PROVE RequestShape(q)'
  BY <1>1, NoneAssumption DEF RequestsTyped, Free, RequestShape, PushLabels,
     LegacyLabels, RecordLabels, InfoLabels, ContentLabels, ReadLabels
<1> QED BY <1>1, <1>2

\* So does a handler that answers, and its response is well formed.
LEMMA AnswerTyped ==
  ASSUME TypedInv, NEW p \in Procs, pc[p] # "idle", up' = up,
         NEW code \in Codes, NEW d \in Data \cup {None}, Answer(p, code, d)
  PROVE  /\ RequestsTyped' /\ RequestsShape'
         /\ answer' \in Answers \cup {None}
<1>1. RequestsTyped' /\ RequestsShape'
  BY FreeShape DEF Answer
<1>2. answer' \in Answers
  BY DEF Answer, Respond, Sent, Answers, RequestShape
<1> QED BY <1>1, <1>2

\* A step of one request that keeps the others' local variables need only be
\* checked for that request.
LEMMA OneRequest ==
  ASSUME TypedInv, NEW p \in Procs, up' = up, RequestsTyped',
         RequestShape(p)',
         \A q \in Procs \ {p} :
           /\ pc'[q] = pc[q] /\ op'[q] = op[q] /\ hash'[q] = hash[q]
           /\ body'[q] = body[q] /\ rem'[q] = rem[q] /\ rec'[q] = rec[q]
           /\ src'[q] = src[q] /\ ret'[q] = ret[q]
  PROVE  RequestsShape'
<1>1. ASSUME NEW q \in Procs, q # p PROVE RequestShape(q)'
  BY <1>1 DEF RequestShape
<1> QED BY <1>1

\* What S3 reports about an object is an objectstore.Info.
LEMMA ParseTyped ==
  ASSUME NEW o \in Objects PROVE parseInfo(o) \in Infos
BY ConstantsAssumption DEF Objects, Infos, parseInfo

(***************************************************************************)
(* Types: one lemma per group of actions.                                  *)
(***************************************************************************)

\* The locked section of putPayloadDurably.
LEMMA PushTyped ==
  ASSUME TypedInv, NEW p \in Procs,
         \/ PushLock(p) \/ PushHeadAbsent(p) \/ PushHeadLegacy(p)
         \/ PushHeadPresent(p) \/ PushHeadError(p) \/ PushPut(p)
         \/ PushPutError(p) \/ PublishLink(p) \/ PublishEvict(p)
  PROVE  TypedInv'
<1> USE DEF PcLabels, PushLabels, LegacyLabels, LockedLabels, RecordLabels,
            InfoLabels, ContentLabels, ReadLabels
<1>1. CASE PushLock(p)
  <2>1. StoresTyped'
    BY <1>1, ConstantsAssumption
    DEF StoresTyped, RequestShape, PushLock, stores, history
  <2>2. RequestsTyped'
    BY <1>1 DEF RequestsTyped, PushLock, locals
  <2>3. RequestShape(p)'
    BY <1>1 DEF RequestsTyped, RequestShape, PushLock, locals
  <2>4. RequestsShape'
    BY <1>1, <2>2, <2>3, OneRequest DEF RequestsTyped, PushLock, locals
  <2> QED BY <1>1, <2>1, <2>2, <2>4 DEF PushLock
<1>2. CASE PushHeadAbsent(p)
  <2>1. StoresTyped'
    BY <1>2 DEF StoresTyped, PushHeadAbsent, stores, history
  <2>2. RequestsTyped'
    BY <1>2 DEF RequestsTyped, PushHeadAbsent, locals
  <2>3. RequestShape(p)'
    BY <1>2 DEF RequestsTyped, RequestShape, PushHeadAbsent, locals
  <2>4. RequestsShape'
    BY <1>2, <2>2, <2>3, OneRequest DEF RequestsTyped, PushHeadAbsent, locals
  <2> QED BY <1>2, <2>1, <2>2, <2>4 DEF PushHeadAbsent
<1>3. CASE PushHeadLegacy(p)
  <2> DEFINE i == parseInfo(objects[hash[p]])
  <2>1. i \in Infos
    BY <1>3, ParseTyped DEF PushHeadLegacy, RequestShape, StoresTyped
  <2>2. rem' = [rem EXCEPT ![p] = i]
    BY <1>3 DEF PushHeadLegacy
  <2> HIDE DEF i
  <2>3. StoresTyped'
    BY <1>3 DEF StoresTyped, PushHeadLegacy, stores, history
  <2>4. RequestsTyped'
    BY <1>3, <2>1, <2>2 DEF RequestsTyped, PushHeadLegacy, Callers
  <2>5. RequestShape(p)'
    BY <1>3, <2>1, <2>2, <2>4
    DEF RequestsTyped, RequestShape, PushHeadLegacy, Callers
  <2>6. RequestsShape'
    BY <1>3, <2>2, <2>4, <2>5, OneRequest DEF RequestsTyped, PushHeadLegacy
  <2> QED BY <1>3, <2>3, <2>4, <2>6 DEF PushHeadLegacy
<1>4. CASE PushHeadPresent(p)
  <2>1. StoresTyped'
    BY <1>4, ConstantsAssumption
    DEF StoresTyped, RequestShape, PushHeadPresent, PushAbort, Unlock,
        stores, history
  <2>2. CASE PushAbort(p, "409")
    BY <1>4, <2>1, <2>2, AnswerTyped
    DEF PushHeadPresent, PushAbort, PushError, Codes
  <2>3. CASE ~PushAbort(p, "409")
    <3> DEFINE i == parseInfo(objects[hash[p]])
    <3>1. i \in Infos
      BY <1>4, ParseTyped DEF PushHeadPresent, RequestShape, StoresTyped
    <3>2. /\ rem' = [rem EXCEPT ![p] = i]
          /\ Continue(p, "link")
          /\ UNCHANGED <<up, op, hash, body, rec, src, made, seen, ret>>
      BY <1>4, <2>3 DEF PushHeadPresent
    <3> HIDE DEF i
    <3>3. RequestsTyped'
      BY <3>1, <3>2 DEF RequestsTyped
    <3>4. RequestShape(p)'
      BY <1>4, <3>1, <3>2, <3>3 DEF PushHeadPresent, RequestsTyped, RequestShape
    <3>5. RequestsShape'
      BY <3>2, <3>3, <3>4, OneRequest DEF RequestsTyped
    <3> QED BY <2>1, <3>2, <3>3, <3>5
  <2> QED BY <2>2, <2>3
<1>5. CASE PushHeadError(p)
  <2>1. StoresTyped'
    BY <1>5, ConstantsAssumption
    DEF StoresTyped, RequestShape, PushHeadError, PushAbort, Unlock,
        stores, history
  <2> QED
    BY <1>5, <2>1, AnswerTyped DEF PushHeadError, PushAbort, PushError, Codes
<1>6. CASE PushPut(p)
  <2> DEFINE o == Object(body[p], Checksum[body[p]])
  <2>1. /\ body[p] \in Data /\ hash[p] \in Hashes
        /\ pc[p] = "put" /\ op[p] \in AllOps /\ up
    BY <1>6 DEF PushPut, RequestShape
  <2>2. o \in Objects
    BY <2>1, ConstantsAssumption DEF Object, Objects
  <2>3. PICK e \in PutETags(o) :
          rem' = [rem EXCEPT ![p] = [parseInfo(o) EXCEPT !.etag = e]]
    BY <1>6 DEF PushPut
  <2> DEFINE i == [parseInfo(o) EXCEPT !.etag = e]
  <2>4. e \in ETags \cup {Unset}
    BY <2>1, <2>3, ConstantsAssumption DEF PutETags, Object
  <2>5. i \in Infos
    BY <2>2, <2>4, ParseTyped DEF Infos
  <2>6. objects' = [objects EXCEPT ![hash[p]] = o] /\ late' = late
    BY <1>6 DEF PushPut, PutApplied
  <2>7. rem' = [rem EXCEPT ![p] = i]
    BY <2>3
  <2> HIDE DEF i, o
  <2>8. StoresTyped'
    BY <1>6, <2>1, <2>2, <2>6 DEF StoresTyped, PushPut
  <2>9. RequestsTyped'
    BY <1>6, <2>5, <2>7 DEF RequestsTyped, PushPut
  <2>10. RequestShape(p)'
    BY <1>6, <2>1, <2>5, <2>7, <2>9 DEF RequestsTyped, RequestShape, PushPut
  <2>11. RequestsShape'
    BY <1>6, <2>7, <2>9, <2>10, OneRequest DEF RequestsTyped, PushPut
  <2> QED BY <1>6, <2>8, <2>9, <2>11 DEF PushPut
<1>7. CASE PushPutError(p)
  <2>1. /\ body[p] \in Data /\ hash[p] \in Hashes /\ pc[p] # "idle"
    BY <1>7 DEF PushPutError, RequestShape
  <2>2. Object(body[p], Checksum[body[p]]) \in Objects
    BY <2>1, ConstantsAssumption DEF Object, Objects
  <2>3. StoresTyped'
    BY <1>7, <2>1, <2>2, ConstantsAssumption
    DEF StoresTyped, PushPutError, PutFailed, PutApplied, PushAbort, Unlock,
        history
  <2> QED
    BY <1>7, <2>1, <2>3, AnswerTyped
    DEF PushPutError, PushAbort, PushError, Codes
<1>8. CASE PublishLink(p)
  <2>1. StoresTyped'
    BY <1>8, ConstantsAssumption
    DEF StoresTyped, RequestShape, PublishLink, Unlock, history
  <2>2. RequestsTyped'
    BY <1>8 DEF RequestsTyped, PublishLink, locals
  <2>3. RequestShape(p)'
    BY <1>8, <2>2 DEF RequestsTyped, RequestShape, PublishLink, locals
  <2>4. RequestsShape'
    BY <1>8, <2>2, <2>3, OneRequest DEF RequestsTyped, PublishLink, locals
  <2> QED BY <1>8, <2>1, <2>2, <2>4 DEF PublishLink
<1>9. CASE PublishEvict(p)
  <2>1. StoresTyped'
    BY <1>9, ConstantsAssumption
    DEF StoresTyped, RequestShape, PublishEvict, Evict, Unlock, history
  <2>2. RequestsTyped'
    BY <1>9 DEF RequestsTyped, PublishEvict, locals
  <2>3. RequestShape(p)'
    BY <1>9, <2>2 DEF RequestsTyped, RequestShape, PublishEvict, locals
  <2>4. RequestsShape'
    BY <1>9, <2>2, <2>3, OneRequest DEF RequestsTyped, PublishEvict, locals
  <2> QED BY <1>9, <2>1, <2>2, <2>4 DEF PublishEvict
<1> QED
  BY <1>1, <1>2, <1>3, <1>4, <1>5, <1>6, <1>7, <1>8, <1>9

\* commitPayloadMetadata.
LEMMA CommitTyped ==
  ASSUME TypedInv, NEW p \in Procs,
         CommitExists(p) \/ CommitGet(p) \/ CommitPut(p) \/ CommitError(p)
  PROVE  TypedInv'
<1> USE DEF PcLabels, PushLabels, LegacyLabels, LockedLabels, RecordLabels,
            InfoLabels, ContentLabels, ReadLabels
<1>1. CASE CommitExists(p)
  <2>1. StoresTyped'
    BY <1>1 DEF StoresTyped, CommitExists, stores, history
  <2>2. PICK b \in BOOLEAN : seen' = [seen EXCEPT ![p] = b]
    BY <1>1 DEF CommitExists
  <2>3. RequestsTyped'
    BY <1>1, <2>2 DEF RequestsTyped, CommitExists
  <2>4. RequestShape(p)'
    BY <1>1, <2>3 DEF RequestsTyped, RequestShape, CommitExists
  <2>5. RequestsShape'
    BY <1>1, <2>3, <2>4, OneRequest DEF RequestsTyped, CommitExists
  <2> QED BY <1>1, <2>1, <2>3, <2>5 DEF CommitExists
<1>2. CASE CommitGet(p)
  <2>1. StoresTyped'
    BY <1>2 DEF StoresTyped, CommitGet, stores, history
  <2>2. CASE PushError(p, "500")
    BY <1>2, <2>1, <2>2, AnswerTyped DEF CommitGet, PushError, Codes
  <2>3. CASE ~PushError(p, "500")
    <3> DEFINE r == CommitRecord(p)
    <3>1. /\ rem[p] \in Infos /\ body[p] \in Data /\ hash[p] \in Hashes
          /\ seen[p] \in BOOLEAN
      BY <1>2 DEF CommitGet, RequestShape, RequestsTyped
    <3>2. meta[hash[p]] \in Records \cup {None}
      BY <3>1 DEF StoresTyped
    <3> DEFINE old == IF meta[hash[p]] = None THEN Unset ELSE meta[hash[p]].etag
    <3>3. old \in ETags \cup {Unset}
      BY <3>2 DEF Records
    <3>4. FirstSet(rem[p].etag, old) \in ETags \cup {Unset}
      BY <3>1, <3>3 DEF FirstSet, Infos
    <3>5. r \in Records
      BY <3>1, <3>4, ConstantsAssumption DEF CommitRecord, Records
    <3>6. /\ rec' = [rec EXCEPT ![p] = r]
          /\ Continue(p, "commitPut")
          /\ UNCHANGED <<up, op, hash, body, rem, src, made, seen, ret>>
      BY <1>2, <2>3 DEF CommitGet
    <3> HIDE DEF r, old
    <3>7. RequestsTyped'
      BY <3>5, <3>6 DEF RequestsTyped
    <3>8. RequestShape(p)'
      BY <1>2, <3>5, <3>6, <3>7 DEF CommitGet, RequestsTyped, RequestShape
    <3>9. RequestsShape'
      BY <3>6, <3>7, <3>8, OneRequest DEF RequestsTyped
    <3> QED BY <2>1, <3>6, <3>7, <3>9
  <2> QED BY <2>2, <2>3
<1>3. CASE CommitPut(p)
  <2>1. /\ rec[p] \in Records /\ body[p] \in Data /\ hash[p] \in Hashes
        /\ pc[p] # "idle"
    BY <1>3 DEF CommitPut, RequestShape
  <2>2. <<Checksum[body[p]], Size[body[p]]>> \in Checksums \X Nat
    BY <2>1, ConstantsAssumption
  <2>3. acked' \in [Hashes -> SUBSET (Checksums \X Nat)]
    BY <1>3, <2>1, <2>2 DEF CommitPut, StoresTyped
  <2>4. StoresTyped'
    BY <1>3, <2>1, <2>3 DEF StoresTyped, CommitPut, PutPayload
  <2> QED
    BY <1>3, <2>1, <2>4, AnswerTyped DEF CommitPut, Codes
<1>4. CASE CommitError(p)
  <2>1. StoresTyped'
    BY <1>4 DEF StoresTyped, CommitError, stores, history
  <2> QED BY <1>4, <2>1, AnswerTyped DEF CommitError, PushError, Codes
<1> QED BY <1>1, <1>2, <1>3, <1>4

\* Where payloadRecord returns to.
LEMMA ReturnTyped ==
  ASSUME TypedInv, NEW p \in Procs, Return(p), up' = up,
         pc[p] \in {"recGet", "recPut"}, rec'[p] \in Records,
         rec' \in [Procs -> Records \cup {None}],
         \A q \in Procs \ {p} : rec'[q] = rec[q],
         UNCHANGED <<op, hash, body, rem, src, made, seen>>
  PROVE  RequestsTyped' /\ RequestsShape' /\ answer' = None
<1> USE DEF PcLabels, PushLabels, LegacyLabels, RecordLabels, InfoLabels,
            ContentLabels, ReadLabels
<1>1. ret[p] \in Callers \ {"push"} /\ hash[p] \in Hashes /\ op[p] \in AllOps /\ up
  BY DEF RequestShape
<1>2. PICK l \in {"recGet", "diskExists", "rangeHead", "existsDisk"},
           c \in Callers \ {"push"} :
        /\ l = ReturnLabel(ret[p])
        /\ c = IF ret[p] = "open1" THEN "open2" ELSE ret[p]
        /\ l = "diskExists" => c = "open2"
  BY <1>1 DEF ReturnLabel, Callers
<1>3. pc' = [pc EXCEPT ![p] = l] /\ ret' = [ret EXCEPT ![p] = c]
  BY <1>2 DEF Return
<1>4. l = "diskExists" => c = "open2"
  BY <1>2
<1>5. RequestsTyped'
  BY <1>3, <1>4 DEF RequestsTyped
<1>6. RequestShape(p)'
  BY <1>1, <1>3, <1>4, <1>5 DEF RequestsTyped, RequestShape
<1>7. RequestsShape'
  BY <1>3, <1>4, <1>5, <1>6, OneRequest DEF RequestsTyped
<1> QED BY <1>5, <1>7 DEF Return

\* A repaired record is a record.
LEMMA RepairedTyped ==
  ASSUME NEW r \in Records \cup {None}, NEW i \in Infos,
         NEW e \in ETags \cup {Unset}
  PROVE  Repaired(r, i, e) \in Records
<1>1. CASE r = None
  BY <1>1 DEF Repaired, Records, Infos, FirstSet
<1>2. CASE r # None
  <2>1. r \in Records
    BY <1>2
  <2>2. FirstSet(e, FirstSet(r.etag, i.etag)) \in ETags \cup {Unset}
    BY <2>1 DEF FirstSet, Records, Infos
  <2>3. Repaired(r, i, e) =
          [r EXCEPT !.checksum = i.checksum,
                    !.etag = FirstSet(e, FirstSet(r.etag, i.etag))]
    BY <1>2 DEF Repaired
  <2> QED BY <2>1, <2>2, <2>3 DEF Records, Infos
<1> QED BY <1>1, <1>2

\* payloadRecord.
LEMMA RecordTyped ==
  ASSUME TypedInv, NEW p \in Procs,
         RecGet(p) \/ RecHeadAbsent(p) \/ RecHeadPresent(p) \/ RecPut(p)
  PROVE  TypedInv'
<1> USE DEF PcLabels, PushLabels, LegacyLabels, LockedLabels, RecordLabels,
            InfoLabels, ContentLabels, ReadLabels
<1>1. CASE RecGet(p)
  <2>1. StoresTyped'
    BY <1>1 DEF StoresTyped, RecGet, stores, history
  <2>2. meta[hash[p]] \in Records \cup {None}
    BY <1>1 DEF RecGet, RequestShape, StoresTyped
  <2>3. rec' \in [Procs -> Records \cup {None}]
    BY <1>1, <2>2 DEF RecGet, RequestsTyped
  <2>4. CASE Return(p) /\ meta[hash[p]] # None
    <3>1. rec'[p] \in Records
      BY <1>1, <2>2, <2>4 DEF RecGet, RequestsTyped
    <3> QED BY <1>1, <2>1, <2>3, <2>4, <3>1, ReturnTyped DEF RecGet, RequestsTyped
  <2>5. CASE Continue(p, "recHead") /\ UNCHANGED ret
    <3>1. RequestsTyped'
      BY <1>1, <2>3, <2>5 DEF RecGet, RequestsTyped
    <3>2. RequestShape(p)'
      BY <1>1, <2>5, <3>1 DEF RecGet, RequestsTyped, RequestShape
    <3>3. RequestsShape'
      BY <1>1, <2>5, <3>1, <3>2, OneRequest DEF RecGet, RequestsTyped
    <3> QED BY <1>1, <2>1, <2>5, <3>1, <3>3 DEF RecGet
  <2> QED BY <1>1, <2>4, <2>5 DEF RecGet
<1>2. CASE RecHeadAbsent(p)
  <2>1. StoresTyped'
    BY <1>2 DEF StoresTyped, RecHeadAbsent, stores, history
  <2> QED BY <1>2, <2>1, AnswerTyped DEF RecHeadAbsent, NotExist, Codes
<1>3. CASE RecHeadPresent(p)
  <2> DEFINE i == parseInfo(objects[hash[p]])
             r == Repaired(rec[p], i, Unset)
  <2>1. StoresTyped'
    BY <1>3 DEF StoresTyped, RecHeadPresent, stores, history
  <2>2. i \in Infos
    BY <1>3, ParseTyped DEF RecHeadPresent, RequestShape, StoresTyped
  <2>3. r \in Records
    BY <2>2, RepairedTyped DEF RequestsTyped
  <2>4. /\ pc[p] = "recHead"
        /\ UNCHANGED <<up, op, hash, body, src, made, seen, ret>>
        /\ \/ /\ rem' = [rem EXCEPT ![p] = i]
              /\ Continue(p, "legOpen")
              /\ UNCHANGED rec
           \/ /\ rec' = [rec EXCEPT ![p] = r]
              /\ Continue(p, "recPut")
              /\ UNCHANGED rem
    BY <1>3 DEF RecHeadPresent
  <2> HIDE DEF i, r
  <2>5. RequestsTyped'
    BY <2>2, <2>3, <2>4 DEF RequestsTyped
  <2>6. RequestShape(p)'
    BY <2>2, <2>3, <2>4, <2>5 DEF RequestsTyped, RequestShape
  <2>7. RequestsShape'
    BY <2>4, <2>5, <2>6, OneRequest DEF RequestsTyped
  <2> QED BY <2>1, <2>4, <2>5, <2>7
<1>4. CASE RecPut(p)
  <2>1. hash[p] \in Hashes /\ rec[p] \in Records
    BY <1>4 DEF RecPut, RequestShape
  <2>2. StoresTyped'
    BY <1>4, <2>1 DEF StoresTyped, RecPut, PutPayload, history
  <2> QED BY <1>4, <2>1, <2>2, ReturnTyped DEF RecPut, RequestsTyped
<1> QED BY <1>1, <1>2, <1>3, <1>4

\* reconcileLegacyObject.
LEMMA LegacyTyped ==
  ASSUME TypedInv, NEW p \in Procs,
         LegacyOpen(p) \/ LegacyReopen(p) \/ LegacyPut(p) \/ LegacyError(p)
  PROVE  TypedInv'
<1> USE DEF PcLabels, PushLabels, LegacyLabels, LockedLabels, RecordLabels,
            InfoLabels, ContentLabels, ReadLabels
<1>1. CASE LegacyOpen(p)
  <2> DEFINE sum == Checksum[objects[hash[p]].data]
  <2>1. /\ hash[p] \in Hashes /\ rem[p] \in Infos /\ pc[p] = "legOpen"
        /\ objects[hash[p]] \in Objects
    BY <1>1 DEF LegacyOpen, RequestShape, StoresTyped
  <2>2. sum \in Checksums
    BY <2>1, ConstantsAssumption DEF Objects
  <2>3. CASE LegacyAbort(p, "409")
    <3>1. StoresTyped'
      BY <1>1, <2>1, <2>3, ConstantsAssumption
      DEF StoresTyped, LegacyOpen, LegacyAbort, PushAbort, Unlock, stores, history
    <3> QED
      BY <1>1, <2>1, <2>3, <3>1, AnswerTyped
      DEF LegacyOpen, LegacyAbort, PushAbort, PushError, Codes
  <2>4. CASE ~LegacyAbort(p, "409")
    <3> DEFINE i == [rem[p] EXCEPT !.checksum = sum]
    <3>1. /\ rem' = [rem EXCEPT ![p] = i]
          /\ Continue(p, "legReopen")
          /\ UNCHANGED <<up, stores, lock, op, hash, body, rec, src, made, seen,
                         ret, history>>
      BY <1>1, <2>4 DEF LegacyOpen
    <3>2. i \in Infos
      BY <2>1, <2>2 DEF Infos
    <3> HIDE DEF i
    <3>3. StoresTyped'
      BY <3>1 DEF StoresTyped, stores, history
    <3>4. RequestsTyped'
      BY <3>1, <3>2 DEF RequestsTyped
    <3>5. RequestShape(p)'
      BY <2>1, <3>1, <3>2, <3>4 DEF RequestsTyped, RequestShape
    <3>6. RequestsShape'
      BY <3>1, <3>4, <3>5, OneRequest DEF RequestsTyped
    <3> QED BY <3>1, <3>3, <3>4, <3>6
  <2> QED BY <2>3, <2>4
<1>2. CASE LegacyReopen(p)
  <2>1. StoresTyped'
    BY <1>2 DEF StoresTyped, LegacyReopen, stores, history
  <2>2. objects[hash[p]].data \in Data
    BY <1>2 DEF LegacyReopen, RequestShape, StoresTyped, Objects
  <2>3. RequestsTyped'
    BY <1>2, <2>2 DEF RequestsTyped, LegacyReopen
  <2>4. RequestShape(p)'
    BY <1>2, <2>2, <2>3 DEF RequestsTyped, RequestShape, LegacyReopen
  <2>5. RequestsShape'
    BY <1>2, <2>3, <2>4, OneRequest DEF RequestsTyped, LegacyReopen
  <2> QED BY <1>2, <2>1, <2>3, <2>5 DEF LegacyReopen
<1>3. CASE LegacyPut(p)
  <2> DEFINE o == Object(src[p], rem[p].checksum)
  <2>1. /\ hash[p] \in Hashes /\ rem[p] \in Infos /\ src[p] \in Data
        /\ pc[p] = "legPut" /\ ret[p] \in Callers
        /\ rec[p] \in Records \cup {None}
    BY <1>3 DEF LegacyPut, RequestShape, RequestsTyped
  <2>2. o \in Objects /\ o.data = src[p]
    BY <2>1 DEF Object, Objects, Infos
  <2>3. objects' = [objects EXCEPT ![hash[p]] = o] /\ late' = late
    BY <1>3 DEF LegacyPut, PutApplied
  <2>4. PICK e \in PutETags(o) :
       \/ /\ ret[p] = "push"
          /\ rem' = [rem EXCEPT ![p].etag = FirstSet(e, @)]
          /\ Continue(p, "link")
          /\ UNCHANGED rec
       \/ /\ ret[p] # "push"
          /\ rec' = [rec EXCEPT ![p] = Repaired(@, rem[p], e)]
          /\ Continue(p, "recPut")
          /\ UNCHANGED rem
    BY <1>3 DEF LegacyPut
  <2>5. e \in ETags \cup {Unset}
    BY <2>1, <2>2, ConstantsAssumption DEF PutETags
  <2> DEFINE i == [rem[p] EXCEPT !.etag = FirstSet(e, rem[p].etag)]
             r == Repaired(rec[p], rem[p], e)
  <2>6. i \in Infos
    <3>1. FirstSet(e, rem[p].etag) \in ETags \cup {Unset}
      BY <2>1, <2>5 DEF FirstSet, Infos
    <3> QED BY <2>1, <3>1 DEF Infos
  <2>7. r \in Records
    BY <2>1, <2>5, RepairedTyped
  <2>8. \/ /\ ret[p] = "push"
           /\ rem' = [rem EXCEPT ![p] = i]
           /\ Continue(p, "link")
           /\ UNCHANGED rec
        \/ /\ ret[p] # "push"
           /\ rec' = [rec EXCEPT ![p] = r]
           /\ Continue(p, "recPut")
           /\ UNCHANGED rem
    BY <2>4
  <2> HIDE DEF o, i, r
  <2>9. StoresTyped'
    BY <1>3, <2>1, <2>2, <2>3 DEF StoresTyped, LegacyPut, history
  <2>10. RequestsTyped'
    BY <1>3, <2>6, <2>7, <2>8 DEF RequestsTyped, LegacyPut
  <2>11. RequestShape(p)'
    BY <1>3, <2>1, <2>6, <2>7, <2>8, <2>10
    DEF RequestsTyped, RequestShape, LegacyPut
  <2>12. RequestsShape'
    BY <1>3, <2>8, <2>10, <2>11, OneRequest DEF RequestsTyped, LegacyPut
  <2> QED BY <1>3, <2>8, <2>9, <2>10, <2>12 DEF LegacyPut
<1>4. CASE LegacyError(p)
  <2>1. hash[p] \in Hashes /\ rem[p] \in Infos /\ pc[p] # "idle"
    BY <1>4 DEF LegacyError, RequestShape
  <2>2. pc[p] = "legPut" => Object(src[p], rem[p].checksum) \in Objects
    BY <2>1 DEF RequestShape, Object, Objects, Infos
  <2>3. /\ objects' \in [Hashes -> Objects \cup {None}]
        /\ late' \subseteq [hash : Hashes, obj : Objects]
    BY <1>4, <2>1, <2>2 DEF LegacyError, PutFailed, PutApplied, StoresTyped
  <2>4. lock' \in [Locks -> Procs \cup {None}]
    BY <1>4, <2>1, ConstantsAssumption
    DEF LegacyError, LegacyAbort, PushAbort, Unlock, StoresTyped
  <2>5. StoresTyped'
    BY <1>4, <2>3, <2>4 DEF LegacyError, StoresTyped, history
  <2> QED
    BY <1>4, <2>1, <2>5, AnswerTyped
    DEF LegacyError, LegacyAbort, PushAbort, PushError, Codes
<1> QED BY <1>1, <1>2, <1>3, <1>4

\* A request enters the server.
LEMMA RequestTyped ==
  ASSUME TypedInv, NEW p \in Procs, Request(p)
  PROVE  TypedInv'
<1> USE DEF PcLabels, PushLabels, LegacyLabels, LockedLabels, RecordLabels,
            InfoLabels, ContentLabels, ReadLabels
<1>1. ASSUME NEW o \in PushOps, NEW h \in Hashes, NEW d \in Data,
             NEW c \in Checksums, StartPush(p, o, h, d, c)
      PROVE  TypedInv'
  <2>1. StoresTyped'
    BY <1>1 DEF StoresTyped, StartPush, stores, history
  <2>2. RequestsTyped'
    BY <1>1 DEF RequestsTyped, StartPush, AllOps
  <2>3. RequestShape(p)'
    BY <1>1, <2>2 DEF RequestsTyped, RequestShape, StartPush, AllOps
  <2>4. RequestsShape'
    BY <1>1, <2>2, <2>3, OneRequest DEF RequestsTyped, StartPush
  <2>5. answer' \in Answers \cup {None}
    BY <1>1 DEF StartPush, Sent, Answers, AllOps, Codes
  <2> QED BY <2>1, <2>2, <2>4, <2>5
<1>2. ASSUME NEW o \in PullOps, NEW h \in Hashes, PullFromMemory(p, o, h)
      PROVE  TypedInv'
  <2>1. StoresTyped'
    BY <1>2 DEF StoresTyped, PullFromMemory, stores, history
  <2>2. RequestsTyped'
    BY <1>2 DEF RequestsTyped, PullFromMemory, locals
  <2>3. RequestsShape'
    BY <1>2 DEF RequestShape, PullFromMemory, locals
  <2>4. answer' \in Answers \cup {None}
    BY <1>2 DEF PullFromMemory, Sent, Answers, AllOps, Codes, StoresTyped
  <2> QED BY <2>1, <2>2, <2>3, <2>4
<1>3. ASSUME NEW o \in AllOps, NEW h \in Hashes, StartRead(p, o, h)
      PROVE  TypedInv'
  <2>1. StoresTyped'
    BY <1>3 DEF StoresTyped, StartRead, stores, history
  <2>2. RequestsTyped'
    BY <1>3 DEF RequestsTyped, StartRead, Callers
  <2>3. RequestShape(p)'
    BY <1>3, <2>2 DEF RequestsTyped, RequestShape, StartRead, Callers
  <2>4. RequestsShape'
    BY <1>3, <2>2, <2>3, OneRequest DEF RequestsTyped, StartRead
  <2> QED BY <1>3, <2>1, <2>2, <2>4 DEF StartRead
<1> QED BY <1>1, <1>2, <1>3 DEF Request

\* Filling in the ETag of a record.
LEMMA RecordETagTyped ==
  ASSUME TypedInv, NEW p \in Procs, NEW i \in Infos, NEW l \in {"serve", "remOpen"},
         RecordETag(p, i, l), rec[p] \in Records
  PROVE  /\ \E r \in Records : rec' = [rec EXCEPT ![p] = r]
         /\ \E k \in {"etagPut", l} : Continue(p, k)
<1> DEFINE e == IF rec[p].etag = Unset THEN i.etag ELSE rec[p].etag
           r == [rec[p] EXCEPT !.etag = e]
<1>1. e \in ETags \cup {Unset}
  BY DEF Records, Infos
<1>2. r \in Records
  BY <1>1 DEF Records
<1>3. rec' = [rec EXCEPT ![p] = r]
  BY DEF RecordETag
<1>4. \E k \in {"etagPut", l} : Continue(p, k)
  BY DEF RecordETag
<1> QED BY <1>2, <1>3, <1>4

\* Pulls and the exists endpoint.
LEMMA ReadTyped ==
  ASSUME TypedInv, NEW p \in Procs,
         \/ RangeExists(p) \/ RangeHead(p) \/ RangeGet(p)
         \/ DiskExists(p) \/ DiskOpen(p) \/ RemoteHead(p) \/ ETagPut(p)
         \/ RemoteOpen(p)
  PROVE  TypedInv'
<1> USE DEF PcLabels, PushLabels, LegacyLabels, LockedLabels, RecordLabels,
            InfoLabels, ContentLabels, ReadLabels
<1>1. CASE RangeExists(p)
  <2>1. StoresTyped'
    BY <1>1 DEF StoresTyped, RangeExists, stores, history
  <2>2. RequestsTyped'
    BY <1>1 DEF RequestsTyped, RangeExists, Callers
  <2>3. RequestShape(p)'
    BY <1>1, <2>2 DEF RequestsTyped, RequestShape, RangeExists, Callers
  <2>4. RequestsShape'
    BY <1>1, <2>2, <2>3, OneRequest DEF RequestsTyped, RangeExists
  <2> QED BY <1>1, <2>1, <2>2, <2>4 DEF RangeExists
<1>2. CASE RangeHead(p)
  <2> DEFINE i == parseInfo(objects[hash[p]])
  <2>1. i \in Infos
    BY <1>2, ParseTyped DEF RangeHead, RequestShape, StoresTyped
  <2>2. rem' = [rem EXCEPT ![p] = i]
    BY <1>2 DEF RangeHead
  <2> HIDE DEF i
  <2>3. StoresTyped'
    BY <1>2 DEF StoresTyped, RangeHead, stores, history
  <2>4. RequestsTyped'
    BY <1>2, <2>1, <2>2 DEF RequestsTyped, RangeHead
  <2>5. RequestShape(p)'
    BY <1>2, <2>1, <2>2, <2>4 DEF RequestsTyped, RequestShape, RangeHead
  <2>6. RequestsShape'
    BY <1>2, <2>2, <2>4, <2>5, OneRequest DEF RequestsTyped, RangeHead
  <2> QED BY <1>2, <2>3, <2>4, <2>6 DEF RangeHead
<1>3. CASE RangeGet(p)
  <2>1. StoresTyped'
    BY <1>3 DEF StoresTyped, RangeGet, stores, history
  <2>2. CASE Answer(p, "500", None)
    BY <1>3, <2>1, <2>2, AnswerTyped DEF RangeGet, Codes
  <2>3. CASE ~Answer(p, "500", None)
    <3> DEFINE d == objects[hash[p]].data
    <3>1. /\ d \in Data /\ rem[p] \in Infos /\ rec[p] \in Records
          /\ pc[p] = "rangeGet"
      BY <1>3 DEF RangeGet, RequestShape, StoresTyped, Objects
    <3>2. /\ body' = [body EXCEPT ![p] = d]
          /\ RecordETag(p, rem[p], "serve")
          /\ UNCHANGED <<up, op, hash, rem, src, made, seen, ret>>
      BY <1>3, <2>3 DEF RangeGet
    <3> HIDE DEF d
    <3>3. PICK r \in Records, k \in {"etagPut", "serve"} :
            rec' = [rec EXCEPT ![p] = r] /\ Continue(p, k)
      BY <3>1, <3>2, RecordETagTyped
    <3>4. RequestsTyped'
      BY <3>1, <3>2, <3>3 DEF RequestsTyped
    <3>5. RequestShape(p)'
      BY <3>1, <3>2, <3>3, <3>4 DEF RequestsTyped, RequestShape
    <3>6. RequestsShape'
      BY <3>2, <3>3, <3>4, <3>5, OneRequest DEF RequestsTyped
    <3> QED BY <2>1, <3>3, <3>4, <3>6
  <2> QED BY <2>2, <2>3
<1>4. CASE DiskExists(p)
  <2>1. StoresTyped'
    BY <1>4 DEF StoresTyped, DiskExists, stores, history
  <2>2. CASE Answer(p, "500", None)
    BY <1>4, <2>1, <2>2, AnswerTyped DEF DiskExists, Codes
  <2>3. CASE ~Answer(p, "500", None)
    <3>1. PICK l \in {"remHead", "diskOpen"} : Continue(p, l)
      BY <1>4, <2>3 DEF DiskExists
    <3>2. UNCHANGED <<up, op, hash, body, rem, rec, src, made, seen, ret>>
      BY <1>4, <2>3 DEF DiskExists, locals
    <3>3. RequestsTyped'
      BY <3>1, <3>2 DEF RequestsTyped
    <3>4. RequestShape(p)'
      BY <1>4, <3>1, <3>2, <3>3 DEF DiskExists, RequestsTyped, RequestShape
    <3>5. RequestsShape'
      BY <3>1, <3>2, <3>3, <3>4, OneRequest DEF RequestsTyped
    <3> QED BY <2>1, <3>1, <3>3, <3>5
  <2> QED BY <2>2, <2>3
<1>5. CASE DiskOpen(p)
  <2>1. StoresTyped'
    BY <1>5 DEF StoresTyped, DiskOpen, stores, history
  <2>2. CASE disk[hash[p]] = None
    BY <1>5, <2>1, <2>2, AnswerTyped DEF DiskOpen, NotExist, Codes
  <2>3. CASE disk[hash[p]] # None
    <3>1. disk[hash[p]] \in Data
      BY <1>5, <2>3 DEF DiskOpen, RequestShape, StoresTyped
    <3>2. RequestsTyped'
      BY <1>5, <2>3, <3>1 DEF DiskOpen, RequestsTyped
    <3>3. RequestShape(p)'
      BY <1>5, <2>3, <3>1, <3>2 DEF DiskOpen, RequestsTyped, RequestShape
    <3>4. RequestsShape'
      BY <1>5, <2>3, <3>2, <3>3, OneRequest DEF DiskOpen, RequestsTyped
    <3> QED BY <1>5, <2>1, <2>3, <3>2, <3>4 DEF DiskOpen
  <2> QED BY <2>2, <2>3
<1>6. CASE RemoteHead(p)
  <2>1. StoresTyped'
    BY <1>6 DEF StoresTyped, RemoteHead, stores, history
  <2>2. CASE Answer(p, "500", None)
    BY <1>6, <2>1, <2>2, AnswerTyped DEF RemoteHead, Codes
  <2>3. CASE ~Answer(p, "500", None)
    <3> DEFINE i == parseInfo(objects[hash[p]])
    <3>1. i \in Infos /\ rec[p] \in Records /\ pc[p] = "remHead"
      BY <1>6, ParseTyped DEF RemoteHead, RequestShape, StoresTyped
    <3>2. /\ rem' = [rem EXCEPT ![p] = i]
          /\ RecordETag(p, i, "remOpen")
          /\ UNCHANGED <<up, op, hash, body, src, made, seen, ret>>
      BY <1>6, <2>3 DEF RemoteHead
    <3> HIDE DEF i
    <3>3. PICK r \in Records, k \in {"etagPut", "remOpen"} :
            rec' = [rec EXCEPT ![p] = r] /\ Continue(p, k)
      BY <3>1, <3>2, RecordETagTyped
    <3>4. RequestsTyped'
      BY <3>1, <3>2, <3>3 DEF RequestsTyped
    <3>5. RequestShape(p)'
      BY <3>1, <3>2, <3>3, <3>4 DEF RequestsTyped, RequestShape
    <3>6. RequestsShape'
      BY <3>2, <3>3, <3>4, <3>5, OneRequest DEF RequestsTyped
    <3> QED BY <2>1, <3>3, <3>4, <3>6
  <2> QED BY <2>2, <2>3
<1>7. CASE ETagPut(p)
  <2>1. hash[p] \in Hashes /\ rec[p] \in Records
    BY <1>7 DEF ETagPut, RequestShape
  <2>2. StoresTyped'
    BY <1>7, <2>1 DEF StoresTyped, ETagPut, PutPayload, history
  <2>3. RequestsTyped'
    BY <1>7 DEF RequestsTyped, ETagPut, locals
  <2>4. RequestShape(p)'
    BY <1>7, <2>3 DEF RequestsTyped, RequestShape, ETagPut, locals
  <2>5. RequestsShape'
    BY <1>7, <2>3, <2>4, OneRequest DEF RequestsTyped, ETagPut, locals
  <2> QED BY <1>7, <2>2, <2>3, <2>5 DEF ETagPut
<1>8. CASE RemoteOpen(p)
  <2>1. StoresTyped'
    BY <1>8 DEF StoresTyped, RemoteOpen, stores, history
  <2>2. CASE Answer(p, "500", None)
    BY <1>8, <2>1, <2>2, AnswerTyped DEF RemoteOpen, Codes
  <2>3. CASE ~Answer(p, "500", None)
    <3> DEFINE d == objects[hash[p]].data
    <3>1. d \in Data /\ pc[p] = "remOpen"
      BY <1>8 DEF RemoteOpen, RequestShape, StoresTyped, Objects
    <3>2. /\ body' = [body EXCEPT ![p] = d]
          /\ Continue(p, "serve")
          /\ UNCHANGED <<up, op, hash, rem, rec, src, made, seen, ret>>
      BY <1>8, <2>3 DEF RemoteOpen
    <3> HIDE DEF d
    <3>3. RequestsTyped'
      BY <3>1, <3>2 DEF RequestsTyped
    <3>4. RequestShape(p)'
      BY <3>1, <3>2, <3>3 DEF RequestsTyped, RequestShape
    <3>5. RequestsShape'
      BY <3>2, <3>3, <3>4, OneRequest DEF RequestsTyped
    <3> QED BY <2>1, <3>2, <3>3, <3>5
  <2> QED BY <2>2, <2>3
<1> QED BY <1>1, <1>2, <1>3, <1>4, <1>5, <1>6, <1>7, <1>8

\* The last steps of a pull or of an exists request.
LEMMA ReplyTyped ==
  ASSUME TypedInv, NEW p \in Procs,
         \/ ReadError(p) \/ RangeRefused(p) \/ ExistsDisk(p)
         \/ Serve(p) \/ MarkGet(p) \/ MarkPut(p)
  PROVE  TypedInv'
<1> USE DEF PcLabels, PushLabels, LegacyLabels, LockedLabels, RecordLabels,
            InfoLabels, ContentLabels, ReadLabels
<1>1. CASE ReadError(p)
  <2>1. StoresTyped'
    BY <1>1 DEF StoresTyped, ReadError, stores, history
  <2> QED BY <1>1, <2>1, AnswerTyped DEF ReadError, Codes
<1>2. CASE RangeRefused(p)
  <2>1. StoresTyped'
    BY <1>2 DEF StoresTyped, RangeRefused, stores, history
  <2> QED BY <1>2, <2>1, AnswerTyped DEF RangeRefused, Codes
<1>3. CASE ExistsDisk(p)
  <2>1. StoresTyped'
    BY <1>3 DEF StoresTyped, ExistsDisk, stores, history
  <2> QED BY <1>3, <2>1, AnswerTyped DEF ExistsDisk, Codes
<1>4. CASE Serve(p)
  <2>1. /\ hash[p] \in Hashes /\ op[p] \in AllOps /\ body[p] \in Data
        /\ pc[p] = "serve"
    BY <1>4 DEF Serve, RequestShape
  <2>2. mem' \in [Hashes -> Data \cup {None}]
    BY <1>4, <2>1 DEF Serve, CacheAdd, StoresTyped
  <2>3. StoresTyped'
    BY <1>4, <2>2 DEF StoresTyped, Serve, history
  <2>4. CASE Answer(p, "200", body[p])
    BY <1>4, <2>1, <2>3, <2>4, AnswerTyped DEF Serve, Codes
  <2>5. CASE ~Answer(p, "200", body[p])
    <3>1. /\ pc' = [pc EXCEPT ![p] = "markGet"]
          /\ Respond(p, "200", body[p])
          /\ UNCHANGED <<up, op, hash, body, rem, rec, src, made, seen, ret>>
      BY <1>4, <2>5 DEF Serve, locals
    <3>2. RequestsTyped'
      BY <3>1 DEF RequestsTyped
    <3>3. RequestShape(p)'
      BY <2>1, <3>1, <3>2 DEF RequestsTyped, RequestShape
    <3>4. RequestsShape'
      BY <3>1, <3>2, <3>3, OneRequest DEF RequestsTyped
    <3>5. answer' \in Answers
      BY <2>1, <3>1 DEF Respond, Sent, Answers, Codes
    <3> QED BY <2>3, <3>2, <3>4, <3>5
  <2> QED BY <2>4, <2>5
<1>5. CASE MarkGet(p)
  <2>1. StoresTyped'
    BY <1>5 DEF StoresTyped, MarkGet, stores, history
  <2>2. CASE Free(p)
    BY <1>5, <2>1, <2>2, FreeShape DEF MarkGet
  <2>3. CASE ~Free(p)
    <3> DEFINE r == [meta[hash[p]] EXCEPT !.cached = TRUE]
    <3>1. meta[hash[p]] \in Records
      BY <1>5, <2>3 DEF MarkGet, RequestShape, StoresTyped
    <3>2. r \in Records
      BY <3>1 DEF Records
    <3>3. /\ rec' = [rec EXCEPT ![p] = r]
          /\ pc' = [pc EXCEPT ![p] = "markPut"]
          /\ UNCHANGED <<up, op, hash, body, rem, src, made, seen, ret>>
      BY <1>5, <2>3 DEF MarkGet
    <3> HIDE DEF r
    <3>4. RequestsTyped'
      BY <3>2, <3>3 DEF RequestsTyped
    <3>5. RequestShape(p)'
      BY <1>5, <3>2, <3>3, <3>4 DEF MarkGet, RequestsTyped, RequestShape
    <3>6. RequestsShape'
      BY <3>3, <3>4, <3>5, OneRequest DEF RequestsTyped
    <3> QED BY <1>5, <2>1, <3>4, <3>6 DEF MarkGet
  <2> QED BY <2>2, <2>3
<1>6. CASE MarkPut(p)
  <2>1. hash[p] \in Hashes /\ rec[p] \in Records
    BY <1>6 DEF MarkPut, RequestShape
  <2>2. StoresTyped'
    BY <1>6, <2>1 DEF StoresTyped, MarkPut, PutPayload, history
  <2> QED BY <1>6, <2>2, FreeShape DEF MarkPut
<1> QED BY <1>1, <1>2, <1>3, <1>4, <1>5, <1>6

\* A late PutObject, a crash and the two outcomes of a startup.
LEMMA EnvironmentTyped ==
  ASSUME TypedInv, LatePut \/ Crash \/ StartupAccept \/ StartupExit
  PROVE  TypedInv'
<1> USE DEF PcLabels, PushLabels, LegacyLabels, LockedLabels, RecordLabels,
            InfoLabels, ContentLabels, ReadLabels
<1>1. CASE LatePut
  <2>1. StoresTyped'
    BY <1>1 DEF LatePut, StoresTyped
  <2>2. RequestsTyped'
    BY <1>1 DEF LatePut, RequestsTyped
  <2>3. RequestsShape'
    BY <1>1 DEF LatePut, RequestShape
  <2> QED BY <1>1, <2>1, <2>2, <2>3 DEF LatePut
<1>2. CASE Crash
  <2>1. StoresTyped'
    BY <1>2 DEF Crash, StoresTyped, history
  <2>2. RequestsTyped'
    BY <1>2 DEF Crash, RequestsTyped
  <2>3. ASSUME NEW q \in Procs PROVE RequestShape(q)'
    BY <1>2 DEF Crash, RequestShape
  <2> QED BY <1>2, <2>1, <2>2, <2>3 DEF Crash
<1>3. ASSUME NEW hs \in SUBSET Hashes,
             \A h \in hs : meta[h] # None /\ objects[h] # None
      PROVE  WithETags(hs) \in [Hashes -> Records \cup {None}]
  <2>1. ASSUME NEW h \in hs
        PROVE  [meta[h] EXCEPT !.etag = parseInfo(objects[h]).etag] \in Records
    <3>1. meta[h] \in Records
      BY <1>3, <2>1 DEF StoresTyped
    <3>2. parseInfo(objects[h]).etag \in ETags \cup {Unset}
      BY <1>3, <2>1, ParseTyped DEF StoresTyped, Infos
    <3> QED BY <3>1, <3>2 DEF Records
  <2> QED BY <2>1 DEF WithETags, StoresTyped
<1>4. CASE StartupAccept
  <2>1. meta' \in [Hashes -> Records \cup {None}]
    BY <1>3, <1>4
    DEF StartupAccept, StartupValid, ListValid, NeedsHead
  <2>2. StoresTyped'
    BY <1>4, <2>1 DEF StartupAccept, StoresTyped, history
  <2>3. RequestsTyped'
    BY <1>4 DEF StartupAccept, RequestsTyped, locals
  <2>4. ASSUME NEW q \in Procs PROVE RequestShape(q)'
    BY <1>4 DEF StartupAccept, RequestShape, locals
  <2> QED BY <1>4, <2>2, <2>3, <2>4 DEF StartupAccept
<1>5. CASE StartupExit
  <2>1. PICK hs \in SUBSET {h \in Hashes : NeedsHead(h) /\ HeadValid(h)} :
             /\ hs # {} => \A h \in Hashes : ListValid(h)
             /\ meta' = WithETags(hs)
    BY <1>5 DEF StartupExit
  <2>2. meta' \in [Hashes -> Records \cup {None}]
    BY <1>3, <2>1 DEF ListValid, NeedsHead
  <2>3. StoresTyped'
    BY <1>5, <2>2 DEF StartupExit, StoresTyped, history
  <2>4. RequestsTyped'
    BY <1>5 DEF StartupExit, RequestsTyped, locals
  <2>5. ASSUME NEW q \in Procs PROVE RequestShape(q)'
    BY <1>5 DEF StartupExit, RequestShape, locals
  <2> QED BY <1>5, <2>3, <2>4, <2>5 DEF StartupExit
<1> QED BY <1>1, <1>2, <1>4, <1>5

\* The initial states are well typed.
LEMMA InitTyped == Init => TypedInv
<1> SUFFICES ASSUME Init PROVE TypedInv
  OBVIOUS
<1>1. InitObjects \subseteq Objects
  BY ConstantsAssumption DEF InitObjects, Objects
<1>2. ASSUME NEW o \in InitObjects PROVE InitRecords(o) \subseteq Records
  <2>1. parseInfo(o).etag \in ETags \cup {Unset} /\ o \in Objects
    BY <1>1, <1>2, ParseTyped DEF Infos
  <2>2. Size[o.data] \in Nat /\ o.checksum \in Checksums \cup {Unset}
    BY <2>1, ConstantsAssumption DEF Objects
  <2>3. ASSUME NEW e \in {Unset, parseInfo(o).etag}
        PROVE  [checksum |-> o.checksum, etag |-> e, size |-> Size[o.data],
                cached |-> FALSE] \in Records
    BY <2>1, <2>2, <2>3 DEF Records
  <2> QED BY <2>3 DEF InitRecords
<1>3. UNION {InitRecords(o) : o \in InitObjects} \subseteq Records
  BY <1>2
<1>4. StoresTyped
  <2>1. meta \in [Hashes -> Records \cup {None}]
    BY <1>3 DEF Init
  <2>2. objects \in [Hashes -> Objects \cup {None}]
    BY <1>1 DEF Init
  <2>3. writes \in [Hashes -> 0..2]
    BY DEF Init
  <2>4. acked \in [Hashes -> SUBSET (Checksums \X Nat)]
    BY DEF Init
  <2>5. /\ up \in BOOLEAN
        /\ late \subseteq [hash : Hashes, obj : Objects]
        /\ disk \in [Hashes -> Data \cup {None}]
        /\ mem \in [Hashes -> Data \cup {None}]
        /\ lock \in [Locks -> Procs \cup {None}]
    BY DEF Init
  <2> QED BY <2>1, <2>2, <2>3, <2>4, <2>5 DEF StoresTyped
<1>5. RequestsTyped
  BY DEF Init, RequestsTyped, PcLabels
<1>6. RequestsShape
  BY DEF Init, RequestShape, PcLabels, PushLabels, LegacyLabels, RecordLabels,
         InfoLabels, ContentLabels, ReadLabels
<1> QED BY <1>4, <1>5, <1>6 DEF Init

\* Every step preserves the types and the shape of the requests.
LEMMA NextTyped == TypedInv /\ [Next]_vars => TypedInv'
<1> SUFFICES ASSUME TypedInv, [Next]_vars PROVE TypedInv'
  OBVIOUS
<1>1. CASE UNCHANGED vars
  <2>1. StoresTyped' /\ RequestsTyped'
    BY <1>1 DEF vars, StoresTyped, RequestsTyped
  <2>2. RequestsShape'
    BY <1>1 DEF vars, RequestShape
  <2> QED BY <1>1, <2>1, <2>2 DEF vars
<1>2. ASSUME NEW p \in Procs, Step(p) PROVE TypedInv'
  BY <1>2, PushTyped, CommitTyped, RecordTyped, LegacyTyped, ReadTyped,
     ReplyTyped DEF Step
<1> QED
  BY <1>1, <1>2, RequestTyped, EnvironmentTyped DEF Next

\* Type correctness, for every instance: every store, every request variable
\* and every response keeps its type, over crashes, failures and late writes.
THEOREM TypeCorrect == Spec => []TypeOK
<1>1. Init => TypedInv
  BY InitTyped
<1>2. TypedInv /\ [Next]_vars => TypedInv'
  BY NextTyped
<1>3. TypedInv => TypeOK
  OBVIOUS
<1> QED BY <1>1, <1>2, <1>3, PTL DEF Spec

(***************************************************************************)
(* The payloadWrites mutexes.                                              *)
(***************************************************************************)

\* A step of p outside the Lock and Unlock calls: p is in its locked section
\* before and after it, or neither before nor after.
LEMMA KeepsLock ==
  ASSUME LockInv, NEW p \in Procs, UNCHANGED lock,
         HoldsLock(p)' <=> HoldsLock(p),
         HoldsLock(p) => hash'[p] = hash[p],
         \A q \in Procs \ {p} :
           pc'[q] = pc[q] /\ ret'[q] = ret[q] /\ hash'[q] = hash[q]
  PROVE  LockMatchesSection'
<1>1. ASSUME NEW q \in Procs
      PROVE  /\ HoldsLock(q)' <=> HoldsLock(q)
             /\ HoldsLock(q) => hash'[q] = hash[q]
  BY <1>1 DEF HoldsLock
<1> QED BY <1>1 DEF LockInv, LockMatchesSection

\* A step of p that runs the deferred Unlock.
LEMMA ReleasesLock ==
  ASSUME LockInv, NEW p \in Procs, Unlock(p), HoldsLock(p), ~HoldsLock(p)',
         \A q \in Procs \ {p} :
           pc'[q] = pc[q] /\ ret'[q] = ret[q] /\ hash'[q] = hash[q]
  PROVE  LockMatchesSection'
<1> DEFINE m == LockOf[hash[p]]
<1>1. m \in Locks /\ lock[m] = p /\ p # None
  <2>1. hash[p] \in Hashes
    BY DEF LockInv, RequestShape, HoldsLock, LockedLabels, LegacyLabels
  <2> QED BY <2>1, ConstantsAssumption, NoneAssumption
          DEF LockInv, LockMatchesSection
<1>2. lock' = [lock EXCEPT ![m] = None]
  BY DEF Unlock
<1> HIDE DEF m
<1>3. ASSUME NEW l \in Locks, NEW q \in Procs
      PROVE  (lock[l] = q <=> HoldsLock(q) /\ LockOf[hash[q]] = l)'
  <2>1. lock[l] = q <=> HoldsLock(q) /\ LockOf[hash[q]] = l
    BY DEF LockInv, LockMatchesSection
  <2>2. CASE q = p
    <3>1. lock'[l] # p
      BY <1>1, <1>2, NoneAssumption, <2>1, <2>2
      DEF LockInv, LockMatchesSection, StoresTyped, m
    <3> QED BY <2>2, <3>1
  <2>3. CASE q # p
    <3>1. (HoldsLock(q)' <=> HoldsLock(q)) /\ hash'[q] = hash[q]
      BY <2>3 DEF HoldsLock
    <3>2. lock'[l] = q <=> lock[l] = q
      BY <1>1, <1>2, <2>3, NoneAssumption DEF LockInv, StoresTyped
    <3> QED BY <2>1, <3>1, <3>2
  <2> QED BY <2>2, <2>3
<1> QED BY <1>3 DEF LockMatchesSection

\* A request that answers, having been outside or leaving its section.
LEMMA AnswerLocks ==
  ASSUME LockInv, NEW p \in Procs, Free(p),
         \/ UNCHANGED lock /\ ~HoldsLock(p)
         \/ Unlock(p) /\ HoldsLock(p)
  PROVE  LockMatchesSection'
<1>1. ~HoldsLock(p)'
  BY DEF Free, HoldsLock, LockInv, RequestsTyped, LockedLabels, LegacyLabels
<1>2. \A q \in Procs \ {p} :
        pc'[q] = pc[q] /\ ret'[q] = ret[q] /\ hash'[q] = hash[q]
  BY DEF Free, LockInv, RequestsTyped
<1> QED BY <1>1, <1>2, KeepsLock, ReleasesLock

\* The locked section of a push.
LEMMA PushLocks ==
  ASSUME LockInv, NEW p \in Procs,
         \/ PushLock(p) \/ PushHeadAbsent(p) \/ PushHeadLegacy(p)
         \/ PushHeadPresent(p) \/ PushHeadError(p) \/ PushPut(p)
         \/ PushPutError(p) \/ PublishLink(p) \/ PublishEvict(p)
  PROVE  LockMatchesSection'
<1> USE DEF LockInv
<1>1. CASE PushLock(p)
  <2> DEFINE m == LockOf[hash[p]]
  <2>1. /\ m \in Locks /\ lock[m] = None
        /\ lock' = [lock EXCEPT ![m] = p]
        /\ pc' = [pc EXCEPT ![p] = "head"]
        /\ hash' = hash /\ ret' = ret /\ pc[p] = "lock"
    BY <1>1, ConstantsAssumption
    DEF PushLock, locals, RequestShape, PushLabels
  <2>2. LockOf[hash'[p]] = m
    BY <2>1
  <2> HIDE DEF m
  <2>3. ASSUME NEW l \in Locks, NEW q \in Procs
        PROVE  (lock[l] = q <=> HoldsLock(q) /\ LockOf[hash[q]] = l)'
    <3>1. lock[l] = q <=> HoldsLock(q) /\ LockOf[hash[q]] = l
      BY DEF LockMatchesSection
    <3>2. CASE q = p
      BY <2>1, <2>2, <3>1, <3>2
      DEF HoldsLock, LockedLabels, LegacyLabels, RequestsTyped, StoresTyped
    <3>3. CASE q # p
      BY <2>1, <3>1, <3>3, NoneAssumption
      DEF HoldsLock, RequestsTyped, StoresTyped
    <3> QED BY <3>2, <3>3
  <2> QED BY <2>3 DEF LockMatchesSection
<1>2. CASE PushHeadAbsent(p)
  BY <1>2, KeepsLock
  DEF PushHeadAbsent, locals, HoldsLock, LockedLabels, RequestsTyped
<1>3. CASE PushHeadLegacy(p)
  BY <1>3, KeepsLock
  DEF PushHeadLegacy, HoldsLock, LockedLabels, LegacyLabels, RequestsTyped
<1>4. CASE PushHeadPresent(p)
  <2>1. CASE PushAbort(p, "409")
    BY <1>4, <2>1, AnswerLocks
    DEF PushHeadPresent, PushAbort, PushError, Answer, HoldsLock, LockedLabels
  <2>2. CASE ~PushAbort(p, "409")
    BY <1>4, <2>2, KeepsLock
    DEF PushHeadPresent, HoldsLock, LockedLabels, RequestsTyped
  <2> QED BY <2>1, <2>2
<1>5. CASE PushHeadError(p)
  BY <1>5, AnswerLocks
  DEF PushHeadError, PushAbort, PushError, Answer, HoldsLock, LockedLabels
<1>6. CASE PushPut(p)
  BY <1>6, KeepsLock DEF PushPut, HoldsLock, LockedLabels, RequestsTyped
<1>7. CASE PushPutError(p)
  BY <1>7, AnswerLocks
  DEF PushPutError, PushAbort, PushError, Answer, HoldsLock, LockedLabels
<1>8. CASE PublishLink(p)
  <2>1. CASE UNCHANGED lock /\ Continue(p, "evict")
    BY <1>8, <2>1, KeepsLock
    DEF PublishLink, locals, HoldsLock, LockedLabels, RequestsTyped
  <2>2. CASE Unlock(p) /\ Continue(p, "commitExists")
    BY <1>8, <2>2, ReleasesLock
    DEF PublishLink, locals, HoldsLock, LockedLabels, LegacyLabels, RequestsTyped
  <2> QED BY <1>8, <2>1, <2>2 DEF PublishLink
<1>9. CASE PublishEvict(p)
  BY <1>9, ReleasesLock
  DEF PublishEvict, locals, HoldsLock, LockedLabels, LegacyLabels, RequestsTyped
<1> QED BY <1>1, <1>2, <1>3, <1>4, <1>5, <1>6, <1>7, <1>8, <1>9

\* The legacy migration, under the mutex for a push and without it otherwise.
LEMMA LegacyLocks ==
  ASSUME LockInv, NEW p \in Procs,
         LegacyOpen(p) \/ LegacyReopen(p) \/ LegacyPut(p) \/ LegacyError(p)
  PROVE  LockMatchesSection'
<1> USE DEF LockInv
<1>1. ASSUME NEW code, pc[p] \in LegacyLabels, LegacyAbort(p, code)
      PROVE  LockMatchesSection'
  BY <1>1, AnswerLocks
  DEF LegacyAbort, PushAbort, PushError, Answer, HoldsLock, LockedLabels,
      LegacyLabels
<1>2. CASE LegacyOpen(p)
  <2>1. CASE LegacyAbort(p, "409")
    BY <1>1, <1>2, <2>1 DEF LegacyOpen, LegacyLabels
  <2>2. CASE ~LegacyAbort(p, "409")
    BY <1>2, <2>2, KeepsLock
    DEF LegacyOpen, HoldsLock, LockedLabels, LegacyLabels, RequestsTyped
  <2> QED BY <2>1, <2>2
<1>3. CASE LegacyReopen(p)
  BY <1>3, KeepsLock
  DEF LegacyReopen, HoldsLock, LockedLabels, LegacyLabels, RequestsTyped
<1>4. CASE LegacyPut(p)
  <2>1. PICK l \in {"link", "recPut"} :
          /\ Continue(p, l)
          /\ l = "link" <=> ret[p] = "push"
    BY <1>4 DEF LegacyPut
  <2>2. pc[p] = "legPut" /\ UNCHANGED <<lock, hash, ret>>
    BY <1>4 DEF LegacyPut
  <2> QED
    BY <2>1, <2>2, KeepsLock
    DEF HoldsLock, LockedLabels, LegacyLabels, RequestsTyped
<1>5. CASE LegacyError(p)
  BY <1>1, <1>5 DEF LegacyError, LegacyLabels
<1> QED BY <1>2, <1>3, <1>4, <1>5

\* commitPayloadMetadata.
LEMMA CommitLocks ==
  ASSUME LockInv, NEW p \in Procs,
         CommitExists(p) \/ CommitGet(p) \/ CommitPut(p) \/ CommitError(p)
  PROVE  LockMatchesSection'
<1> USE DEF LockInv, LockedLabels, LegacyLabels
<1>1. ~HoldsLock(p) /\ UNCHANGED lock
  BY DEF HoldsLock, CommitExists, CommitGet, CommitPut, CommitError
<1>2. CASE Free(p)
  BY <1>1, <1>2, AnswerLocks
<1>3. CASE ~Free(p)
  <2>1. PICK l \in {"commitGet", "commitPut"} : Continue(p, l)
    BY <1>3
    DEF CommitExists, CommitGet, CommitPut, CommitError, PushError, Answer
  <2>2. UNCHANGED <<hash, ret>>
    BY <1>3
    DEF CommitExists, CommitGet, CommitPut, CommitError, PushError, Answer
  <2> QED BY <1>1, <2>1, <2>2, KeepsLock DEF HoldsLock, RequestsTyped
<1> QED BY <1>2, <1>3

\* payloadRecord.
LEMMA RecordLocks ==
  ASSUME LockInv, NEW p \in Procs,
         RecGet(p) \/ RecHeadAbsent(p) \/ RecHeadPresent(p) \/ RecPut(p)
  PROVE  LockMatchesSection'
<1> USE DEF LockInv, LockedLabels, LegacyLabels
<1>1. ~HoldsLock(p) /\ UNCHANGED lock
  BY DEF HoldsLock, RecGet, RecHeadAbsent, RecHeadPresent, RecPut
<1>2. CASE RecHeadAbsent(p)
  BY <1>1, <1>2, AnswerLocks DEF RecHeadAbsent, NotExist, Answer
<1>3. CASE RecHeadPresent(p)
  <2>1. PICK l \in {"legOpen", "recPut"} : Continue(p, l)
    BY <1>3 DEF RecHeadPresent
  <2>2. UNCHANGED <<hash, ret>> /\ ret[p] # "push"
    BY <1>3 DEF RecHeadPresent, RequestShape, ReadLabels, PushLabels, PcLabels
  <2> QED BY <1>1, <2>1, <2>2, KeepsLock DEF HoldsLock, RequestsTyped
<1>4. CASE RecGet(p) \/ RecPut(p)
  <2>1. ret[p] \in Callers \ {"push"}
    BY <1>4
    DEF RecGet, RecPut, RequestShape, ReadLabels, PushLabels, PcLabels
  <2>2. PICK l \in {"recHead", "recGet", "diskExists", "rangeHead", "existsDisk"} :
          Continue(p, l)
    BY <1>4, <2>1 DEF RecGet, RecPut, Return, ReturnLabel, Callers
  <2>3. UNCHANGED hash
    BY <1>4 DEF RecGet, RecPut
  <2>4. \A q \in Procs \ {p} : ret'[q] = ret[q]
    BY <1>4 DEF RecGet, RecPut, Return, RequestsTyped
  <2> QED BY <1>1, <2>2, <2>3, <2>4, KeepsLock DEF HoldsLock, RequestsTyped
<1> QED BY <1>2, <1>3, <1>4

\* Pulls and exists requests.
LEMMA ReadLocks ==
  ASSUME LockInv, NEW p \in Procs,
         \/ RangeExists(p) \/ RangeHead(p) \/ RangeGet(p)
         \/ DiskExists(p) \/ DiskOpen(p) \/ RemoteHead(p) \/ ETagPut(p)
         \/ RemoteOpen(p) \/ ReadError(p) \/ RangeRefused(p)
         \/ ExistsDisk(p) \/ Serve(p) \/ MarkGet(p) \/ MarkPut(p)
  PROVE  LockMatchesSection'
<1> USE DEF LockInv, LockedLabels, LegacyLabels
<1>1. ~HoldsLock(p) /\ UNCHANGED lock
  BY DEF HoldsLock, RangeExists, RangeHead, RangeGet, DiskExists, DiskOpen,
         RemoteHead, ETagPut, RemoteOpen, ReadError,
         RangeRefused, ExistsDisk, Serve, MarkGet, MarkPut
<1>2. CASE Free(p)
  BY <1>1, <1>2, AnswerLocks
<1>3. CASE ~Free(p)
  <2>1. PICK l \in {"recGet", "rangeGet", "etagPut", "serve", "remHead",
                    "diskOpen", "remOpen", "markGet", "markPut"} :
          Goto(p, l)
    BY <1>3
    DEF RangeExists, RangeHead, RangeGet, DiskExists, DiskOpen, RemoteHead,
        ETagPut, RemoteOpen, ReadError, RangeRefused, ExistsDisk,
        Serve, MarkGet, MarkPut, Answer, NotExist, RecordETag
  <2>2. UNCHANGED hash
    BY <1>3
    DEF RangeExists, RangeHead, RangeGet, DiskExists, DiskOpen, RemoteHead,
        ETagPut, RemoteOpen, ReadError, RangeRefused, ExistsDisk,
        Serve, MarkGet, MarkPut, Answer, NotExist, locals
  <2>3. \A q \in Procs \ {p} : ret'[q] = ret[q]
    BY <1>3
    DEF RangeExists, RangeHead, RangeGet, DiskExists, DiskOpen, RemoteHead,
        ETagPut, RemoteOpen, ReadError, RangeRefused, ExistsDisk,
        Serve, MarkGet, MarkPut, Answer, NotExist, locals, RequestsTyped
  <2> QED BY <1>1, <2>1, <2>2, <2>3, KeepsLock DEF HoldsLock, RequestsTyped
<1> QED BY <1>2, <1>3

\* New requests, and the environment.
LEMMA OtherLocks ==
  ASSUME LockInv,
         \/ \E p \in Procs : Request(p)
         \/ LatePut \/ Crash \/ StartupAccept \/ StartupExit
  PROVE  LockMatchesSection'
<1> USE DEF LockInv, LockedLabels, LegacyLabels
<1>1. ASSUME NEW p \in Procs, Request(p) PROVE LockMatchesSection'
  <2>1. /\ pc[p] = "idle" /\ UNCHANGED lock
        /\ \/ UNCHANGED <<pc, hash, ret>>
           \/ \E l \in {"lock", "rangeExists", "recGet"} : Goto(p, l)
        /\ \A q \in Procs \ {p} : ret'[q] = ret[q] /\ hash'[q] = hash[q]
    BY <1>1
    DEF Request, StartPush, PullFromMemory, StartRead, locals, RequestsTyped
  <2> QED BY <2>1, KeepsLock DEF HoldsLock, RequestsTyped
<1>2. CASE Crash
  BY <1>2, NoneAssumption DEF Crash, LockMatchesSection, HoldsLock
<1>3. CASE LatePut \/ StartupAccept \/ StartupExit
  BY <1>3
  DEF LatePut, StartupAccept, StartupExit, locals, LockMatchesSection, HoldsLock
<1> QED BY <1>1, <1>2, <1>3

\* Every step preserves the mutex invariant.
LEMMA NextLocks == LockInv /\ [Next]_vars => LockInv'
<1> SUFFICES ASSUME LockInv, [Next]_vars PROVE LockInv'
  OBVIOUS
<1>1. TypedInv'
  BY NextTyped DEF LockInv
<1>2. CASE UNCHANGED vars
  BY <1>1, <1>2 DEF vars, LockInv, LockMatchesSection, HoldsLock
<1>3. ASSUME NEW p \in Procs, Step(p) PROVE LockMatchesSection'
  BY <1>3, PushLocks, LegacyLocks, CommitLocks, RecordLocks, ReadLocks DEF Step
<1> QED BY <1>1, <1>2, <1>3, OtherLocks DEF Next, LockInv

\* No request holds a mutex at first.
LEMMA InitLocks == Init => LockInv
<1> SUFFICES ASSUME Init PROVE LockInv
  OBVIOUS
<1>1. TypedInv
  BY InitTyped
<1>2. LockMatchesSection
  BY NoneAssumption
  DEF Init, LockMatchesSection, HoldsLock, LockedLabels, LegacyLabels
<1> QED BY <1>1, <1>2 DEF LockInv

\* Mutual exclusion and no leaked mutex, for every number of requests and
\* mutexes: a payloadWrites mutex is held exactly by the one request that is
\* between Lock and the deferred Unlock for a hash of that mutex, so every
\* early return of putPayloadDurably releases it.
THEOREM LocksMatchSections == Spec => []LockMatchesSection
<1>1. LockInv => LockMatchesSection
  BY DEF LockInv
<1> QED BY <1>1, InitLocks, NextLocks, PTL DEF Spec

(***************************************************************************)
(* Single creation and immutability, while S3 applies no PutObject late.   *)
(***************************************************************************)

\* A step of p that leaves the bucket alone: only p's own readiness is new.
LEMMA KeepsObjects ==
  ASSUME WriteInv, NEW p \in Procs, UNCHANGED <<objects, late, writes>>,
         WriteReady(p)',
         \A q \in Procs \ {p} :
           pc'[q] = pc[q] /\ hash'[q] = hash[q] /\ src'[q] = src[q]
  PROVE  WritesReady' /\ CreationsStored'
<1>1. ASSUME NEW q \in Procs, q # p PROVE WriteReady(q)'
  BY <1>1 DEF WriteInv, WritesReady, WriteReady
<1> QED BY <1>1 DEF WriteInv, WritesReady, CreationsStored

\* A request that returns has nothing to write.
LEMMA FreeReady ==
  ASSUME WriteInv, NEW p \in Procs, Free(p)
  PROVE  /\ WriteReady(p)'
         /\ \A q \in Procs \ {p} :
              pc'[q] = pc[q] /\ hash'[q] = hash[q] /\ src'[q] = src[q]
BY DEF Free, WriteReady, LegacyLabels, WriteInv, LockInv, RequestsTyped

\* The creating PutObject: the mutex keeps every other writer of the hash out.
LEMMA CreatesObject ==
  ASSUME WriteInv, NEW p \in Procs, pc[p] = "put",
         NEW o \in Objects, objects' = [objects EXCEPT ![hash[p]] = o],
         late' = late, pc'[p] # "put", pc'[p] \notin LegacyLabels,
         \A h \in Hashes \ {hash[p]} : writes'[h] = writes[h],
         writes'[hash[p]] \in {writes[hash[p]], writes[hash[p]] + 1},
         \A q \in Procs \ {p} :
           pc'[q] = pc[q] /\ hash'[q] = hash[q] /\ src'[q] = src[q]
  PROVE  /\ WritesReady' /\ CreationsStored'
         /\ objects[hash[p]] = None
<1> USE DEF WriteInv, LockInv
<1>1. hash[p] \in Hashes /\ objects[hash[p]] = None
  BY DEF RequestShape, WritesReady, WriteReady
<1>2. ASSUME NEW q \in Procs, q # p PROVE WriteReady(q)'
  <2>1. CASE hash[q] = hash[p]
    <3>1. pc[q] # "put"
      <4>1. LockOf[hash[p]] \in Locks
        BY <1>1, ConstantsAssumption
      <4> QED
        BY <1>1, <1>2, <2>1, <4>1 DEF LockMatchesSection, HoldsLock, LockedLabels
    <3>2. pc[q] \notin LegacyLabels
      BY <1>1, <2>1 DEF WritesReady, WriteReady
    <3> QED BY <1>2, <3>1, <3>2 DEF WriteReady, LegacyLabels
  <2>2. CASE hash[q] # hash[p]
    <3>1. pc[q] = "put" \/ pc[q] \in LegacyLabels => hash[q] \in Hashes
      BY DEF RequestShape, LegacyLabels
    <3>2. hash[q] \in Hashes => objects'[hash[q]] = objects[hash[q]]
      BY <1>1, <2>2 DEF StoresTyped
    <3> QED
      BY <1>2, <3>1, <3>2 DEF WritesReady, WriteReady, LegacyLabels
  <2> QED BY <2>1, <2>2
<1>3. WritesReady'
  BY <1>2 DEF WritesReady, WriteReady, LegacyLabels
<1>4. ASSUME NEW h \in Hashes
      PROVE  writes'[h] <= 1 /\ (objects'[h] = None => writes'[h] = 0)
  <2>1. writes[h] \in 0..2
    BY DEF StoresTyped
  <2>2. writes[h] <= 1 /\ (objects[h] = None => writes[h] = 0)
    BY DEF CreationsStored
  <2>3. CASE h = hash[p]
    BY <1>1, <2>1, <2>2, <2>3, NoneAssumption DEF StoresTyped
  <2>4. CASE h # hash[p]
    BY <1>1, <2>1, <2>2, <2>4 DEF StoresTyped
  <2> QED BY <2>3, <2>4
<1> QED BY <1>1, <1>3, <1>4 DEF CreationsStored

\* The migrating PutObject writes back the content that is there.
LEMMA MigratesObject ==
  ASSUME WriteInv, NEW p \in Procs, pc[p] = "legPut",
         NEW o \in Objects, o.data = src[p],
         objects' = [objects EXCEPT ![hash[p]] = o],
         late' = late, writes' = writes,
         pc'[p] # "put", pc'[p] \notin LegacyLabels,
         \A q \in Procs \ {p} :
           pc'[q] = pc[q] /\ hash'[q] = hash[q] /\ src'[q] = src[q]
  PROVE  /\ WritesReady' /\ CreationsStored'
         /\ objects[hash[p]] # None /\ objects[hash[p]].data = o.data
<1> USE DEF WriteInv, LockInv
<1>1. /\ hash[p] \in Hashes /\ objects[hash[p]] # None
      /\ objects[hash[p]].data = o.data
  BY DEF RequestShape, WritesReady, WriteReady, LegacyLabels
<1>2. ASSUME NEW h \in Hashes
      PROVE  /\ objects'[h] = None <=> objects[h] = None
             /\ objects[h] # None => objects'[h].data = objects[h].data
  BY <1>1, NoneAssumption DEF StoresTyped
<1>3. ASSUME NEW q \in Procs, q # p PROVE WriteReady(q)'
  <2>1. pc[q] = "put" \/ pc[q] \in LegacyLabels => hash[q] \in Hashes
    BY DEF RequestShape, LegacyLabels
  <2> QED BY <1>2, <1>3, <2>1 DEF WritesReady, WriteReady, LegacyLabels
<1>4. WritesReady'
  BY <1>3 DEF WritesReady, WriteReady, LegacyLabels
<1>5. CreationsStored'
  BY <1>2 DEF CreationsStored
<1> QED BY <1>1, <1>4, <1>5

\* What a step may do to the objects S3 holds.
ContentKept ==
  \A h \in Hashes : objects[h] # None =>
    objects'[h] # None /\ objects'[h].data = objects[h].data

\* The locked section of a push.
LEMMA PushWrites ==
  ASSUME ~PutsLandLate, WriteInv, NEW p \in Procs,
         \/ PushLock(p) \/ PushHeadAbsent(p) \/ PushHeadLegacy(p)
         \/ PushHeadPresent(p) \/ PushHeadError(p) \/ PushPut(p)
         \/ PushPutError(p) \/ PublishLink(p) \/ PublishEvict(p)
  PROVE  WritesReady' /\ CreationsStored' /\ ContentKept
<1> USE DEF LegacyLabels
<1>1. CASE PushPut(p)
  <2> DEFINE o == Object(body[p], Checksum[body[p]])
  <2>1. /\ body[p] \in Data /\ hash[p] \in Hashes /\ pc[p] = "put"
    BY <1>1 DEF PushPut, WriteInv, LockInv, RequestShape, ContentLabels, PushLabels
  <2>2. o \in Objects
    BY <2>1, ConstantsAssumption DEF Object, Objects
  <2>3. objects' = [objects EXCEPT ![hash[p]] = o] /\ late' = late
    BY <1>1 DEF PushPut, PutApplied
  <2> HIDE DEF o
  <2>4. /\ \A h \in Hashes \ {hash[p]} : writes'[h] = writes[h]
        /\ writes'[hash[p]] \in {writes[hash[p]], writes[hash[p]] + 1}
    BY <1>1, <2>1 DEF PushPut, WriteInv, LockInv, StoresTyped
  <2>5. /\ pc'[p] # "put" /\ pc'[p] \notin LegacyLabels
        /\ \A q \in Procs \ {p} :
             pc'[q] = pc[q] /\ hash'[q] = hash[q] /\ src'[q] = src[q]
    BY <1>1 DEF PushPut, WriteInv, LockInv, RequestsTyped
  <2>6. /\ WritesReady' /\ CreationsStored' /\ objects[hash[p]] = None
    BY <2>1, <2>2, <2>3, <2>4, <2>5, CreatesObject
  <2> QED
    BY <2>1, <2>3, <2>6 DEF ContentKept, WriteInv, LockInv, StoresTyped
<1>2. CASE PushPutError(p)
  <2> DEFINE o == Object(body[p], Checksum[body[p]])
  <2>1. /\ body[p] \in Data /\ hash[p] \in Hashes /\ pc[p] = "put" /\ Free(p)
        /\ writes' = writes
    BY <1>2
    DEF PushPutError, PushAbort, PushError, Answer, history,
        WriteInv, LockInv, RequestShape, ContentLabels, PushLabels
  <2>2. o \in Objects
    BY <2>1, ConstantsAssumption DEF Object, Objects
  <2>3. late' = late /\ (objects' = objects \/ objects' = [objects EXCEPT ![hash[p]] = o])
    BY <1>2 DEF PushPutError, PutFailed, PutApplied
  <2> HIDE DEF o
  <2>4. pc'[p] = "idle"
    BY <2>1 DEF Free, WriteInv, LockInv, RequestsTyped
  <2>5. CASE objects' = objects
    BY <2>1, <2>3, <2>5, FreeReady, KeepsObjects DEF ContentKept
  <2>6. CASE objects' = [objects EXCEPT ![hash[p]] = o]
    <3>1. /\ \A h \in Hashes \ {hash[p]} : writes'[h] = writes[h]
          /\ writes'[hash[p]] \in {writes[hash[p]], writes[hash[p]] + 1}
      BY <2>1
    <3>2. \A q \in Procs \ {p} :
            pc'[q] = pc[q] /\ hash'[q] = hash[q] /\ src'[q] = src[q]
      BY <2>1, FreeReady
    <3>3. WritesReady' /\ CreationsStored' /\ objects[hash[p]] = None
      BY <2>1, <2>2, <2>3, <2>4, <2>6, <3>1, <3>2, CreatesObject
    <3> QED
      BY <2>1, <2>6, <3>3 DEF ContentKept, WriteInv, LockInv, StoresTyped
  <2> QED BY <2>3, <2>5, <2>6
<1>3. CASE ~PushPut(p) /\ ~PushPutError(p)
  <2>1. UNCHANGED <<objects, late, writes>>
    BY <1>3
    DEF PushLock, PushHeadAbsent, PushHeadLegacy, PushHeadPresent,
        PushHeadError, PublishLink, PublishEvict, stores, history
  <2>2. CASE Free(p)
    BY <2>1, <2>2, FreeReady, KeepsObjects DEF ContentKept
  <2>3. CASE ~Free(p)
    <3>1. /\ UNCHANGED <<hash, src>>
          /\ \/ \E l \in {"head", "link", "evict", "commitExists"} : Goto(p, l)
             \/ Goto(p, "put") /\ objects[hash[p]] = None
             \/ Goto(p, "legOpen") /\ objects[hash[p]] # None
      BY <1>3, <2>3
      DEF PushLock, PushHeadAbsent, PushHeadLegacy, PushHeadPresent,
          PushHeadError, PublishLink, PublishEvict, PushAbort, PushError,
          Answer, locals
    <3>2. WriteReady(p)'
      BY <2>1, <3>1 DEF WriteReady, WriteInv, LockInv, RequestsTyped
    <3> QED
      BY <2>1, <3>1, <3>2, KeepsObjects
      DEF ContentKept, WriteInv, LockInv, RequestsTyped
  <2> QED BY <2>2, <2>3
<1> QED BY <1>1, <1>2, <1>3

\* The legacy migration.
LEMMA LegacyWrites ==
  ASSUME ~PutsLandLate, WriteInv, NEW p \in Procs,
         LegacyOpen(p) \/ LegacyReopen(p) \/ LegacyPut(p) \/ LegacyError(p)
  PROVE  WritesReady' /\ CreationsStored' /\ ContentKept
<1> USE DEF LegacyLabels
<1> DEFINE o == Object(src[p], rem[p].checksum)
<1>1. pc[p] \in LegacyLabels /\ hash[p] \in Hashes /\ objects[hash[p]] # None
  BY DEF LegacyOpen, LegacyReopen, LegacyPut, LegacyError,
         WriteInv, LockInv, RequestShape, WritesReady, WriteReady
<1>2. pc[p] = "legPut" => o \in Objects /\ o.data = src[p]
  BY DEF Object, Objects, Infos, WriteInv, LockInv, RequestShape, InfoLabels
<1>3. late' = late /\ writes' = writes
  BY DEF LegacyOpen, LegacyReopen, LegacyPut, LegacyError, PutFailed,
         PutApplied, stores, history
<1>4. \/ objects' = objects
      \/ pc[p] = "legPut" /\ objects' = [objects EXCEPT ![hash[p]] = o]
  BY DEF LegacyOpen, LegacyReopen, LegacyPut, LegacyError, PutFailed,
         PutApplied, stores
<1>5. \/ Free(p)
      \/ /\ UNCHANGED hash
         /\ \/ \E l \in {"link", "recPut"} : Goto(p, l) /\ src' = src
            \/ Goto(p, "legReopen") /\ objects' = objects /\ src' = src
            \/ /\ Goto(p, "legPut") /\ objects' = objects
               /\ src' = [src EXCEPT ![p] = objects[hash[p]].data]
  BY DEF LegacyOpen, LegacyReopen, LegacyPut, LegacyError, LegacyAbort,
         PushAbort, PushError, Answer, stores
<1> HIDE DEF o
<1>6. \A q \in Procs \ {p} :
        pc'[q] = pc[q] /\ hash'[q] = hash[q] /\ src'[q] = src[q]
  BY <1>5, FreeReady DEF WriteInv, LockInv, RequestsTyped
<1>7. CASE objects' = objects
  <2>1. WriteReady(p)'
    BY <1>1, <1>5, <1>7, FreeReady
    DEF WriteReady, WriteInv, LockInv, RequestsTyped
  <2> QED BY <1>3, <1>6, <1>7, <2>1, KeepsObjects DEF ContentKept
<1>8. CASE objects' # objects
  <2>1. pc'[p] # "put" /\ pc'[p] \notin LegacyLabels
    BY <1>5, <1>8 DEF Free, WriteInv, LockInv, RequestsTyped
  <2>2. /\ WritesReady' /\ CreationsStored'
        /\ objects[hash[p]].data = o.data
    BY <1>2, <1>3, <1>4, <1>6, <1>8, <2>1, MigratesObject
  <2>3. o # None
    BY <1>2, <1>4, <1>8, NoneAssumption
  <2> QED
    BY <1>1, <1>4, <1>8, <2>2, <2>3
    DEF ContentKept, WriteInv, LockInv, StoresTyped
<1> QED BY <1>7, <1>8

\* Every other step of a request leaves the bucket alone and is not about to
\* write to it, except for a reader that found a legacy object.
LEMMA OtherWrites ==
  ASSUME WriteInv, NEW p \in Procs,
         \/ Request(p)
         \/ CommitExists(p) \/ CommitGet(p) \/ CommitPut(p) \/ CommitError(p)
         \/ RecGet(p) \/ RecHeadAbsent(p) \/ RecHeadPresent(p) \/ RecPut(p)
         \/ RangeExists(p) \/ RangeHead(p) \/ RangeGet(p)
         \/ DiskExists(p) \/ DiskOpen(p) \/ RemoteHead(p) \/ ETagPut(p)
         \/ RemoteOpen(p) \/ ReadError(p) \/ RangeRefused(p)
         \/ ExistsDisk(p) \/ Serve(p) \/ MarkGet(p) \/ MarkPut(p)
  PROVE  WritesReady' /\ CreationsStored' /\ ContentKept
<1> USE DEF LegacyLabels, LockedLabels
<1>1. UNCHANGED <<objects, late, writes>>
  BY DEF Request, StartPush, PullFromMemory, StartRead, CommitExists,
         CommitGet, CommitPut, CommitError, RecGet, RecHeadAbsent,
         RecHeadPresent, RecPut, RangeExists, RangeHead, RangeGet, DiskExists,
         DiskOpen, RemoteHead, ETagPut, RemoteOpen, ReadError,
         RangeRefused, ExistsDisk, Serve, MarkGet, MarkPut, stores, history
<1>2. CASE Free(p)
  BY <1>1, <1>2, FreeReady, KeepsObjects DEF ContentKept
<1>3. CASE RecHeadPresent(p)
  <2>1. /\ UNCHANGED <<hash, src>> /\ objects[hash[p]] # None
        /\ Goto(p, "legOpen") \/ Goto(p, "recPut")
    BY <1>3 DEF RecHeadPresent
  <2> QED
    BY <1>1, <2>1, KeepsObjects
    DEF ContentKept, WriteReady, WriteInv, LockInv, RequestsTyped
<1>4. CASE Request(p)
  <2>1. /\ UNCHANGED src
        /\ \A q \in Procs \ {p} : hash'[q] = hash[q]
        /\ \/ UNCHANGED pc /\ pc[p] = "idle"
           \/ \E l \in {"lock", "rangeExists", "recGet"} : Goto(p, l)
    BY <1>4
    DEF Request, StartPush, PullFromMemory, StartRead, locals,
        WriteInv, LockInv, RequestsTyped
  <2> QED
    BY <1>1, <2>1, KeepsObjects
    DEF ContentKept, WriteReady, WriteInv, LockInv, RequestsTyped
<1>5. CASE ~Free(p) /\ ~RecHeadPresent(p) /\ ~Request(p)
  <2>1. UNCHANGED <<hash, src>>
    BY <1>5
    DEF CommitExists, CommitGet, CommitPut, CommitError, RecGet,
        RecHeadAbsent, RecPut, RangeExists, RangeHead, RangeGet, DiskExists,
        DiskOpen, RemoteHead, ETagPut, RemoteOpen, ReadError,
        RangeRefused, ExistsDisk, Serve, MarkGet, MarkPut, PushError,
        NotExist, Answer, locals
  <2>2. PICK l \in PcLabels \ (LegacyLabels \cup {"put"}) : Goto(p, l)
    <3>1. CASE RecGet(p) \/ RecPut(p)
      <4>1. ret[p] \in Callers \ {"push"}
        BY <3>1
        DEF RecGet, RecPut, WriteInv, LockInv, RequestShape, ReadLabels,
            PushLabels, PcLabels
      <4> QED
        BY <3>1, <4>1 DEF RecGet, RecPut, Return, ReturnLabel, Callers, PcLabels
    <3>2. CASE ~RecGet(p) /\ ~RecPut(p)
      BY <1>5, <3>2
      DEF CommitExists, CommitGet, CommitPut, CommitError,
        RecHeadAbsent, RangeExists, RangeHead, RangeGet, DiskExists,
        DiskOpen, RemoteHead, ETagPut, RemoteOpen, ReadError,
        RangeRefused, ExistsDisk, Serve, MarkGet, MarkPut, PushError,
        NotExist, Answer, RecordETag, PcLabels
    <3> QED BY <3>1, <3>2
  <2> QED
    BY <1>1, <2>1, <2>2, KeepsObjects
    DEF ContentKept, WriteReady, WriteInv, LockInv, RequestsTyped
<1> QED BY <1>2, <1>3, <1>4, <1>5

\* Crash and startup: nobody writes to the bucket.
LEMMA EnvironmentWrites ==
  ASSUME WriteInv, LatePut \/ Crash \/ StartupAccept \/ StartupExit
  PROVE  WritesReady' /\ CreationsStored' /\ ContentKept
<1>1. CASE LatePut
  BY <1>1 DEF LatePut, WriteInv, WritesReady
<1>2. CASE Crash
  BY <1>2
  DEF Crash, history, WriteInv, WritesReady, WriteReady, CreationsStored,
      ContentKept, LegacyLabels
<1>3. CASE StartupAccept \/ StartupExit
  BY <1>3
  DEF StartupAccept, StartupExit, locals, history, WriteInv, WritesReady,
      WriteReady, CreationsStored, ContentKept
<1> QED BY <1>1, <1>2, <1>3

\* Every step preserves the invariant and the contents of the bucket.
LEMMA NextWrites ==
  ASSUME ~PutsLandLate, WriteInv, [Next]_vars
  PROVE  WriteInv' /\ (Next => ContentKept)
<1>1. LockInv'
  BY NextLocks DEF WriteInv
<1>2. CASE UNCHANGED vars
  BY <1>1, <1>2
  DEF vars, WriteInv, WritesReady, WriteReady, CreationsStored, ContentKept
<1>3. ASSUME NEW p \in Procs, Request(p) \/ Step(p)
      PROVE  WritesReady' /\ CreationsStored' /\ ContentKept
  BY <1>3, PushWrites, LegacyWrites, OtherWrites DEF Step
<1>4. CASE Next
  BY <1>1, <1>3, <1>4, EnvironmentWrites DEF Next, WriteInv
<1> QED BY <1>2, <1>4

\* The invariant holds at first.
LEMMA InitWrites == Init => WriteInv
<1> SUFFICES ASSUME Init PROVE WriteInv
  OBVIOUS
<1>1. LockInv
  BY InitLocks
<1>2. WritesReady
  BY DEF Init, WritesReady, WriteReady, LegacyLabels
<1>3. CreationsStored
  BY DEF Init, CreationsStored
<1> QED BY <1>1, <1>2, <1>3 DEF WriteInv

\* If no PutObject is applied after its call has failed, at most one push per
\* hash is told that it created the object, whatever pushes, migrations,
\* failures and restarts interleave (payloadWrites, storage.go:27-31).
THEOREM CreatedAtMostOnce == ~PutsLandLate => (Spec => []CreatedOnce)
<1> SUFFICES ASSUME ~PutsLandLate PROVE Spec => []CreatedOnce
  OBVIOUS
<1>1. WriteInv /\ [Next]_vars => WriteInv'
  BY NextWrites
<1>2. WriteInv => CreatedOnce
  BY DEF WriteInv, CreationsStored, CreatedOnce
<1> QED BY <1>1, <1>2, InitWrites, PTL DEF Spec

\* Under the same hypothesis, no step ever replaces the content S3 holds
\* under a hash by another content, or removes it.
THEOREM ContentImmutable == ~PutsLandLate => (Spec => PayloadImmutable)
<1> SUFFICES ASSUME ~PutsLandLate PROVE Spec => PayloadImmutable
  OBVIOUS
<1>1. WriteInv /\ [Next]_vars => WriteInv'
  BY NextWrites
<1>2. WriteInv /\ [Next]_vars =>
        [\A h \in Hashes : objects[h] # None =>
           objects'[h] # None /\ objects'[h].data = objects[h].data]_vars
  BY NextWrites DEF ContentKept
<1> QED BY <1>1, <1>2, InitWrites, PTL DEF Spec, PayloadImmutable
-----------------------------------------------------------------------------
(***************************************************************************)
(* Contents: acknowledged pushes are durable, pulls and caches are intact, *)
(* and the server can restart.                                             *)
(***************************************************************************)

(***************************************************************************)
(* Frames.                                                                 *)
(***************************************************************************)

\* The local variables of a request that the invariants speak of.
Untouched(q) ==
  /\ pc'[q] = pc[q] /\ hash'[q] = hash[q] /\ body'[q] = body[q]
  /\ rem'[q] = rem[q] /\ rec'[q] = rec[q] /\ ret'[q] = ret[q]

\* What the bucket says about a hash stays true.
BucketGrows == ContentKept /\ \A h \in Hashes : Migrated(h) => Migrated(h)'

\* A record with a CRC32C stays one.
RecordsGrow == \A h \in Hashes : Recorded(h) => Recorded(h)'

\* A request changes nobody else's local variables.
LEMMA OthersUntouched ==
  ASSUME TypedInv, NEW p \in Procs, Request(p) \/ Step(p)
  PROVE  \A q \in Procs \ {p} : Untouched(q)
<1> USE DEF RequestsTyped, Untouched
<1>1. CASE Free(p)
  BY <1>1 DEF Free
<1>2. CASE Request(p)
  BY <1>2 DEF Request, StartPush, PullFromMemory, StartRead, locals
<1>3. CASE \/ PushLock(p) \/ PushHeadAbsent(p) \/ PushHeadLegacy(p)
           \/ PushHeadPresent(p) \/ PushHeadError(p) \/ PushPutError(p)
           \/ PublishLink(p) \/ PublishEvict(p)
  BY <1>1, <1>3
  DEF PushLock, PushHeadAbsent, PushHeadLegacy, PushHeadPresent, PushHeadError,
      PushPutError, PublishLink, PublishEvict, PushAbort, PushError, Answer,
      locals
<1>4. CASE PushPut(p)
  <2>1. PICK i : rem' = [rem EXCEPT ![p] = i]
    BY <1>4 DEF PushPut
  <2> QED BY <1>4, <2>1 DEF PushPut
<1>5. CASE CommitExists(p) \/ CommitGet(p) \/ CommitPut(p) \/ CommitError(p)
  BY <1>1, <1>5
  DEF CommitExists, CommitGet, CommitPut, CommitError, PushError, Answer
<1>6. CASE RecGet(p) \/ RecHeadAbsent(p) \/ RecHeadPresent(p) \/ RecPut(p)
  BY <1>1, <1>6
  DEF RecGet, RecHeadAbsent, RecHeadPresent, RecPut, NotExist, Answer, Return
<1>7. CASE LegacyOpen(p) \/ LegacyReopen(p) \/ LegacyError(p)
  BY <1>1, <1>7
  DEF LegacyOpen, LegacyReopen, LegacyError, LegacyAbort, PushAbort,
      PushError, Answer
<1>8. CASE LegacyPut(p)
  BY <1>8 DEF LegacyPut
<1>9. CASE \/ RangeExists(p) \/ RangeHead(p) \/ RangeGet(p) \/ DiskExists(p)
           \/ DiskOpen(p) \/ RemoteHead(p) \/ ETagPut(p) \/ RemoteOpen(p)
           \/ ReadError(p)
  BY <1>1, <1>9
  DEF RangeExists, RangeHead, RangeGet, DiskExists, DiskOpen, RemoteHead,
      ETagPut, RemoteOpen, ReadError, RecordETag, NotExist, Answer, locals
<1>10. CASE \/ Serve(p) \/ RangeRefused(p) \/ MarkGet(p) \/ MarkPut(p)
            \/ ExistsDisk(p)
  BY <1>1, <1>10
  DEF Serve, RangeRefused, MarkGet, MarkPut, ExistsDisk, Answer, locals
<1> QED
  BY <1>2, <1>3, <1>4, <1>5, <1>6, <1>7, <1>8, <1>9, <1>10 DEF Step

\* What holds of a request goes on to hold while others work.
LEMMA StableRequest ==
  ASSUME DurableInv, NEW q \in Procs, BucketGrows, RecordsGrow, Untouched(q)
  PROVE  RequestTrue(q)'
<1> USE DEF StoredLabels, LegacyLabels, RecordLabels, RecordedLabels
<1>1. RequestTrue(q)
  BY DEF DurableInv, RequestsTrue
<1>2. pc[q] # "idle" => hash[q] \in Hashes
  BY DEF DurableInv, WriteInv, LockInv, RequestShape
<1>3. pc[q] \in LegacyLabels => objects[hash[q]] # None
  BY DEF DurableInv, WriteInv, WritesReady, WriteReady
<1>4. CASE pc[q] = "idle"
  BY <1>4 DEF Untouched, RequestTrue, Repairing
<1>5. CASE pc[q] # "idle"
  <2>1. /\ hash[q] \in Hashes
        /\ Migrated(hash[q]) => Migrated(hash[q])'
        /\ Recorded(hash[q]) => Recorded(hash[q])'
        /\ objects[hash[q]] # None =>
             /\ objects'[hash[q]] # None
             /\ objects'[hash[q]].data = objects[hash[q]].data
    <3>1. PICK h \in Hashes : h = hash[q] /\ h = hash'[q]
      BY <1>2, <1>5 DEF Untouched
    <3>2. (Migrated(h) => Migrated(h)') /\ (Recorded(h) => Recorded(h)')
      BY DEF BucketGrows, RecordsGrow
    <3> QED
      BY <3>1, <3>2 DEF BucketGrows, ContentKept, Migrated, Recorded
  <2>2. Agrees(body[q], hash[q]) => Agrees(body[q], hash[q])'
    BY <2>1 DEF Agrees, Untouched
  <2>3. Describes(rec[q], hash[q]) => Describes(rec[q], hash[q])'
    BY <2>1 DEF Describes, Migrated, Untouched
  <2> QED
    BY <1>1, <1>3, <2>1, <2>2, <2>3 DEF RequestTrue, Repairing, Untouched
<1> QED BY <1>4, <1>5

\* A request that has answered claims nothing.
LEMMA FreedRequest ==
  ASSUME TypedInv, NEW p \in Procs, Free(p)
  PROVE  RequestTrue(p)'
BY DEF Free, RequestsTyped, RequestTrue, Repairing, StoredLabels, LegacyLabels,
   RecordLabels, RecordedLabels

(***************************************************************************)
(* The stores.                                                             *)
(***************************************************************************)

\* Every PutObject writes an object with the CRC32C of its content.
LEMMA WritesMigrated ==
  ASSUME ~PutsLandLate, DurableInv, NEW p \in Procs, Request(p) \/ Step(p)
  PROVE  \/ objects' = objects
         \/ /\ pc[p] \in {"put", "legPut"}
            /\ \E d \in Data :
                 objects' = [objects EXCEPT ![hash[p]] = Object(d, Checksum[d])]
<1> USE DEF DurableInv, WriteInv, LockInv
<1>1. CASE PushPut(p) \/ PushPutError(p)
  <2>1. body[p] \in Data /\ pc[p] = "put"
    BY <1>1 DEF PushPut, PushPutError, RequestShape, ContentLabels, PushLabels
  <2> QED
    BY <1>1, <2>1 DEF PushPut, PushPutError, PutFailed, PutApplied
<1>2. CASE LegacyPut(p) \/ LegacyError(p)
  <2>1. pc[p] = "legPut" =>
          /\ src[p] \in Data
          /\ rem[p].checksum = Checksum[src[p]]
    BY DEF RequestShape, WritesReady, WriteReady, RequestsTrue, RequestTrue
  <2>2. \/ objects' = objects
        \/ /\ pc[p] = "legPut"
           /\ objects' = [objects EXCEPT ![hash[p]] =
                            Object(src[p], rem[p].checksum)]
    BY <1>2 DEF LegacyPut, LegacyError, PutFailed, PutApplied
  <2> QED BY <2>1, <2>2
<1>3. CASE ~PushPut(p) /\ ~PushPutError(p) /\ ~LegacyPut(p) /\ ~LegacyError(p)
  BY <1>3
  DEF Request, StartPush, PullFromMemory, StartRead, Step, PushLock,
      PushHeadAbsent, PushHeadLegacy, PushHeadPresent, PushHeadError,
      PublishLink, PublishEvict, CommitExists, CommitGet, CommitPut,
      CommitError, RecGet, RecHeadAbsent, RecHeadPresent, RecPut, LegacyOpen,
      LegacyReopen, RangeExists, RangeHead, RangeGet, DiskExists, DiskOpen,
      RemoteHead, ETagPut, RemoteOpen, ReadError, Serve, RangeRefused, MarkGet,
      MarkPut, ExistsDisk, stores
<1> QED BY <1>1, <1>2, <1>3

\* The bucket only gains contents and checksums.
LEMMA BucketStep ==
  ASSUME ~PutsLandLate, DurableInv, Next
  PROVE  BucketGrows /\ ObjectsTrue'
<1>1. ContentKept
  BY NextWrites DEF DurableInv
<1>2. \/ objects' = objects
      \/ \E h \in Hashes, d \in Data :
           objects' = [objects EXCEPT ![h] = Object(d, Checksum[d])]
  <2>1. ASSUME NEW p \in Procs, Request(p) \/ Step(p) PROVE <1>2!1 \/ <1>2!2
    <3>1. pc[p] # "idle" => hash[p] \in Hashes
      BY DEF DurableInv, WriteInv, LockInv, RequestShape
    <3> QED BY <2>1, <3>1, WritesMigrated
  <2>2. CASE LatePut
    BY <2>2 DEF LatePut, DurableInv, WriteInv, WritesReady
  <2>3. CASE Crash \/ StartupAccept \/ StartupExit
    BY <2>3 DEF Crash, StartupAccept, StartupExit
  <2> QED BY <2>1, <2>2, <2>3 DEF Next
<1>3. CASE objects' = objects
  BY <1>1, <1>3 DEF BucketGrows, Migrated, ObjectsTrue, DurableInv
<1>4. ASSUME NEW h \in Hashes, NEW d \in Data,
             objects' = [objects EXCEPT ![h] = Object(d, Checksum[d])]
      PROVE  BucketGrows /\ ObjectsTrue'
  <2>1. Object(d, Checksum[d]) # None
    BY ConstantsAssumption, NoneAssumption DEF Object, Objects
  <2>2. Migrated(h)'
    BY <1>4, <2>1 DEF Migrated, Object, DurableInv, WriteInv, LockInv, StoresTyped
  <2>3. ASSUME NEW g \in Hashes, g # h PROVE objects'[g] = objects[g]
    BY <1>4, <2>3 DEF DurableInv, WriteInv, LockInv, StoresTyped
  <2>4. ASSUME NEW g \in Hashes
        PROVE  /\ Migrated(g) => Migrated(g)'
               /\ \/ objects'[g] = None \/ Migrated(g)'
                  \/ objects'[g].checksum = Unset /\ g \in OldHashes
    BY <2>2, <2>3 DEF Migrated, ObjectsTrue, DurableInv
  <2>5. ASSUME NEW g \in Hashes, Migrated(g)' PROVE objects'[g].checksum # Unset
    <3>1. objects'[g] \in Objects
      BY <2>5, NextTyped
      DEF DurableInv, WriteInv, LockInv, StoresTyped, Migrated
    <3> QED BY <2>5, <3>1, ConstantsAssumption DEF Migrated, Objects
  <2> QED BY <1>1, <2>4, <2>5 DEF BucketGrows, ObjectsTrue
<1> QED BY <1>2, <1>3, <1>4

\* A record a step of p stores is true and has its CRC32C.
LEMMA RecordsWritten ==
  ASSUME DurableInv, NEW p \in Procs, Request(p) \/ Step(p)
  PROVE  \/ meta' = meta
         \/ /\ hash[p] \in Hashes /\ rec[p] \in Records /\ objects' = objects
            /\ Describes(rec[p], hash[p]) /\ rec[p].checksum # Unset
            /\ meta' = [meta EXCEPT ![hash[p]] = rec[p]]
<1>1. CASE CommitPut(p) \/ RecPut(p) \/ ETagPut(p) \/ MarkPut(p)
  <2>1. pc[p] \in {"commitPut", "recPut", "etagPut", "markPut"}
    BY <1>1 DEF CommitPut, RecPut, ETagPut, MarkPut
  <2>2. objects' = objects
    BY <1>1 DEF CommitPut, RecPut, ETagPut, MarkPut
  <2>3. meta' = meta \/ meta' = [meta EXCEPT ![hash[p]] = rec[p]]
    BY <1>1 DEF CommitPut, RecPut, ETagPut, MarkPut, PutPayload
  <2> QED
    BY <2>1, <2>2, <2>3
    DEF DurableInv, WriteInv, LockInv, RequestShape, RecordLabels,
        RequestsTrue, RequestTrue
<1>2. CASE ~CommitPut(p) /\ ~RecPut(p) /\ ~ETagPut(p) /\ ~MarkPut(p)
  BY <1>2
  DEF Request, StartPush, PullFromMemory, StartRead, Step, PushLock,
      PushHeadAbsent, PushHeadLegacy, PushHeadPresent, PushHeadError, PushPut,
      PushPutError, PublishLink, PublishEvict, CommitExists, CommitGet,
      CommitError, RecGet, RecHeadAbsent, RecHeadPresent, LegacyOpen,
      LegacyReopen, LegacyPut, LegacyError, RangeExists, RangeHead, RangeGet,
      DiskExists, DiskOpen, RemoteHead, RemoteOpen, ReadError, Serve,
      RangeRefused, MarkGet, ExistsDisk, stores
<1> QED BY <1>1, <1>2

\* The startup validation stores ETags and nothing else.
LEMMA StartupRecords ==
  ASSUME TypedInv, StartupAccept \/ StartupExit
  PROVE  /\ objects' = objects
         /\ \A h \in Hashes :
              /\ meta[h] = None => meta'[h] = None
              /\ meta[h] # None => /\ meta'[h] # None
                                   /\ meta'[h].checksum = meta[h].checksum
                                   /\ meta'[h].size = meta[h].size
<1>1. PICK hs \in SUBSET {h \in Hashes : NeedsHead(h)} :
        meta' = WithETags(hs) /\ (hs # {} => \A h \in Hashes : ListValid(h))
  BY DEF StartupAccept, StartupExit, StartupValid
<1>2. ASSUME NEW h \in Hashes, h \in hs
      PROVE  /\ meta[h] \in Records
             /\ [meta[h] EXCEPT !.etag = parseInfo(objects[h]).etag] \in Records
  <2>1. meta[h] # None /\ objects[h] # None
    BY <1>1, <1>2 DEF NeedsHead, ListValid
  <2>2. meta[h] \in Records /\ parseInfo(objects[h]) \in Infos
    BY <2>1, ParseTyped DEF StoresTyped
  <2> QED BY <2>2 DEF Records, Infos
<1>3. ASSUME NEW h \in Hashes
      PROVE  /\ meta[h] = None => meta'[h] = None
             /\ meta[h] # None => /\ meta'[h] # None
                                  /\ meta'[h].checksum = meta[h].checksum
                                  /\ meta'[h].size = meta[h].size
  <2>1. CASE h \in hs
    <3>1. meta[h] # None
      BY <1>1, <2>1 DEF NeedsHead
    <3>2. meta'[h] = [meta[h] EXCEPT !.etag = parseInfo(objects[h]).etag]
      BY <1>1, <2>1 DEF WithETags
    <3> QED BY <1>2, <2>1, <3>1, <3>2, NoneAssumption DEF Records
  <2>2. CASE h \notin hs
    BY <1>1, <2>2 DEF WithETags
  <2> QED BY <2>1, <2>2
<1> QED BY <1>3 DEF StartupAccept, StartupExit

\* What a true record says stays true while the bucket grows.
LEMMA DescribesOn ==
  ASSUME BucketGrows, NEW h \in Hashes, NEW r, Describes(r, h)
  PROVE  Describes(r, h)'
<1>1. objects'[h] # None /\ objects'[h].data = objects[h].data
  BY DEF BucketGrows, ContentKept, Describes
<1>2. Migrated(h) => Migrated(h)'
  BY DEF BucketGrows
<1> QED BY <1>1, <1>2 DEF Describes, Migrated

\* So does what a content has in common with the object.
LEMMA AgreesOn ==
  ASSUME BucketGrows, NEW h \in Hashes, NEW d, Agrees(d, h)
  PROVE  Agrees(d, h)'
BY DEF BucketGrows, ContentKept, Agrees

\* Records stay true, and a CRC32C once recorded stays recorded.
LEMMA RecordsStep ==
  ASSUME ~PutsLandLate, DurableInv, Next
  PROVE  /\ RecordsGrow /\ RecordsTrue'
         /\ \A h \in Hashes : meta[h] # None => meta'[h] # None
<1>1. BucketGrows
  BY BucketStep
<1>2. ASSUME meta' = meta
      PROVE  /\ RecordsGrow /\ RecordsTrue'
             /\ \A h \in Hashes : meta[h] # None => meta'[h] # None
  BY <1>1, <1>2, DescribesOn DEF RecordsGrow, Recorded, RecordsTrue, DurableInv
<1>3. ASSUME NEW p \in Procs, Request(p) \/ Step(p), meta' # meta
      PROVE  /\ RecordsGrow /\ RecordsTrue'
             /\ \A h \in Hashes : meta[h] # None => meta'[h] # None
  <2>1. PICK g \in Hashes, r \in Records :
          /\ Describes(r, g) /\ r.checksum # Unset
          /\ meta' = [meta EXCEPT ![g] = r]
    BY <1>3, RecordsWritten
  <2>2. meta'[g] = r /\ \A h \in Hashes \ {g} : meta'[h] = meta[h]
    BY <2>1 DEF DurableInv, WriteInv, LockInv, StoresTyped
  <2>3. r # None
    BY NoneAssumption
  <2>4. Describes(r, g)'
    BY <1>1, <2>1, DescribesOn
  <2>5. ASSUME NEW h \in Hashes
        PROVE  /\ Recorded(h) => Recorded(h)'
               /\ meta'[h] # None => Describes(meta[h], h)'
               /\ meta[h] # None => meta'[h] # None
    <3>1. CASE h = g
      BY <2>1, <2>2, <2>3, <2>4, <3>1 DEF Recorded
    <3>2. CASE h # g
      <4>1. PICK s : s = meta[h] /\ s = meta'[h]
        BY <2>2, <3>2
      <4>2. s # None => Describes(s, h)'
        BY <1>1, <4>1, DescribesOn DEF DurableInv, RecordsTrue
      <4> QED BY <4>1, <4>2 DEF Recorded
    <3> QED BY <3>1, <3>2
  <2> QED BY <2>5 DEF RecordsGrow, RecordsTrue
<1>4. CASE StartupAccept \/ StartupExit
  <2>1. /\ objects' = objects
        /\ \A h \in Hashes :
              /\ meta[h] = None => meta'[h] = None
              /\ meta[h] # None => /\ meta'[h] # None
                                   /\ meta'[h].checksum = meta[h].checksum
                                   /\ meta'[h].size = meta[h].size
    BY <1>4, StartupRecords DEF DurableInv, WriteInv, LockInv
  <2> QED
    BY <2>1 DEF DurableInv, RecordsGrow, Recorded, RecordsTrue, Describes, Migrated
<1>5. CASE Crash \/ LatePut
  BY <1>2, <1>5 DEF Crash, LatePut
<1> QED BY <1>2, <1>3, <1>4, <1>5 DEF Next

\* The disk cache takes the content of a push behind its PutObject, the memory
\* cache the content of a response.
LEMMA CachesStep ==
  ASSUME ~PutsLandLate, DurableInv, Next
  PROVE  CachesTrue'
<1> USE DEF DurableInv, WriteInv, LockInv
<1>1. BucketGrows
  BY BucketStep
<1>2. ASSUME NEW h \in Hashes,
             disk'[h] # None =>
               disk'[h] = disk[h] \/ \E d : d = disk'[h] /\ Agrees(d, h),
             mem'[h] # None =>
               mem'[h] = mem[h] \/ \E d : d = mem'[h] /\ Agrees(d, h)
      PROVE  /\ disk'[h] # None => Agrees(disk[h], h)'
             /\ mem'[h] # None => Agrees(mem[h], h)'
  <2>1. PICK d : d = disk'[h]
    OBVIOUS
  <2>2. PICK m : m = mem'[h]
    OBVIOUS
  <2>3. d # None => Agrees(d, h)'
    BY <1>1, <1>2, <2>1, AgreesOn DEF CachesTrue
  <2>4. m # None => Agrees(m, h)'
    BY <1>1, <1>2, <2>2, AgreesOn DEF CachesTrue
  <2> QED BY <2>1, <2>2, <2>3, <2>4
<1>3. SUFFICES ASSUME NEW h \in Hashes
               PROVE  /\ disk'[h] # None =>
                           disk'[h] = disk[h] \/ Agrees(disk'[h], h)
                      /\ mem'[h] # None =>
                           mem'[h] = mem[h] \/ Agrees(mem'[h], h)
  BY <1>2 DEF CachesTrue
<1>4. ASSUME NEW p \in Procs, PublishLink(p) \/ PublishEvict(p)
      PROVE  /\ mem' = mem
             /\ disk'[h] # None => disk'[h] = disk[h] \/ Agrees(disk'[h], h)
  <2>1. CASE PublishLink(p)
    <3>1. pc[p] = "link" /\ hash[p] \in Hashes
      BY <2>1 DEF PublishLink, RequestShape
    <3>2. Agrees(body[p], hash[p])
      BY <3>1 DEF RequestsTrue, RequestTrue, StoredLabels
    <3> QED BY <2>1, <3>1, <3>2 DEF PublishLink, StoresTyped
  <2>2. CASE PublishEvict(p)
    BY <2>2 DEF PublishEvict, Evict
  <2> QED BY <1>4, <2>1, <2>2
<1>5. ASSUME NEW p \in Procs, Serve(p)
      PROVE  /\ disk' = disk
             /\ mem'[h] # None => mem'[h] = mem[h] \/ Agrees(mem'[h], h)
  <2>1. pc[p] = "serve" /\ disk' = disk
    BY <1>5 DEF Serve
  <2>2. Agrees(body[p], hash[p])
    BY <2>1 DEF RequestsTrue, RequestTrue
  <2>3. mem' = mem \/ CacheAdd(hash[p], body[p])
    BY <1>5 DEF Serve
  <2> QED BY <2>1, <2>2, <2>3 DEF CacheAdd
<1>6. ASSUME NEW p \in Procs, Request(p) \/ Step(p),
             ~PublishLink(p), ~PublishEvict(p), ~Serve(p)
      PROVE  disk' = disk /\ mem' = mem
  BY <1>6
  DEF Request, StartPush, PullFromMemory, StartRead, Step, PushLock,
      PushHeadAbsent, PushHeadLegacy, PushHeadPresent, PushHeadError, PushPut,
      PushPutError, CommitExists, CommitGet, CommitPut, CommitError, RecGet,
      RecHeadAbsent, RecHeadPresent, RecPut, LegacyOpen, LegacyReopen,
      LegacyPut, LegacyError, RangeExists, RangeHead, RangeGet, DiskExists,
      DiskOpen, RemoteHead, ETagPut, RemoteOpen, ReadError, RangeRefused,
      MarkGet, MarkPut, ExistsDisk, stores
<1>7. CASE LatePut \/ Crash \/ StartupAccept \/ StartupExit
  BY <1>7 DEF LatePut, Crash, StartupAccept, StartupExit
<1> QED BY <1>4, <1>5, <1>6, <1>7 DEF Next

\* A push is acknowledged when its record is written, with the identity of
\* the object.
LEMMA AcksStep ==
  ASSUME ~PutsLandLate, DurableInv, Next
  PROVE  AcksTrue'
<1> USE DEF DurableInv, WriteInv, LockInv
<1>1. BucketGrows /\ RecordsGrow
  BY BucketStep, RecordsStep
<1>2. ASSUME NEW h \in Hashes, NEW a, Migrated(h), Recorded(h)',
             a[1] = objects[h].checksum, a[2] = Size[objects[h].data]
      PROVE  /\ Migrated(h)' /\ Recorded(h)'
             /\ a[1] = objects'[h].checksum /\ a[2] = Size[objects'[h].data]
  <2>1. Migrated(h)' /\ objects'[h].data = objects[h].data
    BY <1>1, <1>2 DEF BucketGrows, ContentKept, Migrated
  <2> QED BY <1>2, <2>1 DEF Migrated
<1>3. CASE acked' = acked
  <2>1. ASSUME NEW h \in Hashes, NEW a \in acked[h]
        PROVE  /\ Migrated(h)' /\ Recorded(h)'
               /\ a[1] = objects'[h].checksum /\ a[2] = Size[objects'[h].data]
    BY <1>1, <1>2 DEF AcksTrue, RecordsGrow
  <2> QED BY <1>3, <2>1 DEF AcksTrue
<1>4. ASSUME NEW p \in Procs, CommitPut(p) PROVE AcksTrue'
  <2>1. pc[p] = "commitPut" /\ hash[p] \in Hashes /\ rec[p] \in Records
    BY <1>4 DEF CommitPut, RequestShape, RecordLabels
  <2>2. /\ Migrated(hash[p]) /\ Agrees(body[p], hash[p])
        /\ rec[p].checksum # Unset /\ rec[p] # None
    BY <2>1, NoneAssumption
    DEF RequestsTrue, RequestTrue, StoredLabels, RecordLabels
  <2>3. PICK g \in Hashes : g = hash[p]
    BY <2>1
  <2>4. Recorded(g)'
    BY <1>4, <2>1, <2>2, <2>3 DEF CommitPut, PutPayload, Recorded, StoresTyped
  <2>5. ASSUME NEW h \in Hashes, NEW a, a \in acked'[h]
        PROVE  \/ a \in acked[h]
               \/ h = g /\ a = <<Checksum[body[p]], Size[body[p]]>>
    BY <1>4, <2>3, <2>5 DEF CommitPut, StoresTyped
  <2>6. ASSUME NEW h \in Hashes, NEW a, a \in acked'[h]
        PROVE  /\ Migrated(h)' /\ Recorded(h)'
               /\ a[1] = objects'[h].checksum /\ a[2] = Size[objects'[h].data]
    <3>1. CASE a \in acked[h]
      BY <1>1, <1>2, <3>1 DEF AcksTrue, RecordsGrow
    <3>2. CASE h = g /\ a = <<Checksum[body[p]], Size[body[p]]>>
      BY <1>2, <2>2, <2>3, <2>4, <3>2 DEF Agrees, Migrated
    <3> QED BY <2>5, <2>6, <3>1, <3>2
  <2> QED BY <2>6 DEF AcksTrue
<1>5. ASSUME NEW p \in Procs, Request(p) \/ Step(p), ~CommitPut(p)
      PROVE  acked' = acked
  BY <1>5
  DEF Request, StartPush, PullFromMemory, StartRead, Step, PushLock,
      PushHeadAbsent, PushHeadLegacy, PushHeadPresent, PushHeadError, PushPut,
      PushPutError, PublishLink, PublishEvict, CommitExists, CommitGet,
      CommitError, RecGet, RecHeadAbsent, RecHeadPresent, RecPut, LegacyOpen,
      LegacyReopen, LegacyPut, LegacyError, RangeExists, RangeHead, RangeGet,
      DiskExists, DiskOpen, RemoteHead, ETagPut, RemoteOpen, ReadError, Serve,
      RangeRefused, MarkGet, MarkPut, ExistsDisk, history
<1>6. CASE LatePut \/ Crash \/ StartupAccept \/ StartupExit
  BY <1>3, <1>6 DEF LatePut, Crash, StartupAccept, StartupExit, history
<1> QED BY <1>3, <1>4, <1>5, <1>6 DEF Next

(***************************************************************************)
(* The requests.                                                           *)
(***************************************************************************)

\* A step of putPayloadDurably.  A push reaches its "link" only with the
\* identity of the object that S3 holds.
LEMMA PushTrue ==
  ASSUME ~PutsLandLate, DurableInv, NEW p \in Procs, Next,
         \/ PushLock(p) \/ PushHeadAbsent(p) \/ PushHeadLegacy(p)
         \/ PushHeadPresent(p) \/ PushHeadError(p) \/ PushPut(p)
         \/ PushPutError(p) \/ PublishLink(p) \/ PublishEvict(p)
  PROVE  RequestTrue(p)'
<1> USE DEF DurableInv, WriteInv, LockInv
<1>1. CASE Free(p)
  BY <1>1, FreedRequest
<1>2. pc[p] # "idle" /\ hash[p] \in Hashes /\ pc[p] \in PushLabels
  BY DEF PushLock, PushHeadAbsent, PushHeadLegacy, PushHeadPresent,
         PushHeadError, PushPut, PushPutError, PublishLink, PublishEvict,
         RequestShape, PushLabels
<1>3. body[p] \in Data
  BY <1>2 DEF RequestShape, ContentLabels
<1>4. ASSUME pc'[p] \in {"link", "evict", "commitExists"},
             hash'[p] = hash[p], body'[p] = body[p],
             Migrated(hash[p])', Agrees(body[p], hash[p])'
      PROVE  RequestTrue(p)'
  BY <1>4 DEF RequestTrue, Repairing, LegacyLabels, RecordLabels, RecordedLabels
<1>5. CASE PushLock(p) \/ PushHeadAbsent(p)
  <2>1. pc'[p] \in {"head", "put"}
    BY <1>5 DEF PushLock, PushHeadAbsent, RequestsTyped
  <2> QED
    BY <2>1 DEF RequestTrue, Repairing, StoredLabels, LegacyLabels, RecordLabels,
                RecordedLabels
<1>6. CASE PushHeadLegacy(p)
  <2>1. /\ pc'[p] = "legOpen" /\ ret'[p] = "push" /\ hash'[p] = hash[p]
        /\ rem'[p] = parseInfo(objects[hash[p]]) /\ objects' = objects
    BY <1>6 DEF PushHeadLegacy, RequestsTyped, stores
  <2>2. rem'[p].size = Size[objects'[hash'[p]].data] /\ hash[p] \in OldHashes
    BY <1>2, <1>6, <2>1 DEF parseInfo, PushHeadLegacy, ObjectsTrue
  <2> QED
    BY <2>1, <2>2
    DEF RequestTrue, Repairing, StoredLabels, LegacyLabels, RecordLabels,
        RecordedLabels
<1>7. CASE PushHeadPresent(p)
  <2>1. CASE SameIdentity(parseInfo(objects[hash[p]]), body[p]) /\ ~Free(p)
    <3>1. /\ pc'[p] = "link" /\ hash' = hash /\ body' = body
          /\ objects' = objects
      BY <1>7, <2>1
      DEF PushHeadPresent, RequestsTyped, PushAbort, PushError, Answer, stores
    <3>2. Migrated(hash[p])
      BY <1>2, <1>7 DEF PushHeadPresent, ObjectsTrue
    <3>3. Agrees(body[p], hash[p])
      BY <1>7, <2>1, <3>2
      DEF PushHeadPresent, Migrated, Agrees, SameIdentity, parseInfo
    <3> QED BY <1>4, <3>1, <3>2, <3>3 DEF Migrated, Agrees
  <2> QED
    BY <1>1, <1>7, <2>1 DEF PushHeadPresent, PushAbort, PushError, Answer
<1>8. CASE PushPut(p)
  <2>1. Object(body[p], Checksum[body[p]]) # None
    BY <1>3, ConstantsAssumption, NoneAssumption DEF Object, Objects
  <2>2. /\ pc'[p] = "link" /\ hash' = hash /\ body' = body
        /\ objects'[hash[p]] = Object(body[p], Checksum[body[p]])
    BY <1>2, <1>8 DEF PushPut, PutApplied, RequestsTyped, StoresTyped
  <2> QED BY <1>4, <2>1, <2>2 DEF Object, Migrated, Agrees
<1>9. CASE PublishLink(p) \/ PublishEvict(p)
  <2>1. /\ pc[p] \in StoredLabels /\ pc'[p] \in {"evict", "commitExists"}
        /\ hash' = hash /\ body' = body /\ objects' = objects
    BY <1>9 DEF PublishLink, PublishEvict, StoredLabels, RequestsTyped, locals
  <2>2. Migrated(hash[p]) /\ Agrees(body[p], hash[p])
    BY <2>1 DEF RequestsTrue, RequestTrue
  <2> QED BY <1>4, <2>1, <2>2 DEF Migrated, Agrees
<1> QED
  BY <1>1, <1>5, <1>6, <1>7, <1>8, <1>9
  DEF PushHeadError, PushPutError, PushAbort, PushError, Answer

\* commitPayloadMetadata writes the identity of the object.
LEMMA CommitTrue ==
  ASSUME DurableInv, NEW p \in Procs,
         CommitExists(p) \/ CommitGet(p) \/ CommitPut(p) \/ CommitError(p)
  PROVE  RequestTrue(p)'
<1> USE DEF DurableInv, WriteInv, LockInv
<1>1. CASE Free(p)
  BY <1>1, FreedRequest
<1>2. pc[p] \in StoredLabels /\ hash[p] \in Hashes /\ body[p] \in Data
  BY DEF CommitExists, CommitGet, CommitPut, CommitError, RequestShape,
         StoredLabels, ContentLabels, PushLabels
<1>3. Migrated(hash[p]) /\ Agrees(body[p], hash[p])
  BY <1>2 DEF RequestsTrue, RequestTrue
<1>4. CASE CommitExists(p)
  <2>1. pc'[p] = "commitGet" /\ hash' = hash /\ body' = body /\ objects' = objects
    BY <1>4 DEF CommitExists, RequestsTyped, stores
  <2> QED
    BY <1>3, <2>1
    DEF RequestTrue, Repairing, LegacyLabels, RecordLabels, RecordedLabels,
        Migrated, Agrees
<1>5. CASE CommitGet(p) /\ ~Free(p)
  <2>1. /\ pc'[p] = "commitPut" /\ hash' = hash /\ body' = body
        /\ objects' = objects /\ rec'[p] = CommitRecord(p)
    BY <1>5 DEF CommitGet, PushError, Answer, RequestsTyped, stores
  <2>2. /\ CommitRecord(p).checksum = Checksum[body[p]]
        /\ CommitRecord(p).size = Size[body[p]]
        /\ Checksum[body[p]] # Unset
    BY <1>2, ConstantsAssumption DEF CommitRecord
  <2>3. Describes(CommitRecord(p), hash[p])
    BY <1>3, <2>2 DEF Describes, Migrated, Agrees
  <2>4. Describes(rec[p], hash[p])' /\ Migrated(hash[p])' /\ Agrees(body[p], hash[p])'
    BY <1>3, <2>1, <2>3 DEF Describes, Migrated, Agrees
  <2> QED
    BY <2>1, <2>2, <2>4
    DEF RequestTrue, Repairing, LegacyLabels, RecordedLabels
<1> QED
  BY <1>1, <1>4, <1>5 DEF CommitGet, CommitPut, CommitError, PushError, Answer

\* payloadRecord hands on a record whose CRC32C is stored.
LEMMA ReturnTrue ==
  ASSUME DurableInv, NEW p \in Procs, Return(p), ret[p] \in Callers \ {"push"},
         hash' = hash, hash[p] \in Hashes,
         Describes(rec[p], hash[p])', rec'[p].checksum # Unset,
         Recorded(hash[p])'
  PROVE  RequestTrue(p)'
<1> USE DEF DurableInv, WriteInv, LockInv
<1>1. pc'[p] \in {"recGet", "diskExists", "rangeHead", "existsDisk"}
  BY DEF Return, ReturnLabel, RequestsTyped, Callers
<1> QED
  BY <1>1 DEF RequestTrue, Repairing, StoredLabels, LegacyLabels

\* A repair sets the CRC32C and keeps the size of the record it found.
LEMMA RepairedFields ==
  ASSUME NEW r \in Records \cup {None}, NEW i \in Infos,
         NEW e \in ETags \cup {Unset}
  PROVE  /\ Repaired(r, i, e).checksum = i.checksum
         /\ Repaired(r, i, e).size = IF r = None THEN i.size ELSE r.size
<1>1. CASE r = None
  BY <1>1 DEF Repaired
<1>2. CASE r # None
  <2>1. r \in Records
    BY <1>2
  <2> QED BY <1>2, <2>1 DEF Repaired, Records
<1> QED BY <1>1, <1>2

\* A step of payloadRecord.
LEMMA RecordTrue ==
  ASSUME ~PutsLandLate, DurableInv, NEW p \in Procs,
         RecGet(p) \/ RecHeadAbsent(p) \/ RecHeadPresent(p) \/ RecPut(p)
  PROVE  RequestTrue(p)'
<1> USE DEF DurableInv, WriteInv, LockInv
<1>1. CASE Free(p)
  BY <1>1, FreedRequest
<1>2. /\ pc[p] \in {"recGet", "recHead", "recPut"} /\ hash[p] \in Hashes
      /\ ret[p] \in Callers \ {"push"}
  BY DEF RecGet, RecHeadAbsent, RecHeadPresent, RecPut, RequestShape, ReadLabels,
         PcLabels, PushLabels, LegacyLabels
<1>3. CASE RecGet(p)
  <2>1. /\ rec'[p] = meta[hash[p]] /\ hash' = hash /\ objects' = objects
        /\ meta' = meta
    BY <1>3 DEF RecGet, RequestsTyped, stores
  <2>2. meta[hash[p]] # None => Describes(meta[hash[p]], hash[p])
    BY <1>2 DEF RecordsTrue
  <2>3. CASE Return(p) /\ Recorded(hash[p])
    <3>1. Describes(rec[p], hash[p])' /\ Recorded(hash[p])'
      BY <2>1, <2>2, <2>3 DEF Describes, Migrated, Recorded
    <3>2. rec'[p].checksum # Unset
      BY <2>1, <2>3 DEF Recorded
    <3> QED BY <1>2, <2>1, <2>3, <3>1, <3>2, ReturnTrue
  <2>4. CASE Continue(p, "recHead")
    <3>1. pc'[p] = "recHead"
      BY <2>4 DEF RequestsTyped
    <3>2. rec'[p] # None => Describes(rec[p], hash[p])'
      BY <2>1, <2>2 DEF Describes, Migrated
    <3> QED
      BY <3>1, <3>2
      DEF RequestTrue, StoredLabels, LegacyLabels, RecordLabels, RecordedLabels
  <2> QED BY <1>3, <2>3, <2>4 DEF RecGet, Recorded
<1>4. CASE RecHeadPresent(p)
  <2> DEFINE info == parseInfo(objects[hash[p]])
  <2>1. /\ objects[hash[p]] \in Objects /\ info \in Infos
        /\ rec[p] \in Records \cup {None}
    BY <1>2, <1>4, ParseTyped DEF RecHeadPresent, StoresTyped, RequestsTyped
  <2>2. /\ info.checksum = objects[hash[p]].checksum
        /\ info.size = Size[objects[hash[p]].data]
    BY DEF parseInfo
  <2>3. rec[p] # None => Describes(rec[p], hash[p])
    BY <1>4 DEF RecHeadPresent, RequestsTrue, RequestTrue, Repairing
  <2>4. hash' = hash /\ ret' = ret /\ objects' = objects
    BY <1>4 DEF RecHeadPresent, stores
  <2>5. CASE info.checksum = Unset
    <3>1. pc'[p] = "legOpen" /\ rem'[p] = info /\ rec' = rec
      BY <1>4, <2>5 DEF RecHeadPresent, RequestsTyped
    <3>2. rec'[p] # None => Describes(rec[p], hash[p])'
      BY <2>3, <2>4, <3>1 DEF Describes, Migrated
    <3>3. rem'[p].size = Size[objects'[hash'[p]].data] /\ hash[p] \in OldHashes
      BY <1>2, <1>4, <2>2, <2>4, <2>5, <3>1 DEF RecHeadPresent, ObjectsTrue
    <3> QED
      BY <2>4, <3>1, <3>2, <3>3
      DEF RequestTrue, StoredLabels, LegacyLabels, RecordLabels, RecordedLabels
  <2>6. CASE info.checksum # Unset
    <3>1. pc'[p] = "recPut" /\ rec'[p] = Repaired(rec[p], info, Unset)
      BY <1>4, <2>6 DEF RecHeadPresent, RequestsTyped
    <3>2. /\ rec'[p].checksum = info.checksum
          /\ rec'[p].size = IF rec[p] = None THEN info.size ELSE rec[p].size
      BY <2>1, <3>1, RepairedFields
    <3>3. Migrated(hash[p])
      BY <1>2, <1>4, <2>2, <2>6 DEF RecHeadPresent, ObjectsTrue
    <3>4. rec'[p].size = Size[objects[hash[p]].data]
      BY <2>2, <2>3, <3>2 DEF Describes
    <3>5. Describes(rec[p], hash[p])'
      BY <2>2, <2>4, <3>2, <3>3, <3>4 DEF Describes, Migrated
    <3> QED
      BY <2>6, <3>1, <3>2, <3>5
      DEF RequestTrue, Repairing, StoredLabels, LegacyLabels, RecordedLabels
  <2> QED BY <2>5, <2>6
<1>5. CASE RecPut(p)
  <2>1. /\ hash' = hash /\ objects' = objects /\ rec' = rec
        /\ rec[p] \in Records /\ pc[p] = "recPut" /\ rec[p] # None
        /\ meta' = [meta EXCEPT ![hash[p]] = rec[p]]
    BY <1>5, NoneAssumption DEF RecPut, PutPayload, RequestShape, RecordLabels
  <2>2. Describes(rec[p], hash[p]) /\ rec[p].checksum # Unset
    BY <2>1 DEF RequestsTrue, RequestTrue, RecordLabels
  <2>3. Describes(rec[p], hash[p])' /\ Recorded(hash[p])'
    BY <1>2, <2>1, <2>2 DEF Describes, Migrated, Recorded, StoresTyped
  <2> QED BY <1>2, <1>5, <2>1, <2>2, <2>3, ReturnTrue DEF RecPut
<1> QED
  BY <1>1, <1>3, <1>4, <1>5 DEF RecHeadAbsent, NotExist, Answer

\* A step of reconcileLegacyObject.  The migration of a push ends with the
\* uploaded identity: the object's CRC32C is the upload's and so, by
\* ChecksumTellsSize, is its size.
LEMMA LegacyTrue ==
  ASSUME ~PutsLandLate, ChecksumTellsSize, DurableInv, NEW p \in Procs,
         LegacyOpen(p) \/ LegacyReopen(p) \/ LegacyPut(p) \/ LegacyError(p)
  PROVE  RequestTrue(p)'
<1> USE DEF DurableInv, WriteInv, LockInv
<1>1. CASE Free(p)
  BY <1>1, FreedRequest
<1>2. /\ pc[p] \in LegacyLabels /\ hash[p] \in Hashes
      /\ ret[p] \in Callers /\ rem[p] \in Infos
      /\ ret[p] = "push" => body[p] \in Data
      /\ objects[hash[p]] \in Objects
      /\ rec[p] \in Records \cup {None}
  BY DEF LegacyOpen, LegacyReopen, LegacyPut, LegacyError, RequestShape,
         LegacyLabels, InfoLabels, WritesReady, WriteReady, StoresTyped,
         RequestsTyped
<1>3. /\ rem[p].size = Size[objects[hash[p]].data] /\ hash[p] \in OldHashes
      /\ ret[p] # "push" /\ rec[p] # None => Describes(rec[p], hash[p])
  BY <1>2 DEF RequestsTrue, RequestTrue, Repairing
<1>4. ASSUME pc'[p] \in {"legReopen", "legPut"}, hash' = hash, ret' = ret,
             body' = body, rec' = rec, objects' = objects,
             rem'[p].size = rem[p].size,
             rem'[p].checksum = Checksum[objects[hash[p]].data],
             ret[p] = "push" => Checksum[body[p]] = Checksum[objects[hash[p]].data]
      PROVE  RequestTrue(p)'
  <2>1. ret'[p] # "push" /\ rec'[p] # None => Describes(rec[p], hash[p])'
    BY <1>3, <1>4 DEF Describes, Migrated
  <2> QED
    BY <1>3, <1>4, <2>1
    DEF RequestTrue, Repairing, StoredLabels, RecordLabels, RecordedLabels
<1>5. CASE LegacyOpen(p) /\ ~Free(p)
  <2>1. /\ pc'[p] = "legReopen" /\ hash' = hash /\ ret' = ret /\ body' = body
        /\ rec' = rec /\ objects' = objects
        /\ rem' = [rem EXCEPT ![p].checksum = Checksum[objects[hash[p]].data]]
        /\ ret[p] = "push" => Checksum[objects[hash[p]].data] = Checksum[body[p]]
    BY <1>5
    DEF LegacyOpen, LegacyAbort, PushAbort, PushError, Answer, RequestsTyped,
        stores
  <2>2. /\ rem'[p].checksum = Checksum[objects[hash[p]].data]
        /\ rem'[p].size = rem[p].size
    BY <1>2, <2>1 DEF RequestsTyped, Infos
  <2> QED BY <1>4, <2>1, <2>2
<1>6. CASE LegacyReopen(p)
  <2>1. /\ pc[p] = "legReopen" /\ pc'[p] = "legPut" /\ hash' = hash
        /\ ret' = ret /\ body' = body /\ rec' = rec /\ objects' = objects
        /\ rem' = rem
    BY <1>6 DEF LegacyReopen, RequestsTyped, stores
  <2>2. /\ rem[p].checksum = Checksum[objects[hash[p]].data]
        /\ ret[p] = "push" => Checksum[body[p]] = Checksum[objects[hash[p]].data]
    BY <2>1 DEF RequestsTrue, RequestTrue
  <2> QED BY <1>4, <2>1, <2>2
<1>7. CASE LegacyPut(p)
  <2> DEFINE o == Object(src[p], rem[p].checksum)
  <2>1. /\ pc[p] = "legPut" /\ hash' = hash /\ body' = body /\ ret' = ret
        /\ objects' = [objects EXCEPT ![hash[p]] = o]
    BY <1>7 DEF LegacyPut, PutApplied
  <2>2. /\ src[p] = objects[hash[p]].data /\ src[p] \in Data
        /\ rem[p].checksum = Checksum[src[p]]
        /\ ret[p] = "push" => Checksum[body[p]] = Checksum[src[p]]
    BY <2>1
    DEF RequestsTrue, RequestTrue, WritesReady, WriteReady, RequestShape,
        LegacyLabels
  <2>3. o # None /\ Checksum[src[p]] # Unset
    BY <2>2, ConstantsAssumption, NoneAssumption DEF Object, Objects
  <2>4. objects'[hash[p]] = o /\ o.data = src[p] /\ o.checksum = Checksum[src[p]]
    BY <1>2, <2>1, <2>2 DEF StoresTyped, Object
  <2>5. Migrated(hash[p])'
    BY <2>1, <2>3, <2>4 DEF Migrated
  <2>6. CASE ret[p] = "push"
    <3>1. pc'[p] = "link"
      BY <1>7, <2>6 DEF LegacyPut, RequestsTyped
    <3>2. Size[body[p]] = Size[src[p]]
      BY <1>2, <1>3, <2>2, <2>6 DEF ChecksumTellsSize
    <3>3. Agrees(body[p], hash[p])'
      BY <2>1, <2>2, <2>3, <2>4, <2>6, <3>2 DEF Agrees
    <3> QED
      BY <2>5, <3>1, <3>3
      DEF RequestTrue, Repairing, LegacyLabels, RecordLabels, RecordedLabels
  <2>7. CASE ret[p] # "push"
    <3>1. PICK e \in PutETags(o) :
            pc'[p] = "recPut" /\ rec'[p] = Repaired(rec[p], rem[p], e)
      BY <1>7, <2>7 DEF LegacyPut, RequestsTyped
    <3>2. e \in ETags \cup {Unset}
      BY <2>2, <2>4, ConstantsAssumption DEF PutETags
    <3>3. /\ rec'[p].checksum = rem[p].checksum
          /\ rec'[p].size = IF rec[p] = None THEN rem[p].size ELSE rec[p].size
      BY <1>2, <3>1, <3>2, RepairedFields
    <3>4. rec'[p].size = Size[src[p]]
      BY <1>3, <2>2, <2>7, <3>3 DEF Describes
    <3>5. Describes(rec[p], hash[p])'
      BY <2>1, <2>2, <2>3, <2>4, <2>5, <3>3, <3>4 DEF Describes
    <3> QED
      BY <2>2, <2>3, <3>1, <3>3, <3>5
      DEF RequestTrue, Repairing, StoredLabels, LegacyLabels, RecordedLabels
  <2> QED BY <2>6, <2>7
<1> QED
  BY <1>1, <1>5, <1>6, <1>7
  DEF LegacyError, LegacyAbort, PushAbort, PushError, Answer

\* recordPayloadETag changes the ETag of the local record only.
LEMMA RecordETagFields ==
  ASSUME TypedInv, NEW p \in Procs, NEW i \in Infos, NEW l \in {"serve", "remOpen"},
         RecordETag(p, i, l), rec[p] \in Records
  PROVE  /\ pc'[p] \in {"etagPut", l}
         /\ rec'[p].checksum = rec[p].checksum
         /\ rec'[p].size = rec[p].size
<1>1. pc'[p] \in {"etagPut", l}
  BY DEF RecordETag, RequestsTyped
<1>2. rec'[p] = [rec[p] EXCEPT !.etag = IF @ = Unset THEN i.etag ELSE @]
  BY DEF RecordETag, RequestsTyped
<1> QED BY <1>1, <1>2 DEF Records

\* A step of a read behind payloadRecord.
LEMMA ReadTrue ==
  ASSUME ~PutsLandLate, DurableInv, Next, NEW p \in Procs,
         \/ RangeExists(p) \/ RangeHead(p) \/ RangeGet(p)
         \/ DiskExists(p) \/ DiskOpen(p) \/ RemoteHead(p) \/ ETagPut(p)
         \/ RemoteOpen(p)
  PROVE  RequestTrue(p)'
<1> USE DEF DurableInv, WriteInv, LockInv
<1>1. CASE Free(p)
  BY <1>1, FreedRequest
<1>2. CASE RangeExists(p)
  <2>1. pc'[p] = "recGet"
    BY <1>2 DEF RangeExists, RequestsTyped
  <2> QED
    BY <2>1 DEF RequestTrue, Repairing, StoredLabels, LegacyLabels, RecordLabels,
                RecordedLabels
<1>3. SUFFICES ASSUME ~Free(p), ~RangeExists(p) PROVE RequestTrue(p)'
  BY <1>1, <1>2
<1>4. /\ pc[p] \in RecordLabels \cap RecordedLabels /\ pc[p] \in ReadLabels
      /\ hash[p] \in Hashes /\ rec[p] \in Records
      /\ Describes(rec[p], hash[p]) /\ rec[p].checksum # Unset
      /\ Recorded(hash[p]) /\ objects' = objects
  <2>1. /\ pc[p] \in RecordLabels \cap RecordedLabels /\ pc[p] \in ReadLabels
        /\ objects' = objects
    BY <1>3
    DEF RangeHead, RangeGet, DiskExists, DiskOpen, RemoteHead, ETagPut,
        RemoteOpen, RecordLabels, RecordedLabels, stores, ReadLabels, PcLabels,
        PushLabels, LegacyLabels
  <2>2. hash[p] \in Hashes /\ rec[p] \in Records
    BY <2>1 DEF RequestShape, RecordLabels
  <2> QED BY <2>1, <2>2 DEF RequestsTrue, RequestTrue
<1>5. Recorded(hash[p])'  /\ hash' = hash
  <2>1. hash' = hash
    BY <1>3
    DEF RangeHead, RangeGet, DiskExists, DiskOpen, RemoteHead, ETagPut,
        RemoteOpen, Answer, NotExist, locals
  <2>2. PICK g \in Hashes : g = hash[p]
    BY <1>4
  <2> QED BY <1>4, <2>1, <2>2, RecordsStep DEF RecordsGrow, Recorded
<1>6. ASSUME pc'[p] \in {"rangeGet", "diskOpen", "remHead", "etagPut", "remOpen",
                         "serve"},
             rec'[p].checksum = rec[p].checksum, rec'[p].size = rec[p].size,
             pc'[p] = "serve" \/ (pc'[p] = "etagPut" /\ ret'[p] = "range") =>
               Agrees(body'[p], hash[p])
      PROVE  RequestTrue(p)'
  <2>1. Describes(rec[p], hash[p])' /\ rec'[p].checksum # Unset
    BY <1>4, <1>5, <1>6 DEF Describes, Migrated
  <2>2. pc'[p] = "serve" \/ (pc'[p] = "etagPut" /\ ret'[p] = "range") =>
          Agrees(body[p], hash[p])'
    BY <1>4, <1>5, <1>6 DEF Agrees
  <2> QED
    BY <1>5, <1>6, <2>1, <2>2 DEF RequestTrue, Repairing, StoredLabels, LegacyLabels
<1>7. CASE RangeHead(p)
  <2>1. pc'[p] = "rangeGet" /\ rec' = rec
    BY <1>7 DEF RangeHead, RequestsTyped
  <2> QED BY <1>6, <2>1
<1>8. CASE RangeGet(p)
  <2>1. /\ body'[p] = objects[hash[p]].data /\ RecordETag(p, rem[p], "serve")
        /\ objects[hash[p]] # None /\ rem[p] \in Infos
    BY <1>3, <1>8 DEF RangeGet, Answer, RequestsTyped, RequestShape, InfoLabels
  <2>2. /\ pc'[p] \in {"etagPut", "serve"}
        /\ rec'[p].checksum = rec[p].checksum /\ rec'[p].size = rec[p].size
    BY <1>4, <2>1, RecordETagFields
  <2> QED BY <1>6, <2>1, <2>2 DEF Agrees
<1>9. CASE DiskExists(p)
  <2>1. pc'[p] \in {"remHead", "diskOpen"} /\ rec' = rec
    BY <1>3, <1>9 DEF DiskExists, Answer, RequestsTyped, locals
  <2> QED BY <1>6, <2>1
<1>10. CASE DiskOpen(p)
  <2>1. /\ pc'[p] = "serve" /\ rec' = rec /\ disk[hash[p]] # None
        /\ body'[p] = disk[hash[p]]
    BY <1>3, <1>10 DEF DiskOpen, NotExist, Answer, RequestsTyped
  <2> QED BY <1>4, <1>6, <2>1 DEF CachesTrue
<1>11. CASE RemoteHead(p)
  <2>1. /\ RecordETag(p, parseInfo(objects[hash[p]]), "remOpen") /\ ret' = ret
        /\ objects[hash[p]] # None
    BY <1>3, <1>11 DEF RemoteHead, Answer
  <2>2. parseInfo(objects[hash[p]]) \in Infos
    BY <1>4, <2>1, ParseTyped DEF StoresTyped
  <2>3. /\ pc'[p] \in {"etagPut", "remOpen"}
        /\ rec'[p].checksum = rec[p].checksum /\ rec'[p].size = rec[p].size
    BY <1>4, <2>1, <2>2, RecordETagFields
  <2>4. ret'[p] = "open2"
    BY <1>11, <2>1 DEF RemoteHead, RequestShape
  <2> QED BY <1>6, <2>3, <2>4
<1>12. CASE ETagPut(p)
  <2>1. /\ pc[p] = "etagPut" /\ rec' = rec /\ body' = body
        /\ pc'[p] = IF ret[p] = "range" THEN "serve" ELSE "remOpen"
    BY <1>12 DEF ETagPut, RequestsTyped, locals
  <2>2. ret[p] = "range" => Agrees(body[p], hash[p])
    BY <2>1 DEF RequestsTrue, RequestTrue
  <2> QED BY <1>6, <2>1, <2>2
<1>13. CASE RemoteOpen(p)
  <2>1. /\ pc'[p] = "serve" /\ rec' = rec /\ objects[hash[p]] # None
        /\ body'[p] = objects[hash[p]].data
    BY <1>3, <1>13 DEF RemoteOpen, Answer, RequestsTyped
  <2> QED BY <1>6, <2>1 DEF Agrees
<1> QED
  BY <1>3, <1>7, <1>8, <1>9, <1>10, <1>11, <1>12, <1>13

\* The end of a read.
LEMMA ReplyTrue ==
  ASSUME DurableInv, NEW p \in Procs,
         \/ ReadError(p) \/ RangeRefused(p) \/ ExistsDisk(p)
         \/ Serve(p) \/ MarkGet(p) \/ MarkPut(p)
  PROVE  RequestTrue(p)'
<1> USE DEF DurableInv, WriteInv, LockInv
<1>1. CASE Free(p)
  BY <1>1, FreedRequest
<1>2. CASE Serve(p) /\ ~Free(p)
  <2>1. /\ pc[p] = "serve" /\ pc'[p] = "markGet" /\ hash' = hash /\ meta' = meta
    BY <1>2 DEF Serve, Answer, RequestsTyped, locals
  <2>2. Recorded(hash[p])'
    BY <2>1 DEF RequestsTrue, RequestTrue, RecordedLabels, Recorded
  <2> QED
    BY <2>1, <2>2
    DEF RequestTrue, Repairing, StoredLabels, LegacyLabels, RecordLabels
<1>3. CASE MarkGet(p) /\ ~Free(p)
  <2>1. /\ pc[p] = "markGet" /\ pc'[p] = "markPut" /\ hash' = hash
        /\ meta' = meta /\ objects' = objects /\ meta[hash[p]] # None
        /\ rec'[p] = [meta[hash[p]] EXCEPT !.cached = TRUE]
    BY <1>3 DEF MarkGet, RequestsTyped, stores
  <2>2. hash[p] \in Hashes
    BY <2>1 DEF RequestShape
  <2>3. meta[hash[p]] \in Records
    BY <2>1, <2>2 DEF StoresTyped
  <2>4. /\ rec'[p].checksum = meta[hash[p]].checksum
        /\ rec'[p].size = meta[hash[p]].size
    BY <2>1, <2>3 DEF Records
  <2>5. Recorded(hash[p])
    BY <2>1 DEF RequestsTrue, RequestTrue, RecordedLabels
  <2>6. Describes(meta[hash[p]], hash[p])
    BY <2>1, <2>2 DEF RecordsTrue
  <2>7. Describes(rec[p], hash[p])' /\ rec'[p].checksum # Unset /\ Recorded(hash[p])'
    BY <2>1, <2>4, <2>5, <2>6 DEF Describes, Migrated, Recorded
  <2> QED
    BY <2>1, <2>7 DEF RequestTrue, Repairing, StoredLabels, LegacyLabels
<1> QED
  BY <1>1, <1>2, <1>3
  DEF ReadError, RangeRefused, ExistsDisk, MarkPut, Answer

\* A new request.
LEMMA NewRequestTrue ==
  ASSUME DurableInv, NEW p \in Procs, Request(p)
  PROVE  RequestTrue(p)'
<1> USE DEF DurableInv, WriteInv, LockInv
<1>1. pc[p] = "idle"
  BY DEF Request, StartPush, PullFromMemory, StartRead
<1>2. pc'[p] \in {"idle", "lock", "recGet", "rangeExists"}
  BY <1>1 DEF Request, StartPush, PullFromMemory, StartRead, RequestsTyped
<1> QED
  BY <1>2
  DEF RequestTrue, Repairing, StoredLabels, LegacyLabels, RecordLabels,
      RecordedLabels

\* All requests.
LEMMA RequestsStep ==
  ASSUME ~PutsLandLate, ChecksumTellsSize, DurableInv, Next
  PROVE  RequestsTrue'
<1>1. BucketGrows /\ RecordsGrow
  BY BucketStep, RecordsStep
<1>2. ASSUME NEW p \in Procs, Request(p) \/ Step(p) PROVE RequestsTrue'
  <2>1. RequestTrue(p)'
    BY <1>2, PushTrue, CommitTrue, RecordTrue, LegacyTrue, ReadTrue, ReplyTrue,
       NewRequestTrue DEF Step
  <2>2. ASSUME NEW q \in Procs, q # p PROVE RequestTrue(q)'
    <3>1. Untouched(q)
      BY <1>2, <2>2, OthersUntouched DEF DurableInv, WriteInv, LockInv
    <3> QED BY <1>1, <3>1, StableRequest
  <2> QED BY <2>1, <2>2 DEF RequestsTrue
<1>3. CASE Crash
  BY <1>3
  DEF Crash, RequestsTrue, RequestTrue, Repairing, StoredLabels, LegacyLabels,
      RecordLabels, RecordedLabels
<1>4. CASE LatePut \/ StartupAccept \/ StartupExit
  <2>1. ASSUME NEW q \in Procs PROVE Untouched(q)
    BY <1>4 DEF LatePut, StartupAccept, StartupExit, locals, Untouched
  <2> QED BY <1>1, <2>1, StableRequest DEF RequestsTrue
<1> QED BY <1>2, <1>3, <1>4 DEF Next

(***************************************************************************)
(* The responses.                                                          *)
(***************************************************************************)

\* Only a pull sends content, and it sends what agrees with the object.
LEMMA ServedStep ==
  ASSUME DurableInv, Next
  PROVE  ServedIntact'
<1> USE DEF DurableInv, WriteInv, LockInv
<1>1. ASSUME NEW h \in Hashes, NEW o, NEW code, NEW d, objects' = objects,
             answer' = Sent(o, h, code, d), Agrees(d, h) \/ d = None
      PROVE  ServedIntact'
  BY <1>1 DEF ServedIntact, Sent, Agrees
<1>2. CASE answer' = None
  BY <1>2 DEF ServedIntact
<1>3. ASSUME NEW p \in Procs, NEW code, Answer(p, code, None)
      PROVE  ServedIntact'
  BY <1>3 DEF Answer, Respond, Sent, ServedIntact
<1>4. ASSUME NEW p \in Procs, Serve(p) PROVE ServedIntact'
  <2>1. pc[p] = "serve" /\ objects' = objects /\ Respond(p, "200", body[p])
    BY <1>4 DEF Serve, Answer
  <2>2. hash[p] \in Hashes /\ Agrees(body[p], hash[p])
    BY <2>1 DEF RequestShape, RequestsTrue, RequestTrue
  <2> QED BY <1>1, <2>1, <2>2 DEF Respond
<1>5. ASSUME NEW p \in Procs, Request(p) PROVE ServedIntact'
  <2>1. ASSUME NEW o, NEW h \in Hashes, PullFromMemory(p, o, h)
        PROVE  ServedIntact'
    <3>1. mem[h] # None /\ objects' = objects
      BY <2>1 DEF PullFromMemory, stores
    <3>2. Agrees(mem[h], h)
      BY <3>1 DEF CachesTrue
    <3>3. \E code, d : answer' = Sent(o, h, code, d) /\ d \in {mem[h], None}
      BY <2>1 DEF PullFromMemory
    <3> QED BY <1>1, <3>1, <3>2, <3>3
  <2>2. ASSUME NEW o, NEW h \in Hashes, NEW d, NEW c, StartPush(p, o, h, d, c)
        PROVE  ServedIntact'
    <3>1. objects' = objects
      BY <2>2 DEF StartPush, stores
    <3>2. answer' = None \/ \E code : answer' = Sent(o, h, code, None)
      BY <2>2 DEF StartPush
    <3> QED BY <1>1, <1>2, <3>1, <3>2
  <2>3. ASSUME NEW o, NEW h, StartRead(p, o, h) PROVE ServedIntact'
    BY <1>2, <2>3 DEF StartRead
  <2> QED BY <1>5, <2>1, <2>2, <2>3 DEF Request
<1>6. ASSUME NEW p \in Procs, Step(p), ~Serve(p)
      PROVE  answer' = None \/ \E code : Answer(p, code, None)
  <2>1. CASE \/ PushLock(p) \/ PushHeadAbsent(p) \/ PushHeadLegacy(p)
             \/ PushHeadPresent(p) \/ PushHeadError(p) \/ PushPut(p)
             \/ PushPutError(p) \/ PublishLink(p) \/ PublishEvict(p)
    <3>1. CASE PushPut(p)
      BY <3>1 DEF PushPut
    <3> QED
      BY <2>1, <3>1
      DEF PushLock, PushHeadAbsent, PushHeadLegacy, PushHeadPresent,
          PushHeadError, PushPutError, PublishLink, PublishEvict, PushAbort,
          PushError
  <2>2. CASE CommitExists(p) \/ CommitGet(p) \/ CommitPut(p) \/ CommitError(p)
    BY <2>2 DEF CommitExists, CommitGet, CommitPut, CommitError, PushError
  <2>3. CASE RecGet(p) \/ RecHeadAbsent(p) \/ RecHeadPresent(p) \/ RecPut(p)
    BY <2>3 DEF RecGet, RecHeadAbsent, RecHeadPresent, RecPut, NotExist, Return
  <2>4. CASE LegacyOpen(p) \/ LegacyReopen(p) \/ LegacyPut(p) \/ LegacyError(p)
    BY <2>4
    DEF LegacyOpen, LegacyReopen, LegacyPut, LegacyError, LegacyAbort,
        PushAbort, PushError
  <2>5. CASE \/ RangeExists(p) \/ RangeHead(p) \/ RangeGet(p) \/ DiskExists(p)
             \/ DiskOpen(p) \/ RemoteHead(p) \/ ETagPut(p) \/ RemoteOpen(p)
    BY <2>5
    DEF RangeExists, RangeHead, RangeGet, DiskExists, DiskOpen, RemoteHead,
        ETagPut, RemoteOpen, RecordETag, NotExist
  <2>6. CASE \/ ReadError(p) \/ RangeRefused(p) \/ ExistsDisk(p)
             \/ MarkGet(p) \/ MarkPut(p)
    BY <2>6 DEF ReadError, RangeRefused, ExistsDisk, MarkGet, MarkPut
  <2> QED BY <1>6, <2>1, <2>2, <2>3, <2>4, <2>5, <2>6 DEF Step
<1>7. CASE LatePut \/ Crash \/ StartupAccept \/ StartupExit
  BY <1>2, <1>7 DEF LatePut, Crash, StartupAccept, StartupExit
<1> QED BY <1>2, <1>3, <1>4, <1>5, <1>6, <1>7 DEF Next

(***************************************************************************)
(* Induction and theorems.                                                 *)
(***************************************************************************)

\* Every step of every request, of S3 and of the process keeps the durability
\* invariant.
LEMMA NextDurable ==
  ASSUME ~PutsLandLate, ChecksumTellsSize, DurableInv, [Next]_vars
  PROVE  DurableInv'
<1>1. WriteInv'
  BY NextWrites DEF DurableInv
<1>2. CASE UNCHANGED vars
  <2>1. \A h \in Hashes : \A d, r :
          /\ Migrated(h)' = Migrated(h) /\ Recorded(h)' = Recorded(h)
          /\ Agrees(d, h)' = Agrees(d, h) /\ Describes(r, h)' = Describes(r, h)
    BY <1>2 DEF vars, Migrated, Recorded, Agrees, Describes
  <2>2. ObjectsTrue' /\ RecordsTrue' /\ CachesTrue' /\ AcksTrue' /\ ServedIntact'
    BY <1>2
    DEF vars, DurableInv, ObjectsTrue, RecordsTrue, CachesTrue, AcksTrue,
        ServedIntact, Migrated, Recorded, Agrees, Describes
  <2>3. BucketGrows /\ RecordsGrow
    BY <1>2, <2>1 DEF vars, BucketGrows, ContentKept, RecordsGrow
  <2>4. RequestsTrue'
    BY <1>2, <2>3, StableRequest DEF vars, RequestsTrue, Untouched
  <2> QED BY <1>1, <2>2, <2>4 DEF DurableInv
<1>3. CASE Next
  BY <1>1, <1>3, BucketStep, RecordsStep, CachesStep, AcksStep, RequestsStep,
     ServedStep DEF DurableInv
<1> QED BY <1>2, <1>3

\* Whatever an earlier release may have left satisfies it.
LEMMA InitDurable == Init => DurableInv
<1> SUFFICES ASSUME Init PROVE DurableInv
  OBVIOUS
<1>1. WriteInv
  BY InitWrites
<1>2. ASSUME NEW h \in Hashes, objects[h] # None
      PROVE  \E d \in Data : \/ objects[h] = [data |-> d, checksum |-> Unset]
                             \/ objects[h] = [data |-> d, checksum |-> Checksum[d]]
  BY <1>2 DEF Init, InitObjects
<1>3. ASSUME NEW h \in Hashes, objects[h] # None
      PROVE  IF objects[h].checksum = Unset THEN h \in OldHashes ELSE Migrated(h)
  <2>1. PICK d \in Data :
               \/ objects[h] = [data |-> d, checksum |-> Unset]
               \/ objects[h] = [data |-> d, checksum |-> Checksum[d]]
    BY <1>2, <1>3
  <2>2. objects[h].data = d /\ objects[h].checksum \in {Unset, Checksum[d]}
    BY <2>1
  <2>3. h \in OldHashes
    BY <1>3 DEF Init
  <2> QED BY <1>3, <2>2, <2>3 DEF Migrated
<1>4. RecordsTrue
  <2>1. ASSUME NEW h \in Hashes, meta[h] # None PROVE Describes(meta[h], h)
    <3>1. objects[h] # None /\ meta[h] \in InitRecords(objects[h])
      BY <2>1 DEF Init
    <3>2. /\ meta[h].checksum = objects[h].checksum
          /\ meta[h].size = Size[objects[h].data]
      BY <3>1 DEF InitRecords
    <3> QED BY <1>3, <3>1, <3>2 DEF Describes
  <2> QED BY <2>1 DEF RecordsTrue
<1>5. CachesTrue
  BY DEF Init, CachesTrue, Agrees
<1>6. AcksTrue /\ ServedIntact
  BY DEF Init, AcksTrue, ServedIntact
<1>7. RequestsTrue
  BY DEF Init, RequestsTrue, RequestTrue, Repairing, StoredLabels, LegacyLabels,
         RecordLabels, RecordedLabels
<1> QED
  BY <1>1, <1>3, <1>4, <1>5, <1>6, <1>7 DEF DurableInv, ObjectsTrue

\* A push that was answered 200 or 201 is in S3 and in the metadata with its
\* checksum and size, from then on and over crashes: putPayloadDurably and
\* commitPayloadMetadata run before the answer, and no other request takes
\* the object, the record or its checksum away (storage.go:19-20).
THEOREM AcknowledgedIsDurable ==
  ~PutsLandLate /\ ChecksumTellsSize => (Spec => []AckedDurable)
<1> SUFFICES ASSUME ~PutsLandLate, ChecksumTellsSize PROVE Spec => []AckedDurable
  OBVIOUS
<1>1. DurableInv /\ [Next]_vars => DurableInv'
  BY NextDurable
<1>2. DurableInv => AckedDurable
  <2> SUFFICES ASSUME DurableInv, NEW h \in Hashes, NEW a \in acked[h]
               PROVE  /\ objects[h] # None
                      /\ objects[h].checksum = a[1] /\ Size[objects[h].data] = a[2]
                      /\ meta[h] # None
                      /\ meta[h].checksum = a[1] /\ meta[h].size = a[2]
    BY DEF AckedDurable
  <2>1. /\ Migrated(h) /\ Recorded(h)
        /\ a[1] = objects[h].checksum /\ a[2] = Size[objects[h].data]
    BY DEF DurableInv, AcksTrue
  <2>2. Describes(meta[h], h)
    BY <2>1 DEF DurableInv, RecordsTrue, Recorded
  <2> QED BY <2>1, <2>2 DEF Migrated, Recorded, Describes
<1> QED BY <1>1, <1>2, InitDurable, PTL DEF Spec

\* A file of the disk cache always has the checksum and size of the object in
\* S3: Publish runs after the Put, on an upload that S3's object does not
\* contradict (storage.go:77).
THEOREM DiskIsBacked ==
  ~PutsLandLate /\ ChecksumTellsSize => (Spec => []DiskBacked)
<1> SUFFICES ASSUME ~PutsLandLate, ChecksumTellsSize PROVE Spec => []DiskBacked
  OBVIOUS
<1>1. DurableInv /\ [Next]_vars => DurableInv'
  BY NextDurable
<1>2. DurableInv => DiskBacked
  BY DEF DurableInv, CachesTrue, DiskBacked, Agrees
<1> QED BY <1>1, <1>2, InitDurable, PTL DEF Spec

\* A pull, whether memory, disk or S3 answers it, sends content with the
\* checksum and size of the object in S3.
THEOREM PullsAreIntact ==
  ~PutsLandLate /\ ChecksumTellsSize => (Spec => []ServedIntact)
<1> SUFFICES ASSUME ~PutsLandLate, ChecksumTellsSize PROVE Spec => []ServedIntact
  OBVIOUS
<1>1. DurableInv /\ [Next]_vars => DurableInv'
  BY NextDurable
<1>2. DurableInv => ServedIntact
  BY DEF DurableInv
<1> QED BY <1>1, <1>2, InitDurable, PTL DEF Spec

\* The four read-modify-writes of a metadata record (commitPayloadMetadata,
\* payloadRecord, markCached, recordPayloadETag) and the startup validation
\* never undo the migration of a record: it and its CRC32C stay.
THEOREM ChecksumsAreKept ==
  ~PutsLandLate /\ ChecksumTellsSize => (Spec => ChecksumKept)
<1> SUFFICES ASSUME ~PutsLandLate, ChecksumTellsSize PROVE Spec => ChecksumKept
  OBVIOUS
<1>1. DurableInv /\ [Next]_vars => DurableInv'
  BY NextDurable
<1>2. DurableInv /\ [Next]_vars =>
        [\A h \in Hashes : meta[h] # None =>
           /\ meta'[h] # None
           /\ meta[h].checksum # Unset => meta'[h].checksum # Unset]_vars
  BY RecordsStep DEF RecordsGrow, Recorded
<1> QED BY <1>1, <1>2, InitDurable, PTL DEF Spec, ChecksumKept

(***************************************************************************)
(* Restarts: the ETags in records, requests and S3.                        *)
(***************************************************************************)

\* The ETag e is unknown or that of the object under h after the step.
Tagged(e, h) == e = Unset \/ e = ETag[objects'[h].data]

\* What parseInfo makes of an object has the ETag of its content.
LEMMA ParsedETag ==
  ASSUME LegacyETagKept, DurableInv, NEW h \in Hashes, objects[h] # None
  PROVE  /\ parseInfo(objects[h]) \in Infos
         /\ parseInfo(objects[h]).etag = ETag[objects[h].data]
         /\ parseInfo(objects[h]).etag # Unset
<1>1. objects[h] \in Objects
  BY DEF DurableInv, WriteInv, LockInv, StoresTyped
<1>2. parseInfo(objects[h]).etag = ETag[objects[h].data]
  BY DEF parseInfo, LegacyETagKept, DurableInv, ObjectsTrue
<1>3. ETag[objects[h].data] # Unset
  BY <1>1, ConstantsAssumption DEF Objects
<1> QED BY <1>1, <1>2, <1>3, ParseTyped

\* A step keeps the content, hence the ETag, of the object of a request.
LEMMA TaggedStep ==
  ASSUME ~PutsLandLate, DurableInv, Next, NEW h \in Hashes, objects[h] # None,
         NEW e, ETagOf(e, h)
  PROVE  Tagged(e, h)
BY BucketStep DEF BucketGrows, ContentKept, ETagOf, Tagged

\* A request with an ETag has an object.
LEMMA TaggedHasObject ==
  ASSUME DurableInv, NEW q \in Procs,
         pc[q] \in InfoLabels \cup RecordLabels \/ (Repairing(q) /\ rec[q] # None)
  PROVE  hash[q] \in Hashes /\ objects[hash[q]] # None
<1> USE DEF InfoLabels, RecordLabels, LegacyLabels, Repairing
<1>1. hash[q] \in Hashes
  BY DEF DurableInv, WriteInv, LockInv, RequestShape
<1>2. CASE pc[q] \in LegacyLabels
  BY <1>1, <1>2 DEF DurableInv, WriteInv, WritesReady, WriteReady
<1>3. CASE pc[q] \notin LegacyLabels
  BY <1>1, <1>3
  DEF DurableInv, RequestsTrue, RequestTrue, StoredLabels, Migrated, Describes
<1> QED BY <1>2, <1>3

\* The ETags of a request after a step, one condition per clause.
LEMMA RestartOf ==
  ASSUME NEW p \in Procs, hash'[p] = hash[p],
         pc'[p] \in InfoLabels => Tagged(rem'[p].etag, hash[p]),
         pc'[p] \in RecordLabels => Tagged(rec'[p].etag, hash[p]),
         Repairing(p)' /\ rec'[p] # None => Tagged(rec'[p].etag, hash[p])
  PROVE  RequestRestart(p)'
BY DEF RequestRestart, ETagOf, Tagged

\* A step that leaves the variables of a request alone leaves it restartable.
LEMMA StableRestart ==
  ASSUME ~PutsLandLate, RestartInv, Next, NEW q \in Procs, Untouched(q)
  PROVE  RequestRestart(q)'
<1>1. RequestRestart(q) /\ DurableInv
  BY DEF RestartInv
<1>2. pc[q] \in InfoLabels => Tagged(rem[q].etag, hash[q])
  BY <1>1, TaggedHasObject, TaggedStep DEF RequestRestart
<1>3. pc[q] \in RecordLabels => Tagged(rec[q].etag, hash[q])
  BY <1>1, TaggedHasObject, TaggedStep DEF RequestRestart
<1>4. Repairing(q) /\ rec[q] # None => Tagged(rec[q].etag, hash[q])
  BY <1>1, TaggedHasObject, TaggedStep DEF RequestRestart
<1> QED BY <1>2, <1>3, <1>4, RestartOf DEF Untouched, Repairing

\* A request that has ended has nothing to repair.
LEMMA FreedRestart ==
  ASSUME TypedInv, NEW p \in Procs, Free(p)
  PROVE  RequestRestart(p)'
BY DEF Free, RequestsTyped, RequestRestart, Repairing, InfoLabels, LegacyLabels,
   RecordLabels

\* The ETag of a repaired record is one of the three the repair knows.
LEMMA RepairedETag ==
  ASSUME NEW r \in Records \cup {None}, NEW i \in Infos,
         NEW e \in ETags \cup {Unset}
  PROVE  \/ Repaired(r, i, e).etag \in {e, i.etag}
         \/ r # None /\ Repaired(r, i, e).etag = r.etag
<1>1. CASE r = None
  BY <1>1 DEF Repaired, FirstSet
<1>2. CASE r # None
  <2>1. r \in Records
    BY <1>2
  <2> QED BY <1>2, <2>1 DEF Repaired, Records, FirstSet
<1> QED BY <1>1, <1>2

\* A step of putPayloadDurably or commitPayloadMetadata.
LEMMA PushRestart ==
  ASSUME ~PutsLandLate, LegacyETagKept, RestartInv, NEW p \in Procs, Next,
         \/ PushLock(p) \/ PushHeadAbsent(p) \/ PushHeadLegacy(p)
         \/ PushHeadPresent(p) \/ PushHeadError(p) \/ PushPut(p)
         \/ PushPutError(p) \/ PublishLink(p) \/ PublishEvict(p)
         \/ CommitExists(p) \/ CommitGet(p) \/ CommitPut(p) \/ CommitError(p)
  PROVE  RequestRestart(p)'
<1> USE DEF RestartInv, DurableInv, WriteInv, LockInv
<1>1. CASE Free(p)
  BY <1>1, FreedRestart
<1>2. SUFFICES ASSUME ~Free(p) PROVE RequestRestart(p)'
  BY <1>1
<1>3. hash[p] \in Hashes /\ pc[p] # "idle" /\ pc[p] \in PushLabels
  BY DEF PushLock, PushHeadAbsent, PushHeadLegacy, PushHeadPresent,
         PushHeadError, PushPut, PushPutError, PublishLink, PublishEvict,
         CommitExists, CommitGet, CommitPut, CommitError, RequestShape, PushLabels
<1>4. pc[p] \in InfoLabels => Tagged(rem[p].etag, hash[p])
  BY TaggedHasObject, TaggedStep DEF RequestRestart
<1>5. CASE PushLock(p) \/ PushHeadAbsent(p)
  <2>1. pc'[p] \in {"head", "put"}
    BY <1>5 DEF PushLock, PushHeadAbsent, RequestsTyped
  <2> QED
    BY <2>1 DEF RequestRestart, Repairing, InfoLabels, RecordLabels, LegacyLabels
<1>6. CASE PushHeadLegacy(p) \/ PushHeadPresent(p)
  <2>1. /\ pc'[p] = "link" \/ (pc'[p] = "legOpen" /\ ret'[p] = "push")
        /\ hash' = hash /\ objects' = objects /\ objects[hash[p]] # None
        /\ rem'[p] = parseInfo(objects[hash[p]])
    BY <1>2, <1>6
    DEF PushHeadLegacy, PushHeadPresent, PushAbort, PushError, Answer,
        RequestsTyped, stores
  <2>2. Tagged(rem'[p].etag, hash[p])
    BY <1>3, <2>1, ParsedETag DEF Tagged
  <2> QED
    BY <2>1, <2>2, RestartOf DEF Repairing, RecordLabels, LegacyLabels
<1>7. CASE PushPut(p)
  <2> DEFINE o == Object(body[p], Checksum[body[p]])
  <2>1. body[p] \in Data
    BY <1>3 DEF RequestShape, ContentLabels
  <2>2. o \in Objects /\ o.data = body[p]
    BY <2>1, ConstantsAssumption DEF Object, Objects
  <2>3. parseInfo(o) \in Infos
    BY <2>2, ParseTyped
  <2>4. PICK e \in PutETags(o) :
          rem' = [rem EXCEPT ![p] = [parseInfo(o) EXCEPT !.etag = e]]
    BY <1>7 DEF PushPut
  <2>5. rem'[p].etag = e
    BY <2>3, <2>4 DEF Infos, RequestsTyped
  <2>6. pc'[p] = "link" /\ hash' = hash /\ objects'[hash[p]] = o
    BY <1>3, <1>7 DEF PushPut, PutApplied, RequestsTyped, StoresTyped
  <2>7. Tagged(rem'[p].etag, hash[p])
    BY <2>4, <2>5, <2>6 DEF Tagged, PutETags
  <2> QED
    BY <2>6, <2>7, RestartOf DEF Repairing, RecordLabels, LegacyLabels
<1>8. CASE PublishLink(p) \/ PublishEvict(p) \/ CommitExists(p)
  <2>1. /\ pc[p] \in InfoLabels /\ pc'[p] \in {"evict", "commitExists", "commitGet"}
        /\ hash' = hash /\ rem' = rem
    BY <1>8
    DEF PublishLink, PublishEvict, CommitExists, InfoLabels, RequestsTyped, locals
  <2> QED
    BY <1>4, <2>1, RestartOf DEF Repairing, RecordLabels, LegacyLabels
<1>9. CASE CommitGet(p)
  <2>1. /\ pc[p] = "commitGet" /\ pc'[p] = "commitPut" /\ hash' = hash
        /\ rem' = rem /\ rec'[p] = CommitRecord(p)
    BY <1>2, <1>9 DEF CommitGet, PushError, Answer, RequestsTyped
  <2>2. objects[hash[p]] # None
    BY <2>1, TaggedHasObject DEF InfoLabels
  <2>3. meta[hash[p]] # None => Tagged(meta[hash[p]].etag, hash[p])
    BY <1>3, <2>2, TaggedStep DEF RecordsRestart
  <2>4. Tagged(rem[p].etag, hash[p])
    BY <1>4, <2>1 DEF InfoLabels
  <2>5. Tagged(CommitRecord(p).etag, hash[p])
    BY <2>3, <2>4 DEF CommitRecord, FirstSet, Tagged
  <2> QED
    BY <2>1, <2>4, <2>5, RestartOf DEF Repairing, LegacyLabels
<1> QED
  BY <1>2, <1>5, <1>6, <1>7, <1>8, <1>9
  DEF PushHeadError, PushPutError, PushAbort, CommitPut, CommitError, PushError,
      Answer

\* A step of payloadRecord.
LEMMA RecordRestart ==
  ASSUME ~PutsLandLate, LegacyETagKept, RestartInv, NEW p \in Procs, Next,
         RecGet(p) \/ RecHeadAbsent(p) \/ RecHeadPresent(p) \/ RecPut(p)
  PROVE  RequestRestart(p)'
<1> USE DEF RestartInv, DurableInv, WriteInv, LockInv
<1>1. CASE Free(p)
  BY <1>1, FreedRestart
<1>2. /\ pc[p] \in {"recGet", "recHead", "recPut"} /\ hash[p] \in Hashes
      /\ ret[p] \in Callers \ {"push"} /\ rec[p] \in Records \cup {None}
  BY DEF RecGet, RecHeadAbsent, RecHeadPresent, RecPut, RequestShape, ReadLabels,
         PcLabels, PushLabels, LegacyLabels, RequestsTyped
<1>3. ASSUME Return(p), hash' = hash, Tagged(rec'[p].etag, hash[p])
      PROVE  RequestRestart(p)'
  <2>1. pc'[p] \in {"recGet", "diskExists", "rangeHead", "existsDisk"}
    BY <1>2, <1>3 DEF Return, ReturnLabel, RequestsTyped, Callers
  <2> QED BY <1>3, <2>1, RestartOf DEF Repairing, InfoLabels, LegacyLabels
<1>4. CASE RecGet(p)
  <2>1. rec'[p] = meta[hash[p]] /\ hash' = hash
    BY <1>4 DEF RecGet, RequestsTyped
  <2>2. meta[hash[p]] # None => Tagged(meta[hash[p]].etag, hash[p])
    <3>1. meta[hash[p]] # None => objects[hash[p]] # None
      BY <1>2 DEF RecordsTrue, Describes
    <3> QED BY <1>2, <3>1, TaggedStep DEF RecordsRestart
  <2>3. CASE Continue(p, "recHead")
    <3>1. pc'[p] = "recHead"
      BY <2>3 DEF RequestsTyped
    <3> QED
      BY <2>1, <2>2, <3>1, RestartOf DEF InfoLabels, LegacyLabels, RecordLabels
  <2> QED BY <1>3, <1>4, <2>1, <2>2, <2>3 DEF RecGet
<1>5. CASE RecHeadPresent(p)
  <2> DEFINE info == parseInfo(objects[hash[p]])
  <2>1. /\ info \in Infos /\ info.etag = ETag[objects[hash[p]].data]
        /\ objects' = objects /\ hash' = hash /\ ret' = ret
    BY <1>2, <1>5, ParsedETag DEF RecHeadPresent, stores
  <2>2. Tagged(info.etag, hash[p])
    BY <2>1 DEF Tagged
  <2>3. rec[p] # None => Tagged(rec[p].etag, hash[p])
    <3>1. pc[p] = "recHead"
      BY <1>5 DEF RecHeadPresent
    <3> QED BY <3>1, TaggedHasObject, TaggedStep DEF RequestRestart, Repairing
  <2>4. CASE info.checksum = Unset
    <3>1. pc'[p] = "legOpen" /\ rem'[p] = info /\ rec' = rec
      BY <1>5, <2>4 DEF RecHeadPresent, RequestsTyped
    <3> QED BY <2>1, <2>2, <2>3, <3>1, RestartOf DEF RecordLabels
  <2>5. CASE info.checksum # Unset
    <3>1. pc'[p] = "recPut" /\ rec'[p] = Repaired(rec[p], info, Unset)
      BY <1>5, <2>5 DEF RecHeadPresent, RequestsTyped
    <3>2. Tagged(rec'[p].etag, hash[p])
      BY <1>2, <2>1, <2>2, <2>3, <3>1, RepairedETag DEF Tagged
    <3> QED BY <2>1, <3>1, <3>2, RestartOf DEF InfoLabels, LegacyLabels, Repairing
  <2> QED BY <2>4, <2>5
<1>6. CASE RecPut(p)
  <2>1. pc[p] = "recPut" /\ hash' = hash /\ rec' = rec /\ Return(p)
    BY <1>6 DEF RecPut
  <2>2. Tagged(rec[p].etag, hash[p])
    BY <2>1, TaggedHasObject, TaggedStep DEF RequestRestart, RecordLabels
  <2> QED BY <1>3, <2>1, <2>2
<1> QED BY <1>1, <1>4, <1>5, <1>6 DEF RecHeadAbsent, NotExist, Answer

\* A step of reconcileLegacyObject.
LEMMA LegacyRestart ==
  ASSUME ~PutsLandLate, LegacyETagKept, RestartInv, NEW p \in Procs, Next,
         LegacyOpen(p) \/ LegacyReopen(p) \/ LegacyPut(p) \/ LegacyError(p)
  PROVE  RequestRestart(p)'
<1> USE DEF RestartInv, DurableInv, WriteInv, LockInv
<1>1. CASE Free(p)
  BY <1>1, FreedRestart
<1>2. /\ pc[p] \in LegacyLabels /\ hash[p] \in Hashes /\ rem[p] \in Infos
      /\ rec[p] \in Records \cup {None}
  BY DEF LegacyOpen, LegacyReopen, LegacyPut, LegacyError, RequestShape,
         LegacyLabels, InfoLabels, RequestsTyped
<1>3. /\ Tagged(rem[p].etag, hash[p])
      /\ ret[p] # "push" /\ rec[p] # None => Tagged(rec[p].etag, hash[p])
  BY <1>2, TaggedHasObject, TaggedStep DEF RequestRestart, Repairing, InfoLabels
<1>4. CASE (LegacyOpen(p) \/ LegacyReopen(p)) /\ ~Free(p)
  <2>1. /\ pc'[p] \in {"legReopen", "legPut"} /\ hash' = hash /\ ret' = ret
        /\ rec' = rec
        /\ \/ rem' = rem
           \/ rem' = [rem EXCEPT ![p].checksum = Checksum[objects[hash[p]].data]]
    BY <1>4
    DEF LegacyOpen, LegacyReopen, LegacyAbort, PushAbort, PushError, Answer,
        RequestsTyped
  <2>2. rem'[p].etag = rem[p].etag
    BY <1>2, <2>1 DEF RequestsTyped, Infos
  <2> QED BY <1>3, <2>1, <2>2, RestartOf DEF Repairing, RecordLabels, LegacyLabels
<1>5. CASE LegacyPut(p)
  <2> DEFINE o == Object(src[p], rem[p].checksum)
  <2>1. /\ pc[p] = "legPut" /\ hash' = hash /\ ret' = ret
        /\ objects' = [objects EXCEPT ![hash[p]] = o]
    BY <1>5 DEF LegacyPut, PutApplied
  <2>2. src[p] \in Data /\ objects'[hash[p]].data = src[p] /\ o.data = src[p]
    BY <1>2, <2>1 DEF RequestShape, StoresTyped, Object
  <2>3. ASSUME NEW e \in PutETags(o)
        PROVE  e \in ETags \cup {Unset} /\ Tagged(e, hash[p])
    BY <2>2, <2>3, ConstantsAssumption DEF PutETags, Tagged
  <2>4. CASE ret[p] = "push"
    <3>1. PICK e \in PutETags(o) :
            /\ rem' = [rem EXCEPT ![p].etag = FirstSet(e, @)]
            /\ pc'[p] = "link"
      BY <1>5, <2>4 DEF LegacyPut, RequestsTyped
    <3>2. rem'[p].etag = FirstSet(e, rem[p].etag)
      BY <1>2, <3>1 DEF RequestsTyped, Infos
    <3>3. Tagged(rem'[p].etag, hash[p])
      BY <1>3, <2>3, <3>2 DEF FirstSet
    <3> QED BY <2>1, <3>1, <3>3, RestartOf DEF Repairing, RecordLabels, LegacyLabels
  <2>5. CASE ret[p] # "push"
    <3>1. PICK e \in PutETags(o) :
            pc'[p] = "recPut" /\ rec'[p] = Repaired(rec[p], rem[p], e)
      BY <1>5, <2>5 DEF LegacyPut, RequestsTyped
    <3>2. Tagged(rec'[p].etag, hash[p])
      BY <1>2, <1>3, <2>3, <2>5, <3>1, RepairedETag
    <3> QED BY <2>1, <3>1, <3>2, RestartOf DEF InfoLabels, LegacyLabels, Repairing
  <2> QED BY <2>4, <2>5
<1> QED
  BY <1>1, <1>4, <1>5 DEF LegacyError, LegacyAbort, PushAbort, PushError, Answer

\* recordETag keeps the ETag a record has and fills in the one S3 told.
LEMMA RecordETagKnown ==
  ASSUME TypedInv, NEW p \in Procs, NEW i \in Infos, NEW l, RecordETag(p, i, l),
         rec[p] \in Records
  PROVE  rec'[p].etag \in {rec[p].etag, i.etag}
<1>1. rec'[p] = [rec[p] EXCEPT !.etag = IF @ = Unset THEN i.etag ELSE @]
  BY DEF RecordETag, RequestsTyped
<1> QED BY <1>1 DEF Records

\* A step of a read behind payloadRecord, and a new request.
LEMMA ReadRestart ==
  ASSUME ~PutsLandLate, LegacyETagKept, RestartInv, NEW p \in Procs, Next,
         \/ Request(p)
         \/ RangeExists(p) \/ RangeHead(p) \/ RangeGet(p)
         \/ DiskExists(p) \/ DiskOpen(p) \/ RemoteHead(p) \/ ETagPut(p)
         \/ RemoteOpen(p) \/ ReadError(p) \/ RangeRefused(p)
         \/ ExistsDisk(p) \/ Serve(p) \/ MarkGet(p) \/ MarkPut(p)
  PROVE  RequestRestart(p)'
<1> USE DEF RestartInv, DurableInv, WriteInv, LockInv
<1>1. CASE Free(p)
  BY <1>1, FreedRestart
<1>2. SUFFICES ASSUME ~Free(p) PROVE RequestRestart(p)'
  BY <1>1
<1>3. ASSUME pc'[p] \in {"idle", "lock", "recGet", "rangeExists", "serve", "markGet"}
      PROVE  RequestRestart(p)'
  BY <1>3 DEF RequestRestart, Repairing, InfoLabels, LegacyLabels, RecordLabels
<1>4. CASE Request(p) \/ RangeExists(p) \/ DiskOpen(p) \/ RemoteOpen(p) \/ Serve(p)
  <2>1. CASE Request(p)
    BY <1>3, <2>1 DEF Request, StartPush, PullFromMemory, StartRead, RequestsTyped
  <2> QED
    BY <1>2, <1>3, <1>4, <2>1
    DEF RangeExists, DiskOpen, RemoteOpen, Serve, NotExist, Answer, RequestsTyped
<1>5. pc[p] \in RecordLabels =>
        /\ hash[p] \in Hashes /\ rec[p] \in Records
        /\ Tagged(rec[p].etag, hash[p])
  BY TaggedHasObject, TaggedStep DEF RequestShape, RequestRestart
<1>6. pc[p] \in InfoLabels => Tagged(rem[p].etag, hash[p])
  BY TaggedHasObject, TaggedStep DEF RequestRestart
<1>7. CASE RangeHead(p)
  <2>1. /\ pc[p] = "rangeHead" /\ pc'[p] = "rangeGet" /\ hash' = hash /\ rec' = rec
        /\ rem'[p] = parseInfo(objects[hash[p]]) /\ objects' = objects
        /\ objects[hash[p]] # None
    BY <1>7 DEF RangeHead, RequestsTyped, stores
  <2>2. Tagged(rec[p].etag, hash[p]) /\ hash[p] \in Hashes
    BY <1>5, <2>1 DEF RecordLabels
  <2>3. Tagged(rem'[p].etag, hash[p])
    BY <2>1, <2>2, ParsedETag DEF Tagged
  <2> QED BY <2>1, <2>2, <2>3, RestartOf DEF Repairing, LegacyLabels
<1>8. CASE RangeGet(p)
  <2>1. /\ pc[p] = "rangeGet" /\ RecordETag(p, rem[p], "serve") /\ rem[p] \in Infos
        /\ hash' = hash /\ rem' = rem
    BY <1>2, <1>8 DEF RangeGet, Answer, RequestShape, InfoLabels
  <2>2. /\ Tagged(rec[p].etag, hash[p]) /\ rec[p] \in Records
        /\ Tagged(rem[p].etag, hash[p])
    BY <1>5, <1>6, <2>1 DEF RecordLabels, InfoLabels
  <2>3. Tagged(rec'[p].etag, hash[p])
    BY <2>1, <2>2, RecordETagKnown
  <2>4. pc'[p] \in {"etagPut", "serve"}
    BY <2>1, <2>2, RecordETagFields
  <2> QED BY <2>1, <2>2, <2>3, <2>4, RestartOf DEF Repairing, LegacyLabels
<1>9. CASE DiskExists(p)
  <2>1. /\ pc[p] = "diskExists" /\ pc'[p] \in {"remHead", "diskOpen"} /\ hash' = hash
        /\ rec' = rec
    BY <1>2, <1>9 DEF DiskExists, Answer, RequestsTyped, locals
  <2> QED
    BY <1>5, <2>1, RestartOf DEF RecordLabels, InfoLabels, Repairing, LegacyLabels
<1>10. CASE RemoteHead(p)
  <2> DEFINE info == parseInfo(objects[hash[p]])
  <2>1. /\ pc[p] = "remHead" /\ RecordETag(p, info, "remOpen") /\ hash' = hash
        /\ rem'[p] = info /\ objects' = objects /\ objects[hash[p]] # None
    BY <1>2, <1>10 DEF RemoteHead, Answer, RequestsTyped, stores
  <2>2. /\ Tagged(rec[p].etag, hash[p]) /\ rec[p] \in Records /\ hash[p] \in Hashes
    BY <1>5, <2>1 DEF RecordLabels
  <2>3. info \in Infos /\ Tagged(info.etag, hash[p])
    BY <2>1, <2>2, ParsedETag DEF Tagged
  <2>4. Tagged(rec'[p].etag, hash[p])
    BY <2>1, <2>2, <2>3, RecordETagKnown
  <2>5. pc'[p] \in {"etagPut", "remOpen"}
    BY <2>1, <2>2, <2>3, RecordETagFields
  <2> QED BY <2>1, <2>3, <2>4, <2>5, RestartOf DEF Repairing, LegacyLabels
<1>11. CASE ETagPut(p)
  <2>1. /\ pc[p] = "etagPut" /\ pc'[p] \in {"serve", "remOpen"} /\ hash' = hash
        /\ rec' = rec /\ rem' = rem
    BY <1>11 DEF ETagPut, RequestsTyped, locals
  <2> QED
    BY <1>5, <1>6, <2>1, RestartOf
    DEF RecordLabels, InfoLabels, Repairing, LegacyLabels
<1>12. CASE MarkGet(p)
  <2>1. /\ pc[p] = "markGet" /\ pc'[p] = "markPut" /\ hash' = hash
        /\ meta[hash[p]] # None
        /\ rec'[p] = [meta[hash[p]] EXCEPT !.cached = TRUE]
    BY <1>2, <1>12 DEF MarkGet, RequestsTyped
  <2>2. hash[p] \in Hashes /\ meta[hash[p]] \in Records
    BY <2>1 DEF RequestShape, StoresTyped
  <2>3. rec'[p].etag = meta[hash[p]].etag
    BY <2>1, <2>2 DEF Records
  <2>4. Tagged(meta[hash[p]].etag, hash[p])
    BY <2>1, <2>2, TaggedStep DEF RecordsRestart, RecordsTrue, Describes
  <2> QED
    BY <2>1, <2>3, <2>4, RestartOf DEF InfoLabels, Repairing, LegacyLabels
<1> QED
  BY <1>2, <1>4, <1>7, <1>8, <1>9, <1>10, <1>11, <1>12
  DEF ReadError, RangeRefused, ExistsDisk, MarkPut, Answer

\* Records after a step.  A record without CRC32C and ETag is left behind only
\* while the server is down.
LEMMA RecordsRestartStep ==
  ASSUME ~PutsLandLate, LegacyETagKept, RestartInv, Next
  PROVE  RecordsRestart'
<1> USE DEF RestartInv, DurableInv, WriteInv, LockInv
<1>1. BucketGrows
  BY BucketStep
<1>2. ASSUME NEW h \in Hashes, meta[h] # None
      PROVE  Tagged(meta[h].etag, h)
  <2>1. objects[h] # None /\ ETagOf(meta[h].etag, h)
    BY <1>2 DEF RecordsTrue, Describes, RecordsRestart
  <2> QED BY <2>1, TaggedStep
<1>3. ASSUME NEW p \in Procs, Request(p) \/ Step(p) PROVE RecordsRestart'
  <2>1. up /\ up' = up
    BY <1>3
    DEF Request, StartPush, PullFromMemory, StartRead, Step, PushLock,
        PushHeadAbsent, PushHeadLegacy, PushHeadPresent, PushHeadError, PushPut,
        PushPutError, PublishLink, PublishEvict, CommitExists, CommitGet,
        CommitPut, CommitError, RecGet, RecHeadAbsent, RecHeadPresent, RecPut,
        LegacyOpen, LegacyReopen, LegacyPut, LegacyError, RangeExists, RangeHead,
        RangeGet, DiskExists, DiskOpen, RemoteHead, ETagPut, RemoteOpen,
        ReadError, Serve, RangeRefused, MarkGet, MarkPut, ExistsDisk, RequestShape
  <2>2. CASE meta' = meta
    BY <1>2, <2>1, <2>2 DEF RecordsRestart, ETagOf, Tagged
  <2>3. CASE meta' # meta
    <3>1. PICK g \in Hashes, r \in Records :
            /\ g = hash[p] /\ r = rec[p] /\ r.checksum # Unset
            /\ meta' = [meta EXCEPT ![g] = r]
      BY <1>3, <2>3, RecordsWritten
    <3>2. pc[p] \in RecordLabels
      BY <1>3, <2>3
      DEF RecordLabels, Request, StartPush, PullFromMemory, StartRead, Step,
          PushLock, PushHeadAbsent, PushHeadLegacy, PushHeadPresent,
          PushHeadError, PushPut, PushPutError, PublishLink, PublishEvict,
          CommitExists, CommitGet, CommitPut, CommitError, RecGet,
          RecHeadAbsent, RecHeadPresent, RecPut, LegacyOpen, LegacyReopen,
          LegacyPut, LegacyError, RangeExists, RangeHead, RangeGet, DiskExists,
          DiskOpen, RemoteHead, ETagPut, RemoteOpen, ReadError, Serve,
          RangeRefused, MarkGet, MarkPut, ExistsDisk, stores
    <3>3. Tagged(r.etag, g)
      BY <3>1, <3>2, TaggedHasObject, TaggedStep DEF RequestRestart
    <3>4. ASSUME NEW h \in Hashes, meta'[h] # None
          PROVE  /\ ETagOf(meta[h].etag, h)'
                 /\ ~(meta'[h].etag = Unset /\ meta'[h].checksum = Unset)
      <4>1. CASE h = g
        BY <3>1, <3>3, <4>1 DEF StoresTyped, ETagOf, Tagged
      <4>2. CASE h # g
        <5>1. meta'[h] = meta[h]
          BY <3>1, <4>2 DEF StoresTyped
        <5> QED BY <1>2, <2>1, <3>4, <5>1 DEF RecordsRestart, ETagOf, Tagged
      <4> QED BY <4>1, <4>2
    <3> QED BY <3>4 DEF RecordsRestart
  <2> QED BY <2>2, <2>3
<1>4. CASE StartupAccept \/ StartupExit
  <2>1. PICK hs \in SUBSET {h \in Hashes : NeedsHead(h)} :
          /\ meta' = WithETags(hs) /\ objects' = objects
          /\ hs # {h \in Hashes : NeedsHead(h)} => up' = up /\ ~up
    BY <1>4 DEF StartupAccept, StartupExit
  <2>2. ASSUME NEW h \in Hashes, meta'[h] # None
        PROVE  /\ ETagOf(meta[h].etag, h)'
               /\ meta'[h].etag = Unset /\ meta'[h].checksum = Unset =>
                    ~up' /\ objects'[h].checksum = Unset
    <3>1. CASE h \in hs
      <4>1. meta[h] \in Records /\ objects[h] # None
        BY <2>1, <3>1 DEF NeedsHead, StoresTyped, RecordsTrue, Describes
      <4>2. meta'[h] = [meta[h] EXCEPT !.etag = parseInfo(objects[h]).etag]
        BY <2>1, <3>1 DEF WithETags
      <4>3. meta'[h].etag = ETag[objects[h].data] /\ meta'[h].etag # Unset
        BY <4>1, <4>2, ParsedETag DEF Records
      <4> QED BY <2>1, <4>3 DEF ETagOf
    <3>2. CASE h \notin hs
      <4>1. meta'[h] = meta[h]
        BY <2>1, <3>2 DEF WithETags
      <4>2. meta[h].etag = Unset => up' = up /\ ~up
        BY <2>1, <2>2, <3>2, <4>1 DEF NeedsHead
      <4> QED BY <1>2, <2>1, <2>2, <4>1, <4>2 DEF RecordsRestart, ETagOf, Tagged
    <3> QED BY <3>1, <3>2
  <2> QED BY <2>2 DEF RecordsRestart
<1>5. CASE Crash
  BY <1>5 DEF Crash, RecordsRestart, ETagOf
<1>6. CASE LatePut
  BY <1>6 DEF LatePut, WritesReady
<1> QED BY <1>3, <1>4, <1>5, <1>6 DEF Next

\* Every step keeps the restart invariant.
LEMMA NextRestart ==
  ASSUME ~PutsLandLate, ChecksumTellsSize, LegacyETagKept, RestartInv, [Next]_vars
  PROVE  RestartInv'
<1>1. DurableInv'
  BY NextDurable DEF RestartInv
<1>2. CASE UNCHANGED vars
  BY <1>1, <1>2 DEF vars, RestartInv, RecordsRestart, RequestRestart, ETagOf, Repairing
<1>3. CASE Next
  <2>1. ASSUME NEW p \in Procs, Request(p) \/ Step(p), NEW q \in Procs
        PROVE  RequestRestart(q)'
    <3>1. CASE q = p
      BY <1>3, <2>1, <3>1, PushRestart, RecordRestart, LegacyRestart, ReadRestart
      DEF Step
    <3>2. CASE q # p
      <4>1. Untouched(q)
        BY <2>1, <3>2, OthersUntouched DEF RestartInv, DurableInv, WriteInv, LockInv
      <4> QED BY <1>3, <4>1, StableRestart
    <3> QED BY <3>1, <3>2
  <2>2. ASSUME Crash, NEW q \in Procs PROVE RequestRestart(q)'
    BY <2>2 DEF Crash, RequestRestart, Repairing, InfoLabels, LegacyLabels, RecordLabels
  <2>3. ASSUME LatePut \/ StartupAccept \/ StartupExit, NEW p \in Procs
        PROVE  RequestRestart(p)'
    <3>1. ASSUME NEW q \in Procs PROVE Untouched(q)
      BY <2>3 DEF LatePut, StartupAccept, StartupExit, locals, Untouched
    <3> QED BY <1>3, <3>1, StableRestart
  <2>4. \A q \in Procs : RequestRestart(q)'
    BY <1>3, <2>1, <2>2, <2>3 DEF Next
  <2> QED BY <1>1, <1>3, <2>4, RecordsRestartStep DEF RestartInv
<1> QED BY <1>2, <1>3

\* Whatever an earlier release may have left, the server can be started on
\* it.
LEMMA InitRestart == LegacyETagKept /\ Init => RestartInv
<1> SUFFICES ASSUME LegacyETagKept, Init PROVE RestartInv
  OBVIOUS
<1>1. DurableInv
  BY InitDurable
<1>2. ASSUME NEW h \in Hashes, meta[h] # None
      PROVE  /\ ETagOf(meta[h].etag, h)
             /\ meta[h].checksum = Unset => ~up /\ objects[h].checksum = Unset
  <2>1. objects[h] # None /\ meta[h] \in InitRecords(objects[h]) /\ ~up
    BY <1>2 DEF Init
  <2>2. /\ meta[h].etag \in {Unset, parseInfo(objects[h]).etag}
        /\ meta[h].checksum = objects[h].checksum
    BY <2>1 DEF InitRecords
  <2> QED BY <1>1, <2>1, <2>2, ParsedETag DEF ETagOf
<1>3. \A p \in Procs : RequestRestart(p)
  BY DEF Init, RequestRestart, Repairing, InfoLabels, LegacyLabels, RecordLabels
<1> QED BY <1>1, <1>2, <1>3 DEF RestartInv, RecordsRestart

\* Whatever the moment of a crash, the startup validation accepts what the
\* records and the bucket then hold: VAPS can always be restarted
\* (startup_check.go:79-157, 344-367).
THEOREM AlwaysRestartable ==
  ~PutsLandLate /\ ChecksumTellsSize /\ LegacyETagKept =>
    (Spec => []RestartPossible)
<1> SUFFICES ASSUME ~PutsLandLate, ChecksumTellsSize, LegacyETagKept
             PROVE  Spec => []RestartPossible
  OBVIOUS
<1>1. RestartInv /\ [Next]_vars => RestartInv'
  BY NextRestart
<1>2. RestartInv => RestartPossible
  <2> SUFFICES ASSUME RestartInv, NEW h \in Hashes, meta[h] # None
               PROVE  ListValid(h) /\ HeadValid(h)
    BY DEF RestartPossible, StartupValid, ListValid, HeadValid, NeedsHead
  <2>1. Describes(meta[h], h) /\ DurableInv
    BY DEF RestartInv, DurableInv, RecordsTrue
  <2>2. ListValid(h)
    BY <2>1, ParsedETag DEF ListValid, Describes, RestartInv, RecordsRestart, ETagOf
  <2>3. HeadValid(h)
    BY <2>1 DEF HeadValid, NeedsHead, Describes, RestartInv, RecordsRestart
  <2> QED BY <2>2, <2>3
<1>3. Init => RestartInv
  BY InitRestart
<1> QED BY <1>1, <1>2, <1>3, PTL DEF Spec

(***************************************************************************)
(* Which kind of request is at which step.                                 *)
(***************************************************************************)

\* A step of a request returns or goes on with the same request.
LEMMA SameRequest ==
  ASSUME NEW p \in Procs, Step(p)
  PROVE  Free(p) \/ UNCHANGED <<op, hash>>
BY DEF Step, PushLock, PushHeadAbsent, PushHeadLegacy, PushHeadPresent,
  PushHeadError, PushPut, PushPutError, PublishLink, PublishEvict,
  CommitExists, CommitGet, CommitPut, CommitError, RecGet, RecHeadAbsent,
  RecHeadPresent, RecPut, LegacyOpen, LegacyReopen, LegacyPut, LegacyError,
  LegacyAbort, RangeExists, RangeHead, RangeGet, DiskExists, DiskOpen,
  RemoteHead, ETagPut, RemoteOpen, ReadError, Serve, RangeRefused, MarkGet,
  MarkPut, ExistsDisk, PushAbort, PushError, NotExist, Answer, locals

\* What others ask for is left alone.
LEMMA OthersAsk ==
  ASSUME TypedInv, NEW p \in Procs, Request(p) \/ Step(p), NEW q \in Procs, q # p
  PROVE  Untouched(q) /\ op'[q] = op[q]
<1>1. Untouched(q)
  <2>1. q \in Procs \ {p}
    OBVIOUS
  <2> QED BY <2>1, OthersUntouched
<1>2. \/ Free(p) \/ op' = op
      \/ \E o : op' = [op EXCEPT ![p] = o]
  <2>1. CASE Request(p)
    BY <2>1 DEF Request, StartPush, PullFromMemory, StartRead, locals
  <2> QED BY <2>1, SameRequest
<1>3. op'[q] = op[q]
  BY <1>2 DEF Free, RequestsTyped
<1> QED BY <1>1, <1>3

\* The kind goes with the step: pushes, and the migration they run; pulls and
\* exists requests, told apart by the caller of payloadRecord.
LEMMA StepOps ==
  ASSUME OpsInv, NEW p \in Procs, Step(p), ~Free(p)
  PROVE  OpShape(p)'
<1> USE DEF OpsInv, DurableInv, WriteInv, LockInv
<1>1. op' = op
  BY SameRequest
<1>2. OpShape(p)
  OBVIOUS
<1>3. pc[p] # "idle" => RequestShape(p)
  OBVIOUS
<1> USE DEF PushLabels, LegacyLabels, ReadLabels, RecordedLabels, PcLabels,
            RequestsTyped, OpShape
<1>4. CASE \/ PushLock(p) \/ PushHeadAbsent(p) \/ PushHeadLegacy(p)
           \/ PushHeadPresent(p) \/ PushHeadError(p) \/ PushPut(p)
           \/ PushPutError(p) \/ PublishLink(p) \/ PublishEvict(p)
  <2>1. /\ pc[p] \in PushLabels
        /\ \/ pc'[p] \in PushLabels
           \/ pc'[p] = "legOpen" /\ ret'[p] = "push"
    BY <1>4
    DEF PushLock, PushHeadAbsent, PushHeadLegacy, PushHeadPresent,
        PushHeadError, PushPut, PushPutError, PublishLink, PublishEvict,
        PushAbort, PushError, Answer
  <2> QED BY <1>1, <1>2, <2>1
<1>5. CASE CommitExists(p) \/ CommitGet(p) \/ CommitPut(p) \/ CommitError(p)
  <2>1. pc[p] \in PushLabels /\ pc'[p] \in PushLabels
    BY <1>5 DEF CommitExists, CommitGet, CommitPut, CommitError, PushError, Answer
  <2> QED BY <1>1, <1>2, <2>1
<1>6. CASE RecGet(p) \/ RecPut(p)
  <2>1. /\ pc[p] \in {"recGet", "recPut"} /\ ret[p] \in Callers \ {"push"}
        /\ \/ pc'[p] = "recHead" /\ ret' = ret
           \/ Return(p)
    BY <1>3, <1>6 DEF RecGet, RecPut, RequestShape
  <2>2. CASE Return(p)
    BY <1>1, <1>2, <2>1, <2>2 DEF Return, ReturnLabel, Callers
  <2> QED BY <1>1, <1>2, <2>1, <2>2
<1>7. CASE RecHeadAbsent(p) \/ RecHeadPresent(p)
  <2>1. /\ pc[p] = "recHead" /\ ret[p] \in Callers \ {"push"}
        /\ pc'[p] \in {"legOpen", "recPut"} /\ ret' = ret
    BY <1>3, <1>7 DEF RecHeadAbsent, RecHeadPresent, NotExist, Answer, RequestShape
  <2> QED BY <1>1, <1>2, <2>1
<1>8. CASE LegacyOpen(p) \/ LegacyReopen(p) \/ LegacyPut(p) \/ LegacyError(p)
  <2>1. /\ pc[p] \in LegacyLabels /\ ret' = ret
        /\ \/ pc'[p] \in {"legReopen", "legPut"}
           \/ pc'[p] = "link" /\ ret[p] = "push"
           \/ pc'[p] = "recPut" /\ ret[p] # "push"
    BY <1>8
    DEF LegacyOpen, LegacyReopen, LegacyPut, LegacyError, LegacyAbort,
        PushAbort, PushError, Answer
  <2> QED BY <1>1, <1>2, <2>1
<1>9. CASE RangeExists(p)
  <2>1. pc[p] = "rangeExists" /\ pc'[p] = "recGet" /\ ret'[p] \in {"range", "open1"}
    BY <1>9 DEF RangeExists
  <2> QED BY <1>1, <1>2, <2>1
<1>10. CASE \/ RangeHead(p) \/ RangeGet(p) \/ DiskExists(p) \/ DiskOpen(p)
            \/ RemoteHead(p) \/ ETagPut(p) \/ RemoteOpen(p) \/ ReadError(p)
            \/ Serve(p) \/ RangeRefused(p) \/ MarkGet(p) \/ MarkPut(p)
            \/ ExistsDisk(p)
  <2>1. /\ pc[p] \in RecordedLabels \ {"existsDisk"} /\ ret' = ret
        /\ pc'[p] \in RecordedLabels \ {"existsDisk"}
    BY <1>10
    DEF RangeHead, RangeGet, DiskExists, DiskOpen, RemoteHead, ETagPut,
        RemoteOpen, ReadError, Serve, RangeRefused, MarkGet, MarkPut,
        ExistsDisk, RecordETag, NotExist, Answer, locals
  <2> QED BY <1>1, <1>2, <2>1
<1> QED
  BY <1>4, <1>5, <1>6, <1>7, <1>8, <1>9, <1>10 DEF Step

\* No step mixes up kinds and steps.
LEMMA NextOps ==
  ASSUME ~PutsLandLate, ChecksumTellsSize, OpsInv, [Next]_vars
  PROVE  OpsInv'
<1>1. DurableInv'
  BY NextDurable DEF OpsInv
<1>2. ASSUME NEW q \in Procs, Untouched(q), op'[q] = op[q]
      PROVE  OpShape(q)'
  BY <1>2 DEF OpsInv, OpShape, Untouched
<1>3. ASSUME NEW p \in Procs, Request(p) \/ Step(p), NEW q \in Procs
      PROVE  OpShape(q)'
  <2>1. TypedInv
    BY DEF OpsInv, DurableInv, WriteInv, LockInv
  <2>2. CASE q # p
    BY <1>2, <1>3, <2>1, <2>2, OthersAsk
  <2>3. CASE q = p /\ Step(p)
    <3>1. CASE Free(p)
      BY <2>1, <2>3, <3>1 DEF Free, RequestsTyped, OpShape, PushLabels, LegacyLabels,
                        ReadLabels, RecordedLabels
    <3> QED BY <2>3, <3>1, StepOps
  <2>4. CASE q = p /\ Request(p)
    <3>1. /\ pc[p] = "idle"
          /\ \/ pc'[p] = "idle"
             \/ pc'[p] = "lock" /\ op'[p] \in PushOps
             \/ /\ pc'[p] \in {"rangeExists", "recGet"}
                /\ op'[p] \in PullOps \cup {"exists"}
                /\ ret'[p] = IF op'[p] = "exists" THEN "exists" ELSE "open1"
                /\ op'[p] = "exists" => pc'[p] = "recGet"
      <4>1. ASSUME NEW o \in PushOps, NEW h, NEW d, NEW c, StartPush(p, o, h, d, c)
            PROVE  <3>1
        BY <2>1, <4>1 DEF StartPush, RequestsTyped
      <4>2. ASSUME NEW o, NEW h, PullFromMemory(p, o, h)
            PROVE  <3>1
        BY <2>1, <4>2 DEF PullFromMemory
      <4>3. ASSUME NEW o, NEW h, StartRead(p, o, h)
            PROVE  <3>1
        BY <2>1, <4>3 DEF StartRead, RequestsTyped, PullOps
      <4> QED BY <2>4, <4>1, <4>2, <4>3 DEF Request
    <3> QED
      BY <2>4, <3>1 DEF OpShape, PushLabels, LegacyLabels, ReadLabels, RecordedLabels,
                  PullOps
  <2> QED BY <1>3, <2>2, <2>3, <2>4
<1>4. ASSUME LatePut \/ StartupAccept \/ StartupExit \/ UNCHANGED vars,
             NEW q \in Procs
      PROVE  OpShape(q)'
  BY <1>2, <1>4 DEF LatePut, StartupAccept, StartupExit, locals, vars, Untouched
<1>5. ASSUME Crash, NEW q \in Procs PROVE OpShape(q)'
  BY <1>5 DEF Crash, OpShape, PushLabels, LegacyLabels, ReadLabels, RecordedLabels
<1>6. \A q \in Procs : OpShape(q)'
  BY <1>3, <1>4, <1>5 DEF Next
<1> QED BY <1>1, <1>6 DEF OpsInv

\* Nobody asks for anything at first.
LEMMA InitOps == Init => OpsInv
<1> SUFFICES ASSUME Init PROVE OpsInv
  OBVIOUS
<1>1. DurableInv
  BY InitDurable
<1>2. \A p \in Procs : OpShape(p)
  BY DEF Init, OpShape, PushLabels, LegacyLabels, ReadLabels, RecordedLabels
<1> QED BY <1>1, <1>2 DEF OpsInv


(***************************************************************************)
(* PayloadService implements PayloadPromise.                               *)
(***************************************************************************)

\* What PayloadPromise sees: contents, open requests, pulls that are about to
\* open a file, the last response.
ContentOf == [h \in Hashes |-> IF objects[h] = None THEN None ELSE objects[h].data]
AskedOf == [p \in Procs |-> Asked(p)]
FoundOf == {p \in Procs : pc[p] = "diskOpen"}

\* Steps at which a request has not been answered yet.
OpenLabels == PcLabels \ {"idle", "markGet", "markPut"}

\* The mapping takes a state of the service to what is seen of it.
LEMMA SameView ==
  /\ Promise!visible = <<ContentOf, AskedOf, FoundOf, answer>>
  /\ Promise!visible' = <<ContentOf, AskedOf, FoundOf, answer>>'
BY DEF Promise!visible, ContentOf, AskedOf, FoundOf

\* What a hash holds there is what S3 holds here.
LEMMA SameContent ==
  ASSUME TypedInv, NEW h \in Hashes
  PROVE  /\ ContentOf[h] # None <=> objects[h] # None
         /\ \A d : Promise!Holds(h, d) <=> Agrees(d, h)
<1>1. objects[h] # None => objects[h].data \in Data
  BY DEF StoresTyped, Objects
<1>2. ContentOf[h] # None <=> objects[h] # None
  BY <1>1, NoneAssumption DEF ContentOf
<1>3. \A d : Promise!Holds(h, d) <=> Agrees(d, h)
  BY <1>2 DEF Promise!Holds, Agrees, ContentOf
<1> QED BY <1>2, <1>3

\* An open request is what its handler's local variables say.
LEMMA OpenRequest ==
  ASSUME TypedInv, NEW p \in Procs, pc[p] \in OpenLabels
  PROVE  /\ hash[p] \in Hashes /\ op[p] \in AllOps
         /\ Asked(p) # None
         /\ Asked(p).op = op[p] /\ Asked(p).hash = hash[p]
         /\ op[p] \in PushOps => Asked(p).data = body[p]
<1>1. hash[p] \in Hashes /\ op[p] \in AllOps
  BY DEF RequestShape, OpenLabels
<1>2. body[p] \in Data \cup {None}
  BY DEF RequestsTyped
<1>3. Asked(p) = [op |-> op[p], hash |-> hash[p],
                  data |-> IF op[p] \in PushOps THEN body[p] ELSE None]
  BY DEF Asked, OpenLabels
<1>4. Asked(p) \in Asks
  BY <1>1, <1>2, <1>3 DEF Asks
<1> QED BY <1>1, <1>3, <1>4, NoneAssumption

\* A step that nobody sees.
Silent(p) == answer' = None /\ Asked(p)' = Asked(p)

\* A step that answers p with a code and a content.
Replies(p, code, d) ==
  /\ pc[p] \in OpenLabels /\ pc'[p] \in {"idle", "markGet"}
  /\ answer' = Sent(op[p], hash[p], code, d)
  /\ code \in Codes /\ d \in Data \cup {None}

\* A response is one, and closes the request.
LEMMA ReplyStep ==
  ASSUME TypedInv, NEW p \in Procs, Request(p) \/ Step(p), NEW code, NEW d,
         Replies(p, code, d)
  PROVE  Promise!Close(p)
<1>1. op[p] \in AllOps /\ hash[p] \in Hashes /\ Asked(p) # None
  BY OpenRequest DEF Replies
<1>2. answer' \in Answers
  BY <1>1 DEF Replies, Sent, Answers
<1>3. Asked(p)' = None /\ pc'[p] # "diskOpen"
  BY DEF Replies, Asked
<1>4. ASSUME NEW q \in Procs, q # p
      PROVE  Asked(q)' = Asked(q) /\ pc'[q] = pc[q]
  BY <1>4, OthersAsk DEF Asked, Untouched
<1>5. AskedOf' = [AskedOf EXCEPT ![p] = None]
  BY <1>3, <1>4 DEF AskedOf
<1>6. FoundOf' = FoundOf \ {p}
  BY <1>3, <1>4 DEF FoundOf
<1>7. AskedOf[p] # None
  BY <1>1 DEF AskedOf
<1> QED BY <1>2, <1>5, <1>6, <1>7, NoneAssumption DEF Promise!Close, AskedOf, FoundOf

\* A failure may always be reported.
LEMMA FailureIsRight ==
  ASSUME TypedInv, NEW p \in Procs, pc[p] \in OpenLabels,
         NEW code \in Promise!Failures
  PROVE  Promise!Right(Asked(p), Sent(op[p], hash[p], code, None))
BY OpenRequest DEF Promise!Right, Promise!Failed, Promise!Failures, Sent

\* An acknowledged push is what S3 holds, a refused one is not.
LEMMA PushIsRight ==
  ASSUME TypedInv, NEW p \in Procs, pc[p] \in OpenLabels, op[p] \in PushOps,
         NEW code, \/ code \in {"200", "201"} /\ Agrees(body[p], hash[p])
                   \/ /\ code = "409" /\ objects[hash[p]] # None
                      /\ ~Agrees(body[p], hash[p])
  PROVE  Promise!Right(Asked(p), Sent(op[p], hash[p], code, None))
<1>1. /\ hash[p] \in Hashes /\ Asked(p).op = op[p] /\ Asked(p).hash = hash[p]
      /\ Asked(p).data = body[p]
  BY OpenRequest
<1>2. /\ ContentOf[hash[p]] # None <=> objects[hash[p]] # None
      /\ Promise!Holds(hash[p], body[p]) <=> Agrees(body[p], hash[p])
  BY <1>1, SameContent
<1>3. Promise!PushRight(Asked(p), Sent(op[p], hash[p], code, None))
  BY <1>1, <1>2 DEF Promise!PushRight, Sent, ContentOf
<1> QED BY <1>1, <1>3 DEF Promise!Right, Sent

\* A pull is served what S3 holds, or nothing if S3 holds nothing.
LEMMA PullIsRight ==
  ASSUME TypedInv, NEW p \in Procs, pc[p] \in OpenLabels, op[p] \in PullOps,
         NEW code, NEW d,
         \/ code = "200" /\ Agrees(d, hash[p])
         \/ code = "404" /\ d = None /\ objects[hash[p]] = None
  PROVE  Promise!Right(Asked(p), Sent(op[p], hash[p], code, d))
<1>1. hash[p] \in Hashes /\ Asked(p).op = op[p] /\ Asked(p).hash = hash[p]
  BY OpenRequest
<1>2. /\ ContentOf[hash[p]] # None <=> objects[hash[p]] # None
      /\ Promise!Holds(hash[p], d) <=> Agrees(d, hash[p])
  BY <1>1, SameContent
<1>3. Promise!PullRight(Asked(p), Sent(op[p], hash[p], code, d))
  BY <1>1, <1>2 DEF Promise!PullRight, Sent, ContentOf
<1> QED BY <1>1, <1>3 DEF Promise!Right, Sent

\* An exists request is told whether S3 holds something.
LEMMA ExistsIsRight ==
  ASSUME TypedInv, NEW p \in Procs, pc[p] \in OpenLabels, op[p] = "exists",
         NEW code, \/ code = "200" /\ objects[hash[p]] # None
                   \/ code = "absent" /\ objects[hash[p]] = None
  PROVE  Promise!Right(Asked(p), Sent(op[p], hash[p], code, None))
<1>1. hash[p] \in Hashes /\ Asked(p).op = op[p] /\ Asked(p).hash = hash[p]
  BY OpenRequest
<1>2. ContentOf[hash[p]] # None <=> objects[hash[p]] # None
  BY <1>1, SameContent
<1>3. Promise!ExistsRight(Asked(p), Sent(op[p], hash[p], code, None))
  BY <1>1, <1>2 DEF Promise!ExistsRight, Sent, ContentOf
<1> QED BY <1>1, <1>3 DEF Promise!Right, Sent


\* A pull does not find the file it is about to open.
Misses(p) == pc[p] = "diskOpen" /\ Replies(p, "404", None)

\* A step of p is not seen, or it is a response that is right, or it misses.
Outcome(p) ==
  \/ Silent(p)
  \/ \E code, d : /\ Replies(p, code, d)
                  /\ Promise!Right(Asked(p), Sent(op[p], hash[p], code, d))
  \/ Misses(p)

\* A request that goes on asks for the same.
LEMMA GoesOn ==
  ASSUME NEW p \in Procs, answer' = None, pc[p] \in OpenLabels,
         pc'[p] \in OpenLabels, UNCHANGED <<op, hash>>,
         body'[p] = body[p] \/ op[p] \notin PushOps
  PROVE  Outcome(p)
BY DEF Outcome, Silent, Asked, OpenLabels

\* The handler's answer is a response.
LEMMA AnswerReplies ==
  ASSUME TypedInv, NEW p \in Procs, pc[p] \in OpenLabels,
         NEW code \in Codes, NEW d \in Data \cup {None}, Answer(p, code, d)
  PROVE  Replies(p, code, d)
BY DEF Answer, Respond, Free, Replies, RequestsTyped

\* A handler that reports a failure.
LEMMA Fails ==
  ASSUME TypedInv, NEW p \in Procs, pc[p] \in OpenLabels,
         NEW code \in {"400", "416", "500"}, Answer(p, code, None)
  PROVE  Outcome(p)
<1>1. Replies(p, code, None)
  BY AnswerReplies DEF Codes
<1>2. code \in Promise!Failures
  BY DEF Promise!Failures
<1> QED BY <1>1, <1>2, FailureIsRight DEF Outcome

\* A push that reports a failure, or a conflict there is.
LEMMA PushFails ==
  ASSUME TypedInv, NEW p \in Procs, pc[p] \in OpenLabels, op[p] \in PushOps,
         NEW code \in {"409", "500"}, PushError(p, code),
         code = "409" => objects[hash[p]] # None /\ ~Agrees(body[p], hash[p])
  PROVE  Outcome(p)
<1>1. CASE op[p] = "tus" \/ code = "500"
  BY <1>1, Fails DEF PushError
<1>2. CASE op[p] # "tus" /\ code = "409"
  <2>1. Replies(p, "409", None)
    BY <1>2, AnswerReplies DEF PushError, Codes
  <2> QED BY <1>2, <2>1, PushIsRight DEF Outcome
<1> QED BY <1>1, <1>2

\* putPayloadDurably: 409 only if S3 holds another payload.
LEMMA PushSeen ==
  ASSUME OpsInv, NEW p \in Procs,
         \/ PushLock(p) \/ PushHeadAbsent(p) \/ PushHeadLegacy(p)
         \/ PushHeadPresent(p) \/ PushHeadError(p) \/ PushPut(p)
         \/ PushPutError(p) \/ PublishLink(p) \/ PublishEvict(p)
  PROVE  Outcome(p)
<1> USE DEF OpsInv, DurableInv, WriteInv, LockInv
<1>1. /\ pc[p] \in PushLabels /\ pc[p] \in OpenLabels /\ op[p] \in PushOps
      /\ hash[p] \in Hashes
  BY DEF PushLock, PushHeadAbsent, PushHeadLegacy, PushHeadPresent,
         PushHeadError, PushPut, PushPutError, PublishLink, PublishEvict,
         PushLabels, OpenLabels, PcLabels, OpShape, RequestShape
<1>2. CASE /\ answer' = None /\ UNCHANGED <<op, hash, body>>
           /\ pc'[p] \in {"head", "put", "legOpen", "link", "evict", "commitExists"}
  BY <1>1, <1>2, GoesOn DEF OpenLabels, PcLabels
<1>3. CASE /\ PushHeadPresent(p) /\ PushAbort(p, "409")
           /\ ~SameIdentity(parseInfo(objects[hash[p]]), body[p])
  <2>1. objects[hash[p]] # None /\ Migrated(hash[p])
    BY <1>1, <1>3 DEF PushHeadPresent, ObjectsTrue
  <2>2. ~Agrees(body[p], hash[p])
    BY <1>3, <2>1 DEF Migrated, Agrees, SameIdentity, parseInfo
  <2> QED BY <1>1, <1>3, <2>1, <2>2, PushFails DEF PushAbort
<1>4. CASE PushHeadError(p) \/ PushPutError(p)
  BY <1>1, <1>4, PushFails DEF PushHeadError, PushPutError, PushAbort
<1>5. CASE PushPut(p)
  <2>1. PICK i : rem' = [rem EXCEPT ![p] = i]
    BY <1>5 DEF PushPut
  <2> QED BY <1>2, <1>5 DEF PushPut, RequestsTyped
<1> QED
  BY <1>2, <1>3, <1>4, <1>5
  DEF PushLock, PushHeadAbsent, PushHeadLegacy, PushHeadPresent, PublishLink,
      PublishEvict, RequestsTyped, locals

\* commitPayloadMetadata: a push is acknowledged only if S3 holds its payload.
LEMMA CommitSeen ==
  ASSUME OpsInv, NEW p \in Procs,
         CommitExists(p) \/ CommitGet(p) \/ CommitPut(p) \/ CommitError(p)
  PROVE  Outcome(p)
<1> USE DEF OpsInv, DurableInv, WriteInv, LockInv
<1>1. /\ pc[p] \in StoredLabels /\ pc[p] \in OpenLabels /\ op[p] \in PushOps
  BY DEF CommitExists, CommitGet, CommitPut, CommitError, StoredLabels,
         PushLabels, OpenLabels, PcLabels, OpShape
<1>2. CASE /\ answer' = None /\ UNCHANGED <<op, hash, body>>
           /\ pc'[p] \in {"commitGet", "commitPut"}
  BY <1>1, <1>2, GoesOn DEF OpenLabels, PcLabels
<1>3. CASE PushError(p, "500")
  BY <1>1, <1>3, PushFails
<1>4. CASE CommitPut(p)
  <2>1. CASE Answer(p, "400", None)
    BY <1>1, <2>1, Fails
  <2>2. ASSUME NEW code \in {"200", "201"}, Answer(p, code, None)
        PROVE  Outcome(p)
    <3>1. Replies(p, code, None)
      BY <1>1, <2>2, AnswerReplies DEF Codes
    <3>2. Agrees(body[p], hash[p])
      BY <1>1 DEF RequestsTrue, RequestTrue
    <3> QED BY <1>1, <3>1, <3>2, PushIsRight DEF Outcome
  <2> QED BY <1>4, <2>1, <2>2 DEF CommitPut
<1> QED
  BY <1>2, <1>3, <1>4 DEF CommitExists, CommitGet, CommitError, RequestsTyped

\* payloadRecord: "absent" only if S3 holds nothing.
LEMMA RecordSeen ==
  ASSUME OpsInv, NEW p \in Procs,
         RecGet(p) \/ RecHeadAbsent(p) \/ RecHeadPresent(p) \/ RecPut(p)
  PROVE  Outcome(p)
<1> USE DEF OpsInv, DurableInv, WriteInv, LockInv
<1>1. /\ pc[p] \in ReadLabels /\ pc[p] \in OpenLabels
      /\ op[p] \in PullOps \cup {"exists"} /\ ret[p] \in Callers \ {"push"}
  BY DEF RecGet, RecHeadAbsent, RecHeadPresent, RecPut, ReadLabels, PushLabels,
         LegacyLabels, OpenLabels, PcLabels, OpShape, RequestShape
<1>2. CASE RecHeadAbsent(p)
  <2>1. CASE Answer(p, "500", None)
    BY <1>1, <2>1, Fails
  <2>2. CASE NotExist(p) /\ op[p] = "exists"
    <3>1. Replies(p, "absent", None) /\ objects[hash[p]] = None
      BY <1>1, <1>2, <2>2, AnswerReplies DEF NotExist, RecHeadAbsent, Codes
    <3> QED BY <1>1, <2>2, <3>1, ExistsIsRight DEF Outcome
  <2>3. CASE NotExist(p) /\ op[p] # "exists"
    <3>1. Replies(p, "404", None) /\ objects[hash[p]] = None
      BY <1>1, <1>2, <2>3, AnswerReplies DEF NotExist, RecHeadAbsent, Codes
    <3> QED BY <1>1, <2>3, <3>1, PullIsRight DEF Outcome
  <2> QED BY <1>2, <2>1, <2>2, <2>3 DEF RecHeadAbsent
<1>3. CASE RecGet(p) \/ RecHeadPresent(p) \/ RecPut(p)
  <2>1. answer' = None /\ UNCHANGED <<op, hash, body>>
    BY <1>3 DEF RecGet, RecHeadPresent, RecPut, Return
  <2>2. pc'[p] \in {"recGet", "recHead", "recPut", "legOpen", "diskExists",
                    "rangeHead", "existsDisk"}
    BY <1>1, <1>3
    DEF RecGet, RecHeadPresent, RecPut, Return, ReturnLabel, Callers, RequestsTyped
  <2> QED BY <1>1, <2>1, <2>2, GoesOn DEF OpenLabels, PcLabels
<1> QED BY <1>2, <1>3

\* reconcileLegacyObject: 409 only if the object is another payload.
LEMMA LegacySeen ==
  ASSUME OpsInv, NEW p \in Procs,
         LegacyOpen(p) \/ LegacyReopen(p) \/ LegacyPut(p) \/ LegacyError(p)
  PROVE  Outcome(p)
<1> USE DEF OpsInv, DurableInv, WriteInv, LockInv
<1>1. /\ pc[p] \in OpenLabels
      /\ ret[p] = "push" => op[p] \in PushOps
  BY DEF LegacyOpen, LegacyReopen, LegacyPut, LegacyError, LegacyLabels,
         OpenLabels, PcLabels, OpShape
<1>2. CASE /\ answer' = None /\ UNCHANGED <<op, hash, body>>
           /\ pc'[p] \in {"legReopen", "legPut", "link", "recPut"}
  BY <1>1, <1>2, GoesOn DEF OpenLabels, PcLabels
<1>3. CASE LegacyAbort(p, "500")
  BY <1>1, <1>3, PushFails, Fails DEF LegacyAbort, PushAbort
<1>4. CASE /\ LegacyAbort(p, "409") /\ ret[p] = "push"
           /\ objects[hash[p]] # None
           /\ Checksum[objects[hash[p]].data] # Checksum[body[p]]
  BY <1>1, <1>4, PushFails DEF LegacyAbort, PushAbort, Agrees
<1>5. CASE LegacyPut(p)
  BY <1>2, <1>5 DEF LegacyPut, RequestsTyped
<1> QED
  BY <1>2, <1>3, <1>4, <1>5 DEF LegacyOpen, LegacyReopen, LegacyError, RequestsTyped

\* Pulls up to their response.
LEMMA ReadSeen ==
  ASSUME OpsInv, NEW p \in Procs,
         \/ RangeExists(p) \/ RangeHead(p) \/ RangeGet(p) \/ DiskExists(p)
         \/ DiskOpen(p) \/ RemoteHead(p) \/ ETagPut(p) \/ RemoteOpen(p)
         \/ ReadError(p)
  PROVE  Outcome(p)
<1> USE DEF OpsInv, DurableInv, WriteInv, LockInv
<1>1. /\ pc[p] \in ReadLabels /\ pc[p] \in OpenLabels /\ op[p] \notin PushOps
  BY DEF RangeExists, RangeHead, RangeGet, DiskExists, DiskOpen, RemoteHead,
         ETagPut, RemoteOpen, ReadError, ReadLabels, PushLabels, LegacyLabels,
         OpenLabels, PcLabels, OpShape, PushOps, PullOps
<1>2. CASE /\ answer' = None /\ UNCHANGED <<op, hash>>
           /\ pc'[p] \in {"recGet", "rangeGet", "serve", "etagPut", "remHead",
                          "diskOpen", "remOpen"}
  BY <1>1, <1>2, GoesOn DEF OpenLabels, PcLabels
<1>3. CASE Answer(p, "500", None)
  BY <1>1, <1>3, Fails
<1>4. CASE DiskOpen(p) /\ NotExist(p)
  <2>1. op[p] \in PullOps
    BY <1>1, <1>4 DEF DiskOpen, OpShape, RecordedLabels
  <2>2. Replies(p, "404", None)
    BY <1>1, <1>4, <2>1, AnswerReplies DEF NotExist, Codes, PullOps
  <2> QED BY <1>4, <2>2 DEF Outcome, Misses, DiskOpen
<1> QED
  BY <1>2, <1>3, <1>4
  DEF RangeExists, RangeHead, RangeGet, DiskExists, DiskOpen, RemoteHead,
      ETagPut, RemoteOpen, ReadError, RecordETag, RequestsTyped, locals

\* Responses of pulls and exists requests.
LEMMA ResponseSeen ==
  ASSUME OpsInv, NEW p \in Procs,
         \/ Serve(p) \/ RangeRefused(p) \/ MarkGet(p) \/ MarkPut(p)
         \/ ExistsDisk(p)
  PROVE  Outcome(p)
<1> USE DEF OpsInv, DurableInv, WriteInv, LockInv
<1>1. CASE Serve(p)
  <2>1. /\ pc[p] = "serve" /\ pc[p] \in OpenLabels /\ op[p] \in PullOps
        /\ hash[p] \in Hashes /\ body[p] \in Data
    BY <1>1 DEF Serve, OpShape, RequestShape, ReadLabels, PushLabels, LegacyLabels,
                RecordedLabels, ContentLabels, OpenLabels, PcLabels
  <2>2. Replies(p, "200", body[p])
    BY <1>1, <2>1, AnswerReplies DEF Serve, Replies, Respond, RequestsTyped, Codes
  <2>3. Agrees(body[p], hash[p])
    BY <2>1 DEF RequestsTrue, RequestTrue
  <2> QED BY <2>1, <2>2, <2>3, PullIsRight DEF Outcome
<1>2. CASE RangeRefused(p)
  <2>1. pc[p] \in OpenLabels
    BY <1>2 DEF RangeRefused, OpenLabels, PcLabels
  <2> QED BY <1>2, <2>1, Fails DEF RangeRefused
<1>3. CASE MarkGet(p) \/ MarkPut(p)
  <2>1. /\ pc[p] \in {"markGet", "markPut"} /\ answer' = None
        /\ pc'[p] \in {"markPut", "idle"}
    BY <1>3 DEF MarkGet, MarkPut, Free, RequestsTyped
  <2> QED BY <2>1 DEF Outcome, Silent, Asked
<1>4. CASE ExistsDisk(p)
  <2>1. /\ pc[p] = "existsDisk" /\ pc[p] \in OpenLabels /\ op[p] = "exists"
        /\ hash[p] \in Hashes
    BY <1>4 DEF ExistsDisk, OpShape, RequestShape, ReadLabels, PushLabels,
                LegacyLabels, RecordedLabels, OpenLabels, PcLabels
  <2>2. CASE Answer(p, "500", None)
    BY <2>1, <2>2, Fails
  <2>3. CASE Answer(p, "200", None)
    <3>1. Replies(p, "200", None)
      BY <2>1, <2>3, AnswerReplies DEF Codes
    <3>2. Recorded(hash[p])
      BY <2>1 DEF RequestsTrue, RequestTrue, RecordedLabels
    <3>3. objects[hash[p]] # None
      BY <2>1, <3>2 DEF Recorded, RecordsTrue, Describes
    <3> QED BY <2>1, <3>1, <3>3, ExistsIsRight DEF Outcome
  <2> QED BY <1>4, <2>2, <2>3 DEF ExistsDisk
<1> QED BY <1>1, <1>2, <1>3, <1>4


\* Only a creating PutObject of a push changes what S3 holds, and it writes
\* what the push was asked to.
LEMMA ContentStep ==
  ASSUME ~PutsLandLate, OpsInv, NEW p \in Procs, Request(p) \/ Step(p)
  PROVE  \/ ContentOf' = ContentOf
         \/ /\ PushPut(p) \/ PushPutError(p)
            /\ objects[hash[p]] = None
            /\ ContentOf' = [ContentOf EXCEPT ![hash[p]] = body[p]]
<1> USE DEF OpsInv, DurableInv, WriteInv, LockInv
<1>1. CASE objects' = objects
  BY <1>1 DEF ContentOf
<1>2. CASE PushPut(p) \/ PushPutError(p)
  <2>1. /\ hash[p] \in Hashes /\ body[p] \in Data /\ objects[hash[p]] = None
    BY <1>2 DEF PushPut, PushPutError, RequestShape, ContentLabels, PushLabels,
                WritesReady, WriteReady
  <2>2. CASE objects' = [objects EXCEPT ![hash[p]] = Object(body[p], Checksum[body[p]])]
    <3>1. Object(body[p], Checksum[body[p]]) # None
      BY <2>1, ConstantsAssumption, NoneAssumption DEF Object, Objects
    <3>2. \A h \in Hashes :
            ContentOf'[h] = IF h = hash[p] THEN body[p] ELSE ContentOf[h]
      BY <2>1, <2>2, <3>1 DEF ContentOf, Object, StoresTyped
    <3>3. ContentOf' = [ContentOf EXCEPT ![hash[p]] = body[p]]
      BY <3>2 DEF ContentOf
    <3> QED BY <1>2, <2>1, <3>3
  <2> QED
    BY <1>1, <1>2, <2>2 DEF PushPut, PushPutError, PutFailed, PutApplied
<1>3. CASE LegacyPut(p) \/ LegacyError(p)
  <2>1. \/ objects' = objects
        \/ /\ pc[p] = "legPut"
           /\ objects' = [objects EXCEPT ![hash[p]] =
                            Object(src[p], rem[p].checksum)]
    BY <1>3 DEF LegacyPut, LegacyError, PutFailed, PutApplied
  <2>2. CASE /\ pc[p] = "legPut"
             /\ objects' = [objects EXCEPT ![hash[p]] =
                              Object(src[p], rem[p].checksum)]
    <3>1. /\ hash[p] \in Hashes /\ src[p] \in Data
          /\ objects[hash[p]] # None /\ objects[hash[p]].data = src[p]
          /\ rem[p].checksum = Checksum[src[p]]
      BY <2>2 DEF RequestShape, LegacyLabels, WritesReady, WriteReady,
                  RequestsTrue, RequestTrue
    <3>2. Object(src[p], rem[p].checksum) # None
      BY <3>1, ConstantsAssumption, NoneAssumption DEF Object, Objects
    <3>3. \A h \in Hashes : ContentOf'[h] = ContentOf[h]
      BY <2>2, <3>1, <3>2 DEF ContentOf, Object, StoresTyped
    <3> QED BY <3>3 DEF ContentOf
  <2> QED BY <1>1, <2>1, <2>2
<1>4. CASE ~PushPut(p) /\ ~PushPutError(p) /\ ~LegacyPut(p) /\ ~LegacyError(p)
  <2>1. objects' = objects
    BY <1>4
    DEF Request, StartPush, PullFromMemory, StartRead, Step, PushLock,
        PushHeadAbsent, PushHeadLegacy, PushHeadPresent, PushHeadError,
        PublishLink, PublishEvict, CommitExists, CommitGet, CommitPut,
        CommitError, RecGet, RecHeadAbsent, RecHeadPresent, RecPut, LegacyOpen,
        LegacyReopen, RangeExists, RangeHead, RangeGet, DiskExists, DiskOpen,
        RemoteHead, ETagPut, RemoteOpen, ReadError, Serve, RangeRefused, MarkGet,
        MarkPut, ExistsDisk, stores
  <2> QED BY <1>1, <2>1
<1> QED BY <1>2, <1>3, <1>4

\* A request that goes on, or that has been answered before.
LEMMA SilentOthers ==
  ASSUME TypedInv, NEW p \in Procs, Request(p) \/ Step(p), Silent(p)
  PROVE  /\ AskedOf' = AskedOf
         /\ FoundOf' \in {FoundOf, FoundOf \cup {p}, FoundOf \ {p}}
<1>1. ASSUME NEW q \in Procs PROVE Asked(q)' = Asked(q)
  BY OthersAsk DEF Silent, Asked, Untouched
<1>2. ASSUME NEW q \in Procs, q # p PROVE pc'[q] = pc[q]
  BY <1>2, OthersAsk DEF Untouched
<1> QED BY <1>1, <1>2 DEF AskedOf, FoundOf

\* What a pull that has found a file relies on.
FoundAreThere ==
  \A p \in FoundOf :
    /\ AskedOf[p] # None /\ AskedOf[p].op \in PullOps
    /\ ContentOf[AskedOf[p].hash] # None

\* A pull that has found a file pulls a payload that is there.
LEMMA FoundIsThere == OpsInv => FoundAreThere
<1> USE DEF OpsInv, DurableInv, WriteInv, LockInv
<1> SUFFICES ASSUME OpsInv, NEW p \in FoundOf
             PROVE  /\ AskedOf[p] # None /\ AskedOf[p].op \in PullOps
                    /\ ContentOf[AskedOf[p].hash] # None
  BY DEF FoundAreThere
<1>1. p \in Procs /\ pc[p] = "diskOpen" /\ pc[p] \in OpenLabels
  BY DEF FoundOf, OpenLabels, PcLabels
<1>2. op[p] \in PullOps
  BY <1>1 DEF OpShape, RecordedLabels, ReadLabels, PushLabels, LegacyLabels, PcLabels
<1>3. objects[hash[p]] # None
  BY <1>1 DEF RequestsTrue, RequestTrue, RecordLabels, Describes
<1>4. /\ AskedOf[p] # None /\ AskedOf[p].op = op[p] /\ AskedOf[p].hash = hash[p]
      /\ hash[p] \in Hashes
  BY <1>1, OpenRequest DEF AskedOf
<1> QED BY <1>2, <1>3, <1>4, SameContent

\* The steps of a request.
LEMMA StepSeen ==
  ASSUME ~PutsLandLate, OpsInv, OpsInv', NEW p \in Procs, Step(p)
  PROVE  Promise!Next
<1>1. TypedInv
  BY DEF OpsInv, DurableInv, WriteInv, LockInv
<1>2. Outcome(p)
  BY PushSeen, CommitSeen, RecordSeen, LegacySeen, ReadSeen, ResponseSeen DEF Step
<1>3. Silent(p) =>
        /\ answer' = None /\ AskedOf' = AskedOf
        /\ FoundOf' \in {FoundOf, FoundOf \cup {p}, FoundOf \ {p}}
  BY <1>1, SilentOthers DEF Silent
<1>4. ASSUME NEW code, NEW d, Replies(p, code, d)
      PROVE  Promise!Close(p)
  BY <1>1, <1>4, ReplyStep
<1>5. CASE ContentOf' = ContentOf
  <2>1. CASE Silent(p) /\ FoundOf' = FoundOf
    <3>1. Promise!Quiet
      BY <1>3, <1>5, <2>1 DEF Promise!Quiet, ContentOf, AskedOf, FoundOf
    <3> QED BY <3>1 DEF Promise!Next
  <2>2. CASE Silent(p) /\ FoundOf' # FoundOf /\ FoundOf' = FoundOf \cup {p}
    <3>0. FoundAreThere'
      BY FoundIsThere, PTL
    <3>1. /\ AskedOf'[p] # None /\ AskedOf'[p].op \in PullOps
          /\ ContentOf'[AskedOf'[p].hash] # None
      BY <2>2, <3>0 DEF FoundAreThere
    <3>2. /\ AskedOf[p] # None /\ AskedOf[p].op \in PullOps
          /\ ContentOf[AskedOf[p].hash] # None
      BY <1>3, <1>5, <2>2, <3>1
    <3>3. Promise!Find(p)
      BY <1>3, <1>5, <2>2, <3>2 DEF Promise!Find, ContentOf, AskedOf, FoundOf
    <3> QED BY <3>3 DEF Promise!Next
  <2>3. CASE Silent(p) /\ FoundOf' # FoundOf /\ FoundOf' = FoundOf \ {p}
    <3>1. p \in FoundOf
      BY <2>3
    <3>2. Promise!Open(p)
      BY <1>3, <1>5, <2>3, <3>1 DEF Promise!Open, ContentOf, AskedOf, FoundOf
    <3> QED BY <3>2 DEF Promise!Next
  <2>4. ASSUME NEW code, NEW d, Replies(p, code, d),
               Promise!Right(Asked(p), Sent(op[p], hash[p], code, d))
        PROVE  Promise!Next
    <3>1. Promise!Right(AskedOf[p], answer')
      BY <2>4 DEF Replies, AskedOf
    <3>2. Promise!End(p)
      BY <1>4, <1>5, <2>4, <3>1 DEF Promise!End, ContentOf, AskedOf
    <3> QED BY <3>2 DEF Promise!Next
  <2>5. CASE Misses(p)
    <3>1. /\ p \in FoundOf /\ Promise!Close(p)
          /\ answer' = Sent(op[p], hash[p], "404", None)
          /\ AskedOf[p].op = op[p] /\ AskedOf[p].hash = hash[p]
      BY <1>1, <1>4, <2>5, OpenRequest DEF Misses, Replies, FoundOf, AskedOf
    <3>2. Promise!Miss(p)
      BY <1>5, <3>1 DEF Promise!Miss, Sent, ContentOf, AskedOf, FoundOf
    <3> QED BY <3>2 DEF Promise!Next
  <2> QED BY <1>2, <1>3, <2>1, <2>2, <2>3, <2>4, <2>5 DEF Outcome
<1>6. CASE /\ PushPut(p) \/ PushPutError(p)
           /\ objects[hash[p]] = None
           /\ ContentOf' = [ContentOf EXCEPT ![hash[p]] = body[p]]
  <2>1. /\ pc[p] = "put" /\ pc[p] \in OpenLabels /\ op[p] \in PushOps
    BY <1>6 DEF PushPut, PushPutError, OpenLabels, PcLabels, OpsInv, OpShape, PushLabels
  <2>2. /\ Asked(p) # None /\ Asked(p).op = op[p] /\ Asked(p).hash = hash[p]
        /\ Asked(p).data = body[p] /\ hash[p] \in Hashes
    BY <1>1, <2>1, OpenRequest
  <2>3. /\ AskedOf[p] # None /\ AskedOf[p].op \in PushOps
        /\ ContentOf[AskedOf[p].hash] = None
        /\ ContentOf' = [ContentOf EXCEPT ![AskedOf[p].hash] = AskedOf[p].data]
    BY <1>1, <1>6, <2>1, <2>2, SameContent DEF AskedOf
  <2>4. \/ answer' = None /\ AskedOf' = AskedOf /\ FoundOf' = FoundOf
        \/ /\ Promise!Close(p) /\ Promise!Right(AskedOf[p], answer')
           /\ Promise!Failed(answer')
    <3>1. CASE PushPut(p)
      <4>1. answer' = None /\ pc'[p] = "link"
        BY <1>1, <3>1 DEF PushPut, RequestsTyped
      <4>2. Silent(p)
        BY <1>2, <2>1, <4>1 DEF Outcome, Misses, Replies
      <4>3. p \notin FoundOf /\ p \notin FoundOf'
        BY <2>1, <4>1 DEF FoundOf
      <4> QED BY <1>3, <4>1, <4>2, <4>3
    <3>2. CASE PushPutError(p)
      <4>1. PICK code \in {"400", "500"} : Answer(p, code, None)
        BY <3>2 DEF PushPutError, PushAbort, PushError
      <4>2. Replies(p, code, None) /\ code \in Promise!Failures
        BY <1>1, <2>1, <4>1, AnswerReplies DEF Codes, Promise!Failures
      <4>3. Promise!Right(Asked(p), Sent(op[p], hash[p], code, None))
        BY <1>1, <2>1, <4>2, FailureIsRight
      <4>4. Promise!Right(AskedOf[p], answer')
        BY <4>2, <4>3 DEF Replies, AskedOf
      <4> QED BY <1>4, <4>2, <4>4 DEF Promise!Failed, Replies, Sent
    <3> QED BY <1>6, <3>1, <3>2
  <2>5. Promise!Store(p)
    BY <2>3, <2>4 DEF Promise!Store, ContentOf, AskedOf, FoundOf
  <2> QED BY <2>5 DEF Promise!Next
<1> QED BY <1>5, <1>6, ContentStep

\* The step in which a request arrives: it begins, or is answered at once.
LEMMA RequestSeen ==
  ASSUME ~PutsLandLate, OpsInv, NEW p \in Procs, Request(p)
  PROVE  Promise!Next
<1> USE DEF OpsInv, DurableInv, WriteInv, LockInv
<1>1. pc[p] = "idle" /\ AskedOf[p] = None
  BY DEF Request, StartPush, PullFromMemory, StartRead, Asked, AskedOf
<1>2. ContentOf' = ContentOf
  <2>1. objects' = objects
    BY DEF Request, StartPush, PullFromMemory, StartRead, stores
  <2> QED BY <2>1 DEF ContentOf
<1>3. /\ \A q \in Procs : q # p => Asked(q)' = Asked(q)
      /\ FoundOf' = FoundOf
  <2>1. \A q \in Procs : q # p => Asked(q)' = Asked(q) /\ pc'[q] = pc[q]
    BY OthersAsk DEF Asked, Untouched
  <2>2. pc'[p] # "diskOpen"
    BY <1>1 DEF Request, StartPush, PullFromMemory, StartRead, RequestsTyped
  <2> QED BY <1>1, <2>1, <2>2 DEF FoundOf
<1>4. ASSUME NEW r \in Promise!Requests, Asked(p)' = r, answer' = None
      PROVE  Promise!Next
  <2>1. AskedOf' = [AskedOf EXCEPT ![p] = r]
    BY <1>3, <1>4 DEF AskedOf
  <2>2. Promise!Begin(p)
    BY <1>1, <1>2, <1>3, <1>4, <2>1 DEF Promise!Begin, ContentOf, AskedOf, FoundOf
  <2> QED BY <2>2 DEF Promise!Next
<1>5. ASSUME NEW r \in Promise!Requests, answer' \in Answers,
             Promise!Right(r, answer'), UNCHANGED <<pc, op, hash, body>>
      PROVE  Promise!Next
  <2>1. AskedOf' = AskedOf /\ FoundOf' = FoundOf
    BY <1>5 DEF AskedOf, Asked, FoundOf
  <2>2. answer' # None
    BY <1>5, NoneAssumption
  <2>3. Promise!Immediate
    BY <1>2, <1>5, <2>1, <2>2 DEF Promise!Immediate, ContentOf, AskedOf, FoundOf
  <2> QED BY <2>3 DEF Promise!Next
<1>6. ASSUME NEW o \in PushOps, NEW h \in Hashes, NEW d \in Data, NEW c,
             StartPush(p, o, h, d, c)
      PROVE  Promise!Next
  <2> DEFINE r == [op |-> o, hash |-> h, data |-> d]
  <2>1. r \in Promise!Requests
    BY DEF Promise!Requests
  <2>2. CASE Continue(p, "lock") /\ op' = [op EXCEPT ![p] = o]
             /\ hash' = [hash EXCEPT ![p] = h] /\ body' = [body EXCEPT ![p] = d]
    <3>1. Asked(p)' = r /\ answer' = None
      BY <1>1, <2>2 DEF Asked, RequestsTyped
    <3> QED BY <1>4, <2>1, <3>1
  <2>3. ASSUME NEW code \in {"400", "413", "500"}, answer' = Sent(o, h, code, None),
               UNCHANGED <<pc, op, hash, body>>
        PROVE  Promise!Next
    <3>1. answer' \in Answers /\ Promise!Right(r, answer')
      BY <2>3 DEF Answers, Codes, AllOps, Sent, Promise!Right, Promise!Failed,
                  Promise!Failures
    <3> QED BY <1>5, <2>1, <2>3, <3>1
  <2> QED BY <1>6, <2>2, <2>3 DEF StartPush
<1>7. ASSUME NEW o \in PullOps, NEW h \in Hashes, PullFromMemory(p, o, h)
      PROVE  Promise!Next
  <2> DEFINE r == [op |-> o, hash |-> h, data |-> None]
  <2>1. r \in Promise!Requests
    BY DEF Promise!Requests
  <2>2. UNCHANGED <<pc, op, hash, body>>
    BY <1>7 DEF PullFromMemory, locals
  <2>3. CASE answer' = Sent(o, h, "200", mem[h])
    <3>1. mem[h] \in Data /\ Agrees(mem[h], h)
      BY <1>7 DEF PullFromMemory, StoresTyped, CachesTrue
    <3>2. Promise!Holds(h, mem[h])
      BY <3>1, SameContent
    <3>3. answer' \in Answers /\ Promise!Right(r, answer')
      BY <2>3, <3>1, <3>2 DEF Answers, Codes, AllOps, Sent, Promise!Right,
                              Promise!PullRight
    <3> QED BY <1>5, <2>1, <2>2, <3>3
  <2>4. ASSUME NEW code \in {"400", "416"}, answer' = Sent(o, h, code, None)
        PROVE  Promise!Next
    <3>1. answer' \in Answers /\ Promise!Right(r, answer')
      BY <2>4 DEF Answers, Codes, AllOps, Sent, Promise!Right, Promise!Failed,
                  Promise!Failures
    <3> QED BY <1>5, <2>1, <2>2, <3>1
  <2> QED BY <1>7, <2>3, <2>4 DEF PullFromMemory
<1>8. ASSUME NEW o \in AllOps, NEW h \in Hashes, StartRead(p, o, h)
      PROVE  Promise!Next
  <2> DEFINE r == [op |-> o, hash |-> h, data |-> None]
  <2>1. o \in PullOps \cup {"exists"} /\ o \notin PushOps
    BY <1>8 DEF StartRead, PullOps, PushOps
  <2>2. r \in Promise!Requests
    BY <2>1 DEF Promise!Requests
  <2>3. Asked(p)' = r /\ answer' = None
    BY <1>1, <1>8, <2>1 DEF StartRead, Asked, RequestsTyped
  <2> QED BY <1>4, <2>2, <2>3
<1> QED BY <1>6, <1>7, <1>8 DEF Request

\* Every step is a step of PayloadPromise or leaves what it sees alone.
LEMMA NextSeen ==
  ASSUME ~PutsLandLate, OpsInv, OpsInv', [Next]_vars
  PROVE  [Promise!Next]_(Promise!visible)
<1>1. CASE UNCHANGED vars
  <2>1. UNCHANGED <<ContentOf, AskedOf, FoundOf, answer>>
    BY <1>1 DEF vars, ContentOf, AskedOf, FoundOf, Asked
  <2> QED BY <2>1, SameView
<1>2. ASSUME NEW p \in Procs, Request(p) \/ Step(p) PROVE Promise!Next
  BY <1>2, StepSeen, RequestSeen
<1>3. CASE Crash
  <2>1. answer' = None /\ ContentOf' = ContentOf
    BY <1>3 DEF Crash, ContentOf
  <2>2. AskedOf' = [p \in Procs |-> None] /\ FoundOf' = {}
    BY <1>3 DEF Crash, AskedOf, Asked, FoundOf
  <2>3. Promise!Restart
    BY <2>1, <2>2 DEF Promise!Restart, ContentOf, AskedOf, FoundOf
  <2> QED BY <2>3 DEF Promise!Next
<1>4. CASE LatePut \/ StartupAccept \/ StartupExit
  <2>1. ~LatePut
    BY DEF LatePut, OpsInv, DurableInv, WriteInv, WritesReady
  <2>2. answer' = None /\ UNCHANGED <<objects, pc, op, hash, body>>
    BY <1>4, <2>1 DEF StartupAccept, StartupExit, locals
  <2>3. ContentOf' = ContentOf /\ AskedOf' = AskedOf /\ FoundOf' = FoundOf
    BY <2>2 DEF ContentOf, AskedOf, FoundOf, Asked
  <2>4. Promise!Quiet
    BY <2>2, <2>3 DEF Promise!Quiet, ContentOf, AskedOf, FoundOf
  <2> QED BY <2>4 DEF Promise!Next
<1> QED BY <1>1, <1>2, <1>3, <1>4 DEF Next

\* The initial states are initial states of PayloadPromise.
LEMMA InitSeen == Init => Promise!Init
<1> SUFFICES ASSUME Init PROVE Promise!Init
  OBVIOUS
<1>1. TypedInv
  BY InitTyped
<1>2. ContentOf \in [Hashes -> Data \cup {None}]
  BY <1>1 DEF ContentOf, StoresTyped, Objects
<1>3. AskedOf = [p \in Procs |-> None] /\ FoundOf = {} /\ answer = None
  BY DEF Init, AskedOf, Asked, FoundOf
<1> QED BY <1>2, <1>3 DEF Promise!Init, ContentOf, AskedOf, FoundOf

\* The handlers, S3, the metadata, the caches, crashes and restarts together
\* implement a register per hash that is written once: for every number of
\* requests, whatever fails and whoever dies, S3 only ever takes a content
\* that somebody pushes under a free hash, and every 200, 201, 404, 409,
\* content or "absent" a client is told is true of that register when it is
\* sent, except the 404 of a pull whose file is evicted between Exists and
\* Open (handler.go:917).
THEOREM PayloadsRefine ==
  ~PutsLandLate /\ ChecksumTellsSize => (Spec => KeepsPayloadPromise)
<1> SUFFICES ASSUME ~PutsLandLate, ChecksumTellsSize
             PROVE  Spec => KeepsPayloadPromise
  OBVIOUS
<1>1. Init => OpsInv /\ Promise!Init
  BY InitOps, InitSeen
<1>2. OpsInv /\ [Next]_vars => OpsInv'
  BY NextOps
<1>3. OpsInv /\ OpsInv' /\ [Next]_vars => [Promise!Next]_(Promise!visible)
  BY NextSeen
<1> QED BY <1>1, <1>2, <1>3, PTL DEF Spec, KeepsPayloadPromise, Promise!Spec

=============================================================================
