--------------------------- MODULE PayloadService ---------------------------
(***************************************************************************)
(* The payload core of VAPS: concurrent HTTP requests (internal/httpapi)   *)
(* over the authoritative S3 bucket (objectstore), the disposable disk     *)
(* cache (blobstore), the bbolt metadata (metadata) and the in-memory LRU  *)
(* (cache), with process crashes and the startup validation of cmd/vaps.   *)
(*                                                                         *)
(* Every process p stands for one HTTP connection that serves one request  *)
(* after another.  One action is one call to a store: everything a handler *)
(* does between two such calls is local to its goroutine.  An S3 or bbolt  *)
(* call may also fail, which covers cancelled request contexts.            *)
(***************************************************************************)
EXTENDS Integers, FiniteSets

CONSTANTS
  Procs,        \* concurrent requests
  Hashes,       \* iohash values, the payload identities
  Data,         \* payload contents
  Checksums,    \* CRC32C values
  ETags,        \* S3 entity tags
  Locks,        \* indices of Handler.payloadWrites
  Checksum,     \* [Data -> Checksums], CRC32C of a content (may collide)
  Size,         \* [Data -> Nat]
  ETag,         \* [Data -> ETags], ETag S3 gives to an object VAPS writes
  LegacyETag,   \* [Data -> ETags], ETag of an object an older release wrote
  LockOf,       \* [Hashes -> Locks], the first two hex digits of a hash
  DirectMax,    \* UploadDirectMaxBytes
  PutsLandLate, \* may a PutObject that returned an error land afterwards?
  PutOmitsETag, \* may a PutObject response come without an ETag?
  Ops,          \* the request kinds clients send
  OldHashes,    \* hashes that may be stored before the first startup
  None          \* the absent object, record, content or lock holder

PushOps == {"direct", "chunked", "tus"}
PullOps == {"get", "range", "head"}
AllOps  == PushOps \cup PullOps \cup {"exists"}

\* The empty string the code uses for an unset checksum or ETag.
Unset == ""

\* An object carries its content and the CRC32C in its S3 user metadata;
\* the checksum is unset on an object that only has the legacy digest.
Objects == [data : Data, checksum : Checksums \cup {Unset}]

\* objectstore.Info as Head, Open and Put return it (Hash is the key).
Infos == [checksum : Checksums \cup {Unset}, etag : ETags \cup {Unset},
          size : Nat]

\* metadata.Payload; cached is Status = StatusCached.
Records == [checksum : Checksums \cup {Unset}, etag : ETags \cup {Unset},
            size : Nat, cached : BOOLEAN]

\* Who called payloadRecord ("open1" is openPayload, "open2" is
\* openDiskOrRemote) or, for "push", reconcileLegacyObject.
Callers == {"push", "open1", "open2", "range", "exists"}

\* What clients ask for, and the responses: HTTP status codes ("absent" is a
\* 200 of the exists endpoint that says no) and the content a pull sends.
Asks == [op : AllOps, hash : Hashes, data : Data \cup {None}]
Codes == {"200", "201", "absent", "400", "404", "409", "413", "416",
          "500"}
Answers == [op : AllOps, hash : Hashes, code : Codes, data : Data \cup {None}]

ASSUME ConstantsAssumption ==
  /\ Checksum \in [Data -> Checksums]
  /\ Size \in [Data -> Nat]
  /\ ETag \in [Data -> ETags]
  /\ LegacyETag \in [Data -> ETags]
  /\ LockOf \in [Hashes -> Locks]
  /\ DirectMax \in Nat
  /\ PutsLandLate \in BOOLEAN
  /\ PutOmitsETag \in BOOLEAN
  /\ Ops \subseteq AllOps
  /\ OldHashes \subseteq Hashes
  /\ Unset \notin Checksums
  /\ Unset \notin ETags

ASSUME NoneAssumption ==
  /\ None \notin Procs
  /\ None \notin Hashes
  /\ None \notin AllOps
  /\ None \notin Callers
  /\ None \notin Data
  /\ None \notin Objects
  /\ None \notin Infos
  /\ None \notin Records
  /\ None \notin Asks
  /\ None \notin Answers

VARIABLES
  up,       \* the process has passed its startup validation and listens
  objects,  \* S3: hash -> object or None
  late,     \* PutObjects S3 still holds although their call has failed
  disk,     \* blobstore: hash -> content or None
  meta,     \* bbolt metadata: hash -> record or None
  mem,      \* in-memory LRU: hash -> content or None
  lock,     \* Handler.payloadWrites: lock -> holder or None
  pc,       \* the store call each request makes next
  op,       \* request kind
  hash,     \* iohash of the request
  body,     \* content staged by a push, or served by a pull
  rem,      \* objectstore.Info held in a local variable
  rec,      \* metadata.Payload held in a local variable
  src,      \* content streamed by a legacy migration
  made,     \* created, of putPayloadDurably
  seen,     \* result of store.Exists in commitPayloadMetadata
  ret,      \* caller of payloadRecord / reconcileLegacyObject
  answer,   \* the response sent by the last step, None if it sent none
  acked,    \* history: identities acknowledged per hash
  writes    \* history: number of 201-creating PutObjects per hash (0..2)

locals == <<op, hash, body, rem, rec, src, made, seen, ret>>
stores == <<objects, late, disk, meta, mem>>
history == <<acked, writes>>
vars == <<up, objects, late, disk, meta, mem, lock, pc, op, hash, body, rem,
          rec, src, made, seen, ret, answer, acked, writes>>

PcLabels == {"idle", "lock", "head", "put", "link", "evict",
             "commitExists", "commitGet", "commitPut",
             "recGet", "recHead", "recPut", "legOpen", "legReopen", "legPut",
             "rangeExists", "rangeHead", "rangeGet", "diskExists", "diskOpen",
             "remHead", "etagPut", "remOpen", "serve", "markGet", "markPut",
             "existsDisk"}

\* Steps of putPayloadDurably between its Lock and its deferred Unlock.
LockedLabels == {"head", "put", "link", "evict"}
LegacyLabels == {"legOpen", "legReopen", "legPut"}

StoresTyped ==
  /\ up \in BOOLEAN
  /\ objects \in [Hashes -> Objects \cup {None}]
  /\ late \subseteq [hash : Hashes, obj : Objects]
  /\ disk \in [Hashes -> Data \cup {None}]
  /\ meta \in [Hashes -> Records \cup {None}]
  /\ mem \in [Hashes -> Data \cup {None}]
  /\ lock \in [Locks -> Procs \cup {None}]
  /\ acked \in [Hashes -> SUBSET (Checksums \X Nat)]
  /\ writes \in [Hashes -> 0..2]

RequestsTyped ==
  /\ pc \in [Procs -> PcLabels]
  /\ op \in [Procs -> AllOps \cup {None}]
  /\ hash \in [Procs -> Hashes \cup {None}]
  /\ body \in [Procs -> Data \cup {None}]
  /\ rem \in [Procs -> Infos \cup {None}]
  /\ rec \in [Procs -> Records \cup {None}]
  /\ src \in [Procs -> Data \cup {None}]
  /\ made \in [Procs -> BOOLEAN]
  /\ seen \in [Procs -> BOOLEAN]
  /\ ret \in [Procs -> Callers \cup {None}]

TypeOK == StoresTyped /\ RequestsTyped /\ answer \in Answers \cup {None}
-----------------------------------------------------------------------------
(***************************************************************************)
(* Initial states.  A process never serves before its startup validation.  *)
(* Older releases left legacy objects with legacy records and records      *)
(* without ETags; the metadata database may be younger than the bucket, so *)
(* an object may have no record; the disk cache survives a restart.        *)
(***************************************************************************)

\* What S3 reports about an object: the size is its content length and a
\* legacy object has no CRC32C.
parseInfo(o) ==
  [checksum |-> o.checksum,
   etag |-> IF o.checksum = Unset THEN LegacyETag[o.data] ELSE ETag[o.data],
   size |-> Size[o.data]]

InitObjects == {[data |-> d, checksum |-> Unset] : d \in Data}
               \cup {[data |-> d, checksum |-> Checksum[d]] : d \in Data}

InitRecords(o) == {[checksum |-> o.checksum, etag |-> e,
                    size |-> Size[o.data], cached |-> FALSE] :
                      e \in {Unset, parseInfo(o).etag}}

Init ==
  /\ up = FALSE
  /\ objects \in [Hashes -> InitObjects \cup {None}]
  /\ meta \in [Hashes -> UNION {InitRecords(o) : o \in InitObjects} \cup {None}]
  /\ disk \in [Hashes -> Data \cup {None}]
  /\ \A h \in Hashes :
       /\ objects[h] # None => h \in OldHashes
       /\ meta[h] # None => /\ objects[h] # None
                            /\ meta[h] \in InitRecords(objects[h])
       /\ disk[h] # None => /\ objects[h] # None
                            /\ disk[h] = objects[h].data
  /\ late = {}
  /\ mem = [h \in Hashes |-> None]
  /\ lock = [l \in Locks |-> None]
  /\ pc = [p \in Procs |-> "idle"]
  /\ op = [p \in Procs |-> None]
  /\ hash = [p \in Procs |-> None]
  /\ body = [p \in Procs |-> None]
  /\ rem = [p \in Procs |-> None]
  /\ rec = [p \in Procs |-> None]
  /\ src = [p \in Procs |-> None]
  /\ made = [p \in Procs |-> FALSE]
  /\ seen = [p \in Procs |-> FALSE]
  /\ ret = [p \in Procs |-> None]
  /\ answer = None
  /\ acked = [h \in Hashes |-> {}]
  /\ writes = [h \in Hashes |-> 0]
-----------------------------------------------------------------------------
\* A response; data is the content a pull sent.
Sent(o, h, code, d) == [op |-> o, hash |-> h, code |-> code, data |-> d]

(* Control: continue at another store call, or answer and free the request. *)

Goto(p, l) == pc' = [pc EXCEPT ![p] = l]

Continue(p, l) == Goto(p, l) /\ answer' = None

\* The handler returns: its local variables go out of scope.
Free(p) ==
  /\ Goto(p, "idle")
  /\ op' = [op EXCEPT ![p] = None]
  /\ hash' = [hash EXCEPT ![p] = None]
  /\ body' = [body EXCEPT ![p] = None]
  /\ rem' = [rem EXCEPT ![p] = None]
  /\ rec' = [rec EXCEPT ![p] = None]
  /\ src' = [src EXCEPT ![p] = None]
  /\ made' = [made EXCEPT ![p] = FALSE]
  /\ seen' = [seen EXCEPT ![p] = FALSE]
  /\ ret' = [ret EXCEPT ![p] = None]

Respond(p, code, d) == answer' = Sent(op[p], hash[p], code, d)

Answer(p, code, d) == Respond(p, code, d) /\ Free(p)

\* finalizeUpload's errors are all turned into 400 by the tus handlers.
PushError(p, code) == Answer(p, IF op[p] = "tus" THEN "400" ELSE code, None)

Unlock(p) == lock' = [lock EXCEPT ![LockOf[hash[p]]] = None]
-----------------------------------------------------------------------------
(* External: what a PutObject does.  A call that fails may have had no     *)
(* effect, may have been applied, or (PutsLandLate) may be applied by S3   *)
(* after the caller has gone on.                                           *)

Object(d, c) == [data |-> d, checksum |-> c]

\* The ETag in the response.
PutETags(o) == {ETag[o.data]} \cup (IF PutOmitsETag THEN {Unset} ELSE {})

\* The code's "if etag != ..." : the first ETag unless it is empty.
FirstSet(e, f) == IF e # Unset THEN e ELSE f

PutApplied(h, o) == objects' = [objects EXCEPT ![h] = o] /\ UNCHANGED late

PutFailed(h, o) ==
  \/ UNCHANGED <<objects, late>>
  \/ PutApplied(h, o)
  \/ /\ PutsLandLate
     /\ late' = late \cup {[hash |-> h, obj |-> o]}
     /\ UNCHANGED objects

LatePut ==
  /\ \E m \in late :
       /\ objects' = [objects EXCEPT ![m.hash] = m.obj]
       /\ late' = late \ {m}
  /\ answer' = None
  /\ UNCHANGED <<up, disk, meta, mem, lock, pc, op, hash, body, rem, rec,
                 src, made, seen, ret, acked, writes>>
-----------------------------------------------------------------------------
(* directPush and finalizeUpload up to the staged, checksummed file.       *)

\* A declared Content-Length is compared with the limit; a chunked body is
\* cut off by the MaxBytesReader; a tus upload has no limit.
TooLarge(o, d) ==
  \/ o = "direct" /\ Size[d] > DirectMax
  \/ o = "chunked" /\ Size[d] > DirectMax + 1

\* Stage keeps a body only if its checksum is the declared one.
Stages(d, c) == c = Checksum[d]

\* Request kind o for hash h with body d and declared checksum c: it is
\* staged, or refused, or staging fails.
StartPush(p, o, h, d, c) ==
  /\ up
  /\ pc[p] = "idle"
  /\ o \in Ops \cap PushOps
  /\ \/ /\ ~TooLarge(o, d)
        /\ Stages(d, c)
        /\ Continue(p, "lock")
        /\ op' = [op EXCEPT ![p] = o]
        /\ hash' = [hash EXCEPT ![p] = h]
        /\ body' = [body EXCEPT ![p] = d]
     \/ /\ TooLarge(o, d) \/ ~Stages(d, c)
        /\ answer' = Sent(o, h, IF TooLarge(o, d) THEN "413" ELSE "400", None)
        /\ UNCHANGED <<pc, op, hash, body>>
     \/ /\ ~TooLarge(o, d)
        /\ answer' = Sent(o, h, IF o = "tus" THEN "400" ELSE "500", None)
        /\ UNCHANGED <<pc, op, hash, body>>
  /\ UNCHANGED <<up, stores, lock, rem, rec, src, made, seen, ret, history>>
-----------------------------------------------------------------------------
(* putPayloadDurably.                                                      *)

\* Mutant: nobody waits for the mutex.
PushLockUnguarded(p) ==
  /\ pc[p] = "lock"
  /\ lock' = [lock EXCEPT ![LockOf[hash[p]]] = p]
  /\ Continue(p, "head")
  /\ UNCHANGED <<up, stores, locals, history>>

PushLock(p) ==
  /\ pc[p] = "lock"
  /\ lock[LockOf[hash[p]]] = None
  /\ lock' = [lock EXCEPT ![LockOf[hash[p]]] = p]
  /\ Continue(p, "head")
  /\ UNCHANGED <<up, stores, locals, history>>

\* Mutant: an early return forgets the Unlock.
PushAbortLocked(p, code) == PushError(p, code) /\ UNCHANGED lock

\* Every early return of the locked section: answer and run the deferred
\* Unlock (and Discard).
PushAbort(p, code) == PushError(p, code) /\ Unlock(p)

\* Head finds no object, fails, or finds an object that is legacy, different
\* from the upload, or the same.
PushHeadAbsent(p) ==
  /\ pc[p] = "head"
  /\ objects[hash[p]] = None
  /\ Continue(p, "put")
  /\ UNCHANGED <<up, stores, lock, locals, history>>

PushHeadLegacy(p) ==
  /\ pc[p] = "head"
  /\ objects[hash[p]] # None
  /\ objects[hash[p]].checksum = Unset
  /\ rem' = [rem EXCEPT ![p] = parseInfo(objects[hash[p]])]
  /\ ret' = [ret EXCEPT ![p] = "push"]
  /\ Continue(p, "legOpen")
  /\ UNCHANGED <<up, stores, lock, op, hash, body, rec, src, made, seen, history>>

SameIdentity(info, d) == info.checksum = Checksum[d] /\ info.size = Size[d]

\* Mutant: an object that is there is taken to be the uploaded one.
PushHeadPresentUnchecked(p) ==
  /\ pc[p] = "head"
  /\ objects[hash[p]] # None
  /\ objects[hash[p]].checksum # Unset
  /\ rem' = [rem EXCEPT ![p] = parseInfo(objects[hash[p]])]
  /\ Continue(p, "link")
  /\ UNCHANGED <<up, stores, lock, op, hash, body, rec, src, made, seen, ret,
                 history>>

PushHeadPresent(p) ==
  /\ pc[p] = "head"
  /\ objects[hash[p]] # None
  /\ objects[hash[p]].checksum # Unset
  /\ \/ /\ SameIdentity(parseInfo(objects[hash[p]]), body[p])
        /\ rem' = [rem EXCEPT ![p] = parseInfo(objects[hash[p]])]
        /\ Continue(p, "link")
        /\ UNCHANGED <<lock, op, hash, body, rec, src, made, seen, ret>>
     \/ /\ ~SameIdentity(parseInfo(objects[hash[p]]), body[p])
        /\ PushAbort(p, "409")
  /\ UNCHANGED <<up, stores, history>>

PushHeadError(p) ==
  /\ pc[p] = "head"
  /\ PushAbort(p, "500")
  /\ UNCHANGED <<up, stores, history>>

PushPut(p) ==
  /\ pc[p] = "put"
  /\ LET o == Object(body[p], Checksum[body[p]])
     IN /\ PutApplied(hash[p], o)
        /\ \E e \in PutETags(o) :
             rem' = [rem EXCEPT ![p] = [parseInfo(o) EXCEPT !.etag = e]]
  /\ made' = [made EXCEPT ![p] = TRUE]
  /\ writes' = [writes EXCEPT ![hash[p]] = IF @ < 2 THEN @ + 1 ELSE @]
  /\ Continue(p, "link")
  /\ UNCHANGED <<up, disk, meta, mem, lock, op, hash, body, rec, src, seen,
                 ret, acked>>

\* Mutant: the error of the Put is dropped.
PushPutErrorDropped(p) ==
  /\ pc[p] = "put"
  /\ LET o == Object(body[p], Checksum[body[p]])
     IN /\ PutFailed(hash[p], o)
        /\ rem' = [rem EXCEPT ![p] = parseInfo(o)]
  /\ Continue(p, "link")
  /\ UNCHANGED <<up, disk, meta, mem, lock, op, hash, body, rec, src, made,
                 seen, ret, history>>

PushPutError(p) ==
  /\ pc[p] = "put"
  /\ PutFailed(hash[p], Object(body[p], Checksum[body[p]]))
  /\ PushAbort(p, "500")
  /\ UNCHANGED <<up, disk, meta, mem, history>>

\* Store.Publish, first half: link the staged file unless the name is taken.
\* A mismatch with the file already there and an I/O error are only logged.
\* Store.mu keeps a second Publish out until the eviction is over.
PublishLink(p) ==
  /\ pc[p] = "link"
  /\ \A q \in Procs : pc[q] # "evict"
  /\ \/ /\ disk[hash[p]] = None
        /\ disk' = [disk EXCEPT ![hash[p]] = body[p]]
        /\ Continue(p, "evict")
        /\ UNCHANGED lock
     \/ /\ UNCHANGED disk
        /\ Continue(p, "commitExists")
        /\ Unlock(p)
  /\ UNCHANGED <<up, objects, late, meta, mem, locals, history>>

\* The oldest files go, possibly the new one; sizes and times are abstract.
Evict ==
  \E gone \in SUBSET Hashes :
    disk' = [h \in Hashes |-> IF h \in gone THEN None ELSE disk[h]]

\* Second half: evict and return; the deferred Unlock of putPayloadDurably
\* runs.
PublishEvict(p) ==
  /\ pc[p] = "evict"
  /\ Evict
  /\ Unlock(p)
  /\ Continue(p, "commitExists")
  /\ UNCHANGED <<up, objects, late, meta, mem, locals, history>>
-----------------------------------------------------------------------------
(* commitPayloadMetadata, after the lock is released.                      *)

CommitExists(p) ==
  /\ pc[p] = "commitExists"
  /\ seen' = [seen EXCEPT ![p] = disk[hash[p]] # None]
  /\ Continue(p, "commitGet")
  /\ UNCHANGED <<up, stores, lock, op, hash, body, rem, rec, src, made, ret,
                 history>>

\* Mutant: Publish found the file and left the checksum of its Info empty.
CommitRecordNoChecksum(p) ==
  [checksum |-> Unset, etag |-> rem[p].etag, size |-> Size[body[p]],
   cached |-> seen[p]]

\* The record a push writes: the upload's checksum, size and status, with
\* S3's ETag if it is known, else the one recorded before.
CommitRecord(p) ==
  [checksum |-> Checksum[body[p]],
   etag |-> FirstSet(rem[p].etag,
              IF meta[hash[p]] = None THEN Unset ELSE meta[hash[p]].etag),
   size |-> Size[body[p]],
   cached |-> seen[p]]

MetadataConflict(r, d) ==
  r.checksum # Unset /\ (r.checksum # Checksum[d] \/ r.size # Size[d])

CommitGet(p) ==
  /\ pc[p] = "commitGet"
  /\ \/ /\ meta[hash[p]] # None
        /\ MetadataConflict(meta[hash[p]], body[p])
        /\ PushError(p, "500")
     \/ /\ meta[hash[p]] # None => ~MetadataConflict(meta[hash[p]], body[p])
        /\ rec' = [rec EXCEPT ![p] = CommitRecord(p)]
        /\ Continue(p, "commitPut")
        /\ UNCHANGED <<op, hash, body, rem, src, made, seen, ret>>
  /\ UNCHANGED <<up, stores, lock, history>>

PutPayload(p) == meta' = [meta EXCEPT ![hash[p]] = rec[p]]

\* A direct push answers 201 or 200; a tus upload 201, or 400 if its session
\* is gone by then (MarkCompleted).
CommitPut(p) ==
  /\ pc[p] = "commitPut"
  /\ PutPayload(p)
  /\ \/ /\ Answer(p, IF made[p] \/ op[p] = "tus" THEN "201" ELSE "200", None)
        /\ acked' = [acked EXCEPT ![hash[p]] =
                       @ \cup {<<Checksum[body[p]], Size[body[p]]>>}]
     \/ /\ op[p] = "tus"
        /\ Answer(p, "400", None)
        /\ UNCHANGED acked
  /\ UNCHANGED <<up, objects, late, disk, mem, lock, writes>>

\* The stat, GetPayload or PutPayload fails.
CommitError(p) ==
  /\ pc[p] \in {"commitExists", "commitGet", "commitPut"}
  /\ PushError(p, "500")
  /\ UNCHANGED <<up, stores, lock, history>>
-----------------------------------------------------------------------------
(* payloadRecord: the record of a hash, created or repaired from S3 when   *)
(* it is missing or has no CRC32C.  No lock is held.                       *)

\* Where the caller of payloadRecord goes on.
ReturnLabel(c) ==
  CASE c = "open1"  -> "recGet"
    [] c = "open2"  -> "diskExists"
    [] c = "range"  -> "rangeHead"
    [] c = "exists" -> "existsDisk"

\* openPayload drops the record and openDiskOrRemote asks for it again.
Return(p) ==
  /\ Continue(p, ReturnLabel(ret[p]))
  /\ ret' = [ret EXCEPT ![p] = IF @ = "open1" THEN "open2" ELSE @]

\* Mutant: the missing object surfaces as a gateway error.
NotExistUnmapped(p) == Answer(p, "502", None)

\* os.ErrNotExist is "exists": false for the exists endpoint, else a 404.
NotExist(p) == Answer(p, IF op[p] = "exists" THEN "absent" ELSE "404", None)

RecGet(p) ==
  /\ pc[p] = "recGet"
  /\ rec' = [rec EXCEPT ![p] = meta[hash[p]]]
  /\ \/ /\ meta[hash[p]] # None
        /\ meta[hash[p]].checksum # Unset
        /\ Return(p)
     \/ /\ meta[hash[p]] # None => meta[hash[p]].checksum = Unset
        /\ Continue(p, "recHead")
        /\ UNCHANGED ret
  /\ UNCHANGED <<up, stores, lock, op, hash, body, rem, src, made, seen, history>>

\* The record to store, given the Head's answer and the ETag of the Put that
\* migrated the object (Unset if none did).  The size of an old record stays.
Repaired(r, info, putETag) ==
  IF r = None
  THEN [checksum |-> info.checksum, etag |-> FirstSet(putETag, info.etag),
        size |-> info.size, cached |-> FALSE]
  ELSE [r EXCEPT !.checksum = info.checksum,
                 !.etag = FirstSet(putETag, FirstSet(@, info.etag))]

RecHeadAbsent(p) ==
  /\ pc[p] = "recHead"
  /\ objects[hash[p]] = None
  /\ IF rec[p] = None THEN NotExist(p) ELSE Answer(p, "500", None)
  /\ UNCHANGED <<up, stores, lock, history>>

RecHeadPresent(p) ==
  /\ pc[p] = "recHead"
  /\ objects[hash[p]] # None
  /\ LET info == parseInfo(objects[hash[p]])
     IN \/ /\ info.checksum = Unset
           /\ rem' = [rem EXCEPT ![p] = info]
           /\ Continue(p, "legOpen")
           /\ UNCHANGED rec
        \/ /\ info.checksum # Unset
           /\ rec' = [rec EXCEPT ![p] = Repaired(@, info, Unset)]
           /\ Continue(p, "recPut")
           /\ UNCHANGED rem
  /\ UNCHANGED <<up, stores, lock, op, hash, body, src, made, seen, ret, history>>

RecPut(p) ==
  /\ pc[p] = "recPut"
  /\ PutPayload(p)
  /\ Return(p)
  /\ UNCHANGED <<up, objects, late, disk, mem, lock, op, hash, body, rem, rec,
                 src, made, seen, history>>
-----------------------------------------------------------------------------
(* reconcileLegacyObject: read and hash the object, then read it again and *)
(* write it back with the CRC32C.  A push holds its lock, payloadRecord    *)
(* holds none.                                                             *)

LegacyAbort(p, code) ==
  IF ret[p] = "push" THEN PushAbort(p, code)
                     ELSE Answer(p, "500", None) /\ UNCHANGED lock

LegacyOpen(p) ==
  /\ pc[p] = "legOpen"
  /\ objects[hash[p]] # None
  /\ LET sum == Checksum[objects[hash[p]].data]
     IN \/ /\ ret[p] = "push" /\ sum # Checksum[body[p]]
           /\ LegacyAbort(p, "409")
        \/ /\ ret[p] = "push" => sum = Checksum[body[p]]
           /\ rem' = [rem EXCEPT ![p].checksum = sum]
           /\ Continue(p, "legReopen")
           /\ UNCHANGED <<lock, op, hash, body, rec, src, made, seen, ret>>
  /\ UNCHANGED <<up, stores, history>>

LegacyReopen(p) ==
  /\ pc[p] = "legReopen"
  /\ objects[hash[p]] # None
  /\ src' = [src EXCEPT ![p] = objects[hash[p]].data]
  /\ Continue(p, "legPut")
  /\ UNCHANGED <<up, stores, lock, op, hash, body, rem, rec, made, seen, ret,
                 history>>

\* The declared Content-Length is the hashed size: S3 refuses another one.
LegacyPut(p) ==
  /\ pc[p] = "legPut"
  /\ Size[src[p]] = rem[p].size
  /\ PutApplied(hash[p], Object(src[p], rem[p].checksum))
  /\ \E e \in PutETags(Object(src[p], rem[p].checksum)) :
       \/ /\ ret[p] = "push"
          /\ rem' = [rem EXCEPT ![p].etag = FirstSet(e, @)]
          /\ Continue(p, "link")
          /\ UNCHANGED rec
       \/ /\ ret[p] # "push"
          /\ rec' = [rec EXCEPT ![p] = Repaired(@, rem[p], e)]
          /\ Continue(p, "recPut")
          /\ UNCHANGED rem
  /\ UNCHANGED <<up, disk, meta, mem, lock, op, hash, body, src, made, seen,
                 ret, history>>

\* Either Open fails, or the Put does.
LegacyError(p) ==
  /\ \/ pc[p] \in {"legOpen", "legReopen"} /\ UNCHANGED <<objects, late>>
     \/ pc[p] = "legPut" /\ PutFailed(hash[p], Object(src[p], rem[p].checksum))
  /\ LegacyAbort(p, "500")
  /\ UNCHANGED <<up, disk, meta, mem, history>>
-----------------------------------------------------------------------------
(* pullPayload (GET, ranged GET, HEAD) and the exists endpoint.            *)

\* A hit in the memory cache is answered at once.
PullFromMemory(p, o, h) ==
  /\ up
  /\ pc[p] = "idle"
  /\ o \in Ops \cap PullOps
  /\ mem[h] # None
  /\ \/ answer' = Sent(o, h, "200", mem[h])
     \/ /\ o = "range"
        /\ \E code \in {"400", "416"} : answer' = Sent(o, h, code, None)
  /\ UNCHANGED <<up, stores, lock, pc, locals, history>>

StartRead(p, o, h) ==
  /\ up
  /\ pc[p] = "idle"
  /\ o \in Ops \cap (PullOps \cup {"exists"})
  /\ o \in PullOps => mem[h] = None
  /\ op' = [op EXCEPT ![p] = o]
  /\ hash' = [hash EXCEPT ![p] = h]
  /\ ret' = [ret EXCEPT ![p] = IF o = "exists" THEN "exists" ELSE "open1"]
  /\ Continue(p, IF o = "range" THEN "rangeExists" ELSE "recGet")
  /\ UNCHANGED <<up, stores, lock, body, rem, rec, src, made, seen, history>>

\* openRemoteRange is used only when the payload is not on disk.
RangeExists(p) ==
  /\ pc[p] = "rangeExists"
  /\ ret' = [ret EXCEPT ![p] = IF disk[hash[p]] = None THEN "range" ELSE "open1"]
  /\ Continue(p, "recGet")
  /\ UNCHANGED <<up, stores, lock, op, hash, body, rem, rec, src, made, seen,
                 history>>

\* validateRemotePayload.
Validates(r, info) ==
  /\ info.checksum = r.checksum
  /\ info.size = r.size
  /\ r.etag = Unset \/ info.etag = r.etag

\* recordPayloadETag: l is where the handler goes on.
RecordETag(p, info, l) ==
  /\ rec' = [rec EXCEPT ![p].etag = IF @ = Unset THEN info.etag ELSE @]
  /\ Continue(p, IF rec[p].etag = Unset THEN "etagPut" ELSE l)

\* OpenRange is a Head and a ranged Get; the Head's answer is validated
\* after the Get.
RangeHead(p) ==
  /\ pc[p] = "rangeHead"
  /\ objects[hash[p]] # None
  /\ rem' = [rem EXCEPT ![p] = parseInfo(objects[hash[p]])]
  /\ Continue(p, "rangeGet")
  /\ UNCHANGED <<up, stores, lock, op, hash, body, rec, src, made, seen, ret,
                 history>>

RangeGet(p) ==
  /\ pc[p] = "rangeGet"
  /\ objects[hash[p]] # None
  /\ \/ /\ Validates(rec[p], rem[p])
        /\ body' = [body EXCEPT ![p] = objects[hash[p]].data]
        /\ RecordETag(p, rem[p], "serve")
        /\ UNCHANGED <<op, hash, rem, src, made, seen, ret>>
     \/ /\ ~Validates(rec[p], rem[p])
        /\ Answer(p, "500", None)
  /\ UNCHANGED <<up, stores, lock, history>>

\* openDiskOrRemote after its payloadRecord: the disk cache first.
DiskExists(p) ==
  /\ pc[p] = "diskExists"
  /\ \/ /\ disk[hash[p]] = None
        /\ Continue(p, "remHead")
        /\ UNCHANGED locals
     \/ /\ disk[hash[p]] # None
        /\ Size[disk[hash[p]]] = rec[p].size
        /\ Continue(p, "diskOpen")
        /\ UNCHANGED locals
     \/ /\ disk[hash[p]] # None
        /\ Size[disk[hash[p]]] # rec[p].size
        /\ Answer(p, "500", None)
  /\ UNCHANGED <<up, stores, lock, history>>

DiskOpen(p) ==
  /\ pc[p] = "diskOpen"
  /\ \/ /\ disk[hash[p]] # None
        /\ body' = [body EXCEPT ![p] = disk[hash[p]]]
        /\ Continue(p, "serve")
        /\ UNCHANGED <<op, hash, rem, rec, src, made, seen, ret>>
     \/ /\ disk[hash[p]] = None
        /\ NotExist(p)
  /\ UNCHANGED <<up, stores, lock, history>>

RemoteHead(p) ==
  /\ pc[p] = "remHead"
  /\ objects[hash[p]] # None
  /\ LET info == parseInfo(objects[hash[p]])
     IN \/ /\ Validates(rec[p], info)
           /\ rem' = [rem EXCEPT ![p] = info]
           /\ RecordETag(p, info, "remOpen")
           /\ UNCHANGED <<op, hash, body, src, made, seen, ret>>
        \/ /\ ~Validates(rec[p], info)
           /\ Answer(p, "500", None)
  /\ UNCHANGED <<up, stores, lock, history>>

ETagPut(p) ==
  /\ pc[p] = "etagPut"
  /\ PutPayload(p)
  /\ Continue(p, IF ret[p] = "range" THEN "serve" ELSE "remOpen")
  /\ UNCHANGED <<up, objects, late, disk, mem, lock, locals, history>>

RemoteOpen(p) ==
  /\ pc[p] = "remOpen"
  /\ objects[hash[p]] # None
  /\ \/ /\ parseInfo(objects[hash[p]]).etag = rem[p].etag
        /\ body' = [body EXCEPT ![p] = objects[hash[p]].data]
        /\ Continue(p, "serve")
        /\ UNCHANGED <<op, hash, rem, rec, src, made, seen, ret>>
     \/ /\ parseInfo(objects[hash[p]]).etag # rem[p].etag
        /\ Answer(p, "500", None)
  /\ UNCHANGED <<up, stores, lock, history>>

\* Mutant: every error of a read is taken for a missing object.
ReadErrorAsAbsent(p) ==
  /\ pc[p] \in {"recGet", "recHead", "recPut", "rangeExists", "rangeHead",
                "rangeGet", "diskExists", "diskOpen", "remHead", "etagPut",
                "remOpen", "existsDisk"}
  /\ NotExist(p)
  /\ UNCHANGED <<up, stores, lock, history>>

\* An S3 or bbolt call of a read fails.  That S3 has no object for a record
\* cannot happen here: nobody deletes objects (RestartPossible).
ReadError(p) ==
  /\ pc[p] \in {"recGet", "recHead", "recPut", "rangeExists", "rangeHead",
                "rangeGet", "diskExists", "diskOpen", "remHead", "etagPut",
                "remOpen", "existsDisk"}
  /\ Answer(p, "500", None)
  /\ UNCHANGED <<up, stores, lock, history>>

\* Cache.Add: other entries, the least recently used, make room.
CacheAdd(k, d) ==
  \E gone \in SUBSET (Hashes \ {k}) :
    mem' = [h \in Hashes |-> IF h = k THEN d
                             ELSE IF h \in gone THEN None ELSE mem[h]]

\* Write the response.  A whole payload that fits into the memory cache is
\* added to it.
Serve(p) ==
  /\ pc[p] = "serve"
  /\ \/ /\ Answer(p, "200", body[p])
        /\ UNCHANGED mem
     \/ /\ op[p] # "head"
        /\ ret[p] # "range"
        /\ CacheAdd(hash[p], body[p])
        /\ Respond(p, "200", body[p])
        /\ Goto(p, "markGet")
        /\ UNCHANGED locals
  /\ UNCHANGED <<up, objects, late, disk, meta, lock, history>>

\* A Range header that cannot be parsed or satisfied; a whole payload is read
\* from disk or S3 first, which may fail.
RangeRefused(p) ==
  /\ \/ pc[p] = "rangeHead" /\ Answer(p, "416", None)
     \/ /\ pc[p] = "serve" /\ op[p] = "range" /\ ret[p] # "range"
        /\ \E code \in {"400", "416", "500"} : Answer(p, code, None)
  /\ UNCHANGED <<up, stores, lock, history>>

\* markCached: its errors are dropped.
MarkGet(p) ==
  /\ pc[p] = "markGet"
  /\ answer' = None
  /\ \/ /\ meta[hash[p]] # None
        /\ rec' = [rec EXCEPT ![p] = [meta[hash[p]] EXCEPT !.cached = TRUE]]
        /\ Goto(p, "markPut")
        /\ UNCHANGED <<op, hash, body, rem, src, made, seen, ret>>
     \/ Free(p)
  /\ UNCHANGED <<up, stores, lock, history>>

MarkPut(p) ==
  /\ pc[p] = "markPut"
  /\ PutPayload(p) \/ UNCHANGED meta
  /\ Free(p)
  /\ answer' = None
  /\ UNCHANGED <<up, objects, late, disk, mem, lock, history>>

\* existsWithMetadata after its payloadRecord.
ExistsDisk(p) ==
  /\ pc[p] = "existsDisk"
  /\ Answer(p, IF disk[hash[p]] # None /\ Size[disk[hash[p]]] # rec[p].size
               THEN "500" ELSE "200", None)
  /\ UNCHANGED <<up, stores, lock, history>>
-----------------------------------------------------------------------------
(* The process dies: requests, locks and the memory cache are gone.        *)
Crash ==
  /\ up
  /\ up' = FALSE
  /\ mem' = [h \in Hashes |-> None]
  /\ lock' = [l \in Locks |-> None]
  /\ pc' = [p \in Procs |-> "idle"]
  /\ op' = [p \in Procs |-> None]
  /\ hash' = [p \in Procs |-> None]
  /\ body' = [p \in Procs |-> None]
  /\ rem' = [p \in Procs |-> None]
  /\ rec' = [p \in Procs |-> None]
  /\ src' = [p \in Procs |-> None]
  /\ made' = [p \in Procs |-> FALSE]
  /\ seen' = [p \in Procs |-> FALSE]
  /\ ret' = [p \in Procs |-> None]
  /\ answer' = None
  /\ UNCHANGED <<objects, late, disk, meta, history>>

(* Startup: validateMetadataPayloadsWithList, then WithHead for the        *)
(* records that have no ETag, which also stores the ETag.                  *)

ListValid(h) ==
  meta[h] # None =>
    /\ objects[h] # None
    /\ meta[h].size = Size[objects[h].data]
    /\ meta[h].etag # Unset => meta[h].etag = parseInfo(objects[h]).etag

NeedsHead(h) == meta[h] # None /\ meta[h].etag = Unset

HeadValid(h) == NeedsHead(h) => meta[h].checksum = objects[h].checksum

StartupValid == \A h \in Hashes : ListValid(h) /\ HeadValid(h)

\* The metadata once the ETags of the hashes in hs are stored.
WithETags(hs) ==
  [h \in Hashes |-> IF h \in hs
                    THEN [meta[h] EXCEPT !.etag = parseInfo(objects[h]).etag]
                    ELSE meta[h]]

StartupAccept ==
  /\ ~up
  /\ StartupValid
  /\ up' = TRUE
  /\ meta' = WithETags({h \in Hashes : NeedsHead(h)})
  /\ answer' = None
  /\ UNCHANGED <<objects, late, disk, mem, lock, pc, locals, history>>

\* A mismatch or an S3 or bbolt error: the process exits.  Some workers may
\* have stored ETags before the first error.
StartupExit ==
  /\ ~up
  /\ \E hs \in SUBSET {h \in Hashes : NeedsHead(h) /\ HeadValid(h)} :
       /\ hs # {} => \A h \in Hashes : ListValid(h)
       /\ meta' = WithETags(hs)
  /\ answer' = None
  /\ UNCHANGED <<up, objects, late, disk, mem, lock, pc, locals, history>>
-----------------------------------------------------------------------------
Step(p) ==
  \/ PushLock(p) \/ PushHeadAbsent(p) \/ PushHeadLegacy(p)
  \/ PushHeadPresent(p) \/ PushHeadError(p) \/ PushPut(p) \/ PushPutError(p)
  \/ PublishLink(p) \/ PublishEvict(p)
  \/ CommitExists(p) \/ CommitGet(p) \/ CommitPut(p) \/ CommitError(p)
  \/ RecGet(p) \/ RecHeadAbsent(p) \/ RecHeadPresent(p) \/ RecPut(p)
  \/ LegacyOpen(p) \/ LegacyReopen(p) \/ LegacyPut(p) \/ LegacyError(p)
  \/ RangeExists(p) \/ RangeHead(p) \/ RangeGet(p)
  \/ DiskExists(p) \/ DiskOpen(p) \/ RemoteHead(p) \/ ETagPut(p)
  \/ RemoteOpen(p) \/ ReadError(p)
  \/ Serve(p) \/ RangeRefused(p) \/ MarkGet(p) \/ MarkPut(p) \/ ExistsDisk(p)

Request(p) ==
  \/ \E o \in PushOps, h \in Hashes, d \in Data, c \in Checksums :
       StartPush(p, o, h, d, c)
  \/ \E o \in PullOps, h \in Hashes : PullFromMemory(p, o, h)
  \/ \E o \in AllOps, h \in Hashes : StartRead(p, o, h)

Next ==
  \/ \E p \in Procs : Request(p) \/ Step(p)
  \/ LatePut \/ Crash \/ StartupAccept \/ StartupExit

Spec == Init /\ [][Next]_vars

\* Every goroutine is scheduled, and a waiting goroutine that keeps finding
\* a sync.Mutex free gets it (Go's mutexes have a starvation mode).
Fairness ==
  \A p \in Procs : /\ WF_vars(Step(p))
                   /\ SF_vars(PushLock(p))
                   /\ SF_vars(PublishLink(p))

LiveSpec == Spec /\ Fairness
-----------------------------------------------------------------------------
(***************************************************************************)
(* Properties.                                                             *)
(***************************************************************************)

\* Steps under the payloadWrites mutex: putPayloadDurably between Lock and
\* the deferred Unlock, the legacy migration a push runs included.
HoldsLock(p) ==
  pc[p] \in LockedLabels \/ (pc[p] \in LegacyLabels /\ ret[p] = "push")

\* Every early return of putPayloadDurably releases its mutex and nobody
\* else's, and no step of the locked section runs without it
\* (storage.go:29-86).
LockMatchesSection ==
  \A l \in Locks, p \in Procs :
    lock[l] = p <=> HoldsLock(p) /\ LockOf[hash[p]] = l

\* Once S3 holds a content under a hash, no request of this server ever
\* replaces it by another or removes it, whatever pushes, migrations and
\* crashes interleave (storage.go:27-28, the reason for payloadWrites).
PayloadImmutable ==
  [][\A h \in Hashes : objects[h] # None =>
       objects'[h] # None /\ objects'[h].data = objects[h].data]_vars

\* At most one PutObject per hash is reported as a creation (201), across
\* concurrent pushes, retries and restarts (storage_test.go:154).
CreatedOnce == \A h \in Hashes : writes[h] <= 1

\* A push is acknowledged only when S3 and the metadata hold its identity,
\* and from then on they keep it, over crashes too (storage.go:19-20).
AckedDurable ==
  \A h \in Hashes : \A a \in acked[h] :
    /\ objects[h] # None
    /\ objects[h].checksum = a[1] /\ Size[objects[h].data] = a[2]
    /\ meta[h] # None
    /\ meta[h].checksum = a[1] /\ meta[h].size = a[2]

\* Whatever the moment of a crash, the records and the bucket are such that
\* the startup validation accepts them: VAPS can always be restarted
\* (startup_check.go:79-157, 344-367).
RestartPossible == StartupValid

\* A pull, from memory, disk or S3, sends only content whose checksum and
\* size are those of the authoritative object.
ServedIntact ==
  answer # None /\ answer.data # None =>
    /\ objects[answer.hash] # None
    /\ Checksum[answer.data] = Checksum[objects[answer.hash].data]
    /\ Size[answer.data] = Size[objects[answer.hash].data]

\* The disk cache never holds a file that S3 does not hold with the same
\* checksum and size: it is filled after S3 (storage.go:77), and never from
\* an upload that S3's object contradicts.
DiskBacked ==
  \A h \in Hashes : disk[h] # None =>
    /\ objects[h] # None
    /\ Checksum[disk[h]] = Checksum[objects[h].data]
    /\ Size[disk[h]] = Size[objects[h].data]

\* No read-modify-write of a record (commitPayloadMetadata, payloadRecord,
\* markCached, recordPayloadETag) undoes another one's migration: a record
\* and its CRC32C never disappear.
ChecksumKept ==
  [][\A h \in Hashes : meta[h] # None =>
       /\ meta'[h] # None
       /\ meta[h].checksum # Unset => meta'[h].checksum # Unset]_vars

\* What a request asks for while it is not answered: behind markCached's
\* calls the response has been sent.
Asked(p) ==
  IF pc[p] \in {"idle", "markGet", "markPut"} THEN None
  ELSE [op |-> op[p], hash |-> hash[p],
        data |-> IF op[p] \in PushOps THEN body[p] ELSE None]

\* All handlers and stores together implement PayloadPromise, a register per
\* hash that is written once, with contents somebody pushed under it: whatever
\* a push, pull or exists request is told about a payload is true at that
\* moment, a 409 and an "absent" included, and a 404 for a stored payload
\* comes only from openDiskOrRemote between Exists and Open
\* (storage.go:29-86, handler.go:917).
Promise == INSTANCE PayloadPromise WITH
  content <- [h \in Hashes |-> IF objects[h] = None THEN None ELSE objects[h].data],
  asked   <- [p \in Procs |-> Asked(p)],
  found   <- {p \in Procs : pc[p] = "diskOpen"}

KeepsPayloadPromise == Promise!Spec

\* Every request is answered, unless the process dies first: nobody waits
\* for ever for a payloadWrites mutex or for Store.mu.
RequestsFinish ==
  \A p \in Procs : pc[p] # "idle" ~> pc[p] = "idle"
-----------------------------------------------------------------------------
(***************************************************************************)
(* The inductive invariant behind the theorems of PayloadServiceProofs.    *)
(***************************************************************************)

PushLabels == {"lock", "head", "put", "link", "evict", "commitExists",
               "commitGet", "commitPut"}

ReadLabels == PcLabels \ (PushLabels \cup LegacyLabels \cup {"idle"})

\* Labels at which the handler's local record and remote info are set.
RecordLabels == {"commitPut", "recPut", "rangeHead", "rangeGet", "diskExists",
                 "diskOpen", "remHead", "etagPut", "remOpen", "markPut",
                 "existsDisk"}
InfoLabels == LegacyLabels \cup {"link", "evict", "commitExists", "commitGet",
                                 "commitPut", "rangeGet", "etagPut", "remOpen"}
ContentLabels == PushLabels \cup {"serve"}

\* Which local variables of a request are set at which step.
RequestShape(p) ==
  /\ pc[p] # "idle" => up /\ hash[p] \in Hashes /\ op[p] \in AllOps
  /\ pc[p] \in ContentLabels => body[p] \in Data
  /\ pc[p] \in LegacyLabels => ret[p] \in Callers
  /\ pc[p] \in LegacyLabels /\ ret[p] = "push" => body[p] \in Data
  /\ pc[p] = "etagPut" /\ ret[p] = "range" => body[p] \in Data
  /\ pc[p] = "legPut" => src[p] \in Data
  /\ pc[p] \in ReadLabels => ret[p] \in Callers \ {"push"}
  /\ pc[p] \in {"diskExists", "diskOpen", "remHead"} => ret[p] = "open2"
  /\ pc[p] \in InfoLabels => rem[p] \in Infos
  /\ pc[p] \in RecordLabels => rec[p] \in Records

RequestsShape == \A p \in Procs : RequestShape(p)

\* While S3 applies no PutObject late, a push that is about to write found
\* no object and nobody else can write one before it; a migration writes
\* back the content it read.
WriteReady(p) ==
  /\ pc[p] = "put" => objects[hash[p]] = None
  /\ pc[p] \in LegacyLabels => objects[hash[p]] # None
  /\ pc[p] = "legPut" => objects[hash[p]].data = src[p]

WritesReady == late = {} /\ \A p \in Procs : WriteReady(p)

\* A creation was reported only for an object that is there.
CreationsStored ==
  \A h \in Hashes : writes[h] <= 1 /\ (objects[h] = None => writes[h] = 0)

TypedInv == TypeOK /\ RequestsShape
LockInv == TypedInv /\ LockMatchesSection
WriteInv == LockInv /\ WritesReady /\ CreationsStored

\* Where there may be legacy objects, contents with one CRC32C have one size:
\* a push onto a legacy object compares the checksum alone.
ChecksumTellsSize ==
  OldHashes # {} =>
    \A d, e \in Data : Checksum[d] = Checksum[e] => Size[d] = Size[e]

\* A content has the identity of the object S3 holds under h.
Agrees(d, h) ==
  /\ objects[h] # None
  /\ Checksum[d] = Checksum[objects[h].data]
  /\ Size[d] = Size[objects[h].data]

\* The object under h carries the CRC32C of its content.
Migrated(h) ==
  objects[h] # None /\ objects[h].checksum = Checksum[objects[h].data]

\* A record says nothing wrong about the object under h.
Describes(r, h) ==
  /\ objects[h] # None
  /\ r.size = Size[objects[h].data]
  /\ r.checksum # Unset => Migrated(h) /\ r.checksum = objects[h].checksum

Recorded(h) == meta[h] # None /\ meta[h].checksum # Unset

ObjectsTrue ==
  \A h \in Hashes : objects[h] # None =>
    IF objects[h].checksum = Unset THEN h \in OldHashes ELSE Migrated(h)

RecordsTrue == \A h \in Hashes : meta[h] # None => Describes(meta[h], h)

CachesTrue ==
  \A h \in Hashes : /\ disk[h] # None => Agrees(disk[h], h)
                    /\ mem[h] # None => Agrees(mem[h], h)

AcksTrue ==
  \A h \in Hashes : \A a \in acked[h] :
    /\ Migrated(h) /\ Recorded(h)
    /\ a[1] = objects[h].checksum /\ a[2] = Size[objects[h].data]

\* Steps of a push behind its PutObject, and steps behind payloadRecord.
StoredLabels == {"link", "evict", "commitExists", "commitGet", "commitPut"}
RecordedLabels == {"rangeHead", "rangeGet", "diskExists", "diskOpen", "remHead",
                   "etagPut", "remOpen", "serve", "markGet", "markPut",
                   "existsDisk"}

\* payloadRecord holds the record it found, if any.
Repairing(p) ==
  pc[p] = "recHead" \/ (pc[p] \in LegacyLabels /\ ret[p] # "push")

\* What the local variables of a request say about the bucket.
RequestTrue(p) ==
  /\ pc[p] \in StoredLabels => Migrated(hash[p]) /\ Agrees(body[p], hash[p])
  /\ pc[p] \in LegacyLabels => /\ hash[p] \in OldHashes
                                /\ rem[p].size = Size[objects[hash[p]].data]
  /\ pc[p] \in {"legReopen", "legPut"} =>
       /\ rem[p].checksum = Checksum[objects[hash[p]].data]
       /\ ret[p] = "push" => Checksum[body[p]] = Checksum[objects[hash[p]].data]
  /\ pc[p] \in RecordLabels =>
       Describes(rec[p], hash[p]) /\ rec[p].checksum # Unset
  /\ Repairing(p) /\ rec[p] # None => Describes(rec[p], hash[p])
  /\ pc[p] \in RecordedLabels => Recorded(hash[p])
  /\ pc[p] = "serve" \/ (pc[p] = "etagPut" /\ ret[p] = "range") =>
       Agrees(body[p], hash[p])

RequestsTrue == \A p \in Procs : RequestTrue(p)

\* While S3 applies no PutObject late, bucket, records, caches, responses and
\* what the requests carry agree about every content.
DurableInv ==
  /\ WriteInv /\ ObjectsTrue /\ RecordsTrue /\ CachesTrue /\ AcksTrue
  /\ RequestsTrue /\ ServedIntact

\* Which kind of request is at which step.
OpShape(p) ==
  /\ pc[p] \in PushLabels => op[p] \in PushOps
  /\ pc[p] \in LegacyLabels /\ ret[p] = "push" => op[p] \in PushOps
  /\ pc[p] \in ReadLabels \/ (pc[p] \in LegacyLabels /\ ret[p] # "push") =>
       IF ret[p] = "exists" THEN op[p] = "exists" ELSE op[p] \in PullOps
  /\ pc[p] \in RecordedLabels \cup {"rangeExists"} =>
       (pc[p] = "existsDisk" <=> ret[p] = "exists")

OpsInv == DurableInv /\ \A p \in Procs : OpShape(p)

\* A legacy object has the ETag that VAPS's own PutObject gives its content.
LegacyETagKept == OldHashes # {} => LegacyETag = ETag

\* While an object keeps its ETag through the migration, so do records and
\* responses of S3; and a running server has no legacy record without ETag.
ETagOf(e, h) == e # Unset => e = ETag[objects[h].data]

RecordsRestart ==
  \A h \in Hashes : meta[h] # None =>
    /\ ETagOf(meta[h].etag, h)
    /\ meta[h].etag = Unset /\ meta[h].checksum = Unset =>
         ~up /\ objects[h].checksum = Unset

RequestRestart(p) ==
  /\ pc[p] \in InfoLabels => ETagOf(rem[p].etag, hash[p])
  /\ pc[p] \in RecordLabels => ETagOf(rec[p].etag, hash[p])
  /\ Repairing(p) /\ rec[p] # None => ETagOf(rec[p].etag, hash[p])

RestartInv ==
  DurableInv /\ RecordsRestart /\ \A p \in Procs : RequestRestart(p)
=============================================================================
