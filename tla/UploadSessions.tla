--------------------------- MODULE UploadSessions ---------------------------
(***************************************************************************)
(* Resumable (tus) uploads: the session store of internal/uploadsession (a *)
(* bbolt database and one temporary file per session), the tus handlers of *)
(* internal/httpapi/payload_push.go and the clean-up goroutine of          *)
(* cmd/vaps.  The payload core behind finalizeUpload is one step here; it  *)
(* is PayloadService's subject.                                            *)
(*                                                                         *)
(* Bytes are their positions in the payload a client uploads: the right    *)
(* content is 1, 2, ..., PayloadLen, and a checksum accepts nothing else.  *)
(* Clients send the right bytes for the offset they name; what they may do *)
(* is repeat, race, abandon or overrun.                                    *)
(***************************************************************************)
EXTENDS Integers, Sequences, FiniteSets

CONSTANTS
  Procs,       \* concurrent tus requests
  Ids,         \* upload ids, drawn at random and never drawn twice
  PayloadLen,  \* size of the payload
  MaxChunk,    \* bound: bytes of one request body
  MaxFile,     \* bound: a client sends nothing to a file that would pass it
  MaxRefs,     \* bound: partials in one Upload-Concat
  Expiration,  \* life time of an idle session
  MaxNow,      \* bound: the clock
  Faulty,      \* may the process die and may a write to a file fail half-way?
  None

Kinds == {"regular", "partial", "final"}
Bytes == Nat

\* uploadsession.Session; done is a CompletedAt left by an older release.
Sessions == [kind : Kinds, length : Nat, offset : Nat, refs : Seq(Ids),
             expires : Nat, done : BOOLEAN]

ASSUME UploadConstants ==
  /\ PayloadLen \in Nat /\ MaxChunk \in Nat /\ MaxFile \in Nat
  /\ MaxRefs \in Nat /\ Expiration \in Nat /\ MaxNow \in Nat
  /\ Faulty \in BOOLEAN
  /\ None \notin Procs /\ None \notin Ids
  /\ None \notin Sessions /\ None \notin Seq(Bytes)
  /\ "cleaner" \notin Procs

VARIABLES
  now,       \* the clock
  sessions,  \* the sessions bucket: id -> session or None
  files,     \* the temporary files: id -> bytes or None
  used,      \* ids drawn so far
  base,      \* where in the payload the client of an id begins
  stored,    \* has the payload reached S3 and the metadata?
  tx,        \* the request inside the bbolt write transaction of Append
  toPurge,   \* CleanupExpired: ids of its snapshot not yet terminated
  cleaning,  \* CleanupExpired: the id whose file it removes next
  pc, id, off, n, kind, refs, unlink,  \* each request: see below
  answer,    \* outcome of the response the last step sent, None if none
  completed  \* history: 201 responses to a completed upload, per id (0..2)

locals == <<id, off, n, kind, refs, unlink>>
cleaner == <<toPurge, cleaning>>
vars == <<now, sessions, files, used, base, stored, tx, toPurge, cleaning,
          pc, id, off, n, kind, refs, unlink, answer, completed>>

\* The next store call of a request.
Labels == {"idle", "createFile", "createPut", "append", "commit", "copy",
           "refresh", "read", "store", "complete", "terminate", "abort",
           "unlink", "unlinkAborted"}

TypeOK ==
  /\ now \in 0..MaxNow
  /\ sessions \in [Ids -> Sessions \cup {None}]
  /\ files \in [Ids -> Seq(Bytes) \cup {None}]
  /\ used \subseteq Ids
  /\ base \in [Ids -> 0..PayloadLen]
  /\ stored \in BOOLEAN
  /\ tx \in Procs \cup {None}
  /\ toPurge \subseteq Ids
  /\ cleaning \in Ids \cup {None}
  /\ pc \in [Procs -> Labels]
  /\ id \in [Procs -> Ids \cup {None}]     \* its session
  /\ off \in [Procs -> Nat]                \* Upload-Offset; total of a final
  /\ n \in [Procs -> 0..MaxChunk]          \* length of its body
  /\ kind \in [Procs -> Kinds]             \* what it creates
  /\ refs \in [Procs -> Seq(Ids)]          \* partials still to copy
  /\ unlink \in [Procs -> SUBSET Ids]      \* files it still has to remove
  /\ answer \in {"ok", "refused", "incomplete", None}
  /\ completed \in [Ids -> 0..2]

\* Older releases left completed sessions behind; nothing else is there.
Residue == [kind |-> "regular", length |-> PayloadLen, offset |-> PayloadLen,
            refs |-> <<>>, expires |-> 0, done |-> TRUE]

Slice(b, k) == [i \in 1..k |-> b + i]

Init ==
  /\ now = 0
  /\ used \in {{}} \cup {{i} : i \in Ids}
  /\ sessions = [i \in Ids |-> IF i \in used THEN Residue ELSE None]
  /\ files = [i \in Ids |-> IF i \in used THEN Slice(0, PayloadLen) ELSE None]
  /\ base = [i \in Ids |-> 0]
  /\ stored = (used # {})
  /\ tx = None
  /\ toPurge = {}
  /\ cleaning = None
  /\ pc = [p \in Procs |-> "idle"]
  /\ id = [p \in Procs |-> None]
  /\ off = [p \in Procs |-> 0]
  /\ n = [p \in Procs |-> 0]
  /\ kind = [p \in Procs |-> "regular"]
  /\ refs = [p \in Procs |-> <<>>]
  /\ unlink = [p \in Procs |-> {}]
  /\ answer = None
  /\ completed = [i \in Ids |-> 0]
-----------------------------------------------------------------------------
Goto(p, l) == pc' = [pc EXCEPT ![p] = l]

Continue(p, l) == Goto(p, l) /\ answer' = None

Free(p) ==
  /\ Goto(p, "idle")
  /\ id' = [id EXCEPT ![p] = None]
  /\ off' = [off EXCEPT ![p] = 0]
  /\ n' = [n EXCEPT ![p] = 0]
  /\ kind' = [kind EXCEPT ![p] = "regular"]
  /\ refs' = [refs EXCEPT ![p] = <<>>]
  /\ unlink' = [unlink EXCEPT ![p] = {}]

Answer(p, code) == Free(p) /\ answer' = code

\* A request that is refused before it changes anything.
Refuse(code) ==
  /\ answer' = code
  /\ UNCHANGED <<now, sessions, files, used, base, stored, tx, cleaner, pc,
                 locals, completed>>

\* ensureActiveLocked.
Active(s) == s # None /\ ~s.done /\ now <= s.expires
-----------------------------------------------------------------------------
(* Store.Create: the file first, then the record.                          *)

\* Bound: ids are not exhausted.
IdsLeft == Cardinality({p \in Procs : pc[p] = "createFile"})
             < Cardinality(Ids \ used)

\* tusCreateUpload (with m bytes of body) and Upload-Concat: partial.
StartCreate(p, k, m) ==
  /\ pc[p] = "idle" /\ IdsLeft
  /\ k \in {"regular", "partial"}
  /\ k = "partial" => m = 0
  /\ kind' = [kind EXCEPT ![p] = k]
  /\ n' = [n EXCEPT ![p] = m]
  /\ Continue(p, "createFile")
  /\ UNCHANGED <<now, sessions, files, used, base, stored, tx, cleaner, id, off,
                 refs, unlink, completed>>

CreateFile(p, i, b) ==
  /\ pc[p] = "createFile"
  /\ i \notin used
  /\ kind[p] # "partial" => b = 0
  /\ used' = used \cup {i}
  /\ base' = [base EXCEPT ![i] = b]
  /\ files' = [files EXCEPT ![i] = <<>>]
  /\ id' = [id EXCEPT ![p] = i]
  /\ Continue(p, "createPut")
  /\ UNCHANGED <<now, sessions, stored, tx, cleaner, off, n, kind, refs, unlink,
                 completed>>

\* Mutant: the length of a partial upload is marked as unknown.
NewLengthUnknown(p) == IF kind[p] = "partial" THEN -1 ELSE PayloadLen

\* A partial upload is created with length 0 whatever its Upload-Length says.
NewLength(p) == CASE kind[p] = "regular" -> PayloadLen
                  [] kind[p] = "partial" -> 0
                  [] kind[p] = "final" -> off[p]

CreatePut(p) ==
  /\ pc[p] = "createPut"
  /\ tx = None
  /\ sessions' = [sessions EXCEPT ![id[p]] =
       [kind |-> kind[p], length |-> NewLength(p), offset |-> 0,
        refs |-> refs[p], expires |-> now + Expiration, done |-> FALSE]]
  /\ \/ /\ kind[p] = "final"
        /\ Continue(p, "copy")
        /\ UNCHANGED locals
     \/ /\ n[p] > 0
        /\ Continue(p, "append")
        /\ UNCHANGED locals
     \/ /\ kind[p] # "final" /\ n[p] = 0
        /\ Answer(p, "ok")
  /\ UNCHANGED <<now, files, used, base, stored, tx, cleaner, completed>>

\* The database refuses the record: the file is removed again.
CreatePutError(p) ==
  /\ pc[p] = "createPut"
  /\ Faulty
  /\ files' = [files EXCEPT ![id[p]] = None]
  /\ Answer(p, "refused")
  /\ UNCHANGED <<now, sessions, used, base, stored, tx, cleaner, completed>>
-----------------------------------------------------------------------------
(* Store.Append.  The file is written inside the bbolt transaction that    *)
(* checked the offset; the new offset is visible when it commits.          *)

\* tusPatchUpload up to its Append.  The session's identity or the digest of
\* the chunk may not match: then the request is refused as well.
StartPatch(p, i, o, m) ==
  /\ pc[p] = "idle"
  /\ Active(sessions[i])
  /\ o + m <= MaxFile /\ Len(files[i]) + m <= MaxFile
  /\ id' = [id EXCEPT ![p] = i]
  /\ off' = [off EXCEPT ![p] = o]
  /\ n' = [n EXCEPT ![p] = m]
  /\ Continue(p, "append")
  /\ UNCHANGED <<now, sessions, files, used, base, stored, tx, cleaner, kind,
                 refs, unlink, completed>>

\* Mutant: the offset is not compared.
AppendableAnywhere(p) ==
  /\ Active(sessions[id[p]])
  /\ sessions[id[p]].kind # "final"
  /\ files[id[p]] # None

Appendable(p) ==
  /\ Active(sessions[id[p]])
  /\ sessions[id[p]].kind # "final"
  /\ sessions[id[p]].offset = off[p]
  /\ files[id[p]] # None

Chunk(p) == Slice(base[id[p]] + off[p], n[p])

AppendRefused(p) ==
  /\ pc[p] = "append"
  /\ tx = None
  /\ ~Appendable(p)
  /\ Answer(p, "refused")
  /\ UNCHANGED <<now, sessions, files, used, base, stored, tx, cleaner, completed>>

\* Mutant: the file is opened with O_TRUNC instead of O_APPEND.
AppendWriteTruncating(p) ==
  /\ pc[p] = "append"
  /\ tx = None
  /\ Appendable(p)
  /\ tx' = p
  /\ files' = [files EXCEPT ![id[p]] = Chunk(p)]
  /\ Continue(p, "commit")
  /\ UNCHANGED <<now, sessions, used, base, stored, cleaner, locals, completed>>

AppendWrite(p) ==
  /\ pc[p] = "append"
  /\ tx = None
  /\ Appendable(p)
  /\ tx' = p
  /\ files' = [files EXCEPT ![id[p]] = @ \o Chunk(p)]
  /\ Continue(p, "commit")
  /\ UNCHANGED <<now, sessions, used, base, stored, cleaner, locals, completed>>

\* The handler then finalizes an upload whose offset has reached its length.
AppendCommit(p) ==
  /\ pc[p] = "commit"
  /\ tx' = None
  /\ sessions' = [sessions EXCEPT ![id[p]].offset = @ + n[p],
                                  ![id[p]].expires = now + Expiration]
  /\ \/ /\ sessions'[id[p]].offset = sessions[id[p]].length
        /\ Continue(p, "read")
        /\ UNCHANGED locals
     \/ /\ sessions'[id[p]].offset # sessions[id[p]].length
        /\ Answer(p, "ok")
  /\ UNCHANGED <<now, files, used, base, stored, cleaner, completed>>

\* The write stops half-way, or the commit fails: the transaction is rolled
\* back, the bytes written stay in the file.
AppendError(p) ==
  /\ Faulty
  /\ \/ /\ pc[p] = "append" /\ tx = None /\ Appendable(p)
        /\ \E k \in 0..n[p] :
             files' = [files EXCEPT ![id[p]] = @ \o SubSeq(Chunk(p), 1, k)]
        /\ UNCHANGED tx
     \/ /\ pc[p] = "commit"
        /\ tx' = None
        /\ UNCHANGED files
  /\ Answer(p, "refused")
  /\ UNCHANGED <<now, sessions, used, base, stored, cleaner, completed>>
-----------------------------------------------------------------------------
(* finalizeUpload.                                                         *)

\* OpenTemp and Stage: the checksum accepts only the payload.
FinalizeRead(p) ==
  /\ pc[p] = "read"
  /\ \/ /\ Active(sessions[id[p]])
        /\ files[id[p]] = Slice(0, PayloadLen)
        /\ Continue(p, "store")
        /\ UNCHANGED locals
     \/ /\ ~Active(sessions[id[p]]) \/ files[id[p]] # Slice(0, PayloadLen)
        /\ Answer(p, "refused")
  /\ UNCHANGED <<now, sessions, files, used, base, stored, tx, cleaner, completed>>

\* putPayloadDurably and commitPayloadMetadata succeed, or fail.
FinalizeStore(p) ==
  /\ pc[p] = "store"
  /\ \/ /\ stored' = TRUE
        /\ Continue(p, "complete")
        /\ UNCHANGED locals
     \/ /\ Answer(p, "refused")
        /\ UNCHANGED stored
  /\ UNCHANGED <<now, sessions, files, used, base, tx, cleaner, completed>>

PartialsOf(s) == IF s.kind = "final" THEN {s.refs[k] : k \in 1..Len(s.refs)}
                                     ELSE {}

\* Mutant: the session is only marked, as in older releases.
MarkCompletedKept(p) ==
  /\ pc[p] = "complete"
  /\ tx = None
  /\ sessions[id[p]] # None
  /\ sessions' = [sessions EXCEPT ![id[p]].done = TRUE]
  /\ completed' = [completed EXCEPT ![id[p]] = IF @ < 2 THEN @ + 1 ELSE @]
  /\ Answer(p, "ok")
  /\ UNCHANGED <<now, files, used, base, stored, tx, cleaner>>

\* MarkCompleted: the records of the session and of its partials go in one
\* transaction, their files afterwards.
MarkCompleted(p) ==
  /\ pc[p] = "complete"
  /\ tx = None
  /\ \/ /\ sessions[id[p]] = None
        /\ Answer(p, "refused")
        /\ UNCHANGED <<sessions, completed>>
     \/ /\ sessions[id[p]] # None
        /\ LET gone == {id[p]} \cup {i \in PartialsOf(sessions[id[p]]) :
                                       sessions[i] # None}
           IN /\ sessions' = [i \in Ids |-> IF i \in gone THEN None
                                                          ELSE sessions[i]]
              /\ unlink' = [unlink EXCEPT ![p] = gone]
        /\ completed' = [completed EXCEPT ![id[p]] = IF @ < 2 THEN @ + 1 ELSE @]
        /\ Continue(p, "unlink")
        /\ UNCHANGED <<id, off, n, kind, refs>>
  /\ UNCHANGED <<now, files, used, base, stored, tx, cleaner>>

\* os.Remove of each file; then the handler answers.
Unlink(p, i) ==
  /\ pc[p] \in {"unlink", "unlinkAborted"}
  /\ i \in unlink[p]
  /\ files' = [files EXCEPT ![i] = None]
  /\ \/ /\ unlink[p] # {i}
        /\ unlink' = [unlink EXCEPT ![p] = @ \ {i}]
        /\ UNCHANGED <<pc, id, off, n, kind, refs>>
        /\ answer' = None
     \/ /\ unlink[p] = {i}
        /\ Answer(p, IF pc[p] = "unlink" THEN "ok" ELSE "refused")
  /\ UNCHANGED <<now, sessions, used, base, stored, tx, cleaner, completed>>
-----------------------------------------------------------------------------
(* Terminate, by DELETE or when a concatenation fails.                     *)

StartDelete(p, i) ==
  /\ pc[p] = "idle"
  /\ Active(sessions[i])
  /\ id' = [id EXCEPT ![p] = i]
  /\ Continue(p, "terminate")
  /\ UNCHANGED <<now, sessions, files, used, base, stored, tx, cleaner, off, n,
                 kind, refs, unlink, completed>>

\* Mutant: the file is left behind.
TerminateLeaky(p) ==
  /\ pc[p] \in {"terminate", "abort"}
  /\ tx = None
  /\ sessions' = [sessions EXCEPT ![id[p]] = None]
  /\ Answer(p, "ok")
  /\ UNCHANGED <<now, files, used, base, stored, tx, cleaner, completed>>

\* Mutant: the file goes before the record.
TerminateFileFirst(p) ==
  /\ pc[p] \in {"terminate", "abort"}
  /\ tx = None
  /\ \/ /\ files[id[p]] # None
        /\ files' = [files EXCEPT ![id[p]] = None]
        /\ Continue(p, pc[p])
        /\ UNCHANGED <<sessions, locals>>
     \/ /\ files[id[p]] = None
        /\ sessions' = [sessions EXCEPT ![id[p]] = None]
        /\ Answer(p, "ok")
        /\ UNCHANGED files
  /\ UNCHANGED <<now, used, base, stored, tx, cleaner, completed>>

Terminate(p) ==
  /\ pc[p] \in {"terminate", "abort"}
  /\ tx = None
  /\ sessions' = [sessions EXCEPT ![id[p]] = None]
  /\ \/ /\ sessions[id[p]] = None
        /\ Answer(p, IF pc[p] = "terminate" THEN "ok" ELSE "refused")
     \/ /\ sessions[id[p]] # None
        /\ unlink' = [unlink EXCEPT ![p] = {id[p]}]
        /\ Continue(p, IF pc[p] = "terminate" THEN "unlink" ELSE "unlinkAborted")
        /\ UNCHANGED <<id, off, n, kind, refs>>
  /\ UNCHANGED <<now, files, used, base, stored, tx, cleaner, completed>>

\* The transaction of MarkCompleted, Terminate or refreshOffset fails.
TransactionError(p) ==
  /\ Faulty
  /\ pc[p] \in {"complete", "terminate", "abort", "refresh"}
  /\ Answer(p, "refused")
  /\ UNCHANGED <<now, sessions, files, used, base, stored, tx, cleaner, completed>>

\* PATCH, HEAD or DELETE for an id that is not, or no longer, active.
GoneRefused(p, i) ==
  /\ pc[p] = "idle"
  /\ ~Active(sessions[i])
  /\ Refuse("refused")
-----------------------------------------------------------------------------
(* tusCreateConcat with Upload-Concat: final, and BuildFinalFromPartials.  *)

Complete(s) == s.offset = s.length

TotalLength(rs) ==
  LET total[k \in 0..Len(rs)] ==
        IF k = 0 THEN 0 ELSE total[k - 1] + sessions[rs[k]].length
  IN total[Len(rs)]

\* Every reference must be an active partial session; the first condition of
\* BuildFinalFromPartials that fails for the others is "incomplete".
StartFinal(p, rs) ==
  /\ pc[p] = "idle" /\ IdsLeft
  /\ \A k \in 1..Len(rs) : Active(sessions[rs[k]]) /\ sessions[rs[k]].kind = "partial"
  /\ \A k \in 1..Len(rs) : Complete(sessions[rs[k]])
  /\ kind' = [kind EXCEPT ![p] = "final"]
  /\ refs' = [refs EXCEPT ![p] = rs]
  /\ off' = [off EXCEPT ![p] = TotalLength(rs)]
  /\ Continue(p, "createFile")
  /\ UNCHANGED <<now, sessions, files, used, base, stored, tx, cleaner, id, n,
                 unlink, completed>>

FinalIncomplete(p, rs) ==
  /\ pc[p] = "idle"
  /\ \A k \in 1..Len(rs) : Active(sessions[rs[k]]) /\ sessions[rs[k]].kind = "partial"
  /\ \E k \in 1..Len(rs) : ~Complete(sessions[rs[k]])
  /\ Refuse("incomplete")

\* One partial file is copied behind the others.  If the final session was
\* purged meanwhile, its unlinked file receives the bytes.
CopyPartial(p) ==
  /\ pc[p] = "copy"
  /\ refs[p] # <<>>
  /\ \/ /\ files[Head(refs[p])] # None
        /\ files' = [files EXCEPT ![id[p]] =
                       IF @ = None THEN None ELSE @ \o files[Head(refs[p])]]
        /\ refs' = [refs EXCEPT ![p] = Tail(@)]
        /\ Continue(p, "copy")
     \/ /\ files[Head(refs[p])] = None \/ Faulty
        /\ Continue(p, "abort")
        /\ UNCHANGED <<files, refs>>
  /\ UNCHANGED <<now, sessions, used, base, stored, tx, cleaner, id, off, n,
                 kind, unlink, completed>>

CopyDone(p) ==
  /\ pc[p] = "copy"
  /\ refs[p] = <<>>
  /\ Continue(p, "refresh")
  /\ UNCHANGED <<now, sessions, files, used, base, stored, tx, cleaner, locals,
                 completed>>

\* refreshOffset, which does not ask whether the session is active.
RefreshOffset(p) ==
  /\ pc[p] = "refresh"
  /\ tx = None
  /\ \/ /\ sessions[id[p]] # None
        /\ sessions' = [sessions EXCEPT ![id[p]].offset = off[p],
                                        ![id[p]].expires = now + Expiration]
        /\ Continue(p, "read")
        /\ UNCHANGED locals
     \/ /\ sessions[id[p]] = None
        /\ Answer(p, "refused")
        /\ UNCHANGED sessions
  /\ UNCHANGED <<now, files, used, base, stored, tx, cleaner, completed>>
-----------------------------------------------------------------------------
(* The clean-up goroutine: CleanupExpired on every tick.                   *)

Purgeable(s) == s # None /\ (s.done \/ now > s.expires)

\* Mutant: only completed sessions are purged.
CleanScanCompleted ==
  /\ toPurge = {} /\ cleaning = None
  /\ toPurge' = {i \in Ids : sessions[i] # None /\ sessions[i].done}
  /\ toPurge' # {}
  /\ answer' = None
  /\ UNCHANGED <<now, sessions, files, used, base, stored, tx, cleaning, pc,
                 locals, completed>>

\* The snapshot is read in a transaction of its own ...
CleanScan ==
  /\ toPurge = {} /\ cleaning = None
  /\ toPurge' = {i \in Ids : Purgeable(sessions[i])}
  /\ toPurge' # {}
  /\ answer' = None
  /\ UNCHANGED <<now, sessions, files, used, base, stored, tx, cleaning, pc,
                 locals, completed>>

\* ... and every session in it is terminated without another look.
CleanTerminate(i) ==
  /\ i \in toPurge /\ cleaning = None
  /\ tx = None
  /\ toPurge' = toPurge \ {i}
  /\ cleaning' = IF sessions[i] = None THEN None ELSE i
  /\ sessions' = [sessions EXCEPT ![i] = None]
  /\ answer' = None
  /\ UNCHANGED <<now, files, used, base, stored, tx, pc, locals, completed>>

CleanUnlink ==
  /\ cleaning # None
  /\ files' = [files EXCEPT ![cleaning] = None]
  /\ cleaning' = None
  /\ answer' = None
  /\ UNCHANGED <<now, sessions, used, base, stored, tx, toPurge, pc, locals,
                 completed>>
-----------------------------------------------------------------------------
Tick ==
  /\ now < MaxNow
  /\ now' = now + 1
  /\ answer' = None
  /\ UNCHANGED <<sessions, files, used, base, stored, tx, cleaner, pc, locals,
                 completed>>

\* The process dies and comes back: the database rolls an open transaction
\* back, the files stay as they are.
Crash ==
  /\ Faulty
  /\ tx' = None
  /\ toPurge' = {} /\ cleaning' = None
  /\ pc' = [p \in Procs |-> "idle"]
  /\ id' = [p \in Procs |-> None]
  /\ off' = [p \in Procs |-> 0]
  /\ n' = [p \in Procs |-> 0]
  /\ kind' = [p \in Procs |-> "regular"]
  /\ refs' = [p \in Procs |-> <<>>]
  /\ unlink' = [p \in Procs |-> {}]
  /\ answer' = None
  /\ UNCHANGED <<now, sessions, files, used, base, stored, completed>>

RefLists == UNION {[1..k -> Ids] : k \in 0..MaxRefs}

Request(p) ==
  \/ \E k \in Kinds, m \in 0..MaxChunk : StartCreate(p, k, m)
  \/ \E i \in Ids, o \in 0..MaxFile, m \in 0..MaxChunk : StartPatch(p, i, o, m)
  \/ \E i \in Ids : StartDelete(p, i) \/ GoneRefused(p, i)
  \/ \E rs \in RefLists : StartFinal(p, rs) \/ FinalIncomplete(p, rs)

Step(p) ==
  \/ \E i \in Ids, b \in 0..PayloadLen : CreateFile(p, i, b)
  \/ CreatePut(p) \/ CreatePutError(p)
  \/ AppendRefused(p) \/ AppendWrite(p) \/ AppendCommit(p) \/ AppendError(p)
  \/ FinalizeRead(p) \/ FinalizeStore(p) \/ MarkCompleted(p)
  \/ Terminate(p) \/ TransactionError(p) \/ (\E i \in Ids : Unlink(p, i))
  \/ CopyPartial(p) \/ CopyDone(p) \/ RefreshOffset(p)

Clean == CleanScan \/ (\E i \in Ids : CleanTerminate(i)) \/ CleanUnlink

Next == (\E p \in Procs : Request(p) \/ Step(p)) \/ Clean \/ Tick \/ Crash

Spec == Init /\ [][Next]_vars

\* Requests run to their end, the clean-up ticker keeps firing, and a writer
\* that waits for the bbolt lock gets it in its turn.
Fairness ==
  /\ \A p \in Procs : WF_vars(Step(p))
  /\ WF_vars(CleanScan) /\ WF_vars(CleanUnlink)
  /\ \A i \in Ids : SF_vars(CleanTerminate(i))

LiveSpec == Spec /\ Fairness
-----------------------------------------------------------------------------
(***************************************************************************)
(* Properties.                                                             *)
(***************************************************************************)

\* A session in the database always has its temporary file, at every crash
\* point: the file is created before the record and removed after it
\* (store.go:115-138, 190-253).
SessionHasFile == \A i \in Ids : sessions[i] # None => files[i] # None

\* No acknowledged byte of an upload is lost: the file of a session holds at
\* least Upload-Offset bytes, over crashes and failed writes.
AckedBytesKept ==
  \A i \in Ids : sessions[i] # None /\ sessions[i].kind # "final" =>
    Len(files[i]) >= sessions[i].offset

\* Without faults the file is exactly the part of the payload that the
\* session's offset announces, however many requests race, repeat or are
\* refused: exactly one of two appends at one offset takes effect
\* (store.go:153-188).
ContiguousUpload ==
  \A i \in Ids :
    /\ sessions[i] # None
    /\ sessions[i].kind # "final"
    /\ \A p \in Procs : tx = p => id[p] # i
    => files[i] = Slice(base[i], sessions[i].offset)

\* A session is completed at most once, and then the payload is stored.
CompletedOnce ==
  \A i \in Ids : completed[i] <= 1 /\ (completed[i] = 1 => stored)

\* Without crashes nothing leaks: when no request and no clean-up is under
\* way, every temporary file belongs to a session.
NoOrphanFile ==
  (\A p \in Procs : pc[p] = "idle") /\ cleaning = None =>
    \A i \in Ids : files[i] # None => sessions[i] # None

\* An expired session disappears in the end.
ExpiredPurged ==
  \A i \in Ids : Purgeable(sessions[i]) ~> ~Purgeable(sessions[i])
-----------------------------------------------------------------------------
(***************************************************************************)
(* The inductive invariants behind the theorems of UploadSessionsProofs.   *)
(***************************************************************************)

UnlinkLabels == {"unlink", "unlinkAborted"}

\* The request has drawn or named an id.
Named(p) == pc[p] \notin {"idle", "createFile"}

\* The record of i is gone for good and its file is about to go.
Doomed(i) ==
  /\ i \in used /\ sessions[i] = None
  /\ \A q \in Procs : pc[q] = "createPut" => id[q] # i

\* A request that has created its file has the id for itself; a request inside
\* the transaction of Append keeps everyone else from the sessions; a
\* concatenation works on a final session.
RequestShape(p) ==
  /\ Named(p) => id[p] \in used
  /\ pc[p] = "createPut" =>
       /\ sessions[id[p]] = None /\ files[id[p]] = <<>> /\ completed[id[p]] = 0
       /\ \A q \in Procs : q # p /\ Named(q) => id[q] # id[p]
  /\ pc[p] = "commit" <=> tx = p
  /\ pc[p] = "commit" =>
       /\ sessions[id[p]] # None /\ sessions[id[p]].kind # "final"
       /\ sessions[id[p]].offset = off[p]
       /\ Len(files[id[p]]) >= off[p] + n[p]
  /\ pc[p] \in {"copy", "refresh"} /\ sessions[id[p]] # None =>
       sessions[id[p]].kind = "final"
  /\ pc[p] = "complete" => stored
  /\ \A i \in unlink[p] : pc[p] \in UnlinkLabels /\ Doomed(i)

\* An id not drawn has nothing, a completed one has no session any more.
IdShape(i) ==
  /\ i \notin used => sessions[i] = None /\ files[i] = None /\ completed[i] = 0
  /\ completed[i] # 0 => completed[i] = 1 /\ stored /\ sessions[i] = None
  /\ cleaning = i => Doomed(i)

UploadInv ==
  /\ TypeOK /\ SessionHasFile /\ AckedBytesKept
  /\ \A p \in Procs : RequestShape(p)
  /\ \A i \in Ids : IdShape(i)

\* Without faults: what a transaction under way has written, and who has to
\* remove a file that belongs to no session.
WrittenExactly ==
  \A p \in Procs : pc[p] = "commit" =>
    files[id[p]] = Slice(base[id[p]], off[p] + n[p])

Accounted ==
  \A i \in Ids : files[i] # None =>
    \/ sessions[i] # None \/ cleaning = i
    \/ \E p \in Procs : (pc[p] = "createPut" /\ id[p] = i) \/ i \in unlink[p]

ExactInv == UploadInv /\ ContiguousUpload /\ WrittenExactly /\ Accounted
=============================================================================
