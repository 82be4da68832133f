---------------------------- MODULE StartupCheck ----------------------------
(***************************************************************************)
(* The startup validation of cmd/vaps (startup_check.go): the main         *)
(* goroutine lists the bucket and hands the payloads that need a           *)
(* HeadObject to a pool of workers over an unbuffered channel; the first   *)
(* error cancels the others; a progress goroutine runs beside them; a      *)
(* signal may cancel everything at any time.                               *)
(***************************************************************************)
EXTENDS Naturals, FiniteSets

CONSTANTS
  Hashes,        \* payload hashes
  Workers,       \* worker goroutines of the pool
  RecordValues,  \* records metadata may hold at startup, None included
  ObjectValues,  \* objects S3 may hold at startup, None included
  None,          \* no record, no object, no job, no verdict
  Unset          \* an empty checksum or ETag

\* normalizeMetadataValidationOptions never leaves a pool without workers.
ASSUME WorkersAssumption == IsFiniteSet(Hashes) /\ IsFiniteSet(Workers) /\ Workers # {}

\* Records and objects have a checksum, a size and an ETag, and None is
\* neither.
ASSUME ValuesAssumption ==
  /\ \A r \in (RecordValues \cup ObjectValues) \ {None} :
       r = [checksum |-> r.checksum, size |-> r.size, etag |-> r.etag]
  /\ \A r \in RecordValues \ {None}, o \in ObjectValues \ {None} :
       [r EXCEPT !.etag = o.etag] # None
  /\ None \notin Hashes \cup {"accept", "refuse", "invalid", "io", "canceled"}

VARIABLES
  meta,       \* [Hashes -> record or None]: the payloads of metadata.Store
  objects,    \* [Hashes -> object or None]: the bucket
  lister,     \* objects implements objectstore.ListStore
  fault,      \* history: an S3 or bbolt call has failed by itself
  ctxDone,    \* ctx is cancelled: the process was told to stop
  verdict,    \* what validateMetadataPayloads returned: "accept" is nil
  main,       \* where the main goroutine is
  todo,       \* payloads not yet sent on jobs
  cancelled,  \* cancel() of validationCtx has been called
  closed,     \* jobs is closed
  firstErr,   \* the error recorded first, or None
  worker,     \* [Workers -> where the worker is]
  job,        \* [Workers -> the payload it holds, or None]
  err,        \* [Workers -> the error it is about to record, or None]
  progress,   \* the progress goroutine: "off", "on" or "gone"
  checked     \* the number of payloads checked, for the log

world == <<objects, lister>>
pool  == <<worker, job, err>>
vars  == <<meta, objects, lister, fault, ctxDone, verdict, main, todo,
           cancelled, closed, firstErr, worker, job, err, progress, checked>>

Promise == INSTANCE StartupPromise WITH
  meta <- meta, objects <- objects, lister <- lister, fault <- fault,
  ctxDone <- ctxDone, verdict <- verdict

Errors == {"invalid", "io", "canceled"}
Payloads == {h \in Hashes : meta[h] # None}

\* validationCtx.Done() is ready: it is derived from ctx.
Done == ctxDone \/ cancelled

TypeOK ==
  /\ objects \in [Hashes -> ObjectValues]
  /\ DOMAIN meta = Hashes
  /\ \A h \in Hashes :
       \E r \in RecordValues : \/ meta[h] = r
                               \/ r # None /\ objects[h] # None
                                  /\ meta[h] = [r EXCEPT !.etag = objects[h].etag]
  /\ {lister, fault, ctxDone, cancelled, closed} \subseteq BOOLEAN
  /\ verdict \in {None, "accept", "refuse"}
  /\ main \in {"query", "list", "send", "close", "wait", "progress", "result",
               "final", "done"}
  /\ todo \subseteq Hashes
  /\ firstErr \in Errors \cup {None}
  /\ worker \in [Workers -> {"off", "select", "head", "put", "fail", "gone"}]
  /\ job \in [Workers -> Hashes \cup {None}]
  /\ err \in [Workers -> Errors \cup {None}]
  /\ progress \in {"off", "on", "gone"}
  /\ checked \in 0..Cardinality(Hashes)

Init ==
  /\ meta \in [Hashes -> RecordValues]
  /\ objects \in [Hashes -> ObjectValues]
  /\ lister \in BOOLEAN
  /\ fault = FALSE
  /\ ctxDone = FALSE
  /\ verdict = None
  /\ main = "query"
  /\ todo = {}
  /\ cancelled = FALSE
  /\ closed = FALSE
  /\ firstErr = None
  /\ worker = [w \in Workers |-> "off"]
  /\ job = [w \in Workers |-> None]
  /\ err = [w \in Workers |-> None]
  /\ progress = "off"
  /\ checked = 0
-----------------------------------------------------------------------------
(* The main goroutine.                                                     *)

\* validateMetadataPayloads returns: v is its result.
ReturnWith(v) == main' = "done" /\ verdict' = v

Go(l) == main' = l /\ UNCHANGED verdict

\* The head of validateMetadataPayloadsWithHead: workers and progress
\* goroutine start, ps are the payloads to send.
StartPool(ps) ==
  /\ todo' = ps
  /\ worker' = [w \in Workers |-> "select"]
  /\ progress' = "on"
  /\ Go("send")

NoPool == UNCHANGED <<todo, worker, progress>>

\* QueryPayloads reads the dashboard index; without payloads nothing is
\* asked of S3.
Query ==
  /\ main = "query"
  /\ \/ Payloads = {} /\ ReturnWith("accept") /\ NoPool
     \/ Payloads # {} /\ lister /\ Go("list") /\ NoPool
     \/ Payloads # {} /\ ~lister /\ StartPool(Payloads)
  /\ UNCHANGED <<meta, world, fault, ctxDone, cancelled, closed, firstErr, job,
                 err, checked>>

\* Mutant: the loop does not compare ETags.
ListedAnyETag(h) == objects[h] # None /\ objects[h].size = meta[h].size

\* What the loop over the listed objects accepts.
Listed(h) == Promise!ListValid(h)

WithoutETag == {h \in Payloads : meta[h].etag = Unset}

\* validateMetadataPayloadsWithList up to the call of WithHead.
List ==
  /\ main = "list"
  /\ \/ /\ \E h \in Payloads : ~Listed(h)
        /\ ReturnWith("refuse")
        /\ NoPool
        /\ UNCHANGED checked
     \/ /\ \A h \in Payloads : Listed(h)
        /\ checked' = Cardinality(Payloads \ WithoutETag)
        /\ IF WithoutETag = {} THEN Go("final") /\ NoPool
                               ELSE StartPool(WithoutETag)
  /\ UNCHANGED <<meta, world, fault, ctxDone, cancelled, closed, firstErr, job,
                 err>>

\* ListObjectsV2 fails by itself or because ctx is cancelled.
ListError ==
  /\ main = "list"
  /\ fault' \in {fault \/ ~ctxDone, TRUE}
  /\ ReturnWith("refuse")
  /\ UNCHANGED <<meta, world, ctxDone, todo, cancelled, closed, firstErr, pool,
                 progress, checked>>

\* jobs <- payload meets the receive of a worker.  Select picks any ready
\* case, so a payload may still be handed over when Done is ready.
Send(w) ==
  /\ main = "send"
  /\ worker[w] = "select"
  /\ \E h \in todo :
       /\ todo' = todo \ {h}
       /\ job' = [job EXCEPT ![w] = h]
  /\ worker' = [worker EXCEPT ![w] = "head"]
  /\ UNCHANGED <<meta, world, fault, ctxDone, verdict, main, cancelled, closed,
                 firstErr, err, progress, checked>>

\* The end of the sendJobs loop: nothing left, or Done.
SendEnd ==
  /\ main = "send"
  /\ todo = {} \/ Done
  /\ Go("close")
  /\ UNCHANGED <<meta, world, fault, ctxDone, todo, cancelled, closed, firstErr,
                 pool, progress, checked>>

Close ==
  /\ main = "close"
  /\ closed' = TRUE
  /\ Go("wait")
  /\ UNCHANGED <<meta, world, fault, ctxDone, todo, cancelled, firstErr, pool,
                 progress, checked>>

WorkersGone == \A w \in Workers : worker[w] = "gone"

\* Mutant: main does not wait for the workers.
WaitDropped ==
  /\ main = "wait"
  /\ cancelled' = TRUE
  /\ Go("progress")
  /\ UNCHANGED <<meta, world, fault, ctxDone, todo, closed, firstErr, pool,
                 progress, checked>>

\* workerWG.Wait(), then closeProgress cancels.
Wait ==
  /\ main = "wait"
  /\ WorkersGone
  /\ cancelled' = TRUE
  /\ Go("progress")
  /\ UNCHANGED <<meta, world, fault, ctxDone, todo, closed, firstErr, pool,
                 progress, checked>>

\* progressWG.Wait().
WaitProgress ==
  /\ main = "progress"
  /\ progress = "gone"
  /\ Go("result")
  /\ UNCHANGED <<meta, world, fault, ctxDone, todo, cancelled, closed, firstErr,
                 pool, progress, checked>>

\* The result of validateMetadataPayloadsWithHead: ctx.Err() is looked at
\* only if no worker failed.
Result ==
  /\ main = "result"
  /\ \/ (firstErr # None \/ ctxDone) /\ ReturnWith("refuse")
     \/ firstErr = None /\ ~ctxDone /\ ~lister /\ ReturnWith("accept")
     \/ firstErr = None /\ ~ctxDone /\ lister /\ Go("final")
  /\ UNCHANGED <<meta, world, fault, ctxDone, todo, cancelled, closed, firstErr,
                 pool, progress, checked>>

\* The last ctx.Err() of validateMetadataPayloadsWithList.
Final ==
  /\ main = "final"
  /\ ReturnWith(IF ctxDone THEN "refuse" ELSE "accept")
  /\ UNCHANGED <<meta, world, fault, ctxDone, todo, cancelled, closed, firstErr,
                 pool, progress, checked>>
-----------------------------------------------------------------------------
(* The workers.                                                            *)

Move(w, l) == worker' = [worker EXCEPT ![w] = l]

\* Mutant: only failures are counted.
PassedUncounted(w) ==
  /\ Move(w, "select")
  /\ job' = [job EXCEPT ![w] = None]
  /\ UNCHANGED <<err, checked>>

\* A payload is counted as checked whether it passes or fails.
Passed(w) ==
  /\ Move(w, "select")
  /\ job' = [job EXCEPT ![w] = None]
  /\ checked' = checked + 1
  /\ UNCHANGED err

Failed(w, e) ==
  /\ Move(w, "fail")
  /\ err' = [err EXCEPT ![w] = e]
  /\ checked' = checked + 1
  /\ UNCHANGED job

\* The select of the worker loop finds Done or the closed channel.
Leave(w) ==
  /\ worker[w] = "select"
  /\ Done \/ closed
  /\ Move(w, "gone")
  /\ UNCHANGED <<meta, world, fault, ctxDone, verdict, main, todo, cancelled,
                 closed, firstErr, job, err, progress, checked>>

\* Head returns the object's info or ErrNotFound; identity and ETag are
\* compared with the payload that was sent.
Head(w) ==
  /\ worker[w] = "head"
  /\ \/ /\ ~Promise!HeadValid(job[w])
        /\ Failed(w, "invalid")
     \/ /\ Promise!HeadValid(job[w])
        /\ meta[job[w]].etag # Unset
        /\ Passed(w)
     \/ /\ Promise!HeadValid(job[w])
        /\ meta[job[w]].etag = Unset
        /\ Move(w, "put")
        /\ UNCHANGED <<job, err, checked>>
  /\ UNCHANGED <<meta, world, fault, ctxDone, verdict, main, todo, cancelled,
                 closed, firstErr, progress>>

\* Head fails: with S3 or by its timeout, or since its context is cancelled.
HeadError(w) ==
  /\ worker[w] = "head"
  /\ \/ fault' = TRUE /\ Failed(w, "io")
     \/ Done /\ Failed(w, "canceled") /\ UNCHANGED fault
  /\ UNCHANGED <<meta, world, ctxDone, verdict, main, todo, cancelled, closed,
                 firstErr, progress>>

\* Mutant: the hash is stored for the ETag.
PutETagHash(w) ==
  /\ worker[w] = "put"
  /\ meta' = [meta EXCEPT ![job[w]].etag = job[w]]
  /\ Passed(w)
  /\ UNCHANGED <<world, fault, ctxDone, verdict, main, todo, cancelled, closed,
                 firstErr, progress>>

\* meta.PutPayload with the object's ETag.
PutETag(w) ==
  /\ worker[w] = "put"
  /\ meta' = [meta EXCEPT ![job[w]].etag = objects[job[w]].etag]
  /\ Passed(w)
  /\ UNCHANGED <<world, fault, ctxDone, verdict, main, todo, cancelled, closed,
                 firstErr, progress>>

PutError(w) ==
  /\ worker[w] = "put"
  /\ fault' = TRUE
  /\ Failed(w, "io")
  /\ UNCHANGED <<meta, world, ctxDone, verdict, main, todo, cancelled, closed,
                 firstErr, progress>>

WorkerReturns(w) ==
  /\ Move(w, "gone")
  /\ err' = [err EXCEPT ![w] = None]
  /\ job' = [job EXCEPT ![w] = None]
  /\ UNCHANGED <<meta, world, fault, ctxDone, verdict, main, todo, closed,
                 progress, checked>>

\* Mutant: the last error is kept.
RecordErrorLast(w) ==
  /\ worker[w] = "fail"
  /\ firstErr' = err[w]
  /\ cancelled' = TRUE
  /\ WorkerReturns(w)

\* Mutant: the error is recorded and nobody is cancelled.
RecordErrorOnly(w) ==
  /\ worker[w] = "fail"
  /\ firstErr' = IF firstErr = None THEN err[w] ELSE firstErr
  /\ WorkerReturns(w)
  /\ UNCHANGED cancelled

\* recordError, under firstErrMu; the worker returns.
RecordError(w) ==
  /\ worker[w] = "fail"
  /\ \/ /\ firstErr = None
        /\ firstErr' = err[w]
        /\ cancelled' = TRUE
     \/ /\ firstErr # None
        /\ UNCHANGED <<firstErr, cancelled>>
  /\ WorkerReturns(w)

ProgressEnd ==
  /\ progress = "on"
  /\ Done
  /\ progress' = "gone"
  /\ UNCHANGED <<meta, world, fault, ctxDone, verdict, main, todo, cancelled,
                 closed, firstErr, pool, checked>>

\* SIGINT or SIGTERM cancels ctx.
Interrupt ==
  /\ verdict = None
  /\ ~ctxDone
  /\ ctxDone' = TRUE
  /\ UNCHANGED <<meta, world, fault, verdict, main, todo, cancelled, closed,
                 firstErr, pool, progress, checked>>
-----------------------------------------------------------------------------
Main ==
  \/ Query \/ List \/ ListError \/ (\E w \in Workers : Send(w)) \/ SendEnd
  \/ Close \/ Wait \/ WaitProgress \/ Result \/ Final

Worker(w) ==
  Leave(w) \/ Head(w) \/ HeadError(w) \/ PutETag(w) \/ PutError(w) \/ RecordError(w)

Next == Main \/ (\E w \in Workers : Worker(w)) \/ ProgressEnd \/ Interrupt

Spec == Init /\ [][Next]_vars

\* Every goroutine is scheduled, every HeadObject has a timeout of ten
\* seconds and ListObjectsV2 ends with an answer or an error.
Fairness ==
  /\ WF_vars(Main)
  /\ \A w \in Workers : WF_vars(Worker(w))
  /\ WF_vars(ProgressEnd)

LiveSpec == Spec /\ Fairness
-----------------------------------------------------------------------------
(* Properties.                                                             *)

\* The pool decides as if it checked the payloads one after the other: it
\* accepts only if all agree with S3 and have their ETag, it refuses only
\* because of a mismatch, a failed call or a signal, and it writes nothing
\* but ETags of payloads that agree with S3 (startup_check.go:79-299).
KeepsPromise == Promise!Spec

\* The error that is logged and returned is the cause: a request that ended
\* because another worker's error cancelled it is never what is reported
\* (startup_check.go:181-190).
FirstErrorIsCause == firstErr = "canceled" => ctxDone

\* When the validation returns, no worker and no progress goroutine is left
\* that could still write metadata or log (startup_check.go:281-287).
NothingLeftRunning ==
  verdict # None => /\ \A w \in Workers : worker[w] \in {"off", "gone"}
                    /\ progress \in {"off", "gone"}

\* The number the log gives as checked never counts a payload twice, and an
\* accepted validation has counted all of them (startup_check.go:99-228).
CheckedExact ==
  /\ checked + Cardinality(todo) +
       Cardinality({w \in Workers : worker[w] \in {"head", "put"}})
     <= Cardinality(Payloads)
  /\ verdict = "accept" => checked = Cardinality(Payloads)

\* The validation returns whatever fails: main, the workers and the progress
\* goroutine never wait for one another for ever (startup_check.go:273-287).
Returns == <>(verdict # None)
-----------------------------------------------------------------------------
(***************************************************************************)
(* The inductive invariant behind the theorems of StartupCheckProofs.      *)
(***************************************************************************)
Busy == {w \in Workers : worker[w] \in {"head", "put"}}
Failing == {w \in Workers : worker[w] = "fail"}

\* The payload is checked and has its ETag.
Good(h) == meta[h] # None => Promise!Valid(h) /\ meta[h].etag # Unset

\* Why an error may be recorded.
Justified(e) ==
  /\ e = "invalid" => \E h \in Hashes : ~Promise!Valid(h)
  /\ e = "io" => fault
  /\ e = "canceled" => ctxDone

\* A payload a HeadObject may decide about: with a listing only the ones
\* without an ETag are left to the pool.
Open(h) == meta[h] # None /\ (lister => meta[h].etag = Unset)

WorkerShape(w) ==
  /\ w \in Busy => /\ job[w] \in Hashes \ todo /\ Open(job[w])
                   /\ \A v \in Busy \ {w} : job[v] # job[w]
  /\ worker[w] = "put" => Promise!HeadValid(job[w]) /\ meta[job[w]].etag = Unset
  /\ worker[w] = "fail" =>
       /\ err[w] # None
       /\ Justified(err[w]) \/ (err[w] = "canceled" /\ firstErr # None)

\* Where the main goroutine is, and who else runs then.
MainShape ==
  /\ main \in {"query", "list"} =>
       /\ \A w \in Workers : worker[w] = "off"
       /\ progress = "off" /\ todo = {} /\ checked = 0
       /\ firstErr = None /\ ~cancelled
  /\ main = "list" => lister
  /\ main \in {"send", "close", "wait"} => (cancelled => firstErr # None)
  /\ main \in {"progress", "result"} => WorkersGone
  /\ main \in {"final", "done"} => \A w \in Workers : worker[w] \in {"off", "gone"}
  /\ main \in {"result", "final", "done"} => progress \in {"off", "gone"}
  /\ main = "done" <=> verdict # None

InPool == main \in {"send", "close", "wait", "progress", "result"}

\* No payload is forgotten: it is good, in somebody's hands, or the validation
\* is bound to fail.
Covered ==
  /\ InPool => \/ firstErr # None \/ ctxDone \/ Failing # {}
               \/ \A h \in Hashes : Good(h) \/ h \in todo \/ \E w \in Busy : job[w] = h
  /\ InPool /\ main # "send" => todo = {} \/ ctxDone \/ firstErr # None
  /\ main = "final" => \A h \in Hashes : Good(h)

\* The count is exact.
Counting ==
  /\ InPool => checked + Cardinality(todo) + Cardinality(Busy) = Cardinality(Payloads)
  /\ main = "final" => todo = {} /\ checked = Cardinality(Payloads)
  /\ main = "done" => \/ checked = Cardinality(Payloads) /\ todo = {}
                      \/ verdict = "refuse" /\ checked + Cardinality(todo) <= Cardinality(Payloads)

StartupInv ==
  /\ TypeOK /\ MainShape /\ Covered /\ Counting
  /\ \A w \in Workers : WorkerShape(w)
  /\ \A h \in todo : Open(h)
  /\ Justified(firstErr)
=============================================================================
