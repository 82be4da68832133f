# A TLA+ model of VAPS

VAPS is an HTTP server in Go that stores binary payloads of a version control
system. S3 is the authority; the server keeps a metadata database (bbolt), a
bounded disk cache and a memory cache in front of it. This directory models the
parts of the program that carry its correctness, checks them with TLC on small
instances, and proves with TLAPS, for all instances, every invariant, every
action property and all three refinements.
`PROJECT.json` is the index: it maps every definition to the source lines it
stands for, and lists the runs, the mutants, the findings, the hazards and the
theorems.

Contents: [inventory](#inventory), [modules](#modules),
[runs](#runs), [fairness](#fairness), [proofs](#proofs),
[disagreements](#disagreements), [not modelled](#not-modelled), [plan](#plan).

## Inventory

| component | state | operations | interacts with |
|---|---|---|---|
| write path (`httpapi/storage.go`, `payload_push.go`) | 256 `payloadWrites` mutexes | `directPush`, `finalizeUpload`, `putPayloadDurably`, `commitPayloadMetadata`, `reconcileLegacyObject` | S3, disk cache, metadata, upload sessions |
| read path (`payload_pull.go`, `handler.go`) | none | GET, HEAD and ranged GET, `payloadRecord`, `openDiskOrRemote`, `markCached` | memory cache, disk cache, metadata, S3 |
| exists endpoint (`handler.go`) | semaphore, derived context per request | `exists`, `lookupExistsItems` | read path |
| resumable uploads (`uploadsession/store.go`, `payload_push.go`) | sessions bucket, one temporary file per session | create, append, head, delete, concatenate, complete | write path, clean-up |
| upload clean-up (`cmd/vaps/main.go`) | snapshot of expired ids | `CleanupExpired` on a ticker | upload sessions |
| startup validation (`cmd/vaps/startup_check.go`) | worker pool, channel, contexts | list, head, store ETags, accept or exit | metadata, S3 |
| object store client (`objectstore/s3.go`) | cached bucket statistics | Head, Put, Open, OpenRange, List, Stats | S3 |
| disk cache (`blobstore/store.go`) | files, `Store.mu` | Stage, Publish, evict, Exists, Open | write and read path |
| metadata store (`metadata/store.go`, `vcs.go`) | payload and VCS buckets, dashboard index | Put, Get, Query, Stats | everything |
| memory cache (`cache/cache.go`) | LRU list and byte count | Add, Get, Stats | read path |
| source tracking (`auth/store.go`) | token bucket, activity map | Issue, Observe, DeleteAll, DeleteExpired | dashboards |
| request log, meter, pull statistics | ring of errors, counters | Add, Query, Stats | dashboards |
| log rotation and reader (`utils/logfile.go`, `logreader/reader.go`) | log files, current day | Write, rotate, clean up, read | runs of the server, dashboards |
| configuration, dashboards | none | parsing, presentation | |

What is hard about this code:

* **Two copies of the truth.** A push writes S3, then the disk, then bbolt, and
  the process may die or a call may fail between any two of them. A retry must
  find a state it can complete, and the next start must accept it.
* **Check-then-act on S3.** S3 has no transactions: Head and Put are guarded by
  an in-process mutex, and a Put whose call failed may still be applied.
* **Read-modify-write of records** in two bbolt transactions, from four places.
* **Migration of legacy objects** by reads, without the mutex.
* **Files and records of uploads** change in different steps; a clean-up
  goroutine works from a snapshot.
* **Derived copies.** The dashboard index copies bbolt, the memory cache and the
  disk cache copy S3, the error log, the meter and the activity map count the
  same requests: each is updated in a step of its own.
* **Files read while they are rotated.** The log reader shares nothing with the
  writer but the directory.
* **Fan-outs** (startup, exists) where the first error cancels everybody else.

What makes the components correct, in one line each: nothing acknowledged is
lost or replaced; whatever is served is what S3 holds; the server can always be
restarted; mutexes are released on every path; an upload's file is what its
offset says; sessions are completed once and purged in the end; a validation or
look-up that reports success has looked at everything, and one that reports an
error reports the cause; caches keep to their limits and evict in their order;
the pages of a query are a partition; counters of the same requests agree; a
log session shows what its run wrote.

## Modules

### PayloadService

Stores: `objects` (S3), `late` (PutObjects S3 still holds), `disk`, `meta`,
`mem`, `lock` (the `payloadWrites` mutexes). Each request `p` has a program
counter `pc[p]` that names the store call it makes next, and the Go local
variables that live across calls (`rem`, `rec`, `body`, ...). One action is one
call to a store together with the computation up to the next call, so every
interleaving of store calls of concurrent requests is explored.

| actions | code |
|---|---|
| `StartPush`, `PushLock`, `PushHead*`, `PushPut*`, `PublishLink`, `PublishEvict` | `directPush`, `putPayloadDurably`, `Stage`, `Publish`, `evict` |
| `CommitExists`, `CommitGet`, `CommitPut`, `CommitError` | `commitPayloadMetadata` |
| `RecGet`, `RecHead*`, `RecPut` | `payloadRecord` |
| `LegacyOpen`, `LegacyReopen`, `LegacyPut`, `LegacyError` | `reconcileLegacyObject` |
| `PullFromMemory`, `StartRead`, `Range*`, `Disk*`, `RemoteHead`, `RemoteOpen`, `ETagPut`, `Serve`, `Mark*`, `ExistsDisk` | `pullPayload`, `openRemoteRange`, `openDiskOrRemote`, `markCached`, `existsWithMetadata` |
| `Crash`, `StartupAccept`, `StartupExit` | process death; startup validation as one step |
| `LatePut` | external: S3 applies a PutObject after its call failed |

Abstractions: a payload is a content with a checksum, a size and an ETag; the
hash is a name the client chooses (it is not derived from the transmitted
bytes). Which files and cache entries are evicted is arbitrary. Every S3 and
bbolt call may fail; a failed PutObject may or may not have had its effect. The
history variables `acked` and `writes` record what clients were told.

### PayloadPromise

The abstract specification of all payload handlers and stores together: each
hash is a register that is written once. A request is `asked` until it is
answered; `Store` fills an empty register with what somebody pushes there, and
every answer must be `Right` when it is sent: a failure, or the truth about the
register, a 409 and an "absent" included. The one exception is the pair `Find`
and `Miss`: a pull that has found a file may be told 404 when the file has gone
before it is opened. Contents of one checksum and size count as the same, since
the code compares nothing else. `PayloadService` implements it while no
PutObject lands late (`KeepsPayloadPromise`): `content` is the data of the
objects, `asked` what a request between its first and its last step wants, and
`found` the pulls between `Exists` and `Open`. Records, caches, mutexes and the
migration of legacy objects have disappeared.

### UploadSessions

The sessions bucket (`sessions`), the temporary files (`files`), the bbolt write
transaction that `Append` holds while it writes the file (`tx`), the tus
requests (as above) and the clean-up goroutine (`toPurge`, `cleaning`). A byte
is its position in the payload, so that lost, repeated or misplaced bytes are
visible. `finalizeUpload`'s call of the write path is one step. With `Faulty`
the process may die at any step, a chunk may be written half-way and a
transaction may fail to commit.

### StartupPromise and StartupCheck

`StartupPromise` is the abstract specification of a startup: metadata changes
only by filling in ETags of payloads that agree with S3, acceptance means that
everything agrees, refusal has a reason. `StartupCheck` is the program: main
goroutine, unbuffered job channel (a rendezvous of `Send`), workers with
`select`, `recordError` with its cancellation, progress goroutine, signals.
`StartupCheck` implements `StartupPromise` (property `KeepsPromise`; the mapping
is the identity on the shared variables), which is why `PayloadService` may take
a startup as one step: `StartupAccept` and `StartupExit` are its `Accept` and
`Refuse` together with the `StoreETag` steps before them.

### ExistsLookup

One exists request: `uniqueHashes`, one goroutine per hash, the semaphore, the
cancellation and the loop that picks the error to report. A single look-up is
one step; it is `PayloadService`'s "exists" operation.

### CachePromise and LocalCaches

`CachePromise` is the abstract specification of the two local tiers: the memory
tier drops the payloads used least recently, and no more than a new payload
needs; the disk tier loses files in the order of their staging; both hold only
what the bucket has. `LocalCaches` is the program: `lru` and `used` of
`cache.Cache`, the `disk` files with their modification times, pulls (`Pull`,
`RangeOnDisk`, `RangeRemote`, `OnDisk`, `OpenDisk`, `OpenRemote`, `OpenEvicted`,
`CacheAdd`) and pushes (`Stage`, `Put`, `Link`, `EvictOne`, `EvictDone`,
`PublishFails`). It complements `PayloadService`, which models the bucket and
the records exactly and evicts arbitrarily: here a call to the bucket or to the
metadata finds the payload or fails, and the caches are exact. The refinement
mapping takes the list to the set it holds and the files to the order of their
staging times; the history variable `newer` keeps the order of the uses apart
from the list, so that a hit that forgets to move its entry is noticed.
`parseSingleRangeHeader` is an operator over the numbers of a
range; malformed headers that fail before the arithmetic are `Invalid`.

### MetadataStore

The records in bbolt (`db`), the dashboard index (`index`), the busy flag
(`querying`), writers between the two critical sections of `PutPayload`, and
clients that walk through the pages of a query. `Collect` yields any order that
`sortPayloads` may leave, because a map is iterated in random order. A record is
its status and whether it has a creation time; sizes and times are constants of
the hash.

### RequestPipeline

The handlers every request passes, outermost first: `requestSources` (`Arrive`,
`Lookup`, `ObserveCount`), `httpMeter` (`Begin`, `Finish`), `errorRecorder`
(`Record`) and the handler itself, which is a status unless it registers a
source (`Issue`) or deletes them all (`DeleteAll`, then `DeleteCommit` or
`DeleteFails`). `Observe` reads a snapshot and counts later, `DeleteAll` clears
the counts before it commits: both are two steps. The atomics of `Meter.finish`
are one step, so nothing is said about a `Stats` call between them.

### LogSessions

The daily files (`files`), the writer (`current`, `open`), the runs of the
server (`state`, `run`, `started`) and one reader (`reader`), which lists the
files and reads the oldest one left, file by file, while lines are written, days
change, rotations fail half-way and old files are removed. A line is the run that
wrote it, its kind and what the reader's patterns find in it (`Texts`). Startup
and stop lines have the words of their kind. An ordinary line may have any words
of `InfoTexts`, because the patterns match anywhere in a message and the access
log quotes paths and user agents. The reader sees the words only: `Scan` opens
and ends sessions by them, whoever wrote them, and the run and the kind of a line
serve the properties alone. `Sessions.lines` are the lines a session counts; the
page of an id shows those of all sessions with that id.

The `MC*` modules give constants their values. Definitions whose comment begins
with "Mutant:" are deliberately wrong variants of the definition that follows;
no specification uses them. `PROJECT.json` pairs each with the property that has
to notice it.

## Runs

| run | instance | what it shows |
|---|---|---|
| `PushPull` | 2 requests of all 7 kinds, 1 hash, 2 contents (sizes 1 and 2, limit 1), stored or not before, PutObject answers without ETag | `AckedDurable`, `RestartPossible`, `ServedIntact`, `DiskBacked`, `CreatedOnce`, `PayloadImmutable`, `ChecksumKept`, `LockMatchesSection` and the refinement of `PayloadPromise` (`KeepsPayloadPromise`) with failures and crashes at every step |
| `RequestsFinish` | 2 pushes of one hash, 2 contents, late PutObjects, multipart legacy ETags | every request ends, also if S3 does not behave well |
| `StartupCheck` | 3 payloads, 2 workers, each payload with or without ETag, object matching, absent or of an older release, with and without a listing | refinement of `StartupPromise`, the cause is reported, nothing is left running, counting is exact, the validation returns |
| `ExistsLookup` | all requests of at most 3 names out of 3 valid and 1 invalid, 2 look-ups at a time | right and complete answers, the real failure, bounded look-ups, every request answered |
| `UploadRace` | 2 requests, 2 ids, payload of 2 bytes, chunks up to 2, 2 references | appends are contiguous, one completion, no left-over file, also when concatenations race with deletes and purges |
| `UploadFaults` | 2 requests, 2 ids, 1 byte, 2 references, crashes and failed writes | every session has its file and all acknowledged bytes |
| `UploadPurge` | 2 requests, 2 ids | liveness of the clean-up |
| `LocalCaches` | 2 requests, payloads of 2, 1 and 2 bytes, both tiers 3 bytes, 8 kinds of pulls, 2 modification times | `TiersBounded`, `RangeExact`, refinement of `CachePromise` (`KeepsCachePromise`) |
| `MetadataStore` | 2 writers, 2 clients, 2 hashes with equal creation times and different sizes, pages of one item and of everything | `IndexAgrees`, `PagesPartition`, `BusyWhileQuerying` |
| `RequestPipeline` | 2 requests at a time, 3 per life of the process, 1 source, 3 tokens, databases of older releases | `CountersAgree`, `ErrorsWithinRequests`, `SourceKeepsToken` |
| `LogSessions` | 2 runs in 4 days of 2 seconds, retention of 2 days, every line may be lost, an ordinary line may have the words of an end or of a startup | `SessionsFaithful`, `RetentionKept` |
| `BrokenResume` | as `UploadFaults` | a disagreement with the documentation, below |

Why the bounds are enough. The code's races are between two requests on one
hash or one session, or one request and the clean-up or a crash; a third request
can only repeat the part of one of the two, since requests keep no state between
them other than the stores. One hash suffices because hashes interact only
through a shared mutex (for which the theorems have any number of hashes) and
evictions, which are arbitrary. Two contents of different checksum and size give every outcome of the
identity comparisons. Three payloads for two workers make the sender wait while
both workers fail; three hashes for two tokens make a goroutine wait for a
token. The clock has two values because a session is either expired or not.
Three payloads of unequal size over tiers that hold two of them make an eviction
depend on the order of use. Four days against a retention of two make a rotation
remove two files, of which the first or the second may fail; two seconds of a day
let two runs share a file, with one session id or with two. Two writers are
what it takes to cross two index updates; two matches over pages of one are
what it takes for two pages to disagree about the order. `MaxChunk`, `MaxFile`,
`MaxRefs`, `MaxNow`, `MaxNamed`, `MaxTime`, `MaxRequests`, `MaxRuns` and
`MaxInfo` are the only bounds in guards or initial states. Symmetry under permutation of requests (and ids) is
used only in runs without liveness properties. `StartupCheck` and `ExistsLookup`
model one call that ends, so they do not check for deadlock as such; `Returns`
and `Answered` say that the end is reached. `LogSessions` ends when the server
is down and is not started again.

## Fairness

* Every goroutine is scheduled: weak fairness of each request's, worker's and
  clean-up's steps. Every S3 call ends with an answer or an error: HeadObject at
  startup has a ten second timeout, requests end with their client's context.
* A goroutine that waits for a `sync.Mutex` gets it although others keep taking
  it: Go's mutexes have a starvation mode. Hence strong fairness of `PushLock`
  and `PublishLink`, of the clean-up's transactions (bbolt's writer lock is such
  a mutex) and of `Acquire` (a channel queues its senders).
* No fairness is assumed of clients, crashes, failures, the clock or signals.

## Proofs

Every invariant, action property and refinement of the runs is also a theorem,
for all values of the constants. The proofs are in eight modules, one per
component; each extends the module it is about. TLC has checked every inductive
invariant on the instances of the runs before it was proved.

| module | theorem | states | under |
|---|---|---|---|
| `PayloadServiceProofs` | `TypeCorrect` | `TypeOK` | |
| | `LocksMatchSections` | `LockMatchesSection` | |
| | `CreatedAtMostOnce` | `CreatedOnce` | `~PutsLandLate` |
| | `ContentImmutable` | `PayloadImmutable` | `~PutsLandLate` |
| | `AcknowledgedIsDurable` | `AckedDurable` | `~PutsLandLate`, `ChecksumTellsSize` |
| | `DiskIsBacked` | `DiskBacked` | the same |
| | `PullsAreIntact` | `ServedIntact` | the same |
| | `ChecksumsAreKept` | `ChecksumKept` | the same |
| | `AlwaysRestartable` | `RestartPossible` | the same and `LegacyETagKept` |
| | `PayloadsRefine` | `KeepsPayloadPromise`: `PayloadService` implements `PayloadPromise` | `~PutsLandLate`, `ChecksumTellsSize` |
| `UploadSessionsProofs` | `UploadTypes` | `TypeOK` | |
| | `SessionsHaveFiles` | `SessionHasFile` | |
| | `AcknowledgedBytesAreKept` | `AckedBytesKept` | |
| | `UploadsCompleteOnce` | `CompletedOnce` | |
| | `UploadsAreContiguous` | `ContiguousUpload` | `~Faulty` |
| | `NoFileIsOrphaned` | `NoOrphanFile` | `~Faulty` |
| `StartupCheckProofs` | `StartupTypes` | `TypeOK` | |
| | `NothingRunsOn` | `NothingLeftRunning` | |
| | `ReportedErrorIsCause` | `FirstErrorIsCause` | |
| | `CheckedIsExact` | `CheckedExact` | |
| | `StartupRefines` | `KeepsPromise`: `StartupCheck` implements `StartupPromise` | |
| `ExistsLookupProofs` | `LookupTypes` | `TypeOK` | |
| | `FailuresAreReported` | `FailureReported` | |
| | `AnswersAreRight` | `AnswerRight` | |
| | `LookupsAreBounded` | `LookupsBounded` | |
| `MetadataStoreProofs` | `IndexFollowsRecords` | `IndexAgrees` | |
| | `BusyFlagExact` | `BusyWhileQuerying` | |
| | `PagesArePartition` | `PagesPartition` | |
| `RequestPipelineProofs` | `CountersAlwaysAgree` | `CountersAgree` | |
| | `ErrorsAreWithinRequests` | `ErrorsWithinRequests` | |
| | `SourcesKeepTheirToken` | `SourceKeepsToken` | |
| `LogSessionsProofs` | `SessionsAreFaithful` | `SessionsFaithful` | |
| | `RetentionIsKept` | `RetentionKept` | |
| `LocalCachesProofs` | `CachesTypes` | `TypeOK` | |
| | `TiersAreBounded` | `TiersBounded` | |
| | `RangesAreExact` | `RangeExact` | |
| | `CachesRefine` | `KeepsCachePromise`: `LocalCaches` implements `CachePromise` | |

### Assumptions

The `ASSUME`s of the modules give the constants their types and say that `None`
and `Unset` are nothing else; `ValuesAssumption` says that what metadata and the
bucket hold at startup are records. The hashes of `LocalCaches`, sources'
tokens, processes and workers that a theorem counts are finite. Nothing is assumed about how many
there are, how many hashes share a mutex, or which checksums collide.

The hypotheses of the theorems about `PayloadService` cannot be dropped; TLC has
a short counterexample for each:

* `~PutsLandLate`: S3 applies a PutObject after its call has failed and another
  push has stored something else. The disk cache then holds what S3 does not.
* `ChecksumTellsSize`: a push onto an object of an older release, which has no
  checksum yet, compares the CRC32C alone (`storage.go:271`). If two contents
  have one CRC32C and different sizes, the object is taken for the pushed
  content, and the disk cache holds another payload than S3. The hypothesis says
  nothing where there are no such objects.
* `LegacyETagKept`: an older release may have written an object in several
  parts, with an ETag that is no MD5 sum. The migration writes the object anew
  and S3 gives it another ETag; when the process dies before the record is
  written, the next startup finds another ETag than the record's and refuses.

`~Faulty` is what the exact statements about upload files need: `BrokenResume`
shows the contrary.

### The arguments

`PayloadService` has six inductive invariants, each on top of one before.

1. `TypedInv == TypeOK /\ RequestsShape`. `TypeOK` is not inductive: that a
   step may put `rec[p]` into the metadata or `body[p]` into the response needs
   that those local variables are set when `pc[p]` is there. `RequestShape` says
   which are set at which step.
2. `LockInv == TypedInv /\ LockMatchesSection`. A mutex is held exactly by the
   request whose program counter is in the section for a hash of that mutex, so
   two requests for one hash are never both in it.
3. `WriteInv == LockInv /\ WritesReady /\ CreationsStored`. A push that is about
   to put has seen no object, and nobody else can have put one since, because
   only the holder of the mutex creates; a migration writes back the content it
   has read, which nobody can have changed. Hence a creation happens only where
   there is no object, and an object's content never changes.
4. `DurableInv` adds what the stores say about each other (`ObjectsTrue`,
   `RecordsTrue`, `CachesTrue`, `AcksTrue`) and what each request carries at
   each step (`RequestTrue`). What a request has learned about the bucket stays
   true while others run, because objects only appear, keep their content and
   only gain a checksum (`BucketGrows`) and records only gain one
   (`RecordsGrow`); so each step need be examined for one request only
   (`StableRequest`). Reads migrate without the mutex: that is why the
   invariant speaks about content and checksum and not about whole objects.
5. `RestartInv` adds the ETags: whoever holds an ETag holds that of the content.
6. `OpsInv` adds to `DurableInv` which kind of request is at which step
   (`OpShape`): `ret[p]` tells a push, an exists and a pull apart where their
   paths join. A record returned to "exists" must not lead to a 404 of a pull.

The refinement of `PayloadPromise` rests on `OpsInv`. The bucket's contents
change only in `PushPut` and `PushPutError` on a hash without an object
(`ContentStep`), because a migration writes back what is there; those two are
`Store`. Any other step of a request has one of three outcomes (`Outcome`): it
is silent, it sends an answer that is `Right` (`PushIsRight`, `PullIsRight`,
`ExistsIsRight`, `FailureIsRight`), or it is `NotExist` behind `DiskOpen`, which
is `Miss`. A silent step is `Quiet`, `Find` or `Open`; that a pull at `diskOpen`
pulls a payload that is there is `FoundIsThere`.

`UploadSessions`: `UploadInv` holds with faults. `SessionHasFile` is not
inductive because somebody might be about to remove the file; `RequestShape`
says that a file to be unlinked is `Doomed`: its session has gone and no request
is about to create one, since a drawn id belongs to the request that drew it.
`CompletedOnce` follows because a completed id has no session any more.
`ExactInv` adds, without faults, what the transaction under way has written
(`WrittenExactly`) and who will remove a file that has no session (`Accounted`).

`StartupCheck`: `StartupInv` says where each goroutine may be (`MainShape`,
`WorkerShape`), that each payload is good, waiting or in one worker's hands
unless an error is already on its way (`Covered`), and that what is counted,
waiting and in hands adds up (`Counting`). Acceptance comes from `Covered` with
nothing waiting and nobody working; an error is `Justified` before it is
recorded, and `recordError` keeps the first. The refinement is proved step by
step: the initial states are initial states of `StartupPromise`, and under the
invariant `PutETag` is its `StoreETag`, the last step of the main goroutine its
`Accept` or `Refuse`, a signal or failure a step of the environment, and every
other step leaves the shared variables alone.

`ExistsLookup`: `sem` counts the look-ups under way; every outcome is right; a
cancellation has a cause (`Caused`), a client that has gone or a failure the
handler will find. That `uniqueHashes` and the loop over the outcomes compute
what they should is proved too, see below.

`MetadataStore`: `IndexAgrees` alone is not inductive, as copying a record into
the index makes it agree only if the record is still what bbolt has. `IndexInv`
adds `CommittedLast`: a put between its critical sections that crossed no other
one carries what bbolt has. `QueryInv` says that at most one client is inside a
query and that the flag is up exactly then. For the pages, `LessTotal` shows
that the tie-break on the hash makes the order of `sortPayloads` total, hence
there is only one sorted list of the matches (`SortedOne`) although the map is
iterated in any order, and `WalkInv` says that a client has seen a prefix of it.

`RequestPipeline`: `PipelineInv` relates each counter to the others and to the
requests between two of them. The errors of a token are bounded by the requests
counted for it less those still in flight, which only a stale snapshot can
break, and then only for a token that has been deleted: tokens are never given
twice (`Known`). `Remembered` says that the token `Issue` would choose is the
one the source was given last.

`LogSessions`: `LinesInOrder` says that the runs' lines follow each other over
the files in the order of days, and that a run's startup line has only its empty
line before it. `Found` says of what has been read that every startup line
there has its session, and that the run of the current session is the last of
those read and the first of those to come, whichever line opened it; so a line
behind belongs to it or its own startup line is gone. An ordinary line that
opens a session changes nothing in this, since runs follow each other in the
files whatever their lines say; one that ends a session is in that session,
which is what `SessionTrue` says of such an end. The invariant is kept line by line within a file
(`ScanFound`, `FileRead`) and, while a file grows or disappears between two
files, because a running server writes no startup line (`StartsDisappear`).

`LocalCaches`: `CachesInv` adds to the bounds and the ranges that the list has
each cached payload once and in the order of the uses (`ListExact`), and what
each request holds at each step (`LocalsKnown`). `usedBytes` is the sum of the
cached sizes because a hit only moves an entry (`FrontedOrder`) and
`RemoveOldest` keeps the longest beginning of the list that fits
(`TrimmedList`); that beginning has the new payload, as `CanStore` has compared
its size with the limit. The same lemma gives `CachePromise`'s `Insert`: the
payload that was dropped last did not fit with those used after it. A range is
exact because what `parseSingleRangeHeader` computes is (`ParsedExactly`) and
every tier clips alike. On the disk, `EvictOne` removes a file whose staging
time no other file precedes, however the sort resolves ties.

### Loops and sums

The loops of `uniqueHashes`, of `lookupExistsItems` and of the log reader are
recursive functions over the loop index. That such a function exists and what it
computes is proved by a least counterexample: the set of the rounds after which
the claim fails would have a least element (`LeastIndex`), the round before it
would satisfy the claim, and one round keeps it. `LoopExists` builds the function
in this way. Sums (errors, in-flight requests, payloads in hands) are
cardinalities, whose changes the lemmas on finite sets give. The sum of the
sizes of a set of payloads is a fold that takes its members in the order of
`CHOOSE`; it is shown to be the number of single bytes, pairs of a payload and a
position in it, of the set (`BytesAreCounted`), and with that to be independent
of the order: any two functions that fold alike agree, or a smallest set where
they differ would have a smaller one (`FoldUnique`).

### Only model-checked

Liveness (`RequestsFinish`, `Returns`, `Answered`, `ExpiredPurged`) is outside
the prover's reach. `BrokenResume`, and what happens with late PutObjects, are
counterexamples, which TLC finds.

## Disagreements

A run that TLC refutes, with a finding in `PROJECT.json`:

* `BrokenResume`: bytes of a chunk whose transaction did not commit stay in the
  temporary file, and the resumed upload is appended behind them.

Also visible in the models, and described here without a run of their own:

* The `payloadWrites` mutex does not protect against a PutObject that is applied
  after its call failed, because PutObject carries no precondition
  (`storage.go:46`; the comment at `storage.go:27-28` says that the locks prevent
  it). `PayloadImmutable` fails as soon as `PutsLandLate` is true.
* A pull of a stored payload is answered with 404 if the file is evicted between
  `Exists` and `Open` (`handler.go:917`, `OpenEvicted`, `PayloadPromise`'s `Miss`, which is
  also proved to be the only such case; README.md:183 says that
  missing payloads return 404 and README.md:163 calls the disk disposable).
* A malformed Range is answered with 400 by the memory and disk tiers and with
  500 by the remote range (`payload_pull.go:74`, `:89`; README.md:183 promises
  400).
* A suffix range of an empty payload is answered with 206 and
  `bytes 0--1/0` (`range.go:38`).
* Two crossed `PutPayload` calls of one hash may leave the dashboard index
  wrong until the next put or start (`metadata/store.go:148`); `IndexAgrees`
  says exactly when.
* A dashboard query with `limit=0` returns everything (`handler.go:407`,
  `metadata/store.go:217`), not one to 500 items.
* The failed dashboard requests of a source count in its errors and not in its
  requests (`error_recorder.go:50`, `source.go:32`); the page reads the two
  counts one after the other (`dashboard_auth.go:81-88`).
* `DeleteAll` loses the counts of tokens it then fails to delete
  (`auth/store.go:188`).
* A run that crashed stays "active" in the sessions page for ever, and the empty
  line the next run starts with is counted as one of its lines
  (`logreader/reader.go:156`, `cmd/vaps/main.go:185`). Two starts within a second
  share a session id. When the retention removes a startup line, the rest of
  that run is not shown, or shown under the run before it.
* The patterns of the log reader are not anchored (`logreader/reader.go:21-22`,
  `:150`, `:168`), and the access log quotes texts of requests
  (`httpapi/handler.go:244-256`): an ordinary line with the words of a startup or
  stop line opens or ends a session. So a run may have several sessions, appear
  as ended while it is up, or have an id with a time it did not start at;
  `SessionsFaithful` says what holds nevertheless.
* The bucket statistics never report an error: `Stats` starts a refresh before
  it looks at the last one's error, and then answers "pending"
  (`objectstore/s3.go:228-238`).
* When an object that an older release wrote in several parts is migrated and the
  process dies before the record is written, the next startup refuses to run
  (`storage.go:250-291`, `startup_check.go`; `AlwaysRestartable` says under which
  hypothesis it does not happen).
* `StatusCached` is set when a payload enters the memory cache and never taken
  back on eviction (`handler.go:963`; `metadata/store.go:31` says otherwise).
* A chunked direct upload may exceed the limit by one byte
  (`payload_push.go:59`; README.md:293).
* `Append` never compares the offset with the length (`uploadsession/store.go:180`;
  README.md:343); such a session cannot be finalized and is purged.
* `CleanupExpired` terminates a session that an append extended after the
  snapshot (`uploadsession/store.go:355`; README.md:314-315).
* Partials are created with length 0, so only empty partials can be concatenated
  (`payload_push.go:136`, `uploadsession/store.go:272`; README.md:368-370).

## Modelled without a property

* The ETag comparison between the Head that was validated and the Get that is
  streamed (`handler.go:943`) is part of the model, and no property depends on
  it: without late PutObjects an object's content does not change, and the run
  with late PutObjects has pushes only.
* What a PutObject applied after its call failed does to later pushes
  (`storage.go:52`): `PayloadImmutable` is false there, see above.
* What a ranged pull checks of the object it reads: `OpenRange` does its Head and
  its Get without comparing the two (`objectstore/s3.go:165-188`).

## Not modelled

* Header and query parsing, JSON, log texts, HTML and static files: no state.
* VCS records (`metadata/vcs.go`): one transaction per call and no invariant
  across calls.
* Pull counters, latencies, percentiles and byte counts of the meter: they are
  written and shown, and nothing depends on them.
* Bucket statistics (`S3Store.Stats`): one cached dashboard figure.
* The filters and paging of the sessions, sources and error pages: pure
  functions of what the modelled stores hold.
* `headPayload`, `getPayload` and `putPayload` (`handler.go:585-710`): no route
  leads to them.
* Configuration and credentials: read once, no behaviour.
* The exists variant without a metadata store, which only tests use.

## Plan

Done, in this order: `PayloadService` with its proofs, `UploadSessions`,
`StartupPromise`/`StartupCheck`, `ExistsLookup`, `CachePromise`/`LocalCaches`,
`MetadataStore` with its proofs, `RequestPipeline`, `LogSessions`; then the
proofs of durability, uploads, startup with its refinement, exists, pages, the
pipeline, the logs and the caches with their refinement; last the payload
register `PayloadPromise` with its refinement.

An abstract specification still worth stating: an upload as an append-only byte
string that `UploadSessions` implements without faults. `ExistsLookup`'s
single-step look-up could then be shown to be `PayloadPromise`'s exists request.
