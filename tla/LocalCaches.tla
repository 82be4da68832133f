----------------------------- MODULE LocalCaches -----------------------------
(***************************************************************************)
(* The two local payload tiers and the pulls that read through them: the   *)
(* LRU of internal/cache, the eviction of internal/blobstore and the byte  *)
(* ranges of internal/httpapi.                                             *)
(*                                                                         *)
(* PayloadService models what the bucket and the metadata hold and lets    *)
(* the two caches drop payloads arbitrarily.  Here it is the other way     *)
(* round: a call to the bucket or to the metadata finds the payload or     *)
(* fails, and the caches are modelled exactly, with their sizes, limits    *)
(* and eviction orders.  A payload is identified by its hash; hashes are   *)
(* numbers because the paths of equally old files are compared.            *)
(***************************************************************************)
EXTENDS Integers, FiniteSetsExt, SequencesExt

CONSTANTS
  Procs,     \* concurrent requests
  Hashes,    \* payload identities
  Size,      \* [Hashes -> Nat], payload sizes in bytes
  MaxBytes,  \* memory-cache limit, 0 when the cache is off
  MaxObject, \* largest payload the memory cache takes, 0 for any
  MaxDisk,   \* disk-cache limit, 0 for none
  Asks,      \* the pulls clients send: pairs of a hash and a member of Wants
  OldHashes, \* hashes the bucket has before the first start
  MaxTime,   \* bound: distinct modification times
  None       \* no file, no response

\* A pull asks for the headers, the whole payload or one byte range: the
\* last a bytes, the bytes from a on, or the bytes a to b.
Wants == [kind : {"head", "full", "suffix", "from", "span"}, a : Nat, b : Nat]

ASSUME CachesAssumption ==
  /\ Hashes \subseteq Nat
  /\ IsFiniteSet(Hashes)
  /\ None \notin Nat
  /\ Size \in [Hashes -> Nat]
  /\ {MaxBytes, MaxObject, MaxDisk, MaxTime} \subseteq Nat
  /\ OldHashes \subseteq Hashes
  /\ Asks \subseteq Hashes \X Wants

VARIABLES
  lru,       \* Cache.lru, most recently used first
  used,      \* Cache.usedBytes
  disk,      \* blobs directory: hash -> modification time or None
  now,       \* clock of the modification times
  stored,    \* hashes the bucket and the metadata have
  pc,        \* what each request does next
  hash,      \* its payload
  want,      \* what a pull asks for
  mtime,     \* modification time of a push's staging file
  newer,     \* history: pairs of cached payloads, the first used after the second
  untrimmed, \* history: no eviction has completed since the limit was last exceeded
  answer     \* the response sent by the last step, None if it sent none

vars == <<lru, used, disk, now, stored, pc, hash, want, mtime, newer,
          untrimmed, answer>>

memory  == <<lru, used, newer>>
request == <<hash, want, mtime>>

Codes == {"200", "206", "400", "404", "416", "500", "cut"}

TypeOK ==
  /\ lru \in Seq(Hashes)
  /\ newer \subseteq Hashes \X Hashes
  /\ used \in Int
  /\ disk \in [Hashes -> (0..MaxTime) \cup {None}]
  /\ now \in 0..MaxTime
  /\ stored \subseteq Hashes
  /\ pc \in [Procs -> {"idle", "tier", "look", "open", "add",
                       "put", "link", "evict"}]
  /\ hash \in [Procs -> Hashes \cup {None}]
  /\ want \in [Procs -> Wants \cup {None}]
  /\ mtime \in [Procs -> (0..MaxTime) \cup {None}]
  /\ untrimmed \in BOOLEAN
-----------------------------------------------------------------------------
\* A process starts with an empty memory cache and whatever files the last
\* one left; nothing is evicted at startup.
Init ==
  /\ lru = <<>>
  /\ used = 0
  /\ newer = {}
  /\ now = 0
  /\ stored = OldHashes
  /\ disk \in [Hashes -> {0, None}]
  /\ \A h \in Hashes : disk[h] # None => h \in stored
  /\ pc = [p \in Procs |-> "idle"]
  /\ hash = [p \in Procs |-> None]
  /\ want = [p \in Procs |-> None]
  /\ mtime = [p \in Procs |-> None]
  /\ untrimmed = TRUE
  /\ answer = None
-----------------------------------------------------------------------------
(***************************************************************************)
(* internal/cache: a list with the most recently used entry in front.      *)
(***************************************************************************)
BytesOf(S) == MapThenSumSet(LAMBDA h : Size[h], S)

Enabled == MaxBytes > 0

CanStore(h) ==
  /\ Enabled
  /\ Size[h] <= MaxBytes
  /\ MaxObject <= 0 \/ Size[h] <= MaxObject

\* Mutant: a hit does not count as a use.
MoveToFrontForgotten(h) == lru

MoveToFront(h) == <<h>> \o RemoveFirst(lru, h)

\* The loop of Add removes the last element until the rest fits: the longest
\* prefix that fits is left.
RemoveOldest(list, bytes) ==
  LET after(n) == bytes - BytesOf(ToSet(SubSeq(list, n + 1, Len(list))))
      keep == CHOOSE n \in 0..Len(list) :
                /\ after(n) <= MaxBytes
                /\ \A m \in (n + 1)..Len(list) : after(m) > MaxBytes
  IN [list |-> SubSeq(list, 1, keep), bytes |-> after(keep)]

\* Mutant: an entry that is replaced keeps its bytes.
AddTwice(h) ==
  LET new == RemoveOldest(<<h>> \o RemoveFirst(lru, h), used + Size[h])
  IN lru' = new.list /\ used' = new.bytes

Add(h) ==
  LET old == IF h \in ToSet(lru) THEN Size[h] ELSE 0
      new == RemoveOldest(<<h>> \o RemoveFirst(lru, h), used - old + Size[h])
  IN lru' = new.list /\ used' = new.bytes

\* History: h is the payload used last.
Touch(h) ==
  LET others == ToSet(lru') \ {h}
  IN newer' = ({h} \X others) \cup (newer \cap (others \X others))
-----------------------------------------------------------------------------
(***************************************************************************)
(* parseSingleRangeHeader: the first and last byte to send, or why none.   *)
(***************************************************************************)
Span(s, e) == [start |-> s, end |-> e]
Unsatisfiable == [start |-> -1, end |-> -1]
Invalid == [start |-> -2, end |-> -2]

ParseSuffix(a, size) ==
  IF a <= 0 THEN Invalid
  ELSE Span(IF a > size THEN 0 ELSE size - a, size - 1)

ParseFrom(a, size) ==
  IF a >= size THEN Unsatisfiable ELSE Span(a, size - 1)

\* Mutant: the end of the payload is off by one.
ParseSpanPastEnd(a, b, size) ==
  IF b < a THEN Invalid
  ELSE IF a > size THEN Unsatisfiable
  ELSE Span(a, IF b > size THEN size - 1 ELSE b)

ParseSpan(a, b, size) ==
  IF b < a THEN Invalid
  ELSE IF a >= size THEN Unsatisfiable
  ELSE Span(a, IF b >= size THEN size - 1 ELSE b)

parseSingleRangeHeader(w, size) ==
  CASE w.kind = "suffix" -> ParseSuffix(w.a, size)
    [] w.kind = "from"   -> ParseFrom(w.a, size)
    [] OTHER             -> ParseSpan(w.a, w.b, size)

\* A response with the offsets it carries.
Sent(h, w, code, bytes) ==
  [hash |-> h, want |-> w, code |-> code, bytes |-> bytes]

\* The response of a pull that has the whole payload at hand: memory and
\* disk hits, and the full payload opened in the bucket.
LocalAnswer(h, w) ==
  LET parsed == parseSingleRangeHeader(w, Size[h])
      ranged == CASE parsed = Unsatisfiable -> Sent(h, w, "416", {})
                  [] parsed = Invalid       -> Sent(h, w, "400", {})
                  [] OTHER -> Sent(h, w, "206", parsed.start..parsed.end)
  IN CASE w.kind = "head" -> Sent(h, w, "200", {})
       [] w.kind = "full" -> Sent(h, w, "200", 0..(Size[h] - 1))
       [] OTHER           -> ranged
-----------------------------------------------------------------------------
(***************************************************************************)
(* Pulls.  pc "tier" is openRemoteRange's Exists, "look" openDiskOrRemote's *)
(* Exists, "open" its Open, "add" the Cache.Add after the response.        *)
(***************************************************************************)
Go(p, label) == pc' = [pc EXCEPT ![p] = label]

\* pullPayload up to the memory lookup; a hit is answered at once.
Pull(p, h, w) ==
  /\ pc[p] = "idle"
  /\ \/ /\ Enabled
        /\ h \in ToSet(lru)
        /\ lru' = MoveToFront(h)
        /\ Touch(h)
        /\ answer' = LocalAnswer(h, w)
        /\ UNCHANGED <<pc, hash, want>>
     \/ /\ ~(Enabled /\ h \in ToSet(lru))
        /\ Go(p, IF w.kind \in {"head", "full"} THEN "look" ELSE "tier")
        /\ hash' = [hash EXCEPT ![p] = h]
        /\ want' = [want EXCEPT ![p] = w]
        /\ answer' = None
        /\ UNCHANGED <<lru, newer>>
  /\ UNCHANGED <<used, disk, now, stored, mtime, untrimmed>>

\* The request is over: its locals are gone.
Finish(p) ==
  /\ Go(p, "idle")
  /\ hash' = [hash EXCEPT ![p] = None]
  /\ want' = [want EXCEPT ![p] = None]
  /\ mtime' = [mtime EXCEPT ![p] = None]

\* An answer without a payload.
Fail(p, code) ==
  /\ Finish(p)
  /\ answer' = Sent(hash[p], want[p], code, {})

\* A metadata or bucket call fails, or finds nothing.
LookupFails(p) ==
  /\ pc[p] \in {"tier", "look"}
  /\ \/ hash[p] \notin stored /\ Fail(p, "404")
     \/ Fail(p, "500")
  /\ UNCHANGED <<memory, disk, now, stored, untrimmed>>

\* openRemoteRange leaves a payload that is on disk to openPayload ...
RangeOnDisk(p) ==
  /\ pc[p] = "tier"
  /\ disk[hash[p]] # None
  /\ Go(p, "look")
  /\ answer' = None
  /\ UNCHANGED <<memory, disk, now, stored, request, untrimmed>>

\* ... and otherwise asks the bucket for the range alone, and copies it behind
\* the headers: if that fails the answer is cut.  The payload is never put
\* into the memory cache then.
RangeRemote(p) ==
  /\ pc[p] = "tier"
  /\ disk[hash[p]] = None
  /\ hash[p] \in stored
  /\ LET parsed == parseSingleRangeHeader(want[p], Size[hash[p]])
     IN \/ parsed = Unsatisfiable /\ Fail(p, "416")
        \/ parsed = Invalid /\ Fail(p, "500")
        \/ /\ parsed \notin {Unsatisfiable, Invalid}
           /\ Finish(p)
           /\ answer' = Sent(hash[p], want[p], "206", parsed.start..parsed.end)
        \/ parsed \notin {Unsatisfiable, Invalid} /\ Fail(p, "cut")
  /\ UNCHANGED <<memory, disk, now, stored, untrimmed>>

\* The payload is open: answer, and keep what was read if the cache takes it.
Serve(p) ==
  LET reply == LocalAnswer(hash[p], want[p])
      code == IF want[p].kind = "full" THEN "cut" ELSE "500"
  IN /\ \/ /\ answer' = reply
           /\ IF /\ want[p].kind # "head"
                 /\ reply.code \in {"200", "206"}
                 /\ CanStore(hash[p])
              THEN Go(p, "add") /\ UNCHANGED request
              ELSE Finish(p)
        \/ \* reading the payload fails
           /\ want[p].kind # "head"
           /\ answer' = Sent(hash[p], want[p], code, {})
           /\ Finish(p)
     /\ UNCHANGED <<memory, disk, now, stored, untrimmed>>

\* openDiskOrRemote.
OnDisk(p) ==
  /\ pc[p] = "look"
  /\ hash[p] \in stored
  /\ disk[hash[p]] # None
  /\ Go(p, "open")
  /\ answer' = None
  /\ UNCHANGED <<memory, disk, now, stored, request, untrimmed>>

OpenRemote(p) ==
  /\ pc[p] = "look"
  /\ hash[p] \in stored
  /\ disk[hash[p]] = None
  /\ Serve(p)

OpenDisk(p) ==
  /\ pc[p] = "open"
  /\ disk[hash[p]] # None
  /\ Serve(p)

\* The file was evicted between Exists and Open.
OpenEvicted(p) ==
  /\ pc[p] = "open"
  /\ disk[hash[p]] = None
  /\ Fail(p, "404")
  /\ UNCHANGED <<memory, disk, now, stored, untrimmed>>

CacheAdd(p) ==
  /\ pc[p] = "add"
  /\ Add(hash[p])
  /\ Touch(hash[p])
  /\ Finish(p)
  /\ answer' = None
  /\ UNCHANGED <<disk, now, stored, untrimmed>>
-----------------------------------------------------------------------------
(***************************************************************************)
(* Pushes: stage, put into the bucket, publish in the disk cache.  A hard  *)
(* link keeps the modification time of the staging file, so the eviction   *)
(* order is the order of staging, not of publishing.  Store.mu covers link *)
(* and eviction; pulls do not take it.                                     *)
(***************************************************************************)
Stage(p, h) ==
  /\ pc[p] = "idle"
  /\ \E t \in now..MaxTime :
       /\ t <= now + 1
       /\ now' = t
       /\ mtime' = [mtime EXCEPT ![p] = t]
  /\ hash' = [hash EXCEPT ![p] = h]
  /\ Go(p, "put")
  /\ answer' = None
  /\ UNCHANGED <<memory, disk, stored, want, untrimmed>>

Put(p) ==
  /\ pc[p] = "put"
  /\ \/ /\ stored' = stored \cup {hash[p]}
        /\ Go(p, "link")
        /\ UNCHANGED request
     \/ Finish(p) /\ UNCHANGED stored
  /\ answer' = None
  /\ UNCHANGED <<memory, disk, now, untrimmed>>

Link(p) ==
  /\ pc[p] = "link"
  /\ \A q \in Procs : pc[q] # "evict"
  /\ \/ /\ disk[hash[p]] # None
        /\ Finish(p)
        /\ UNCHANGED disk
     \/ /\ disk[hash[p]] = None
        /\ disk' = [disk EXCEPT ![hash[p]] = mtime[p]]
        /\ Go(p, "evict")
        /\ UNCHANGED request
  /\ answer' = None
  /\ UNCHANGED <<memory, now, stored, untrimmed>>

Files == {h \in Hashes : disk[h] # None}
WithinLimit == MaxDisk <= 0 \/ BytesOf(Files) <= MaxDisk

\* The order of evict's sort, and the first file in it.
Before(a, b) == disk[a] < disk[b] \/ (disk[a] = disk[b] /\ a < b)
Oldest(h) == \A g \in Files \ {h} : Before(h, g)

\* One turn of evict's loop.
EvictOne(p) ==
  /\ pc[p] = "evict"
  /\ ~WithinLimit
  /\ \E h \in Files : Oldest(h) /\ disk' = [disk EXCEPT ![h] = None]
  /\ answer' = None
  /\ UNCHANGED <<memory, now, stored, pc, request, untrimmed>>

EvictDone(p) ==
  /\ pc[p] = "evict"
  /\ WithinLimit
  /\ Finish(p)
  /\ untrimmed' = FALSE
  /\ answer' = None
  /\ UNCHANGED <<memory, disk, now, stored>>

\* A directory sync, the removal of the staging file or of a victim fails:
\* Publish gives up, and the push goes on without a local copy.
PublishFails(p) ==
  /\ pc[p] = "evict"
  /\ Finish(p)
  /\ untrimmed' = TRUE
  /\ answer' = None
  /\ UNCHANGED <<memory, disk, now, stored>>

\* The process dies and is started again.
Crash ==
  /\ lru' = <<>>
  /\ used' = 0
  /\ newer' = {}
  /\ pc' = [p \in Procs |-> "idle"]
  /\ hash' = [p \in Procs |-> None]
  /\ want' = [p \in Procs |-> None]
  /\ mtime' = [p \in Procs |-> None]
  /\ untrimmed' = (untrimmed \/ \E p \in Procs : pc[p] = "evict")
  /\ answer' = None
  /\ UNCHANGED <<disk, now, stored>>

Next ==
  \/ \E p \in Procs, ask \in Asks : Pull(p, ask[1], ask[2])
  \/ \E p \in Procs, h \in Hashes : Stage(p, h)
  \/ \E p \in Procs :
       \/ LookupFails(p)
       \/ RangeOnDisk(p)
       \/ RangeRemote(p)
       \/ OnDisk(p)
       \/ OpenRemote(p)
       \/ OpenDisk(p)
       \/ OpenEvicted(p)
       \/ CacheAdd(p)
       \/ Put(p)
       \/ Link(p)
       \/ EvictOne(p)
       \/ EvictDone(p)
       \/ PublishFails(p)
  \/ Crash

Spec == Init /\ [][Next]_vars
-----------------------------------------------------------------------------
(***************************************************************************)
(* Properties.                                                             *)
(***************************************************************************)

\* Neither tier outgrows its limit: usedBytes is the sum of the cached
\* payloads, however Add and re-Add interleave, and never above max_bytes;
\* the files are within max_cache_bytes unless a publisher is between its
\* link and the end of its eviction, or an eviction was cut short and none
\* has completed since.
TiersBounded ==
  /\ used = BytesOf(ToSet(lru))
  /\ used <= MaxBytes
  /\ WithinLimit \/ untrimmed \/ \E p \in Procs : pc[p] = "evict"

\* Whichever tier answers, a 200 carries the whole payload, a 206 exactly
\* the requested bytes that exist, and a 416 means that none of them does.
Requested(w, size) ==
  CASE w.kind = "suffix" -> {i \in 0..(size - 1) : i >= size - w.a}
    [] w.kind = "from"   -> {i \in 0..(size - 1) : i >= w.a}
    [] w.kind = "span"   -> {i \in 0..(size - 1) : w.a <= i /\ i <= w.b}
    [] w.kind = "full"   -> 0..(size - 1)
    [] OTHER             -> {}

RangeExact ==
  answer # None =>
    LET asked == Requested(answer.want, Size[answer.hash])
    IN /\ answer.code \in {"200", "206"} => answer.bytes = asked
       /\ answer.code = "416" => asked = {}

\* The list, its byte count and the files implement CachePromise: the
\* memory cache drops the least recently used payloads and no more than it
\* must, and the disk cache drops files in the order of their staging.
Promise == INSTANCE CachePromise WITH
  held  <- ToSet(lru),
  newer <- newer,
  files <- Files,
  older <- {ab \in Files \X Files : disk[ab[1]] <= disk[ab[2]]},
  stored <- stored

KeepsCachePromise == Promise!Spec

-----------------------------------------------------------------------------
(***************************************************************************)
(* The inductive invariant behind these properties.                        *)
(***************************************************************************)

\* What a request holds at each point of its handler.
LocalsKnown ==
  \A p \in Procs :
    /\ pc[p] # "idle" => hash[p] \in Hashes
    /\ pc[p] \in {"tier", "look", "open", "add"} => want[p] \in Wants
    /\ pc[p] = "tier" => want[p].kind \notin {"head", "full"}
    /\ pc[p] \in {"put", "link", "evict"} => mtime[p] \in 0..MaxTime
    /\ pc[p] \in {"open", "add", "link"} => hash[p] \in stored
    /\ pc[p] = "add" => CanStore(hash[p])

Distinct(list) == \A i, j \in 1..Len(list) : list[i] = list[j] => i = j

\* a stands in front of b.
Ahead(list, a, b) ==
  \E i, j \in 1..Len(list) : i < j /\ list[i] = a /\ list[j] = b

\* The list has each cached payload once, in the order of the last uses.
ListExact ==
  /\ Distinct(lru)
  /\ \A a, b \in Hashes : <<a, b>> \in newer <=> Ahead(lru, a, b)

CachesInv ==
  TypeOK /\ LocalsKnown /\ ListExact /\ TiersBounded /\ RangeExact
=============================================================================
