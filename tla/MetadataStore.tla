---------------------------- MODULE MetadataStore ----------------------------
(***************************************************************************)
(* internal/metadata: the payload records in bbolt, the copy of them that  *)
(* the dashboards query, and the pages a client walks through.             *)
(*                                                                         *)
(* PutPayload commits a record to bbolt and then copies it into the index  *)
(* in a critical section of its own, and the handlers that call it have    *)
(* read the record in yet another transaction.  A query collects its       *)
(* matches under the read lock and sorts them after releasing it; only one *)
(* query runs at a time and a second one is refused.                       *)
(***************************************************************************)
EXTENDS Integers, FiniteSets, SequencesExt

CONSTANTS
  Hashes,   \* payload identities; numbers, because hashes are compared
  Size,     \* [Hashes -> Nat]
  Created,  \* [Hashes -> Nat], the time a push would give to the record
  Writers,  \* requests that put records
  Clients,  \* dashboards that walk through the pages of a query
  Queries,  \* what clients ask for
  None      \* no record, no query

\* metadata.Payload: the status, and whether CreatedAt is set; a record of an
\* older release may have none.
Records == [cached : BOOLEAN, dated : BOOLEAN]

\* metadata.PayloadQuery after parseMetadataQuery; onlyCached stands for
\* RequireLocal and RequireCache, which test the same status.
AllQueries == [by : {"size", "created"}, desc : BOOLEAN, onlyCached : BOOLEAN,
               minSize : Nat, limit : Nat]

ASSUME StoreAssumption ==
  /\ Hashes \subseteq Nat /\ IsFiniteSet(Hashes)
  /\ Size \in [Hashes -> Nat]
  /\ Created \in [Hashes -> Nat]
  /\ Queries \subseteq AllQueries

VARIABLES
  db,         \* bbolt: hash -> record or None
  index,      \* Store.dashboardPayloads
  querying,   \* Store.dashboardQuerying
  writing,    \* per writer: its step, hash and record
  asking,     \* per client: its step, query, offset and collected matches
  overlapped, \* history: hashes of which two PutPayload calls crossed, and none
              \* has committed alone since
  steady,     \* history: clients for which the index has not changed in their walk
  seen        \* history: the items a client got in its walk, in order

vars == <<db, index, querying, writing, asking, overlapped, steady, seen>>

NotWriting == [step |-> "idle", hash |-> None, rec |-> None]
NotAsking  == [step |-> "idle", query |-> None, offset |-> 0, matched |-> <<>>]

TypeOK ==
  /\ db \in [Hashes -> Records \cup {None}]
  /\ index \in [Hashes -> Records \cup {None}]
  /\ querying \in BOOLEAN
  /\ writing \in [Writers -> [step : {"idle", "put", "index"},
                              hash : Hashes \cup {None},
                              rec : Records \cup {None}]]
  /\ asking \in [Clients -> [step : {"idle", "collect", "reply", "more", "done"},
                             query : Queries \cup {None},
                             offset : 0..Cardinality(Hashes),
                             matched : Seq(Hashes)]]
  /\ overlapped \subseteq Hashes
  /\ steady \subseteq Clients
  /\ seen \in [Clients -> Seq(Hashes)]

\* Open: loadDashboardIndex copies every record.
Init ==
  /\ db \in [Hashes -> {None, [cached |-> FALSE, dated |-> FALSE]}]
  /\ index = db
  /\ querying = FALSE
  /\ writing = [w \in Writers |-> NotWriting]
  /\ asking = [c \in Clients |-> NotAsking]
  /\ overlapped = {}
  /\ steady = {}
  /\ seen = [c \in Clients |-> <<>>]
-----------------------------------------------------------------------------
(***************************************************************************)
(* Writers.                                                                *)
(***************************************************************************)
\* commitPayloadMetadata: a new record, or the old one with the new status;
\* a record without a creation time gets one.
CommitRead(w, h) ==
  /\ writing[w].step = "idle"
  /\ \E onDisk \in BOOLEAN :
       writing' = [writing EXCEPT ![w] =
         [step |-> "put", hash |-> h,
          rec |-> [cached |-> onDisk, dated |-> TRUE]]]
  /\ UNCHANGED <<db, index, querying, asking, overlapped, steady, seen>>

\* markCached, after a pull has been put into the memory cache.
markCached(w, h) ==
  /\ writing[w].step = "idle"
  /\ db[h] # None
  /\ writing' = [writing EXCEPT ![w] =
       [step |-> "put", hash |-> h, rec |-> [db[h] EXCEPT !.cached = TRUE]]]
  /\ UNCHANGED <<db, index, querying, asking, overlapped, steady, seen>>

\* Another PutPayload of the same hash is between its critical sections.
Overlaps(w) ==
  \E v \in Writers \ {w} : /\ writing[v].step = "index"
                           /\ writing[v].hash = writing[w].hash

\* PutPayload, the bbolt transaction ...
PutPayload(w) ==
  /\ writing[w].step = "put"
  /\ LET h == writing[w].hash
     IN /\ db' = [db EXCEPT ![h] = writing[w].rec]
        /\ overlapped' = IF Overlaps(w) THEN overlapped \cup {h}
                         ELSE overlapped \ {h}
  /\ writing' = [writing EXCEPT ![w].step = "index"]
  /\ UNCHANGED <<index, querying, asking, steady, seen>>

\* Mutant: the error of the transaction is dropped.
PutPayloadErrorDropped(w) ==
  /\ writing[w].step = "put"
  /\ writing' = [writing EXCEPT ![w].step = "index"]
  /\ UNCHANGED <<db, index, querying, asking, overlapped, steady, seen>>

\* ... which may fail ...
PutPayloadError(w) ==
  /\ writing[w].step = "put"
  /\ writing' = [writing EXCEPT ![w] = NotWriting]
  /\ UNCHANGED <<db, index, querying, asking, overlapped, steady, seen>>

\* ... and, in a second critical section, the index.
PutIndex(w) ==
  /\ writing[w].step = "index"
  /\ LET h == writing[w].hash
     IN /\ index' = [index EXCEPT ![h] = writing[w].rec]
        /\ steady' = IF index[h] = writing[w].rec THEN steady ELSE {}
  /\ writing' = [writing EXCEPT ![w] = NotWriting]
  /\ UNCHANGED <<db, querying, asking, overlapped, seen>>
-----------------------------------------------------------------------------
(***************************************************************************)
(* Queries.                                                                *)
(***************************************************************************)
matches(q, h, rec) ==
  /\ rec # None
  /\ q.onlyCached => rec.cached
  /\ Size[h] >= q.minSize

Matching(q) == {h \in Hashes : matches(q, h, index[h])}

Ascending(q, x, y) == IF q.desc THEN x > y ELSE x < y

\* Mutant: equal keys are left as they are.
LessByKey(q, g, h) ==
  LET key(x) == IF q.by = "size" THEN Size[x] ELSE Created[x]
  IN Ascending(q, key(g), key(h))

\* The comparison of sortPayloads; records without a creation time are last
\* in either order, and the hash decides between equal keys.
Less(q, g, h) ==
  LET dated(x) == index[x].dated
      key(x) == IF q.by = "size" THEN Size[x] ELSE Created[x]
      keyed == q.by = "size" \/ (dated(g) /\ dated(h))
  IN IF q.by = "created" /\ dated(g) # dated(h) THEN dated(g)
     ELSE IF keyed /\ key(g) # key(h) THEN Ascending(q, key(g), key(h))
     ELSE Ascending(q, g, h)

\* The slice holds the matches in the random order of a map; sorting leaves
\* any order in which no element precedes a smaller one.
Sorted(q, S) ==
  {s \in SetToSeqs(S) : \A i, j \in 1..Len(s) : i < j => ~Less(q, s[j], s[i])}

\* The items of one page.
Page(q, offset, s) ==
  LET end == IF q.limit > 0 /\ offset + q.limit < Len(s)
             THEN offset + q.limit ELSE Len(s)
  IN SubSeq(s, offset + 1, end)

Step(c, step) == [asking EXCEPT ![c].step = step]

\* A client opens a dashboard on query q.
Open(c, q) ==
  /\ asking[c].step \in {"idle", "done"}
  /\ asking' = [asking EXCEPT ![c] =
       [step |-> "more", query |-> q, offset |-> 0, matched |-> <<>>]]
  /\ steady' = steady \cup {c}
  /\ seen' = [seen EXCEPT ![c] = <<>>]
  /\ UNCHANGED <<db, index, querying, writing, overlapped>>

\* Mutant: the flag is set and not tested.
BeginUntested(c) ==
  /\ asking[c].step = "more"
  /\ querying' = TRUE
  /\ asking' = Step(c, "collect")
  /\ UNCHANGED <<db, index, writing, overlapped, steady, seen>>

\* QueryPayloads: the flag is taken, or the request is answered 503 and the
\* client asks for the page again.
Begin(c) ==
  /\ asking[c].step = "more"
  /\ ~querying
  /\ querying' = TRUE
  /\ asking' = Step(c, "collect")
  /\ UNCHANGED <<db, index, writing, overlapped, steady, seen>>

Collect(c) ==
  /\ asking[c].step = "collect"
  /\ \E s \in Sorted(asking[c].query, Matching(asking[c].query)) :
       asking' = [asking EXCEPT ![c].step = "reply", ![c].matched = s]
  /\ UNCHANGED <<db, index, querying, writing, overlapped, steady,
                 seen>>

\* The deferred function clears the flag and the page is sent; the client
\* goes on until it has as many items as there are.
Reply(c) ==
  /\ asking[c].step = "reply"
  /\ querying' = FALSE
  /\ LET items == Page(asking[c].query, asking[c].offset, asking[c].matched)
         next == asking[c].offset + Len(items)
     IN /\ seen' = [seen EXCEPT ![c] = @ \o items]
        /\ asking' = [asking EXCEPT ![c] =
             [step |-> IF next >= Len(@.matched) THEN "done" ELSE "more",
              query |-> @.query, offset |-> next, matched |-> <<>>]]
  /\ UNCHANGED <<db, index, writing, overlapped, steady>>

\* The process dies; Open reads the records again.
Restart ==
  /\ index' = db
  /\ querying' = FALSE
  /\ writing' = [w \in Writers |-> NotWriting]
  /\ asking' = [c \in Clients |-> NotAsking]
  /\ overlapped' = {}
  /\ steady' = {}
  /\ seen' = [c \in Clients |-> <<>>]
  /\ UNCHANGED db

Next ==
  \/ \E w \in Writers :
       \/ \E h \in Hashes : CommitRead(w, h) \/ markCached(w, h)
       \/ PutPayload(w)
       \/ PutPayloadError(w)
       \/ PutIndex(w)
  \/ \E c \in Clients :
       \/ \E q \in Queries : Open(c, q)
       \/ Begin(c)
       \/ Collect(c)
       \/ Reply(c)
  \/ Restart

Spec == Init /\ [][Next]_vars
-----------------------------------------------------------------------------
\* A put that fails leaves no trace in the index, and the index is behind
\* bbolt only while a put of the same hash is between
\* its two critical sections, or after two such puts crossed: their index
\* updates may come in the other order than their commits, and then the
\* index stays wrong until the next put of the hash or the next start.
IndexAgrees ==
  \A h \in Hashes :
    \/ index[h] = db[h]
    \/ h \in overlapped
    \/ \E w \in Writers : writing[w].step = "index" /\ writing[w].hash = h

\* Walking through the pages of a query while the index does not change
\* returns every match exactly once: equal sort keys do not let two pages
\* disagree about the order, although every query collects in random order.
PagesPartition ==
  \A c \in steady :
    /\ IsInjective(seen[c])
    /\ asking[c].step = "done" => ToSet(seen[c]) = Matching(asking[c].query)

\* The busy flag is up exactly while one query runs: two queries never run
\* at once, and a client is only refused because another one is answered.
BusyWhileQuerying ==
  LET running == {c \in Clients : asking[c].step \in {"collect", "reply"}}
  IN Cardinality(running) = (IF querying THEN 1 ELSE 0)
-----------------------------------------------------------------------------
(***************************************************************************)
(* The inductive invariants behind the theorems of MetadataStoreProofs.    *)
(***************************************************************************)
StoresTyped ==
  /\ db \in [Hashes -> Records \cup {None}]
  /\ index \in [Hashes -> Records \cup {None}]
  /\ DOMAIN writing = Writers

\* What a writer carries at each step.
WriterShape(w) ==
  /\ writing[w] \in [step : {"idle", "put", "index"}, hash : Hashes \cup {None},
                     rec : Records \cup {None}]
  /\ writing[w].step # "idle" => writing[w].hash \in Hashes

\* A put that has committed and crossed no other one carries what bbolt has.
CommittedLast(w) ==
  LET h == writing[w].hash
  IN writing[w].step = "index" /\ h \notin overlapped => writing[w].rec = db[h]

IndexInv ==
  /\ StoresTyped
  /\ \A w \in Writers : WriterShape(w) /\ CommittedLast(w)
  /\ IndexAgrees

Running(c) == asking[c].step \in {"collect", "reply"}

QueryInv ==
  /\ DOMAIN asking = Clients
  /\ querying \in BOOLEAN
  /\ \A c \in Clients : DOMAIN asking[c] = {"step", "query", "offset", "matched"}
  /\ \A c, d \in Clients : Running(c) /\ Running(d) => c = d
  /\ querying <=> \E c \in Clients : Running(c)

AskShapes == [step : {"idle", "collect", "reply", "more", "done"},
              query : Queries \cup {None}, offset : Nat, matched : Seq(Hashes)]

WalkShapes ==
  /\ asking \in [Clients -> AskShapes]
  /\ seen \in [Clients -> Seq(Hashes)]
  /\ steady \subseteq Clients
  /\ \A c \in Clients : asking[c].step # "idle" => asking[c].query \in Queries

\* The lists that QueryPayloads may page through: there is only one.
Answers(q) == Sorted(q, Matching(q))

\* A client of query q has seen the first items of the answer.
Walked(c, q) ==
  /\ \/ asking[c].offset = 0 /\ seen[c] = <<>>
     \/ \E s \in Answers(q) : /\ asking[c].offset <= Len(s)
                              /\ seen[c] = SubSeq(s, 1, asking[c].offset)
  /\ asking[c].step = "reply" => asking[c].matched \in Answers(q)
  /\ asking[c].step = "done" => seen[c] \in Answers(q)

WalkInv ==
  /\ WalkShapes
  /\ \A c \in steady : asking[c].step # "idle"
  /\ \A c \in steady, q \in Queries : asking[c].query = q => Walked(c, q)
=============================================================================
