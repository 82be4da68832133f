--------------------------- MODULE PayloadPromise ---------------------------
(***************************************************************************)
(* What VAPS promises to its clients about payloads, without buckets,      *)
(* records, caches or mutexes: each hash is a register that is written     *)
(* once.  It is empty or holds one content for ever, and what it holds is  *)
(* something a client pushed under that hash.  A request may fail, but an  *)
(* answer that says something about the payload is true when it is sent,   *)
(* but for one: a pull that has found a file of the disk cache may be told *)
(* that there is nothing when the file has gone before it is opened.       *)
(* Another content of the same checksum and size counts as the same        *)
(* payload: the code compares nothing else.                                *)
(***************************************************************************)
CONSTANTS
  Procs,    \* concurrent requests
  Hashes,   \* payload identities
  Data,     \* payload contents
  Checksum, \* [Data -> CRC32C values]
  Size,     \* [Data -> Nat]
  PushOps,  \* kinds of pushes
  PullOps,  \* kinds of pulls
  None      \* no content, request or answer

VARIABLES
  content,  \* [Hashes -> content or None]
  asked,    \* [Procs -> request that is not answered yet, or None]
  found,    \* pulls that have found a file and not opened it yet
  answer    \* the response sent by the last step, None if it sent none

visible == <<content, asked, found, answer>>

Requests ==
  [op : PushOps, hash : Hashes, data : Data] \cup
  [op : PullOps \cup {"exists"}, hash : Hashes, data : {None}]

Failures == {"400", "413", "416", "500"}

Init ==
  /\ content \in [Hashes -> Data \cup {None}]
  /\ asked = [p \in Procs |-> None]
  /\ found = {}
  /\ answer = None

Holds(h, d) ==
  /\ content[h] # None
  /\ Checksum[d] = Checksum[content[h]]
  /\ Size[d] = Size[content[h]]

\* What may be answered to r.
Failed(a) == a.code \in Failures /\ a.data = None

PushRight(r, a) ==
  /\ r.op \in PushOps
  /\ a.data = None
  /\ \/ a.code \in {"200", "201"} /\ Holds(r.hash, r.data)
     \/ a.code = "409" /\ content[r.hash] # None /\ ~Holds(r.hash, r.data)

PullRight(r, a) ==
  /\ r.op \in PullOps
  /\ \/ a.code = "200" /\ Holds(r.hash, a.data)
     \/ a.code = "404" /\ a.data = None /\ content[r.hash] = None

ExistsRight(r, a) ==
  /\ r.op = "exists"
  /\ a.data = None
  /\ \/ a.code = "200" /\ content[r.hash] # None
     \/ a.code = "absent" /\ content[r.hash] = None

Right(r, a) ==
  /\ a.op = r.op /\ a.hash = r.hash
  /\ Failed(a) \/ PushRight(r, a) \/ PullRight(r, a) \/ ExistsRight(r, a)
-----------------------------------------------------------------------------
Begin(p) ==
  /\ answer' = None
  /\ asked[p] = None
  /\ asked'[p] \in Requests
  /\ asked' = [asked EXCEPT ![p] = asked'[p]]
  /\ UNCHANGED <<content, found>>

\* p is answered.
Close(p) ==
  /\ answer' # None
  /\ asked[p] # None
  /\ asked' = [asked EXCEPT ![p] = None]
  /\ found' = found \ {p}

End(p) ==
  /\ Close(p)
  /\ Right(asked[p], answer')
  /\ UNCHANGED content

\* A request that is answered in the step it arrives in.
Immediate ==
  /\ answer' # None
  /\ UNCHANGED <<content, asked, found>>
  /\ \E r \in Requests : Right(r, answer')

\* The payload that p pushes is written; p goes on, or does not know it.
Store(p) ==
  /\ asked[p] # None
  /\ asked[p].op \in PushOps
  /\ content[asked[p].hash] = None
  /\ content' = [content EXCEPT ![asked[p].hash] = asked[p].data]
  /\ \/ answer' = None /\ UNCHANGED <<asked, found>>
     \/ Close(p) /\ Right(asked[p], answer') /\ Failed(answer')

\* A pull finds a file of a payload that is there, and opens it or misses it.
Find(p) ==
  /\ answer' = None
  /\ asked[p] # None
  /\ asked[p].op \in PullOps
  /\ content[asked[p].hash] # None
  /\ found' = found \cup {p}
  /\ UNCHANGED <<content, asked>>

Open(p) ==
  /\ answer' = None
  /\ p \in found
  /\ found' = found \ {p}
  /\ UNCHANGED <<content, asked>>

Miss(p) ==
  /\ p \in found
  /\ Close(p)
  /\ answer'.op = asked[p].op /\ answer'.hash = asked[p].hash
  /\ answer'.code = "404" /\ answer'.data = None
  /\ UNCHANGED content

\* Nothing is seen.
Quiet == answer' = None /\ UNCHANGED <<content, asked, found>>

\* The process dies: nobody is answered, and nothing is lost.
Restart ==
  /\ answer' = None
  /\ found' = {}
  /\ asked' = [p \in Procs |-> None]
  /\ UNCHANGED content

Next ==
  \/ Quiet \/ Restart \/ Immediate
  \/ \E p \in Procs : \/ Begin(p) \/ End(p) \/ Store(p)
                      \/ Find(p) \/ Open(p) \/ Miss(p)

Spec == Init /\ [][Next]_visible
=============================================================================
