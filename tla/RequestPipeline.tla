--------------------------- MODULE RequestPipeline ---------------------------
(***************************************************************************)
(* What every HTTP request passes through besides its handler: the source  *)
(* lookup (requestSources over internal/auth), the meter (httpMeter over   *)
(* internal/httpmeter) and the error log (errorRecorder over               *)
(* internal/reqlog), with the handlers that register sources and forget    *)
(* them all.  The other handlers are only a status here.                   *)
(*                                                                         *)
(* Activity, meter and error log live in the process; tokens are in bbolt, *)
(* whose write transactions exclude each other but not the read            *)
(* transactions, which work on the last committed snapshot.                *)
(***************************************************************************)
EXTENDS Integers, FiniteSets, SequencesExt

CONSTANTS
  Procs,       \* concurrent requests
  Sources,     \* client ids together with their normalised address
  Tokens,      \* source tokens; numbers, because keys are iterated in order
  Times,       \* creation times
  Databases,   \* the token databases the first start may find
  MaxRecords,  \* reqlog.Store.max
  MaxRequests, \* bound: requests per process life
  None         \* no token

\* The kinds of paths that differ: /v2/ and /health, the two handlers of the
\* token store, the dashboards, and a path no route knows.
Paths == {"api", "issue", "clear", "dashboard", "stray"}

isDashboardErrorPath(path) == path \in {"dashboard", "clear"}
isMonitoredErrorPath(path) == path # "stray"

\* auth.Token; plain is whether the token itself is kept, which older
\* releases did not do.
TokenRecords == [src : Sources, plain : BOOLEAN, born : Times]

Statuses == {"ok", "client", "server"}

\* A token is 32 random bytes.
ASSUME PipelineAssumption ==
  /\ IsFiniteSet(Procs)
  /\ Tokens \subseteq Nat /\ IsFiniteSet(Tokens)
  /\ Times \subseteq Nat
  /\ Databases \subseteq [Tokens -> TokenRecords \cup {None}]
  /\ MaxRecords \in Nat \ {0}
  /\ MaxRequests \in Nat
  /\ None \notin Tokens
  /\ None \notin TokenRecords

VARIABLES
  tokens,   \* bbolt: token -> record or None
  activity, \* auth.Store.activity: requests counted per token
  active,   \* Meter.active
  counted,  \* Meter.count, and its ok, client and server counters
  log,      \* reqlog.Store: its records and counters
  pc,       \* what each request does next
  req,      \* its path, token and status
  requests, \* requests started by this process
  issued,   \* history: the token a source got last, since the last DeleteAll
  given,    \* history: tokens that have been registered
  torn      \* history: a DeleteAll has cleared the activity of live tokens

vars == <<tokens, activity, active, counted, log, pc, req, requests, issued,
          given, torn>>

NoRequest == [path |-> "api", token |-> None, status |-> "ok"]
NoCount == [count |-> 0, ok |-> 0, client |-> 0, server |-> 0]
NoLog == [records |-> <<>>, nextID |-> 0, total |-> 0, panelClient |-> 0,
          panelServer |-> 0]

LogRecords == [id : 1..MaxRequests, token : Tokens \cup {None},
               dashboard : BOOLEAN]

TypeOK ==
  /\ tokens \in [Tokens -> TokenRecords \cup {None}]
  /\ activity \in [Tokens -> 0..MaxRequests]
  /\ active \in 0..Cardinality(Procs)
  /\ counted \in [count : 0..MaxRequests, ok : 0..MaxRequests,
                  client : 0..MaxRequests, server : 0..MaxRequests]
  /\ log \in [records : Seq(LogRecords), nextID : 0..MaxRequests,
              total : 0..MaxRequests, panelClient : 0..MaxRequests,
              panelServer : 0..MaxRequests]
  /\ pc \in [Procs -> {"idle", "lookup", "count", "begin", "handle", "commit",
                       "record", "finish"}]
  /\ req \in [Procs -> [path : Paths, token : Tokens \cup {None},
                        status : Statuses]]
  /\ requests \in 0..MaxRequests
  /\ issued \in [Sources -> Tokens \cup {None}]
  /\ given \subseteq Tokens
  /\ torn \in BOOLEAN

\* An older release may have registered a source several times.
Init ==
  /\ tokens \in Databases
  /\ activity = [t \in Tokens |-> 0]
  /\ active = 0
  /\ counted = NoCount
  /\ log = NoLog
  /\ pc = [p \in Procs |-> "idle"]
  /\ req = [p \in Procs |-> NoRequest]
  /\ requests = 0
  /\ issued = [s \in Sources |-> None]
  /\ given = {t \in Tokens : tokens[t] # None}
  /\ torn = FALSE
-----------------------------------------------------------------------------
Go(p, label) == pc' = [pc EXCEPT ![p] = label]
With(p, status) == req' = [req EXCEPT ![p].status = status]
process == <<activity, active, counted, log, requests>>
history == <<issued, given, torn>>

\* A request that carries a token its client was given, or none.
Arrive(p, path, token) ==
  /\ pc[p] = "idle"
  /\ requests < MaxRequests
  /\ token \in given \cup {None}
  /\ requests' = requests + 1
  /\ req' = [req EXCEPT ![p] = [path |-> path, token |-> token, status |-> "ok"]]
  /\ Go(p, IF token = None THEN "begin" ELSE "lookup")
  /\ UNCHANGED <<tokens, activity, active, counted, log, history>>

\* Mutant: every path is only looked up.
LookupOnly(p) ==
  /\ pc[p] = "lookup"
  /\ Go(p, "begin")
  /\ UNCHANGED <<tokens, process, req, history>>

\* requestSources: LookupByHash, or the snapshot of Observe ...
Lookup(p) ==
  /\ pc[p] = "lookup"
  /\ Go(p, IF /\ tokens[req[p].token] # None
              /\ ~isDashboardErrorPath(req[p].path)
           THEN "count" ELSE "begin")
  /\ UNCHANGED <<tokens, process, req, history>>

\* ... whose count is taken later, when the token may be gone.
ObserveCount(p) ==
  /\ pc[p] = "count"
  /\ activity' = [activity EXCEPT ![req[p].token] = @ + 1]
  /\ Go(p, "begin")
  /\ UNCHANGED <<tokens, active, counted, log, req, requests, history>>

\* Mutant: the dashboards are begun and never finished.
BeginEvery(p) ==
  /\ pc[p] = "begin"
  /\ active' = active + 1
  /\ Go(p, "handle")
  /\ UNCHANGED <<tokens, activity, counted, log, req, requests, history>>

\* Meter.Begin; the dashboards are not metered.
Begin(p) ==
  /\ pc[p] = "begin"
  /\ active' = IF isDashboardErrorPath(req[p].path) THEN active ELSE active + 1
  /\ Go(p, "handle")
  /\ UNCHANGED <<tokens, activity, counted, log, req, requests, history>>

\* A handler that does not touch the tokens; the last case of ServeHTTP is
\* a 404.
Handle(p) ==
  /\ pc[p] = "handle"
  /\ req[p].path \in {"api", "dashboard", "stray"}
  /\ \E status \in Statuses :
       /\ req[p].path = "stray" => status = "client"
       /\ With(p, status)
  /\ Go(p, "record")
  /\ UNCHANGED <<tokens, process, history>>

\* bbolt has one write transaction at a time.
NoWriter == \A q \in Procs : pc[q] # "commit"

\* Mutant: tokens kept only as their hash are reused too, and any of them.
ReusableAny(s) == {t \in Tokens : tokens[t] # None /\ tokens[t].src = s}

\* Issue's loop: the newest token of the source that is kept in plain; of
\* equally old ones the first in key order.
Reusable(s) ==
  LET own == {t \in Tokens : /\ tokens[t] # None
                             /\ tokens[t].src = s
                             /\ tokens[t].plain}
  IN {t \in own : \A u \in own \ {t} :
        \/ tokens[t].born > tokens[u].born
        \/ tokens[t].born = tokens[u].born /\ t < u}

\* A random token is one nobody has had.
Fresh == Tokens \ given

\* Issue: one write transaction, which may fail.
Issue(p, s) ==
  /\ pc[p] = "handle"
  /\ req[p].path = "issue"
  /\ NoWriter
  /\ \E t \in IF Reusable(s) # {} THEN Reusable(s) ELSE Fresh, b \in Times :
       /\ tokens' = [tokens EXCEPT ![t] =
            [src |-> s, plain |-> TRUE,
             born |-> IF tokens[t] # None THEN tokens[t].born ELSE b]]
       /\ issued' = [issued EXCEPT ![s] = t]
       /\ given' = given \cup {t}
  /\ With(p, "ok")
  /\ Go(p, "record")
  /\ UNCHANGED <<process, torn>>

\* A bad body, or a transaction that fails before it has changed anything.
TokenError(p) ==
  /\ pc[p] = "handle"
  /\ req[p].path \in {"issue", "clear"}
  /\ \/ req[p].path = "issue" /\ With(p, "client")
     \/ With(p, "server")
  /\ Go(p, "record")
  /\ UNCHANGED <<tokens, process, history>>

\* DeleteAll: the activity is cleared inside the transaction ...
DeleteAll(p) ==
  /\ pc[p] = "handle"
  /\ req[p].path = "clear"
  /\ NoWriter
  /\ activity' = [t \in Tokens |-> 0]
  /\ torn' = TRUE
  /\ Go(p, "commit")
  /\ UNCHANGED <<tokens, active, counted, log, req, requests, issued, given>>

\* ... which deletes the tokens when it commits ...
DeleteCommit(p) ==
  /\ pc[p] = "commit"
  /\ tokens' = [t \in Tokens |-> None]
  /\ issued' = [s \in Sources |-> None]
  /\ torn' = FALSE
  /\ With(p, "ok")
  /\ Go(p, "record")
  /\ UNCHANGED <<process, given>>

\* ... and keeps them when it cannot.
DeleteFails(p) ==
  /\ pc[p] = "commit"
  /\ With(p, "server")
  /\ Go(p, "record")
  /\ UNCHANGED <<tokens, process, history>>

\* reqlog.Store.Record.
Logged(entry, status) ==
  LET id == log.nextID + 1
      grown == Append(log.records, [id |-> id, token |-> entry.token,
                                    dashboard |-> entry.dashboard])
      panel(s) == IF status = s /\ ~entry.dashboard THEN 1 ELSE 0
  IN [records |-> IF Len(grown) > MaxRecords THEN Tail(grown) ELSE grown,
      nextID |-> id,
      total |-> log.total + 1,
      panelClient |-> log.panelClient + panel("client"),
      panelServer |-> log.panelServer + panel("server")]

\* errorRecorder, after the handler has returned.
Record(p) ==
  /\ pc[p] = "record"
  /\ log' = IF req[p].status # "ok" /\ isMonitoredErrorPath(req[p].path)
            THEN Logged([token |-> req[p].token,
                         dashboard |-> isDashboardErrorPath(req[p].path)],
                        req[p].status)
            ELSE log
  /\ Go(p, "finish")
  /\ UNCHANGED <<tokens, activity, active, counted, req, requests, history>>

\* The counters of the meter after one more response.
Tallied(status) ==
  LET one(s) == IF status = s THEN 1 ELSE 0
  IN [count |-> counted.count + 1,
      ok |-> counted.ok + one("ok"),
      client |-> counted.client + one("client"),
      server |-> counted.server + one("server")]

\* Meter.finish.
Finish(p) ==
  /\ pc[p] = "finish"
  /\ \/ /\ isDashboardErrorPath(req[p].path)
        /\ UNCHANGED <<active, counted>>
     \/ /\ ~isDashboardErrorPath(req[p].path)
        /\ active' = active - 1
        /\ counted' = Tallied(req[p].status)
  /\ req' = [req EXCEPT ![p] = NoRequest]
  /\ Go(p, "idle")
  /\ UNCHANGED <<tokens, activity, log, requests, history>>

\* The process is started again: the tokens are all that is left.
Restart ==
  /\ activity' = [t \in Tokens |-> 0]
  /\ active' = 0
  /\ counted' = NoCount
  /\ log' = NoLog
  /\ pc' = [p \in Procs |-> "idle"]
  /\ req' = [p \in Procs |-> NoRequest]
  /\ requests' = 0
  /\ torn' = FALSE
  /\ UNCHANGED <<tokens, issued, given>>

Next ==
  \/ \E p \in Procs, path \in Paths, t \in Tokens \cup {None} : Arrive(p, path, t)
  \/ \E p \in Procs, s \in Sources : Issue(p, s)
  \/ \E p \in Procs :
       \/ Lookup(p)
       \/ ObserveCount(p)
       \/ Begin(p)
       \/ Handle(p)
       \/ TokenError(p)
       \/ DeleteAll(p)
       \/ DeleteCommit(p)
       \/ DeleteFails(p)
       \/ Record(p)
       \/ Finish(p)
  \/ Restart

Spec == Init /\ [][Next]_vars
-----------------------------------------------------------------------------
Metered(p) == ~isDashboardErrorPath(req[p].path)

Started == {p \in Procs : /\ pc[p] \in {"handle", "commit", "record", "finish"}
                          /\ Metered(p)}
Between(s) == {p \in Procs : pc[p] = "finish" /\ Metered(p) /\ req[p].status = s}

\* The meter and the error log, which count the same responses at different
\* moments and never see each other, agree up to the requests between the
\* two, and the log keeps the newest records: the failed requests of the
\* error panel are those of the meter, less the paths no route knows.
CountersAgree ==
  /\ active = Cardinality(Started)
  /\ counted.count = counted.ok + counted.client + counted.server
  /\ log.panelServer = counted.server + Cardinality(Between("server"))
  /\ log.panelClient <= counted.client + Cardinality(Between("client"))
  /\ log.total = log.nextID
  /\ Len(log.records) <= MaxRecords
  /\ \A i \in 1..Len(log.records) :
       log.records[i].id = log.nextID - Len(log.records) + i

\* The failed API requests the error log holds for a registered source never
\* outnumber the requests counted for it, although the two are kept by
\* different stores and DeleteAll runs in between; unless a DeleteAll has
\* cleared the counts and has not committed.
ErrorsOf(t) ==
  Cardinality({i \in 1..Len(log.records) :
                 log.records[i].token = t /\ ~log.records[i].dashboard})

ErrorsWithinRequests ==
  ~torn => \A t \in Tokens : tokens[t] # None => ErrorsOf(t) <= activity[t]

\* A source that asks again gets the token it has, through restarts and
\* concurrent requests, until all tokens are deleted.
SourceKeepsToken ==
  [][\A s \in Sources :
       issued[s] # None /\ issued'[s] # None => issued'[s] = issued[s]]_vars
-----------------------------------------------------------------------------
(***************************************************************************)
(* The inductive invariant behind the theorems of RequestPipelineProofs.   *)
(***************************************************************************)
Entries == [id : Nat, token : Tokens \cup {None}, dashboard : BOOLEAN]

Shapes ==
  /\ tokens \in [Tokens -> TokenRecords \cup {None}]
  /\ activity \in [Tokens -> Nat]
  /\ counted \in [count : Nat, ok : Nat, client : Nat, server : Nat]
  /\ log \in [records : Seq(Entries), nextID : Nat, total : Nat, panelClient : Nat,
              panelServer : Nat]
  /\ pc \in [Procs -> {"idle", "lookup", "count", "begin", "handle", "commit",
                       "record", "finish"}]
  /\ req \in [Procs -> [path : Paths, token : Tokens \cup {None}, status : Statuses]]
  /\ issued \in [Sources -> Tokens \cup {None}]
  /\ given \subseteq Tokens

\* What the process remembers of tokens are tokens somebody was given; a
\* deleted token never comes back.
Known ==
  /\ \A t \in Tokens : tokens[t] # None => t \in given
  /\ \A p \in Procs : req[p].token \in given \cup {None}
  /\ \A i \in 1..Len(log.records) : log.records[i].token \in given \cup {None}

Requested ==
  \A p \in Procs :
    /\ pc[p] \in {"lookup", "count"} => req[p].token # None
    /\ pc[p] = "count" => Metered(p)
    /\ pc[p] = "commit" => req[p].path = "clear"
    /\ pc[p] \in {"record", "finish"} /\ req[p].path = "stray" => req[p].status # "server"

\* Requests of a token that may still be logged have been counted.
InFlight(t) ==
  {p \in Procs : /\ pc[p] \in {"begin", "handle", "commit", "record"}
                 /\ req[p].token = t /\ Metered(p)}

Counted ==
  ~torn => \A t \in Tokens : tokens[t] # None =>
             ErrorsOf(t) + Cardinality(InFlight(t)) <= activity[t]

\* Issue would choose the token the source got last.
Remembered == \A s \in Sources : issued[s] # None => Reusable(s) = {issued[s]}

PipelineInv ==
  Shapes /\ Known /\ Requested /\ Counted /\ CountersAgree /\ Remembered
=============================================================================
