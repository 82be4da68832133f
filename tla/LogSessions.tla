----------------------------- MODULE LogSessions -----------------------------
(***************************************************************************)
(* The daily log files (internal/utils/logfile.go), the runs of the server *)
(* that write them (cmd/vaps) and the reader that rebuilds the sessions    *)
(* from them for the dashboard (internal/logreader).                       *)
(*                                                                         *)
(* The reader shares nothing with the writer but the files: it lists them  *)
(* and then opens one after the other while lines are appended, the day    *)
(* changes and old files are removed.                                      *)
(***************************************************************************)
EXTENDS Integers, Sequences

CONSTANTS
  RetentionDays, \* log_retention_days, 0 keeps everything
  DayLength,     \* seconds of a day
  MaxTime,       \* bound: the last second
  MaxRuns,       \* bound: starts of the server
  MaxInfo,       \* bound: ordinary lines of one run
  InfoTexts,     \* what the reader's patterns may find in an ordinary line
  None           \* no file, no day, no time

Day(t) == t \div DayLength
Days == 0..Day(MaxTime)
Runs == 1..MaxRuns
Times == 0..MaxTime

\* What the unanchored patterns of the reader find in a line: the started_at
\* of a startup line (a time that does not parse stands for the time of the
\* line), and the words of an ordered end.
Texts == [opens : Times \cup {None}, ends : BOOLEAN]

\* The run that wrote a line and what it wrote.  Startup and stop lines have
\* the words of their kind; ordinary lines quote texts of requests and errors
\* (the access log the path and the user agent), so they may have any.
Kinds == {"blank", "start", "info", "stop"}
Lines == [run : Runs, kind : Kinds, text : Texts]

ASSUME LogAssumption ==
  /\ {RetentionDays, MaxTime, MaxRuns, MaxInfo} \subseteq Nat
  /\ DayLength \in Nat \ {0}
  /\ InfoTexts \subseteq Texts
  /\ None \notin Days /\ None \notin Times /\ None \notin Seq(Lines)

VARIABLES
  now,     \* the clock; started_at and the session ids have its resolution
  files,   \* log directory: day -> lines or None
  current, \* DailyRotatingWriter.currentDate
  open,    \* DailyRotatingWriter.file is not nil
  state,   \* the server is "down", "starting", "greeting", "up" or "stopping"
  run,     \* number of starts so far; the last one is the current run
  started, \* started_at of each run
  info,    \* ordinary lines the current run has logged
  reader,  \* Reader.read: files to open, sessions found, index of the current one
  stopped  \* history: runs that have ended in order

vars == <<now, files, current, open, state, run, started, info, reader,
          stopped>>

NoReader == [step |-> "idle", todo |-> {}, sessions |-> <<>>, at |-> 0]

\* A session with the lines it counts, of which the first one opened it.  Under
\* its id the page shows the lines of all sessions with that id.
Sessions == [id : Times, first : Lines, ended : BOOLEAN, lines : SUBSET Lines]

TypeOK ==
  /\ now \in 0..MaxTime
  /\ files \in [Days -> Seq(Lines) \cup {None}]
  /\ current \in Days \cup {None}
  /\ open \in BOOLEAN
  /\ state \in {"down", "starting", "greeting", "up", "stopping"}
  /\ run \in 0..MaxRuns
  /\ started \in [Runs -> 0..MaxTime]
  /\ info \in 0..MaxInfo
  /\ reader \in [step : {"idle", "read", "done"}, todo : SUBSET Days,
                 sessions : Seq(Sessions), at : Nat]
  /\ stopped \subseteq Runs

Init ==
  /\ now = 0
  /\ files = [d \in Days |-> None]
  /\ current = None
  /\ open = FALSE
  /\ state = "down"
  /\ run = 0
  /\ started = [r \in Runs |-> 0]
  /\ info = 0
  /\ reader = NoReader
  /\ stopped = {}
-----------------------------------------------------------------------------
(***************************************************************************)
(* The writer.                                                             *)
(***************************************************************************)
today == Day(now)

Tick ==
  /\ now < MaxTime
  /\ now' = now + 1
  /\ UNCHANGED <<files, current, open, state, run, started, info, reader,
                 stopped>>

\* Mutant: the cutoff is a day late.
cutoffLate == today - RetentionDays + 2

\* cleanupLocked: a file goes when its day is before the cutoff.
cutoff == today - RetentionDays + 1
Expired == {d \in Days : RetentionDays > 0 /\ files[d] # None /\ d < cutoff}

\* rotateLocked opens the file of today, creating it if need be, and removes
\* the files in gone.
Rotated(gone) ==
  [d \in Days |-> IF d \in gone THEN None
                  ELSE IF d = today /\ files[d] = None THEN <<>>
                  ELSE files[d]]

\* cleanupLocked goes from the oldest file to the newest and gives up at the
\* first one it cannot remove: these are the files then left behind.
LeftBehind == {{d \in Expired : d >= first} : first \in Expired}

\* setupLogging; without its log the server does not start, but the file of
\* today may have been created and some files removed.
Start ==
  /\ state = "down"
  /\ run < MaxRuns
  /\ files' = Rotated(Expired)
  /\ current' = today
  /\ open' = TRUE
  /\ state' = "starting"
  /\ run' = run + 1
  /\ info' = 0
  /\ UNCHANGED <<now, started, reader, stopped>>

StartFails ==
  /\ state = "down"
  /\ \E kept \in LeftBehind : files' = Rotated(Expired \ kept)
  /\ UNCHANGED <<now, current, open, state, run, started, info, reader, stopped>>

\* Write appends a line, after a rotation when the day has changed ...
Written(line) ==
  \/ /\ current = today
     /\ files' = [files EXCEPT ![today] = Append(@, line)]
     /\ UNCHANGED <<current, open>>
  \/ /\ current # today
     /\ files' = [Rotated(Expired) EXCEPT ![today] = Append(@, line)]
     /\ current' = today
     /\ open' = TRUE

\* ... or loses it: the write fails, an old file cannot be removed although
\* the new one is open, or the new one cannot be opened and the old one is
\* closed already.
Lost ==
  \/ current = today /\ UNCHANGED <<files, current, open>>
  \/ /\ current # today
     /\ \E kept \in LeftBehind : files' = Rotated(Expired \ kept)
     /\ current' = today
     /\ open' = TRUE
  \/ /\ current # today
     /\ open' = FALSE
     /\ UNCHANGED <<files, current>>

LineOf(kind, text) == [run |-> run, kind |-> kind, text |-> text]
Text(opens, ends) == [opens |-> opens, ends |-> ends]

Log(kind, text) == Written(LineOf(kind, text)) \/ Lost

\* writeStartupLog: an empty line, then the startup line.
LogBlank ==
  /\ state = "starting"
  /\ started' = [started EXCEPT ![run] = now]
  /\ Log("blank", Text(None, FALSE))
  /\ state' = "greeting"
  /\ UNCHANGED <<now, run, info, reader, stopped>>

LogStart ==
  /\ state = "greeting"
  /\ Log("start", Text(started[run], FALSE))
  /\ state' = "up"
  /\ UNCHANGED <<now, run, started, info, reader, stopped>>

LogInfo ==
  /\ state = "up"
  /\ info < MaxInfo
  /\ info' = info + 1
  /\ \E text \in InfoTexts : Log("info", text)
  /\ UNCHANGED <<now, state, run, started, reader, stopped>>

\* The deferred function of run; the HTTP server has been shut down.
Stop ==
  /\ state = "up"
  /\ Log("stop", Text(None, TRUE))
  /\ state' = "stopping"
  /\ reader' = NoReader
  /\ stopped' = stopped \cup {run}
  /\ UNCHANGED <<now, run, started, info>>

\* The process is gone: the writer is closed after the last line, or it
\* crashed at any point.
Exit ==
  /\ state # "down"
  /\ state' = "down"
  /\ open' = FALSE
  /\ current' = None
  /\ reader' = NoReader
  /\ UNCHANGED <<now, files, run, started, info, stopped>>
-----------------------------------------------------------------------------
(***************************************************************************)
(* The reader, a dashboard request to the running server.                  *)
(***************************************************************************)
List ==
  /\ state = "up"
  /\ reader.step # "read"
  /\ reader' = [NoReader EXCEPT !.step = "read",
                                !.todo = {d \in Days : files[d] # None}]
  /\ UNCHANGED <<now, files, current, open, state, run, started, info, stopped>>

Opened(line) ==
  [id |-> line.text.opens, first |-> line, ended |-> FALSE, lines |-> {line}]
Entered(session, line) ==
  [session EXCEPT !.ended = @ \/ line.text.ends, !.lines = @ \cup {line}]

\* Mutant: a startup line does not end the session of a run that crashed.
ScanStale(found, line) ==
  IF line.text.opens # None
  THEN [sessions |-> Append(found.sessions, Opened(line)),
        at |-> IF found.at = 0 THEN Len(found.sessions) + 1 ELSE found.at]
  ELSE IF found.at = 0 THEN found
  ELSE [sessions |-> [found.sessions EXCEPT ![found.at] = Entered(@, line)],
        at |-> IF line.text.ends THEN 0 ELSE found.at]

\* One line of a file, whoever wrote it.  The words of a startup line open a
\* session, lines before any are dropped, and the words of an ordered end
\* close the session.
Scan(found, line) ==
  IF line.text.opens # None
  THEN [sessions |-> Append(found.sessions, Opened(line)),
        at |-> Len(found.sessions) + 1]
  ELSE IF found.at = 0 THEN found
  ELSE [sessions |-> [found.sessions EXCEPT ![found.at] = Entered(@, line)],
        at |-> IF line.text.ends THEN 0 ELSE found.at]

\* All lines, one after the other.
ScanAll(found, lines) ==
  LET out[k \in 0..Len(lines)] ==
        IF k = 0 THEN found ELSE Scan(out[k - 1], lines[k])
  IN out[Len(lines)]

\* The oldest file left is read to its present end, or skipped if it has gone.
ReadFile(d) ==
  /\ reader.step = "read"
  /\ \A e \in reader.todo : d <= e
  /\ LET found == ScanAll([sessions |-> reader.sessions, at |-> reader.at],
                          IF files[d] = None THEN <<>> ELSE files[d])
     IN reader' = [step |-> "read", todo |-> reader.todo \ {d},
                   sessions |-> found.sessions, at |-> found.at]
  /\ UNCHANGED <<now, files, current, open, state, run, started, info, stopped>>

\* A file cannot be opened or read, and the answer is an error.
ReadFails ==
  /\ reader.step = "read"
  /\ reader.todo # {}
  /\ reader' = NoReader
  /\ UNCHANGED <<now, files, current, open, state, run, started, info, stopped>>

Answer ==
  /\ reader.step = "read"
  /\ reader.todo = {}
  /\ reader' = [reader EXCEPT !.step = "done"]
  /\ UNCHANGED <<now, files, current, open, state, run, started, info, stopped>>

Next ==
  \/ Tick
  \/ Start
  \/ StartFails
  \/ LogBlank
  \/ LogStart
  \/ LogInfo
  \/ Stop
  \/ Exit
  \/ List
  \/ \E d \in reader.todo : ReadFile(d)
  \/ ReadFails
  \/ Answer

Spec == Init /\ [][Next]_vars
-----------------------------------------------------------------------------
IsStart(line, r) == line.kind = "start" /\ line.run = r
HasStart(d, r) ==
  /\ files[d] # None
  /\ \E i \in 1..Len(files[d]) : IsStart(files[d][i], r)

\* The startup line of a run is in no file: it could not be written, or its
\* file has been removed.
StartGone(r) == \A d \in Days : ~HasStart(d, r)

\* The session is that of run r, or nothing tells where r began.
ShowsRun(s, r) == s.first.run = r \/ StartGone(r)

\* A session is that of one run, and an end is one, unless an ordinary line
\* has the words that open or end it.
SessionTrue(s) ==
  /\ \/ s.first.kind = "info"
     \/ s.first.kind = "start" /\ s.id = started[s.first.run]
  /\ \A line \in s.lines : line.kind = "blank" \/ ShowsRun(s, line.run)
  /\ s.ended => \/ \E r \in stopped : ShowsRun(s, r)
                \/ \E line \in s.lines : line.kind = "info" /\ line.text.ends

\* What the sessions page shows, while the writer rotates and removes files
\* under the reader, whatever words ordinary lines quote: no session counts lines
\* of two runs unless the startup line of one of them is gone; one that a
\* startup line opened has the id of its run; a run appears as ended that was not only
\* if an ordinary line with the words of an end is in that session, or a
\* startup line is gone; and every run whose startup line is there has a
\* session of its own, opened by that line (reader.go:126-186).
SessionsFaithful ==
  /\ \A i \in 1..Len(reader.sessions) : SessionTrue(reader.sessions[i])
  /\ reader.step = "done" =>
       \A r \in 1..run : ~StartGone(r) =>
         \E i \in 1..Len(reader.sessions) : IsStart(reader.sessions[i].first, r)

\* Rotation never removes a log that is younger than the retention, and never
\* the file the server is writing to.
RetentionKept ==
  [][\A d \in Days : files[d] # None /\ files'[d] = None =>
       d + RetentionDays <= Day(now) /\ (open' => d # current')]_vars
-----------------------------------------------------------------------------
(***************************************************************************)
(* The invariant that SessionsFaithful rests on.                           *)
(***************************************************************************)
\* A line l may stand before a line m: runs follow each other, and before the
\* startup line of a run there is only its empty line.
Ordered(l, m) ==
  \/ l.run < m.run
  \/ l.run = m.run /\ (m.kind = "start" => l.kind = "blank")

Before(d, i, e, j) == d < e \/ (d = e /\ i < j)

\* What a line tells about its run is so.
LineTrue(l) ==
  /\ l.run <= run
  /\ l.kind = "start" => l.text.opens = started[l.run]
  /\ l.kind = "stop" => l.run \in stopped
  /\ l.text.opens # None => l.kind \in {"start", "info"}
  /\ l.text.ends => l.kind \in {"stop", "info"}
  /\ l.run = run => /\ state # "starting"
                    /\ state = "greeting" => l.kind = "blank"

LogShape ==
  /\ now \in 0..MaxTime
  /\ files \in [Days -> Seq(Lines) \cup {None}]
  /\ run \in 0..MaxRuns
  /\ started \in [Runs -> 0..MaxTime]
  /\ current \in Days \cup {None}
  /\ current # None => files[current] # None
  /\ state = "down" => ~open /\ current = None
  /\ state # "down" => run \in Runs

LinesInOrder ==
  /\ \A d \in Days : files[d] # None =>
       d <= today /\ \A i \in 1..Len(files[d]) : LineTrue(files[d][i])
  /\ \A d, e \in Days : files[d] # None /\ files[e] # None =>
       \A i \in 1..Len(files[d]), j \in 1..Len(files[e]) :
         Before(d, i, e, j) => Ordered(files[d][i], files[e][j])

\* The sessions found in what has been read.  The startup lines of the runs
\* old have been read and are still there, the lines rest come later: the run
\* of the current session is the last of the ones and the first of the others.
Found(sessions, at, old, rest) ==
  /\ sessions \in Seq(Sessions) /\ at \in 0..Len(sessions)
  /\ \A i \in 1..Len(sessions) : SessionTrue(sessions[i])
  /\ \A r \in old : \E i \in 1..Len(sessions) : IsStart(sessions[i].first, r)
  /\ at # 0 => \E o \in 1..run : /\ sessions[at].first.run = o
                                 /\ \A r \in old : r <= o
                                 /\ \A l \in rest : o <= l.run

LinesOf(d) == IF files[d] = None THEN {} ELSE {files[d][i] : i \in 1..Len(files[d])}

\* With the files todo left to read: the runs whose startup line is in another
\* file, and the lines to come.
StartsRead(todo) == {r \in Runs : \E d \in Days \ todo : HasStart(d, r)}
LinesLeft(todo) == UNION {LinesOf(d) : d \in todo}

ReaderShape ==
  /\ reader \in [step : {"idle", "read", "done"}, todo : SUBSET Days,
                 sessions : Seq(Sessions), at : Nat]
  /\ reader.step # "idle" => state = "up"
  /\ reader.step = "idle" => reader = NoReader
  /\ reader.step = "done" => reader.todo = {}

ReaderTrue ==
  reader.step # "idle" =>
    /\ \A d \in Days \ reader.todo, r \in Runs : HasStart(d, r) =>
         \A e \in reader.todo : d < e
    /\ Found(reader.sessions, reader.at,
             StartsRead(reader.todo), LinesLeft(reader.todo))

LogInv == LogShape /\ LinesInOrder /\ ReaderShape /\ ReaderTrue
=============================================================================
