-------------------------- MODULE LogSessionsProofs --------------------------
(***************************************************************************)
(* What the sessions page and the retention promise, for every number of   *)
(* runs, days and lines: whatever the writer loses, rotates and removes    *)
(* while the reader goes through the files, and whatever words ordinary    *)
(* lines quote, no session counts a line of another run than the one that  *)
(* opened it unless the startup line that told so is gone.                 *)
(***************************************************************************)
EXTENDS LogSessions, NaturalsInduction, WellFoundedInduction, TLAPS

(***************************************************************************)
(* Loops over an index.  The library's induction needs an operator         *)
(* parameter; a least counterexample does not.                             *)
(***************************************************************************)

\* A set of naturals that is not empty has a least element.
LEMMA LeastIndex ==
  ASSUME NEW T \in SUBSET Nat, T # {}
  PROVE  \E x \in T : \A y \in T : x <= y
<1> DEFINE R == OpToRel(<, Nat)
<1>1. IsWellFoundedOn(R, Nat)
  BY NatLessThanWellFounded
<1>2. \A x, y \in Nat : <<y, x>> \in R <=> y < x
  BY DEF OpToRel
<1> HIDE DEF R
<1>3. PICK x \in T : \A y \in T : ~(<<y, x>> \in R)
  BY <1>1, WFMin
<1>4. \A y \in T : x \in Nat /\ y \in Nat /\ ~(y < x)
  BY <1>2, <1>3
<1> QED BY <1>4

\* f holds what a loop has computed after each of N rounds: g[k] is round k.
Loop(f, a, g, N) == f = [k \in 0..N |-> IF k = 0 THEN a ELSE g[k][f[k - 1]]]

\* The loop can be run: extend the run that is a round shorter.
LEMMA LoopExists ==
  ASSUME NEW N \in Nat, NEW X, NEW a \in X, NEW g \in [1..N -> [X -> X]]
  PROVE  \E f \in [0..N -> X] : Loop(f, a, g, N)
<1> DEFINE Rounds(m) == {f \in [0..m -> X] : Loop(f, a, g, m)}
           Bad == {m \in 0..N : Rounds(m) = {}}
<1>1. SUFFICES ASSUME Bad # {} PROVE FALSE
  <2>1. N \in 0..N
    OBVIOUS
  <2> QED BY <2>1
<1>2. PICK m \in Bad : \A k \in Bad : m <= k
  <2>1. Bad \in SUBSET Nat
    OBVIOUS
  <2> HIDE DEF Bad
  <2> QED BY <1>1, <2>1, LeastIndex
<1>3. Rounds(m) = {}
  OBVIOUS
<1>4. CASE m = 0
  <2> DEFINE z == [k \in 0..0 |-> a]
  <2>1. z \in [0..0 -> X] /\ Loop(z, a, g, 0)
    BY DEF Loop
  <2> HIDE DEF z
  <2>2. z \in Rounds(0)
    BY <2>1
  <2> HIDE DEF Rounds
  <2> QED BY <1>3, <1>4, <2>2
<1>5. CASE m # 0
  <2>1. m \in 1..N /\ m - 1 \in 0..N /\ m - 1 \notin Bad
    <3>1. m \in 1..N /\ m - 1 \in 0..N
      BY <1>5
    <3> HIDE DEF Bad
    <3> QED BY <1>2, <3>1
  <2>2. PICK f \in Rounds(m - 1) : TRUE
    BY <2>1
  <2> DEFINE e == [k \in 0..m |-> IF k = m THEN g[m][f[m - 1]] ELSE f[k]]
  <2>3. f \in [0..(m - 1) -> X] /\ f[m - 1] \in X /\ g[m][f[m - 1]] \in X
    <3>1. f \in [0..(m - 1) -> X] /\ m - 1 \in 0..(m - 1)
      BY <2>1, <2>2
    <3>2. f[m - 1] \in X /\ g[m] \in [X -> X]
      BY <2>1, <3>1
    <3> QED BY <3>1, <3>2
  <2>4. e \in [0..m -> X]
    BY <2>1, <2>3
  <2>5. ASSUME NEW k \in 0..m
        PROVE  e[k] = IF k = 0 THEN a ELSE g[k][e[k - 1]]
    <3>1. CASE k = m
      BY <2>1, <3>1
    <3>2. CASE k # m
      <4>1. k \in 0..(m - 1) /\ e[k] = f[k]
        BY <2>1, <3>2
      <4>2. f[k] = IF k = 0 THEN a ELSE g[k][f[k - 1]]
        BY <2>2, <4>1 DEF Loop
      <4> QED BY <2>1, <4>1, <4>2
    <3> QED BY <3>1, <3>2
  <2>6. Loop(e, a, g, m)
    <3> HIDE DEF e
    <3> QED BY <2>4, <2>5 DEF Loop
  <2> HIDE DEF e
  <2>7. e \in Rounds(m)
    BY <2>4, <2>6
  <2> HIDE DEF Rounds
  <2> QED BY <1>3, <2>7
<1> QED BY <1>4, <1>5

(***************************************************************************)
(* Days and files.                                                         *)
(***************************************************************************)

\* A later second is not on an earlier day.
LEMMA DayMonotone ==
  ASSUME NEW s \in Nat, NEW t \in Nat, s <= t
  PROVE  Day(s) \in Nat /\ Day(t) \in Nat /\ Day(s) <= Day(t)
<1> DEFINE N == DayLength
           p == s \div N
           q == t \div N
<1>1. N \in Nat /\ N >= 1
  BY LogAssumption
<1>2. p \in Int /\ N * p <= s /\ s < N * p + N
  BY <1>1
<1>3. q \in Int /\ N * q <= t /\ t < N * q + N
  BY <1>1
<1> HIDE DEF p, q, N
<1>4. p \in Nat /\ q \in Nat
  BY <1>1, <1>2, <1>3
<1>5. p <= q
  BY <1>1, <1>2, <1>3
<1>6. Day(s) = p /\ Day(t) = q
  BY DEF Day, p, q, N
<1> QED BY <1>4, <1>5, <1>6

\* Today is a day of the log.
LEMMA TodayIsDay ==
  ASSUME LogShape
  PROVE  today \in Days
<1>1. now \in Nat /\ MaxTime \in Nat /\ now <= MaxTime
  BY LogAssumption DEF LogShape
<1> QED BY <1>1, DayMonotone DEF today, Days

\* A rotation keeps what it does not remove and creates no file but today's.
LEMMA RotatedShape ==
  ASSUME LogShape, NEW gone \in SUBSET Expired
  PROVE  /\ Rotated(gone) \in [Days -> Seq(Lines) \cup {None}]
         /\ today \notin gone
         /\ Rotated(gone)[today] # None
         /\ \A d \in Days : Rotated(gone)[d] # None =>
              \/ Rotated(gone)[d] = files[d]
              \/ d = today /\ files[d] = None /\ Rotated(gone)[d] = <<>>
<1>1. today \in Days /\ <<>> \in Seq(Lines) /\ None \notin Seq(Lines)
  BY TodayIsDay, LogAssumption
<1>2. today \notin gone
  <2>1. today \in Nat /\ RetentionDays \in Nat
    BY <1>1, LogAssumption, DayMonotone DEF Days, LogShape, today
  <2> QED BY <2>1 DEF Expired, cutoff
<1> QED BY <1>1, <1>2 DEF Rotated, LogShape

\* The files after a step: what is left of them, and line behind today's if
\* the step has written one.
Extended(line) ==
  /\ files' \in [Days -> Seq(Lines) \cup {None}]
  /\ \A d \in Days : files'[d] # None =>
       /\ files[d] # None \/ d = today
       /\ \A i \in 1..Len(files'[d]) :
            \/ files[d] # None /\ i \in 1..Len(files[d]) /\ files'[d][i] = files[d][i]
            \/ d = today /\ i = Len(files'[d]) /\ files'[d][i] = line

\* A rotation alone writes nothing.
LEMMA RotationExtends ==
  ASSUME LogShape, NEW gone \in SUBSET Expired, files' = Rotated(gone), NEW line
  PROVE  Extended(line)
<1>1. ASSUME NEW d \in Days, files'[d] # None
      PROVE  /\ files[d] # None \/ d = today
             /\ \A i \in 1..Len(files'[d]) :
                  /\ files[d] # None /\ i \in 1..Len(files[d])
                  /\ files'[d][i] = files[d][i]
  <2>1. CASE files'[d] = files[d]
    BY <1>1, <2>1
  <2>2. CASE d = today /\ files'[d] = <<>>
    BY <2>2
  <2> QED BY <1>1, <2>1, <2>2, RotatedShape
<1> QED BY <1>1, RotatedShape DEF Extended

\* Write appends its line to the file of today, or loses it.
LEMMA LogExtends ==
  ASSUME LogShape, run \in Runs, NEW kind \in Kinds, NEW text \in Texts,
         Log(kind, text)
  PROVE  Extended(LineOf(kind, text))
<1>0. PICK line \in Lines : line = LineOf(kind, text)
  BY DEF Lines, LineOf
<1> SUFFICES Extended(line)
  BY <1>0
<1>1. today \in Days /\ None \notin Seq(Lines)
  BY TodayIsDay, LogAssumption
<1>2. ASSUME NEW g \in [Days -> Seq(Lines) \cup {None}],
             g[today] # None,
             \A d \in Days : g[d] # None =>
               g[d] = files[d] \/ (d = today /\ files[d] = None /\ g[d] = <<>>),
             files' = [g EXCEPT ![today] = Append(@, line)]
      PROVE  Extended(line)
  <2>1. PICK s \in Seq(Lines) : s = g[today]
    BY <1>1, <1>2
  <2>2. /\ Append(s, line) \in Seq(Lines) /\ Len(Append(s, line)) = Len(s) + 1
        /\ Append(s, line)[Len(s) + 1] = line
        /\ \A i \in 1..Len(s) : Append(s, line)[i] = s[i]
        /\ Len(s) \in Nat
    BY <1>1
  <2>3. files' \in [Days -> Seq(Lines) \cup {None}] /\ files'[today] = Append(s, line)
    BY <1>1, <1>2, <2>1, <2>2
  <2>4. ASSUME NEW d \in Days, files'[d] # None, d # today
        PROVE  files'[d] = files[d]
    BY <1>2, <2>4
  <2>5. ASSUME NEW i \in 1..Len(Append(s, line))
        PROVE  \/ files[today] # None /\ i \in 1..Len(files[today])
                    /\ Append(s, line)[i] = files[today][i]
               \/ i = Len(Append(s, line)) /\ Append(s, line)[i] = line
    <3>1. CASE i = Len(s) + 1
      BY <2>2, <3>1
    <3>2. CASE i # Len(s) + 1
      <4>1. i \in 1..Len(s)
        BY <2>2, <3>2
      <4>2. s = files[today]
        BY <1>1, <1>2, <2>1, <4>1
      <4> QED BY <1>2, <2>1, <2>2, <4>1, <4>2
    <3> QED BY <3>1, <3>2
  <2> QED BY <2>3, <2>4, <2>5 DEF Extended
<1>3. ASSUME UNCHANGED files PROVE Extended(line)
  BY <1>3 DEF Extended, LogShape
<1>4. CASE Written(line)
  <2>1. CASE current = today
    <3>1. files[today] # None /\ files' = [files EXCEPT ![today] = Append(@, line)]
      BY <1>1, <1>4, <2>1, LogAssumption DEF Written, LogShape
    <3> QED BY <1>2, <3>1 DEF LogShape
  <2>2. CASE current # today
    <3>1. files' = [Rotated(Expired) EXCEPT ![today] = Append(@, line)]
      BY <1>4, <2>2 DEF Written
    <3> QED BY <1>2, <3>1, RotatedShape
  <2> QED BY <2>1, <2>2
<1>5. CASE Lost
  <2>1. ASSUME NEW kept \in LeftBehind, files' = Rotated(Expired \ kept)
        PROVE  Extended(line)
    BY <2>1, RotationExtends
  <2> QED BY <1>3, <1>5, <2>1 DEF Lost
<1> QED BY <1>0, <1>4, <1>5 DEF Log


\* Lines stay in the order of their runs: what a step writes comes last.
LEMMA OrderKept ==
  ASSUME LogShape, LinesInOrder, NEW line, Extended(line),
         today' \in Nat, today <= today',
         \A l \in Lines : LineTrue(l) => LineTrue(l)',
         line \in Lines => /\ LineTrue(line)' /\ run <= line.run
                           /\ line.kind = "start" /\ line.run = run => state = "greeting"
  PROVE  LinesInOrder'
<1> DEFINE Old(d, i) == /\ files[d] # None /\ i \in 1..Len(files[d])
                        /\ files'[d][i] = files[d][i]
           New(d, i) == d = today /\ i = Len(files'[d]) /\ files'[d][i] = line
<1>1. ASSUME NEW d \in Days, files'[d] # None
      PROVE  /\ files'[d] \in Seq(Lines)
             /\ d <= today
             /\ \A i \in 1..Len(files'[d]) : Old(d, i) \/ New(d, i)
  <2>1. files'[d] \in Seq(Lines) /\ \A i \in 1..Len(files'[d]) : Old(d, i) \/ New(d, i)
    BY <1>1 DEF Extended
  <2>2. d <= today
    <3>1. today \in Days /\ today \in Nat /\ d \in Nat
      BY TodayIsDay DEF Days
    <3> QED BY <1>1, <3>1 DEF Extended, LinesInOrder
  <2> QED BY <2>1, <2>2
<1>2. \A d \in Days : files[d] # None => files[d] \in Seq(Lines)
  BY DEF LogShape
<1>3. \A l \in Lines : l.run \in Nat
  BY LogAssumption DEF Lines, Runs
<1>4. run \in Nat /\ today \in Nat
  BY LogAssumption, TodayIsDay DEF LogShape, Days
<1> HIDE DEF Old, New
<1>5. ASSUME NEW d \in Days, files'[d] # None PROVE d <= today'
  BY <1>1, <1>4, <1>5 DEF Days
<1>7. ASSUME NEW d \in Days, files'[d] # None, NEW i \in 1..Len(files'[d]),
             NEW l \in Lines, l = files'[d][i]
      PROVE  LineTrue(l)'
  <2>1. CASE Old(d, i)
    <3>1. LineTrue(files[d][i])
      BY <2>1 DEF LinesInOrder, Old
    <3>2. LineTrue(l)
      BY <1>7, <2>1, <3>1 DEF Old
    <3> QED BY <3>2
  <2>2. CASE New(d, i)
    <3>1. l = line
      BY <1>7, <2>2 DEF New
    <3> QED BY <3>1
  <2> QED BY <1>1, <1>7, <2>1, <2>2
<1>8. ASSUME NEW d \in Days, files'[d] # None, NEW i \in 1..Len(files'[d])
      PROVE  /\ files'[d][i].run <= run'
             /\ files'[d][i].kind = "start" =>
                  files'[d][i].text.opens = started'[files'[d][i].run]
             /\ files'[d][i].kind = "stop" => files'[d][i].run \in stopped'
             /\ files'[d][i].text.opens # None => files'[d][i].kind \in {"start", "info"}
             /\ files'[d][i].text.ends => files'[d][i].kind \in {"stop", "info"}
             /\ files'[d][i].run = run' =>
                  /\ state' # "starting"
                  /\ state' = "greeting" => files'[d][i].kind = "blank"
  <2>1. PICK l \in Lines : l = files'[d][i]
    BY <1>1, <1>8
  <2>2. LineTrue(l)'
    BY <1>7, <1>8, <2>1
  <2> QED BY <2>1, <2>2 DEF LineTrue
<1>6. ASSUME NEW d \in Days, NEW e \in Days, files'[d] # None, files'[e] # None,
             NEW i \in 1..Len(files'[d]), NEW j \in 1..Len(files'[e]), Before(d, i, e, j)
      PROVE  Ordered(files'[d][i], files'[e][j])
  <2>1. PICK l \in Lines, m \in Lines : l = files'[d][i] /\ m = files'[e][j]
    BY <1>1, <1>6
  <2>2. CASE Old(d, i) /\ Old(e, j)
    <3>1. Ordered(files[d][i], files[e][j])
      BY <1>6, <2>2 DEF LinesInOrder, Old
    <3> QED BY <2>2, <3>1 DEF Old
  <2>3. CASE Old(d, i) /\ New(e, j)
    <3>1. LineTrue(files[d][i]) /\ l = files[d][i] /\ m = line
      BY <2>1, <2>3 DEF LinesInOrder, Old, New
    <3>2. LineTrue(l) /\ run <= m.run /\ (m.kind = "start" /\ m.run = run => state = "greeting")
      BY <3>1
    <3>3. l.run \in Nat /\ m.run \in Nat
      BY <1>3
    <3>4. l.run <= run
      BY <3>2 DEF LineTrue
    <3>5. CASE l.run < m.run
      BY <2>1, <3>5 DEF Ordered
    <3>6. CASE l.run = m.run
      <4>1. l.run = run /\ m.run = run
        BY <1>4, <3>2, <3>3, <3>4, <3>6
      <4>2. m.kind = "start" => l.kind = "blank"
        BY <3>2, <4>1 DEF LineTrue
      <4> QED BY <2>1, <3>6, <4>2 DEF Ordered
    <3> QED BY <1>4, <3>2, <3>3, <3>4, <3>5, <3>6
  <2>4. CASE New(d, i)
    <3>1. d \in Nat /\ e \in Nat /\ e <= today /\ d = today /\ i = Len(files'[d])
      BY <1>1, <1>6, <2>4 DEF Days, New
    <3>2. d = e /\ i < j
      BY <1>4, <1>6, <3>1 DEF Before
    <3>3. Len(files'[d]) \in Nat
      BY <1>1, <1>6
    <3> QED BY <3>1, <3>2, <3>3
  <2> QED BY <1>1, <1>6, <2>2, <2>3, <2>4
<1> QED BY <1>5, <1>6, <1>8 DEF LinesInOrder, LineTrue, Before, Ordered

\* Sessions stay true while startup lines only disappear.
LEMMA FoundKept ==
  ASSUME NEW ss, NEW a, NEW old, NEW rest, NEW old2 \in SUBSET old, NEW rest2,
         Found(ss, a, old, rest), UNCHANGED <<run, started, stopped>>,
         \A r : StartGone(r) => StartGone(r)',
         \A l \in rest2 : l \in rest \/ l.run = run, run \in Nat
  PROVE  Found(ss, a, old2, rest2)'
<1>1. ASSUME NEW i \in 1..Len(ss) PROVE SessionTrue(ss[i])'
  <2>1. PICK s : s = ss[i]
    OBVIOUS
  <2>2. SessionTrue(s)
    BY <2>1 DEF Found
  <2>3. SessionTrue(s)'
    BY <2>2 DEF SessionTrue, ShowsRun
  <2> QED BY <2>1, <2>3
<1>2. ASSUME a # 0
      PROVE  \E o \in 1..run : /\ ss[a].first.run = o
                               /\ \A r \in old2 : r <= o
                               /\ \A l \in rest2 : o <= l.run
  <2>1. PICK o \in 1..run : /\ ss[a].first.run = o
                            /\ \A r \in old : r <= o
                            /\ \A l \in rest : o <= l.run
    BY <1>2 DEF Found
  <2>2. \A l \in rest2 : o <= l.run
    BY <2>1
  <2> QED BY <2>1, <2>2
<1>3. /\ ss \in Seq(Sessions) /\ a \in 0..Len(ss)
      /\ \A r \in old : \E i \in 1..Len(ss) : IsStart(ss[i].first, r)
  BY DEF Found
<1> QED BY <1>1, <1>2, <1>3 DEF Found

\* A running server writes no startup line.
LEMMA StartsDisappear ==
  ASSUME LogShape, NEW line, Extended(line), line.kind = "info"
  PROVE  /\ \A d \in Days : \A r : HasStart(d, r)' => HasStart(d, r)
         /\ \A r : StartGone(r) => StartGone(r)'
<1>1. ASSUME NEW d \in Days, NEW r, HasStart(d, r)' PROVE HasStart(d, r)
  <2>1. files'[d] # None /\ \E i \in 1..Len(files'[d]) : IsStart(files'[d][i], r)
    BY <1>1 DEF HasStart, IsStart
  <2>2. PICK i \in 1..Len(files'[d]) : IsStart(files'[d][i], r)
    BY <2>1
  <2>3. files'[d][i] # line
    BY <2>2 DEF IsStart
  <2>4. files[d] # None /\ i \in 1..Len(files[d]) /\ files'[d][i] = files[d][i]
    BY <2>1, <2>3 DEF Extended
  <2> QED BY <2>2, <2>4 DEF HasStart
<1> QED BY <1>1 DEF StartGone


(***************************************************************************)
(* The writer's steps.                                                     *)
(***************************************************************************)

\* A line that no run can have written stands for no line.
NoLine == [run |-> 0, kind |-> "blank", text |-> Text(None, FALSE)]

\* It is in no file.
LEMMA NoLineWritten == NoLine \notin Lines
BY DEF NoLine, Lines, Runs

\* The steps that change files: a start, or a line of the current run.
LEMMA WritersExtend ==
  ASSUME LogShape
  PROVE  /\ Start \/ StartFails => Extended(NoLine)
         /\ LogBlank => Extended(LineOf("blank", Text(None, FALSE)))
         /\ LogStart => Extended(LineOf("start", Text(started[run], FALSE)))
         /\ LogInfo => \E text \in Texts : Extended(LineOf("info", text))
         /\ Stop => Extended(LineOf("stop", Text(None, TRUE)))
<1>1. ASSUME Start \/ StartFails PROVE Extended(NoLine)
  <2>1. PICK gone \in SUBSET Expired : files' = Rotated(gone)
    BY <1>1 DEF Start, StartFails
  <2> QED BY <2>1, RotationExtends
<1>2. state # "down" => run \in Runs
  BY DEF LogShape
<1>3. {"blank", "start", "info", "stop"} \subseteq Kinds /\ InfoTexts \subseteq Texts
  BY LogAssumption DEF Kinds
<1>4. /\ Text(None, FALSE) \in Texts /\ Text(None, TRUE) \in Texts
      /\ run \in Runs => Text(started[run], FALSE) \in Texts
  BY DEF Text, Texts, Times, LogShape
<1>5. ASSUME LogBlank PROVE Extended(LineOf("blank", Text(None, FALSE)))
  BY <1>2, <1>3, <1>4, <1>5, LogExtends DEF LogBlank
<1>6. ASSUME LogStart PROVE Extended(LineOf("start", Text(started[run], FALSE)))
  BY <1>2, <1>3, <1>4, <1>6, LogExtends DEF LogStart
<1>7. ASSUME LogInfo PROVE \E text \in Texts : Extended(LineOf("info", text))
  <2>1. PICK text \in InfoTexts : Log("info", text)
    BY <1>7 DEF LogInfo
  <2> QED BY <1>2, <1>3, <1>7, <2>1, LogExtends DEF LogInfo
<1>8. ASSUME Stop PROVE Extended(LineOf("stop", Text(None, TRUE)))
  BY <1>2, <1>3, <1>4, <1>8, LogExtends DEF Stop
<1> QED BY <1>1, <1>5, <1>6, <1>7, <1>8

\* The writer keeps its file of the current day.
LEMMA CurrentKept ==
  ASSUME LogShape
  PROVE  /\ Start => current' \in Days /\ files'[current'] # None
         /\ StartFails => files' \in [Days -> Seq(Lines) \cup {None}]
         /\ \A kind \in Kinds, text \in Texts :
              Log(kind, text) /\ run \in Runs =>
                /\ current' \in Days \cup {None}
                /\ current' # None => files'[current'] # None
<1>1. today \in Days /\ None \notin Seq(Lines) /\ None \notin Days
  BY TodayIsDay, LogAssumption
<1>2. \A gone \in SUBSET Expired : Rotated(gone)[today] # None
  BY RotatedShape
<1>3. \A gone \in SUBSET Expired : Rotated(gone) \in [Days -> Seq(Lines) \cup {None}]
  BY RotatedShape
<1>4. ASSUME NEW kind \in Kinds, NEW text \in Texts, Log(kind, text), run \in Runs
      PROVE  /\ current' \in Days \cup {None}
             /\ current' # None => files'[current'] # None
  <2>1. PICK line \in Lines : line = LineOf(kind, text)
    BY <1>4 DEF Lines, LineOf
  <2>2. CASE Lost
    BY <1>1, <1>2, <2>2 DEF Lost, LogShape
  <2>3. CASE Written(line) /\ current = today
    <3>1. /\ files[today] \in Seq(Lines) /\ UNCHANGED current
          /\ files' = [files EXCEPT ![today] = Append(@, line)]
      BY <1>1, <2>3 DEF Written, LogShape
    <3>2. Append(files[today], line) \in Seq(Lines)
      BY <2>1, <3>1
    <3> QED BY <1>1, <2>3, <3>1, <3>2 DEF LogShape
  <2>4. CASE Written(line) /\ current # today
    <3>1. PICK g : g = Rotated(Expired)
      OBVIOUS
    <3>2. /\ g \in [Days -> Seq(Lines) \cup {None}] /\ g[today] \in Seq(Lines)
          /\ files' = [g EXCEPT ![today] = Append(@, line)] /\ current' = today
      BY <1>1, <1>2, <1>3, <2>4, <3>1 DEF Written
    <3>3. Append(g[today], line) \in Seq(Lines)
      BY <2>1, <3>2
    <3> QED BY <1>1, <3>2, <3>3
  <2> QED BY <1>4, <2>1, <2>2, <2>3, <2>4 DEF Log
<1> QED BY <1>1, <1>2, <1>3, <1>4 DEF Start, StartFails, LeftBehind

\* What each of these steps logs.
LEMMA WritersLog ==
  ASSUME LogShape, LogBlank \/ LogStart \/ LogInfo \/ Stop
  PROVE  \E kind \in Kinds, text \in Texts : Log(kind, text)
<1>1. {"blank", "start", "info", "stop"} \subseteq Kinds /\ InfoTexts \subseteq Texts
  BY LogAssumption DEF Kinds
<1>2. /\ Text(None, FALSE) \in Texts /\ Text(None, TRUE) \in Texts
      /\ run \in Runs => Text(started[run], FALSE) \in Texts
  BY DEF Text, Texts, Times, LogShape
<1>3. CASE LogBlank
  BY <1>1, <1>2, <1>3 DEF LogBlank
<1>4. CASE LogStart
  <2>1. run \in Runs
    BY <1>4 DEF LogStart, LogShape
  <2> QED BY <1>1, <1>2, <1>4, <2>1 DEF LogStart
<1>5. CASE LogInfo
  BY <1>1, <1>5 DEF LogInfo
<1>6. CASE Stop
  BY <1>1, <1>2, <1>6 DEF Stop
<1> QED BY <1>3, <1>4, <1>5, <1>6

\* Every step keeps the shape of the writer's variables.
LEMMA ShapeKept ==
  ASSUME LogShape, [Next]_vars
  PROVE  LogShape'
<1> USE DEF LogShape
<1>0. MaxRuns \in Nat /\ MaxTime \in Nat
  BY LogAssumption
<1>1. CASE Tick
  BY <1>0, <1>1 DEF Tick
<1>2. CASE Start
  <2>1. files' \in [Days -> Seq(Lines) \cup {None}]
    BY <1>2, WritersExtend DEF Extended
  <2>2. run' \in Runs /\ run' \in 0..MaxRuns
    BY <1>0, <1>2 DEF Start, Runs
  <2> QED BY <1>2, <2>1, <2>2, CurrentKept DEF Start
<1>3. CASE StartFails
  BY <1>3, CurrentKept DEF StartFails
<1>4. CASE LogBlank \/ LogStart \/ LogInfo \/ Stop
  <2>1. files' \in [Days -> Seq(Lines) \cup {None}]
    BY <1>4, WritersExtend DEF Extended
  <2>2. run \in Runs /\ state # "down"
    BY <1>4 DEF LogBlank, LogStart, LogInfo, Stop
  <2>3. current' \in Days \cup {None} /\ (current' # None => files'[current'] # None)
    BY <1>4, <2>2, CurrentKept, WritersLog
  <2>4. started' \in [Runs -> 0..MaxTime]
    BY <1>4, <2>2 DEF LogBlank, LogStart, LogInfo, Stop
  <2>5. now' = now /\ run' = run /\ state' # "down"
    BY <1>4 DEF LogBlank, LogStart, LogInfo, Stop
  <2> QED BY <2>1, <2>2, <2>3, <2>4, <2>5
<1>5. CASE Exit
  BY <1>5 DEF Exit
<1>6. CASE UNCHANGED <<now, files, current, open, state, run, started>>
  BY <1>6
<1> QED BY <1>1, <1>2, <1>3, <1>4, <1>5, <1>6
        DEF Next, List, ReadFile, ReadFails, Answer, vars

\* Every step keeps the lines in order.
LEMMA LinesKept ==
  ASSUME LogShape, LinesInOrder, [Next]_vars
  PROVE  LinesInOrder'
<1>1. /\ run \in Nat /\ now \in Nat /\ today \in Nat
      /\ \A l \in Lines : l.run \in Nat
  <2>1. run \in Nat /\ now \in Nat
    BY LogAssumption DEF LogShape
  <2>2. today \in Nat
    BY TodayIsDay DEF Days
  <2>3. \A l \in Lines : l.run \in Nat
    BY LogAssumption DEF Lines, Runs
  <2> QED BY <2>1, <2>2, <2>3
<1>2. CASE Tick
  <2>1. today <= today'
    BY <1>1, <1>2, DayMonotone DEF Tick, today
  <2>2. \A d \in Days : d <= today => d <= today'
    <3>1. today' \in Nat
      BY <1>1, <1>2, DayMonotone DEF Tick, today
    <3> QED BY <1>1, <2>1, <3>1 DEF Days
  <2> QED BY <1>2, <2>2 DEF Tick, LinesInOrder, LineTrue
<1>3. CASE Start \/ StartFails
  <2>1. Extended(NoLine) /\ today' = today
    BY <1>3, WritersExtend DEF Start, StartFails, today
  <2>2. \A l \in Lines : LineTrue(l) => LineTrue(l)'
    BY <1>1, <1>3 DEF Start, StartFails, LineTrue
  <2> QED BY <1>1, <2>1, <2>2, NoLineWritten, OrderKept
<1>4. CASE LogBlank \/ LogStart \/ LogInfo \/ Stop
  <2>1. PICK kind, text :
          /\ Extended(LineOf(kind, text))
          /\ kind = "start" => state = "greeting" /\ text.opens = started'[run]
          /\ kind = "stop" => run \in stopped'
          /\ text.opens # None => kind \in {"start", "info"}
          /\ text.ends => kind \in {"stop", "info"}
          /\ state' # "starting" /\ (state' = "greeting" => kind = "blank")
    <3>1. \A opens, ends : Text(opens, ends).opens = opens /\ Text(opens, ends).ends = ends
      BY DEF Text
    <3>2. CASE LogBlank
      BY <3>1, <3>2, WritersExtend DEF LogBlank
    <3>3. CASE LogStart
      <4>1. Extended(LineOf("start", Text(started[run], FALSE)))
        BY <3>3, WritersExtend
      <4>2. PICK text : text = Text(started[run], FALSE)
        OBVIOUS
      <4>3. text.opens = started[run] /\ ~text.ends
        BY <3>1, <4>2
      <4>4. PICK kind : kind = "start"
        OBVIOUS
      <4>5. /\ Extended(LineOf(kind, text)) /\ state = "greeting"
            /\ text.opens = started'[run] /\ state' = "up"
        BY <3>3, <4>1, <4>2, <4>3, <4>4 DEF LogStart
      <4>6. kind # "stop" /\ kind \in {"start", "info"}
        BY <4>4
      <4> QED BY <4>3, <4>5, <4>6
    <3>4. CASE LogInfo
      <4>1. PICK text \in Texts : Extended(LineOf("info", text))
        BY <3>4, WritersExtend
      <4> QED BY <3>4, <4>1 DEF LogInfo
    <3>5. CASE Stop
      BY <3>1, <3>5, WritersExtend DEF Stop
    <3> QED BY <1>4, <3>2, <3>3, <3>4, <3>5
  <2>2. today' = today /\ run' = run /\ stopped \subseteq stopped'
    BY <1>4 DEF LogBlank, LogStart, LogInfo, Stop, today
  <2>3. ASSUME NEW l \in Lines, LineTrue(l) PROVE LineTrue(l)'
    <3>1. started'[l.run] = started[l.run]
      <4>1. CASE LogBlank
        <5>1. l.run # run /\ l.run \in Runs
          BY <2>3, <4>1 DEF LogBlank, LineTrue, Lines
        <5> QED BY <4>1, <5>1 DEF LogBlank, LogShape
      <4>2. CASE LogStart \/ LogInfo \/ Stop
        BY <4>2 DEF LogStart, LogInfo, Stop
      <4> QED BY <1>4, <4>1, <4>2
    <3>2. /\ run' = run /\ stopped \subseteq stopped'
          /\ state' # "starting"
          /\ state' = "greeting" => state = "starting"
      BY <1>4 DEF LogBlank, LogStart, LogInfo, Stop
    <3> QED BY <2>3, <3>1, <3>2 DEF LineTrue
  <2>4. PICK line : line = LineOf(kind, text)
    OBVIOUS
  <2>7. line.run = run /\ line.kind = kind /\ line.text = text
    BY <2>4 DEF LineOf
  <2>5. LineTrue(line)'
    BY <1>1, <2>1, <2>2, <2>7 DEF LineTrue
  <2>6. run <= line.run /\ (line.kind = "start" => state = "greeting")
    BY <1>1, <2>1, <2>7
  <2> QED BY <1>1, <2>1, <2>2, <2>3, <2>4, <2>5, <2>6, OrderKept
<1>5. CASE Exit
  BY <1>5 DEF Exit, LinesInOrder, LineTrue, today
<1>6. CASE UNCHANGED <<now, files, current, open, state, run, started, stopped>>
  BY <1>6 DEF LinesInOrder, LineTrue, today
<1> QED BY <1>2, <1>3, <1>4, <1>5, <1>6
        DEF Next, List, ReadFile, ReadFails, Answer, vars

\* Rotation never removes a log that is younger than the retention, and never
\* the file the server is writing to: cleanupLocked runs on the day the new
\* file was opened for (logfile.go:61-99).
THEOREM RetentionIsKept == Spec => RetentionKept
<1>1. Init => LogShape
  <2>1. 0 \in 0..MaxRuns /\ 0 \in 0..MaxTime
    BY LogAssumption
  <2> QED BY <2>1 DEF Init, LogShape
<1>2. LogShape /\ [Next]_vars => LogShape'
  BY ShapeKept
<1>3. LogShape /\ [Next]_vars =>
        [\A d \in Days : files[d] # None /\ files'[d] = None =>
           d + RetentionDays <= Day(now) /\ (open' => d # current')]_vars
  <2>1. SUFFICES ASSUME LogShape, Next, NEW d \in Days, files[d] # None, files'[d] = None
                 PROVE  d + RetentionDays <= Day(now) /\ (open' => d # current')
    BY DEF vars
  <2>2. /\ d \in Nat /\ today \in Nat /\ today \in Days /\ RetentionDays \in Nat
        /\ today = Day(now) /\ None \notin Seq(Lines)
    BY <2>1, TodayIsDay, LogAssumption DEF Days, today
  <2>3. ASSUME d \in Expired
        PROVE  d + RetentionDays <= today /\ d # today
    BY <2>2, <2>3 DEF Expired, cutoff
  <2>4. ASSUME NEW gone \in SUBSET Expired, Rotated(gone)[d] = None
        PROVE  d \in Expired
    <3>1. CASE d \in gone
      BY <3>1
    <3>2. CASE d \notin gone
      BY <2>1, <2>4, <3>2 DEF Rotated
    <3> QED BY <3>1, <3>2
  <2>5. CASE Start
    BY <2>1, <2>2, <2>3, <2>4, <2>5 DEF Start
  <2>6. CASE StartFails
    <3>1. d \in Expired /\ ~open'
      BY <2>1, <2>4, <2>6 DEF StartFails, LogShape
    <3> QED BY <2>2, <2>3, <3>1
  <2>7. ASSUME NEW kind \in Kinds, NEW text \in Texts, Log(kind, text), run \in Runs
        PROVE  d \in Expired /\ current' = today
    <3>1. PICK line \in Lines : line = LineOf(kind, text)
      BY <2>7 DEF Lines, LineOf
    <3>2. CASE Lost
      BY <2>1, <2>4, <3>2 DEF Lost
    <3>3. CASE Written(line) /\ current = today
      <4>1. files[d] \in Seq(Lines) /\ files' = [files EXCEPT ![today] = Append(@, line)]
        BY <2>1, <3>3 DEF Written, LogShape
      <4>2. Append(files[d], line) \in Seq(Lines)
        BY <3>1, <4>1
      <4>3. files'[d] # None
        BY <2>1, <2>2, <4>1, <4>2 DEF LogShape
      <4> QED BY <2>1, <4>3
    <3>4. CASE Written(line) /\ current # today
      <4>1. PICK g : g = Rotated(Expired)
        OBVIOUS
      <4>2. /\ g \in [Days -> Seq(Lines) \cup {None}] /\ g[today] \in Seq(Lines)
            /\ files' = [g EXCEPT ![today] = Append(@, line)] /\ current' = today
        BY <2>1, <2>2, <3>4, <4>1, RotatedShape DEF Written
      <4>3. Append(g[today], line) \in Seq(Lines)
        BY <3>1, <4>2
      <4>4. g[d] = None
        BY <2>1, <2>2, <4>2, <4>3
      <4> QED BY <2>4, <4>1, <4>2, <4>4
    <3> QED BY <2>7, <3>1, <3>2, <3>3, <3>4 DEF Log
  <2>8. CASE LogBlank \/ LogStart \/ LogInfo \/ Stop
    <3>1. d \in Expired /\ current' = today
      <4>1. run \in Runs
        BY <2>1, <2>8 DEF LogBlank, LogStart, LogInfo, Stop, LogShape
      <4> QED BY <2>1, <2>7, <2>8, <4>1, WritersLog
    <3> QED BY <2>2, <2>3, <3>1
  <2>9. CASE UNCHANGED files
    BY <2>1, <2>9
  <2> QED BY <2>1, <2>5, <2>6, <2>8, <2>9
          DEF Next, Tick, Exit, List, ReadFile, ReadFails, Answer
<1> QED BY <1>1, <1>2, <1>3, PTL DEF Spec, RetentionKept


(***************************************************************************)
(* The reader.                                                             *)
(***************************************************************************)

\* What Reader.read carries through a file.
Progress == [sessions : Seq(Sessions), at : Nat]

\* A session stays one when a line enters it.
LEMMA SessionEntered ==
  ASSUME NEW u \in Sessions, NEW l \in Lines
  PROVE  /\ Entered(u, l) \in Sessions
         /\ Entered(u, l).id = u.id /\ Entered(u, l).first = u.first
         /\ Entered(u, l).lines = u.lines \cup {l}
         /\ Entered(u, l).ended = (u.ended \/ l.text.ends)
<1>1. PICK b \in BOOLEAN : b = (u.ended \/ l.text.ends)
  OBVIOUS
<1>2. Entered(u, l) = [u EXCEPT !.ended = b, !.lines = @ \cup {l}]
  BY <1>1, Zenon DEF Entered
<1>3. PICK e : e = [u EXCEPT !.ended = b, !.lines = @ \cup {l}]
  OBVIOUS
<1>4. /\ e \in Sessions /\ e.id = u.id /\ e.first = u.first
      /\ e.lines = u.lines \cup {l} /\ e.ended = b
  BY <1>3 DEF Sessions
<1> QED BY <1>1, <1>2, <1>3, <1>4, Zenon

\* A line takes sessions to sessions.
LEMMA ScanTyped ==
  ASSUME LogShape, NEW x \in Progress, NEW l \in Lines
  PROVE  Scan(x, l) \in Progress
<1>1. PICK ss \in Seq(Sessions), a \in Nat : x.sessions = ss /\ x.at = a
  BY DEF Progress
<1>2. l.text.opens \in Times \cup {None} /\ l.text.ends \in BOOLEAN
  <2>1. l.text \in Texts
    BY DEF Lines
  <2> QED BY <2>1 DEF Texts
<1>3. CASE l.text.opens # None
  <2>1. PICK s \in Sessions : s = Opened(l)
    BY <1>2, <1>3 DEF Sessions, Opened
  <2>2. Append(ss, s) \in Seq(Sessions) /\ Len(ss) + 1 \in Nat
    OBVIOUS
  <2>3. Scan(x, l) = [sessions |-> Append(ss, s), at |-> Len(ss) + 1]
    BY <1>1, <1>3, <2>1 DEF Scan
  <2> QED BY <2>2, <2>3 DEF Progress
<1>4. CASE l.text.opens = None /\ a = 0
  BY <1>1, <1>4 DEF Scan
<1>5. CASE l.text.opens = None /\ a # 0
  <2>1. PICK s : s = Entered(ss[a], l)
    OBVIOUS
  <2>2. PICK b : b = IF l.text.ends THEN 0 ELSE a
    OBVIOUS
  <2>3. Scan(x, l) = [sessions |-> [ss EXCEPT ![a] = s], at |-> b]
    BY <1>1, <1>5, <2>1, <2>2 DEF Scan
  <2>4. a \in 1..Len(ss) => s \in Sessions
    <3>1. SUFFICES ASSUME a \in 1..Len(ss) PROVE s \in Sessions
      OBVIOUS
    <3> QED BY <2>1, <3>1, SessionEntered
  <2>5. [ss EXCEPT ![a] = s] \in Seq(Sessions)
    <3>1. Len(ss) \in Nat /\ ss \in [1..Len(ss) -> Sessions]
      OBVIOUS
    <3>2. [ss EXCEPT ![a] = s] \in [1..Len(ss) -> Sessions]
      BY <2>4, <3>1
    <3> QED BY <3>1, <3>2
  <2> QED BY <2>2, <2>3, <2>5 DEF Progress
<1> QED BY <1>1, <1>3, <1>4, <1>5

\* The loop over the lines of a file.
LEMMA ScanAllLoop ==
  ASSUME LogShape, NEW x \in Progress, NEW f \in Seq(Lines)
  PROVE  \E out \in [0..Len(f) -> Progress] :
           /\ out[0] = x
           /\ \A k \in 1..Len(f) : out[k] = Scan(out[k - 1], f[k])
           /\ ScanAll(x, f) = out[Len(f)]
<1> DEFINE N == Len(f)
           Eq(o) == o = [k \in 0..N |-> IF k = 0 THEN x ELSE Scan(o[k - 1], f[k])]
           out == CHOOSE o : Eq(o)
           g == [k \in 1..N |-> [y \in Progress |-> Scan(y, f[k])]]
<1>1. ScanAll(x, f) = out[N] /\ N \in Nat
  <2>1. ScanAll(x, f) = out[N]
    BY Zenon DEF ScanAll
  <2> QED BY <2>1
<1>2. g \in [1..N -> [Progress -> Progress]]
  <2>1. \A k \in 1..N : f[k] \in Lines
    OBVIOUS
  <2>2. \A k \in 1..N : \A y \in Progress : Scan(y, f[k]) \in Progress
    BY <2>1, ScanTyped
  <2> QED BY <2>2
<1>3. PICK o \in [0..N -> Progress] : Loop(o, x, g, N)
  <2> HIDE DEF g, N
  <2> QED BY <1>1, <1>2, LoopExists
<1>4. Eq(o)
  <2>1. \A k \in 1..N : g[k][o[k - 1]] = Scan(o[k - 1], f[k])
    <3>1. \A k \in 1..N : o[k - 1] \in Progress
      BY <1>3, <1>1
    <3> QED BY <3>1
  <2>2. [k \in 0..N |-> IF k = 0 THEN x ELSE Scan(o[k - 1], f[k])]
          = [k \in 0..N |-> IF k = 0 THEN x ELSE g[k][o[k - 1]]]
    <3> HIDE DEF g
    <3> QED BY <1>1, <2>1
  <2> QED BY <1>3, <2>2 DEF Loop
<1>5. Eq(out)
  <2> HIDE DEF Eq
  <2> QED BY <1>4
<1>6. \A k \in 0..N : out[k] = IF k = 0 THEN x ELSE Scan(out[k - 1], f[k])
  <2> HIDE DEF out
  <2> QED BY <1>5
<1>7. DOMAIN out = 0..N /\ out = [k \in 0..N |-> out[k]]
  <2> HIDE DEF out
  <2> QED BY <1>5
<1> HIDE DEF out
<1> DEFINE Bad == {k \in 0..N : out[k] \notin Progress}
<1>8. Bad = {}
  <2>1. SUFFICES ASSUME Bad # {} PROVE FALSE
    OBVIOUS
  <2>2. PICK k \in Bad : \A j \in Bad : k <= j
    <3>1. Bad \in SUBSET Nat
      OBVIOUS
    <3> HIDE DEF Bad
    <3> QED BY <2>1, <3>1, LeastIndex
  <2>3. k # 0
    BY <1>6, <1>1
  <2>4. k \in 1..N /\ k - 1 \in 0..N /\ k - 1 \notin Bad
    <3>1. k \in 1..N /\ k - 1 \in 0..N
      BY <2>3
    <3> HIDE DEF Bad
    <3> QED BY <2>2, <3>1
  <2>5. out[k - 1] \in Progress /\ f[k] \in Lines
    BY <2>4
  <2>6. out[k] = Scan(out[k - 1], f[k])
    BY <1>6, <2>4
  <2> QED BY <2>5, <2>6, ScanTyped
<1>9. out \in [0..N -> Progress]
  BY <1>7, <1>8
<1> QED BY <1>1, <1>6, <1>9


\* One more line is read: its session is the right one if it comes after the
\* startup lines old, before the lines rest2, and after that of its own run.
LEMMA ScanFound ==
  ASSUME LogShape, NEW ss, NEW a, NEW old \in SUBSET Runs, NEW rest,
         Found(ss, a, old, rest), NEW l \in Lines, l \in rest,
         NEW rest2 \in SUBSET rest,
         LineTrue(l), \A r \in old : r <= l.run, \A m \in rest2 : l.run <= m.run,
         l.kind \notin {"start", "blank"} => StartGone(l.run) \/ l.run \in old,
         NEW old2, old2 = IF l.kind = "start" THEN old \cup {l.run} ELSE old,
         NEW x, x = Scan([sessions |-> ss, at |-> a], l)
  PROVE  Found(x.sessions, x.at, old2, rest2)
<1>1. /\ ss \in Seq(Sessions) /\ a \in 0..Len(ss) /\ Len(ss) \in Nat
      /\ \A i \in 1..Len(ss) : SessionTrue(ss[i])
      /\ \A r \in old : \E i \in 1..Len(ss) : IsStart(ss[i].first, r)
  BY DEF Found
<1>2. l.run \in Runs /\ l.run \in Nat /\ run \in Nat /\ l.run \in 1..run
      /\ l.text.opens \in Times \cup {None}
  <2>1. l.run \in Runs /\ MaxRuns \in Nat /\ l.text \in Texts
    BY LogAssumption DEF Lines
  <2>2. run \in Nat /\ l.run <= run
    BY LogAssumption DEF LogShape, LineTrue
  <2>3. l.text.opens \in Times \cup {None}
    BY <2>1 DEF Texts
  <2> QED BY <2>1, <2>2, <2>3 DEF Runs
<1>3. [sessions |-> ss, at |-> a].sessions = ss /\ [sessions |-> ss, at |-> a].at = a
  OBVIOUS
<1>4. CASE l.text.opens # None
  <2>1. PICK s \in Sessions : s = Opened(l)
    BY <1>2, <1>4 DEF Sessions, Opened
  <2>2. PICK t \in Seq(Sessions) : t = Append(ss, s)
    <3>1. ss \in Seq(Sessions)
      BY <1>1
    <3>2. Append(ss, s) \in Seq(Sessions)
      BY <3>1
    <3> QED BY <3>2
  <2>3. /\ Len(t) = Len(ss) + 1 /\ t[Len(ss) + 1] = s
        /\ \A i \in 1..Len(ss) : t[i] = ss[i]
    BY <1>1, <2>2
  <2>4. x.sessions = t /\ x.at = Len(ss) + 1
    BY <1>3, <1>4, <2>1, <2>2 DEF Scan
  <2>11. s.id = l.text.opens /\ s.first = l /\ s.lines = {l} /\ ~s.ended
    BY <2>1 DEF Opened
  <2>5. SessionTrue(s)
    BY <1>4, <2>11 DEF SessionTrue, ShowsRun, LineTrue
  <2>6. \A i \in 1..Len(t) : SessionTrue(t[i])
    <3>1. SUFFICES ASSUME NEW i \in 1..Len(t) PROVE SessionTrue(t[i])
      OBVIOUS
    <3>2. CASE i = Len(ss) + 1
      BY <2>3, <2>5, <3>2
    <3>3. CASE i \in 1..Len(ss)
      BY <1>1, <2>3, <3>3
    <3> QED BY <1>1, <2>3, <3>2, <3>3
  <2>7. l.kind = "start" => IsStart(s.first, l.run)
    BY <2>11 DEF IsStart
  <2>8. \A r \in old2 : \E i \in 1..Len(t) : IsStart(t[i].first, r)
    <3>1. SUFFICES ASSUME NEW r \in old2
                   PROVE  \E i \in 1..Len(t) : IsStart(t[i].first, r)
      OBVIOUS
    <3>2. CASE r = l.run /\ l.kind = "start"
      BY <1>1, <2>3, <2>7, <3>2
    <3>3. CASE r \in old
      <4>1. PICK i \in 1..Len(ss) : IsStart(ss[i].first, r)
        BY <1>1, <3>3
      <4>2. i \in 1..Len(t) /\ t[i] = ss[i]
        BY <1>1, <2>3
      <4> QED BY <4>1, <4>2
    <3> QED BY <3>2, <3>3
  <2>9. /\ t[Len(ss) + 1].first.run = l.run
        /\ \A r \in old2 : r <= l.run
        /\ \A m \in rest2 : l.run <= m.run
    BY <1>2, <2>3, <2>11
  <2>10. Len(ss) + 1 \in 0..Len(t)
    BY <1>1, <2>3
  <2> QED BY <1>2, <2>4, <2>6, <2>8, <2>9, <2>10 DEF Found
<1>7. l.text.opens = None => old2 = old
  <2>1. l.kind = "start" => l.text.opens \in Times
    BY <1>2 DEF LineTrue, LogShape, Times
  <2> QED BY <2>1, LogAssumption
<1>5. CASE l.text.opens = None /\ a = 0
  <2>1. x.sessions = ss /\ x.at = a
    BY <1>3, <1>5 DEF Scan
  <2> QED BY <1>1, <1>5, <1>7, <2>1 DEF Found
<1>6. CASE l.text.opens = None /\ a # 0
  <2>1. PICK o \in 1..run : /\ ss[a].first.run = o
                            /\ \A r \in old : r <= o
                            /\ \A m \in rest : o <= m.run
    BY <1>6 DEF Found
  <2>2. PICK u \in Sessions : u = ss[a]
    BY <1>1, <1>6
  <2>3. PICK s : s = Entered(u, l)
    OBVIOUS
  <2>4. PICK b : b = IF l.text.ends THEN 0 ELSE a
    OBVIOUS
  <2>5. PICK t : t = [ss EXCEPT ![a] = s]
    OBVIOUS
  <2>6. x.sessions = t /\ x.at = b
    BY <1>3, <1>6, <2>2, <2>3, <2>4, <2>5 DEF Scan
  <2>7. /\ s \in Sessions /\ s.id = u.id /\ s.first = u.first
        /\ s.lines = u.lines \cup {l} /\ s.ended = (u.ended \/ l.text.ends)
    BY <2>3, SessionEntered
  <2>8. /\ t \in Seq(Sessions) /\ Len(t) = Len(ss) /\ t[a] = s
        /\ \A i \in 1..Len(ss) : i # a => t[i] = ss[i]
    <3>1. ss \in [1..Len(ss) -> Sessions] /\ a \in 1..Len(ss)
      BY <1>1, <1>6
    <3>2. t \in [1..Len(ss) -> Sessions]
      BY <2>5, <2>7, <3>1
    <3> QED BY <1>1, <2>5, <3>1, <3>2
  <2>9. l.kind = "blank" \/ ShowsRun(u, l.run)
    <3>1. CASE l.run \in old
      <4>1. l.run <= o /\ o <= l.run
        BY <2>1, <3>1
      <4>2. l.run = o
        BY <1>2, <4>1
      <4> QED BY <2>1, <2>2, <4>2 DEF ShowsRun
    <3>2. CASE StartGone(l.run)
      BY <3>2 DEF ShowsRun
    <3>3. l.kind # "start"
      BY <1>2, <1>6, LogAssumption DEF LineTrue, LogShape, Times
    <3> QED BY <3>1, <3>2, <3>3
  <2>10. s.id = u.id /\ s.first = u.first /\ s.lines = u.lines \cup {l}
    BY <2>7
  <2>11. s.ended => u.ended \/ l.text.ends
    BY <2>7, Zenon
  <2>12. SessionTrue(u)
    BY <1>1, <1>6, <2>2
  <2>13. SessionTrue(s)
    <3>1. \A r : ShowsRun(u, r) => ShowsRun(s, r)
      BY <2>10 DEF ShowsRun
    <3>2. \A m \in s.lines : m.kind = "blank" \/ ShowsRun(s, m.run)
      BY <2>9, <2>10, <2>12, <3>1 DEF SessionTrue
    <3>3. s.ended => \/ \E r \in stopped : ShowsRun(s, r)
                     \/ \E m \in s.lines : m.kind = "info" /\ m.text.ends
      <4>1. CASE u.ended
        BY <2>10, <2>12, <3>1, <4>1 DEF SessionTrue
      <4>2. CASE l.text.ends
        <5>1. l.kind = "info" \/ (l.kind = "stop" /\ l.run \in stopped)
          BY <4>2 DEF LineTrue
        <5> QED BY <2>9, <2>10, <3>1, <4>2, <5>1
      <4> QED BY <2>11, <4>1, <4>2
    <3> QED BY <2>10, <2>12, <3>2, <3>3 DEF SessionTrue
  <2>14. \A i \in 1..Len(t) : SessionTrue(t[i])
    BY <1>1, <2>8, <2>13
  <2>15. old2 = old
    BY <1>6, <1>7
  <2>16. \A r \in old2 : \E i \in 1..Len(t) : IsStart(t[i].first, r)
    <3>1. SUFFICES ASSUME NEW r \in old
                   PROVE  \E i \in 1..Len(t) : IsStart(t[i].first, r)
      BY <2>15
    <3>2. PICK i \in 1..Len(ss) : IsStart(ss[i].first, r)
      BY <1>1
    <3>3. CASE i = a
      BY <2>2, <2>8, <2>10, <3>2, <3>3
    <3>4. CASE i # a
      BY <2>8, <3>2, <3>4
    <3> QED BY <3>3, <3>4
  <2>17. b \in 0..Len(t) /\ (b # 0 => t[b].first.run = o)
    BY <1>1, <2>1, <2>2, <2>4, <2>8, <2>10
  <2>18. (\A r \in old2 : r <= o) /\ (\A m \in rest2 : o <= m.run)
    BY <2>1, <2>15
  <2> QED BY <2>1, <2>6, <2>8, <2>14, <2>16, <2>17, <2>18 DEF Found
<1> QED BY <1>4, <1>5, <1>6

\* The first k lines of the file d have been read, of the files todo.
OldAt(todo, d, k) ==
  StartsRead(todo) \cup {r \in Runs : \E i \in 1..k : IsStart(files[d][i], r)}
RestAt(todo, d, k) ==
  {files[d][j] : j \in (k + 1)..Len(files[d])} \cup LinesLeft(todo \ {d})

\* What the order of the lines tells about the next one.
LEMMA NextLine ==
  ASSUME LogShape, LinesInOrder, NEW todo \in SUBSET Days, NEW d \in todo,
         \A e \in todo : d <= e, files[d] # None,
         \A c \in Days \ todo, r \in Runs : HasStart(c, r) => \A e \in todo : c < e,
         NEW k \in 1..Len(files[d]), NEW l \in Lines, l = files[d][k]
  PROVE  /\ LineTrue(l)
         /\ \A r \in OldAt(todo, d, k - 1) : r <= l.run
         /\ \A m \in RestAt(todo, d, k) : l.run <= m.run
         /\ l.kind \notin {"start", "blank"} =>
              StartGone(l.run) \/ l.run \in OldAt(todo, d, k - 1)
<1>1. files[d] \in Seq(Lines) /\ Len(files[d]) \in Nat /\ d \in Days /\ k \in Nat
      /\ \A e \in Days : e \in Int
  BY DEF LogShape, Days
<1>2. LineTrue(l)
  BY <1>1 DEF LinesInOrder
<1>3. \A m, r : IsStart(m, r) <=> m.kind = "start" /\ m.run = r
  BY DEF IsStart
<1>4. \A r \in Runs : r \in Nat
  BY LogAssumption DEF Runs
<1>5. l.run \in Runs /\ l.run \in Nat
  BY <1>4 DEF Lines
<1>6. ASSUME NEW r \in OldAt(todo, d, k - 1) PROVE r <= l.run
  <2>1. r \in Nat
    BY <1>4, <1>6 DEF OldAt, StartsRead
  <2>2. PICK m : IsStart(m, r) /\ Ordered(m, l)
    <3>1. CASE r \in StartsRead(todo)
      <4>1. PICK c \in Days \ todo : HasStart(c, r)
        BY <3>1 DEF StartsRead
      <4>2. c < d /\ files[c] # None
        BY <3>1, <4>1 DEF StartsRead, HasStart
      <4>3. PICK i \in 1..Len(files[c]) : IsStart(files[c][i], r)
        BY <4>1 DEF HasStart
      <4>4. Before(c, i, d, k)
        BY <4>2 DEF Before
      <4> QED BY <1>1, <4>2, <4>3, <4>4 DEF LinesInOrder
    <3>2. CASE \E i \in 1..(k - 1) : IsStart(files[d][i], r)
      <4>1. PICK i \in 1..(k - 1) : IsStart(files[d][i], r)
        BY <3>2
      <4>2. i \in 1..Len(files[d]) /\ Before(d, i, d, k)
        BY <1>1 DEF Before
      <4> QED BY <1>1, <4>1, <4>2 DEF LinesInOrder
    <3> QED BY <1>6, <3>1, <3>2 DEF OldAt
  <2> QED BY <1>3, <1>5, <2>1, <2>2 DEF Ordered
<1>7. ASSUME NEW m \in RestAt(todo, d, k) PROVE l.run <= m.run
  <2>1. PICK e \in Days : \E j \in 1..Len(files[e]) :
          files[e] # None /\ m = files[e][j] /\ Before(d, k, e, j)
    <3>1. CASE m \in {files[d][j] : j \in (k + 1)..Len(files[d])}
      <4>1. PICK j \in (k + 1)..Len(files[d]) : m = files[d][j]
        BY <3>1
      <4>2. j \in 1..Len(files[d]) /\ Before(d, k, d, j)
        BY <1>1 DEF Before
      <4> QED BY <1>1, <4>1, <4>2
    <3>2. CASE m \in LinesLeft(todo \ {d})
      <4>1. PICK e \in todo \ {d} : m \in LinesOf(e)
        BY <3>2 DEF LinesLeft
      <4>2. PICK j \in 1..Len(files[e]) : files[e] # None /\ m = files[e][j]
        BY <4>1 DEF LinesOf
      <4>3. Before(d, k, e, j)
        BY <1>1, <4>1 DEF Before
      <4> QED BY <4>1, <4>2, <4>3
    <3> QED BY <1>7, <3>1, <3>2 DEF RestAt
  <2>2. Ordered(l, m) /\ m \in Lines
    <3>1. PICK j \in 1..Len(files[e]) :
            files[e] # None /\ m = files[e][j] /\ Before(d, k, e, j)
      BY <2>1
    <3>2. Ordered(files[d][k], files[e][j])
      BY <1>1, <3>1 DEF LinesInOrder
    <3>3. files[e] \in Seq(Lines)
      BY <3>1 DEF LogShape
    <3> QED BY <3>1, <3>2, <3>3
  <2>3. m.run \in Nat
    BY <1>4, <2>2 DEF Lines
  <2> QED BY <1>5, <2>2, <2>3 DEF Ordered
<1>8. ASSUME l.kind \notin {"start", "blank"}, ~StartGone(l.run)
      PROVE  l.run \in OldAt(todo, d, k - 1)
  <2>1. PICK e \in Days : HasStart(e, l.run)
    BY <1>8 DEF StartGone
  <2>2. PICK i \in 1..Len(files[e]) : files[e] # None /\ IsStart(files[e][i], l.run)
    BY <2>1 DEF HasStart
  <2>3. ~Ordered(l, files[e][i])
    BY <1>3, <1>5, <1>8, <2>2 DEF Ordered
  <2>4. ~Before(d, k, e, i)
    BY <1>1, <2>2, <2>3 DEF LinesInOrder
  <2>5. CASE e \notin todo
    BY <1>5, <2>1, <2>5 DEF OldAt, StartsRead
  <2>6. CASE e \in todo
    <3>1. e = d
      BY <1>1, <2>4, <2>6 DEF Before
    <3>2. i # k
      BY <1>3, <1>8, <2>2, <3>1
    <3>3. i \in Nat /\ i >= 1 /\ ~(k < i)
      BY <1>1, <2>4, <3>1 DEF Before
    <3>4. i \in 1..(k - 1)
      BY <1>1, <3>2, <3>3
    <3> QED BY <1>5, <2>2, <3>1, <3>4 DEF OldAt
  <2> QED BY <2>5, <2>6
<1> QED BY <1>2, <1>6, <1>7, <1>8


\* A file that is there has been read: by induction on its lines.
LEMMA FileRead ==
  ASSUME LogShape, LinesInOrder, NEW todo \in SUBSET Days, NEW d \in todo,
         \A e \in todo : d <= e, files[d] # None,
         \A c \in Days \ todo, r \in Runs : HasStart(c, r) => \A e \in todo : c < e,
         NEW ss, NEW a, Found(ss, a, StartsRead(todo), LinesLeft(todo)),
         NEW x, x = ScanAll([sessions |-> ss, at |-> a], files[d])
  PROVE  Found(x.sessions, x.at, StartsRead(todo \ {d}), LinesLeft(todo \ {d}))
<1>1. PICK f \in Seq(Lines) : f = files[d]
  BY DEF LogShape
<1>2. PICK N \in Nat : N = Len(f)
  BY <1>1
<1>3. PICK y \in Progress : y = [sessions |-> ss, at |-> a]
  BY DEF Progress, Found
<1>4. PICK out \in [0..N -> Progress] :
        /\ out[0] = y
        /\ \A k \in 1..N : out[k] = Scan(out[k - 1], f[k])
        /\ ScanAll(y, f) = out[N]
  BY <1>2, ScanAllLoop
<1> DEFINE Good(k) == Found(out[k].sessions, out[k].at, OldAt(todo, d, k), RestAt(todo, d, k))
           Bad == {k \in 0..N : ~Good(k)}
<1>5. Good(0)
  <2>1. out[0].sessions = ss /\ out[0].at = a
    BY <1>3, <1>4
  <2>2. OldAt(todo, d, 0) = StartsRead(todo)
    BY DEF OldAt
  <2>3. RestAt(todo, d, 0) = LinesLeft(todo)
    <3>1. LinesOf(d) = {files[d][j] : j \in (0 + 1)..Len(files[d])}
      BY DEF LinesOf
    <3>2. LinesLeft(todo) = LinesOf(d) \cup LinesLeft(todo \ {d})
      BY DEF LinesLeft
    <3> QED BY <3>1, <3>2 DEF RestAt
  <2> QED BY <2>1, <2>2, <2>3
<1>6. ASSUME NEW k \in 1..N, Good(k - 1) PROVE Good(k)
  <2>1. PICK l \in Lines : l = f[k]
    BY <1>2
  <2>2. k \in 1..Len(files[d]) /\ l = files[d][k] /\ k - 1 \in 0..N
    BY <1>1, <1>2, <2>1
  <2>3. PICK s \in Seq(Sessions), b \in Nat : out[k - 1] = [sessions |-> s, at |-> b]
    BY <1>4, <2>2 DEF Progress
  <2>4. Found(s, b, OldAt(todo, d, k - 1), RestAt(todo, d, k - 1))
    BY <1>6, <2>3
  <2>5. OldAt(todo, d, k - 1) \in SUBSET Runs
    BY DEF OldAt, StartsRead
  <2>6. l \in RestAt(todo, d, k - 1) /\ RestAt(todo, d, k) \in SUBSET RestAt(todo, d, k - 1)
    <3>1. (k - 1) + 1 = k /\ k \in k..Len(files[d])
          /\ (k + 1)..Len(files[d]) \subseteq k..Len(files[d])
      BY <1>1, <1>2, <2>2
    <3> QED BY <2>2, <3>1 DEF RestAt
  <2>7. OldAt(todo, d, k) = IF l.kind = "start" THEN OldAt(todo, d, k - 1) \cup {l.run}
                            ELSE OldAt(todo, d, k - 1)
    <3>1. \A i : i \in 1..k <=> i \in 1..(k - 1) \/ i = k
      OBVIOUS
    <3>2. \A r : IsStart(files[d][k], r) <=> l.kind = "start" /\ l.run = r
      BY <2>2 DEF IsStart
    <3>3. l.run \in Runs
      BY DEF Lines
    <3> DEFINE R(j) == {r \in Runs : \E i \in 1..j : IsStart(files[d][i], r)}
    <3>4. R(k) = IF l.kind = "start" THEN R(k - 1) \cup {l.run} ELSE R(k - 1)
      BY <3>1, <3>2, <3>3
    <3> HIDE DEF R
    <3>5. /\ OldAt(todo, d, k) = StartsRead(todo) \cup R(k)
          /\ OldAt(todo, d, k - 1) = StartsRead(todo) \cup R(k - 1)
      BY DEF OldAt, R
    <3> QED BY <3>4, <3>5
  <2>8. /\ LineTrue(l)
        /\ \A r \in OldAt(todo, d, k - 1) : r <= l.run
        /\ \A m \in RestAt(todo, d, k) : l.run <= m.run
        /\ l.kind \notin {"start", "blank"} =>
             StartGone(l.run) \/ l.run \in OldAt(todo, d, k - 1)
    BY <2>2, NextLine
  <2>9. out[k] = Scan([sessions |-> s, at |-> b], l)
    BY <1>4, <2>1, <2>3
  <2>10. PICK old, rest, old2, rest2, z :
           /\ old = OldAt(todo, d, k - 1) /\ rest = RestAt(todo, d, k - 1)
           /\ old2 = OldAt(todo, d, k) /\ rest2 = RestAt(todo, d, k) /\ z = out[k]
    OBVIOUS
  <2>11. Found(z.sessions, z.at, old2, rest2)
    BY <2>4, <2>5, <2>6, <2>7, <2>8, <2>9, <2>10, ScanFound
  <2> QED BY <2>10, <2>11
<1>7. Good(N)
  <2> HIDE DEF Good
  <2>1. Bad = {}
    <3>1. SUFFICES ASSUME Bad # {} PROVE FALSE
      OBVIOUS
    <3>2. PICK k \in Bad : \A j \in Bad : k <= j
      <4>1. Bad \in SUBSET Nat
        OBVIOUS
      <4> HIDE DEF Bad
      <4> QED BY <3>1, <4>1, LeastIndex
    <3>3. k \in 0..N /\ ~Good(k)
      OBVIOUS
    <3>4. k \in 1..N /\ k - 1 \in 0..N
      BY <1>5, <3>3
    <3>5. k - 1 \notin Bad
      <4> HIDE DEF Bad
      <4> QED BY <3>2, <3>4
    <3>6. Good(k - 1)
      BY <3>4, <3>5
    <3> QED BY <1>6, <3>3, <3>4, <3>6
  <2> QED BY <2>1
<1>8. x = out[N]
  BY <1>1, <1>3, <1>4
<1>9. OldAt(todo, d, N) = StartsRead(todo \ {d})
  <2>1. \A r \in Runs : HasStart(d, r) <=> \E i \in 1..N : IsStart(files[d][i], r)
    BY <1>1, <1>2 DEF HasStart
  <2> QED BY <2>1 DEF OldAt, StartsRead
<1>10. RestAt(todo, d, N) = LinesLeft(todo \ {d})
  <2>1. (N + 1)..Len(files[d]) = {}
    BY <1>1, <1>2
  <2> QED BY <2>1 DEF RestAt
<1> QED BY <1>7, <1>8, <1>9, <1>10

\* A file that has gone tells nothing.
LEMMA FileGone ==
  ASSUME LogShape, NEW todo \in SUBSET Days, NEW d \in todo, files[d] = None,
         NEW ss, NEW a, Found(ss, a, StartsRead(todo), LinesLeft(todo)),
         NEW x, x = ScanAll([sessions |-> ss, at |-> a], <<>>)
  PROVE  Found(x.sessions, x.at, StartsRead(todo \ {d}), LinesLeft(todo \ {d}))
<1>1. PICK y \in Progress : y = [sessions |-> ss, at |-> a]
  BY DEF Progress, Found
<1>2. <<>> \in Seq(Lines) /\ Len(<<>>) = 0
  OBVIOUS
<1>3. x = y
  <2>1. PICK out \in [0..Len(<<>>) -> Progress] :
          out[0] = y /\ ScanAll(y, <<>>) = out[Len(<<>>)]
    BY <1>2, ScanAllLoop
  <2> QED BY <1>1, <1>2, <2>1
<1>4. StartsRead(todo \ {d}) = StartsRead(todo)
  BY DEF StartsRead, HasStart
<1>5. LinesLeft(todo \ {d}) = LinesLeft(todo)
  BY DEF LinesLeft, LinesOf
<1> QED BY <1>1, <1>3, <1>4, <1>5

\* Every step keeps the shape of the reader.
LEMMA ReaderShapeKept ==
  ASSUME LogShape, ReaderShape, [Next]_vars
  PROVE  ReaderShape'
<1> DEFINE Readers == [step : {"idle", "read", "done"}, todo : SUBSET Days,
                       sessions : Seq(Sessions), at : Nat]
<1>0. reader \in Readers /\ NoReader \in Readers
  BY DEF ReaderShape, NoReader
<1>1. CASE LogBlank \/ LogStart \/ Start \/ StartFails
  BY <1>1 DEF LogBlank, LogStart, Start, StartFails, ReaderShape, NoReader
<1>2. CASE Stop \/ Exit \/ ReadFails
  BY <1>0, <1>2 DEF Stop, Exit, ReadFails, ReaderShape, NoReader
<1>3. CASE List
  <2>1. reader' = [step |-> "read", todo |-> {d \in Days : files[d] # None},
                   sessions |-> <<>>, at |-> 0]
    BY <1>3 DEF List, NoReader
  <2>2. PICK todo \in SUBSET Days : todo = {d \in Days : files[d] # None}
    OBVIOUS
  <2>3. [step |-> "read", todo |-> todo, sessions |-> <<>>, at |-> 0] \in Readers
    OBVIOUS
  <2>4. reader'.step = "read" /\ reader' \in Readers
    BY <2>1, <2>2, <2>3
  <2>5. state' = "up"
    BY <1>3 DEF List
  <2> QED BY <2>4, <2>5 DEF ReaderShape
<1>4. ASSUME NEW d \in reader.todo, ReadFile(d) PROVE ReaderShape'
  <2>1. PICK y, f : /\ y = [sessions |-> reader.sessions, at |-> reader.at]
                    /\ f = IF files[d] = None THEN <<>> ELSE files[d]
    OBVIOUS
  <2>2. PICK z : z = ScanAll(y, f)
    OBVIOUS
  <2>3. /\ reader' = [step |-> "read", todo |-> reader.todo \ {d},
                      sessions |-> z.sessions, at |-> z.at]
        /\ state' = state /\ reader.step = "read"
    BY <1>4, <2>1, <2>2 DEF ReadFile
  <2>4. d \in Days
    BY <1>0
  <2>5. y \in Progress /\ f \in Seq(Lines)
    BY <1>0, <2>1, <2>4 DEF Progress, LogShape
  <2>6. z \in Progress
    <3>1. Len(f) \in 0..Len(f)
      BY <2>5
    <3> QED BY <2>2, <2>5, <3>1, ScanAllLoop
  <2>7. reader' \in Readers
    BY <1>0, <2>3, <2>6 DEF Progress
  <2> QED BY <2>3, <2>7 DEF ReaderShape
<1>5. CASE Answer
  <2>1. /\ reader' = [reader EXCEPT !.step = "done"] /\ reader.todo = {} /\ state' = state
        /\ reader.step = "read"
    BY <1>5 DEF Answer
  <2>2. reader'.step = "done" /\ reader'.todo = {} /\ reader' \in Readers
    BY <1>0, <2>1
  <2> QED BY <2>1, <2>2 DEF ReaderShape
<1>6. CASE Tick \/ LogInfo \/ UNCHANGED <<reader, state>>
  BY <1>6 DEF Tick, LogInfo, ReaderShape, NoReader
<1> QED BY <1>1, <1>2, <1>3, <1>4, <1>5, <1>6 DEF Next, vars

\* Every step keeps the sessions the reader has found.
LEMMA ReaderTrueKept ==
  ASSUME LogShape, LinesInOrder, ReaderShape, ReaderTrue, [Next]_vars, ReaderShape'
  PROVE  ReaderTrue'
<1> DEFINE Readers == [step : {"idle", "read", "done"}, todo : SUBSET Days,
                       sessions : Seq(Sessions), at : Nat]
<1>0. reader \in Readers /\ reader' \in Readers
  BY DEF ReaderShape
<1>1. ASSUME NEW todo \in SUBSET Days, NEW ss, NEW a,
             reader'.step # "idle" =>
               /\ reader'.todo = todo /\ reader'.sessions = ss /\ reader'.at = a
               /\ \A d \in Days \ todo, r \in Runs : HasStart(d, r)' =>
                    \A e \in todo : d < e
               /\ Found(ss, a, StartsRead(todo), LinesLeft(todo))'
      PROVE  ReaderTrue'
  BY <1>1 DEF ReaderTrue, StartsRead, LinesLeft, LinesOf, HasStart, IsStart, Found,
              SessionTrue, ShowsRun, StartGone
<1>2. CASE Start \/ StartFails \/ LogBlank \/ LogStart
  <2>1. reader'.step = "idle"
    BY <1>2 DEF Start, StartFails, LogBlank, LogStart, ReaderShape
  <2> QED BY <2>1 DEF ReaderTrue
<1>3. CASE Stop \/ Exit \/ ReadFails
  <2>1. reader' = NoReader
    BY <1>3, Zenon DEF Stop, Exit, ReadFails
  <2>2. reader'.step = "idle"
    BY <2>1 DEF NoReader
  <2> QED BY <2>2 DEF ReaderTrue
<1>4. CASE List
  <2>1. PICK todo \in SUBSET Days : todo = {d \in Days : files[d] # None}
    OBVIOUS
  <2>2. reader' = [step |-> "read", todo |-> todo, sessions |-> <<>>, at |-> 0]
    BY <1>4, <2>1 DEF List, NoReader
  <2>3. ASSUME NEW d \in Days \ todo, NEW r PROVE ~HasStart(d, r)'
    BY <1>4, <2>1 DEF List, HasStart
  <2>4. StartsRead(todo)' = {}
    BY <2>3 DEF StartsRead
  <2>5. Found(<<>>, 0, StartsRead(todo), LinesLeft(todo))'
    <3>1. <<>> \in Seq(Sessions) /\ Len(<<>>) = 0
      OBVIOUS
    <3> QED BY <2>4, <3>1 DEF Found
  <2> QED BY <1>1, <2>2, <2>3, <2>5
<1>5. ASSUME NEW d \in reader.todo, ReadFile(d) PROVE ReaderTrue'
  <2>1. PICK todo \in SUBSET Days : todo = reader.todo
    BY <1>0
  <2>2. PICK ss, a : ss = reader.sessions /\ a = reader.at
    OBVIOUS
  <2>3. PICK y, f : y = [sessions |-> ss, at |-> a] /\ f = IF files[d] = None THEN <<>> ELSE files[d]
    OBVIOUS
  <2>4. PICK z : z = ScanAll(y, f)
    OBVIOUS
  <2>5. PICK left \in SUBSET Days : left = todo \ {d}
    OBVIOUS
  <2>6. /\ reader'.todo = left /\ reader'.sessions = z.sessions /\ reader'.at = z.at
        /\ \A e \in todo : d <= e
        /\ UNCHANGED <<files, run, started, stopped>>
        /\ d \in todo /\ reader.step # "idle"
    BY <1>5, <2>1, <2>2, <2>3, <2>4, <2>5 DEF ReadFile
  <2>7. /\ \A c \in Days \ todo, r \in Runs : HasStart(c, r) => \A e \in todo : c < e
        /\ Found(ss, a, StartsRead(todo), LinesLeft(todo))
    BY <2>1, <2>2, <2>6 DEF ReaderTrue
  <2>8. Found(z.sessions, z.at, StartsRead(left), LinesLeft(left))
    <3>1. CASE files[d] = None
      BY <2>3, <2>4, <2>5, <2>6, <2>7, <3>1, FileGone
    <3>2. CASE files[d] # None
      BY <2>3, <2>4, <2>5, <2>6, <2>7, <3>2, FileRead
    <3> QED BY <3>1, <3>2
  <2>9. PICK zs, za : zs = z.sessions /\ za = z.at
    OBVIOUS
  <2>10. Found(zs, za, StartsRead(left), LinesLeft(left))'
    BY <2>6, <2>8, <2>9 DEF Found, StartsRead, LinesLeft, LinesOf, HasStart, IsStart,
       SessionTrue, ShowsRun, StartGone
  <2>11. ASSUME NEW c \in Days \ left, NEW r \in Runs, HasStart(c, r)', NEW e \in left
         PROVE  c < e
    <3>1. HasStart(c, r) /\ e \in todo /\ e # d
      BY <2>5, <2>6, <2>11 DEF HasStart, IsStart
    <3>2. CASE c \in todo
      <4>1. c = d /\ d <= e /\ d \in Int /\ e \in Int
        BY <2>5, <2>6, <3>1, <3>2 DEF Days
      <4> QED BY <3>1, <4>1
    <3>3. CASE c \notin todo
      BY <2>7, <3>1, <3>3
    <3> QED BY <3>2, <3>3
  <2> QED BY <1>1, <2>6, <2>9, <2>10, <2>11
<1>6. CASE LogInfo
  <2>1. PICK text : Extended(LineOf("info", text))
    BY <1>6, WritersExtend
  <2>2. PICK line : Extended(line) /\ line.kind = "info" /\ line.run = run
    BY <2>1 DEF LineOf
  <2>3. /\ \A d \in Days : \A r : HasStart(d, r)' => HasStart(d, r)
        /\ \A r : StartGone(r) => StartGone(r)'
    BY <2>2, StartsDisappear
  <2>4. PICK todo, ss, a :
          /\ todo \in SUBSET Days /\ todo = reader.todo
          /\ ss = reader.sessions /\ a = reader.at
    BY <1>0
  <2>5. UNCHANGED <<reader, run, started, stopped>> /\ run \in Nat
    BY <1>6, LogAssumption DEF LogInfo, LogShape
  <2>6. SUFFICES ASSUME reader.step # "idle" PROVE ReaderTrue'
    BY <2>5 DEF ReaderTrue
  <2>7. /\ \A c \in Days \ todo, r \in Runs : HasStart(c, r) => \A e \in todo : c < e
        /\ Found(ss, a, StartsRead(todo), LinesLeft(todo))
    BY <2>4, <2>6 DEF ReaderTrue
  <2>8. PICK old, rest, old2, rest2 :
          /\ old = StartsRead(todo) /\ rest = LinesLeft(todo)
          /\ old2 = StartsRead(todo)' /\ rest2 = LinesLeft(todo)'
    OBVIOUS
  <2>9. old2 \in SUBSET old
    BY <2>3, <2>8 DEF StartsRead
  <2>10. ASSUME NEW l \in rest2 PROVE l \in rest \/ l.run = run
    <3>1. PICK d \in todo : l \in LinesOf(d)'
      BY <2>8 DEF LinesLeft
    <3>2. files'[d] # None /\ \E i \in 1..Len(files'[d]) : l = files'[d][i]
      BY <3>1 DEF LinesOf
    <3>3. PICK i \in 1..Len(files'[d]) : l = files'[d][i]
      BY <3>2
    <3>4. \/ files[d] # None /\ i \in 1..Len(files[d]) /\ l = files[d][i]
          \/ l = line
      BY <2>2, <2>4, <3>2, <3>3 DEF Extended
    <3>5. CASE l = line
      BY <2>2, <3>5
    <3>6. CASE files[d] # None /\ i \in 1..Len(files[d]) /\ l = files[d][i]
      BY <2>8, <3>6 DEF LinesLeft, LinesOf
    <3> QED BY <3>4, <3>5, <3>6
  <2>11. Found(ss, a, old2, rest2)'
    BY <2>3, <2>5, <2>7, <2>8, <2>9, <2>10, FoundKept
  <2>12. Found(ss, a, StartsRead(todo), LinesLeft(todo))'
    BY <2>8, <2>11 DEF Found
  <2>13. \A d \in Days \ todo, r \in Runs : HasStart(d, r)' => \A e \in todo : d < e
    BY <2>3, <2>7
  <2> QED BY <1>1, <2>4, <2>5, <2>12, <2>13
<1>7. CASE Answer \/ Tick \/ UNCHANGED vars
  <2>1. UNCHANGED <<files, run, started, stopped>>
    BY <1>7 DEF Answer, Tick, vars
  <2>2. /\ reader'.todo = reader.todo /\ reader'.sessions = reader.sessions
        /\ reader'.at = reader.at /\ (reader'.step # "idle" => reader.step # "idle")
    BY <1>0, <1>7 DEF Answer, Tick, vars
  <2>3. PICK todo, ss, a :
          /\ todo \in SUBSET Days /\ todo = reader.todo
          /\ ss = reader.sessions /\ a = reader.at
    BY <1>0
  <2>4. SUFFICES ASSUME reader.step # "idle" PROVE ReaderTrue'
    BY <2>2 DEF ReaderTrue
  <2>5. /\ \A d \in Days \ todo, r \in Runs : HasStart(d, r) => \A e \in todo : d < e
        /\ Found(ss, a, StartsRead(todo), LinesLeft(todo))
    BY <2>3, <2>4 DEF ReaderTrue
  <2>6. /\ \A d \in Days \ todo, r \in Runs : HasStart(d, r)' => \A e \in todo : d < e
        /\ Found(ss, a, StartsRead(todo), LinesLeft(todo))'
    BY <2>1, <2>5 DEF StartsRead, LinesLeft, LinesOf, HasStart, IsStart, Found,
       SessionTrue, ShowsRun, StartGone
  <2> QED BY <1>1, <2>2, <2>3, <2>6
<1> QED BY <1>2, <1>3, <1>4, <1>5, <1>6, <1>7 DEF Next

\* The invariant holds for every number of runs, days and lines.
THEOREM LogInvariant == Spec => []LogInv
<1>1. Init => LogInv
  <2> SUFFICES ASSUME Init PROVE LogInv
    OBVIOUS
  <2>1. 0 \in 0..MaxRuns /\ 0 \in 0..MaxTime
    BY LogAssumption
  <2>2. LogShape
    BY <2>1 DEF Init, LogShape
  <2>3. LinesInOrder
    BY DEF Init, LinesInOrder
  <2>4. ReaderShape /\ ReaderTrue
    BY DEF Init, ReaderShape, ReaderTrue, NoReader
  <2> QED BY <2>2, <2>3, <2>4 DEF LogInv
<1>2. LogInv /\ [Next]_vars => LogInv'
  <2> SUFFICES ASSUME LogInv, [Next]_vars PROVE LogInv'
    OBVIOUS
  <2>1. LogShape' /\ LinesInOrder'
    BY ShapeKept, LinesKept DEF LogInv
  <2>2. ReaderShape'
    BY ReaderShapeKept DEF LogInv
  <2>3. ReaderTrue'
    BY <2>2, ReaderTrueKept DEF LogInv
  <2> QED BY <2>1, <2>2, <2>3 DEF LogInv
<1> QED BY <1>1, <1>2, PTL DEF Spec

\* What the sessions page shows, although the reader takes no lock, the files
\* grow and go while it reads, and an ordinary line may have the words that
\* open or end a session: a line counts for the session of another run only if
\* the startup line of its own run is gone, an end that was none comes from an
\* ordinary line of that session, and a finished answer has a session for
\* every run whose startup line is there (reader.go:126-186).
THEOREM SessionsAreFaithful == Spec => []SessionsFaithful
<1>1. LogInv => SessionsFaithful
  <2> SUFFICES ASSUME LogInv PROVE SessionsFaithful
    OBVIOUS
  <2>1. CASE reader.step = "idle"
    <3>1. reader.sessions = <<>> /\ Len(<<>>) = 0
      BY <2>1 DEF LogInv, ReaderShape, NoReader
    <3> QED BY <2>1, <3>1 DEF SessionsFaithful
  <2>2. CASE reader.step # "idle"
    <3>1. Found(reader.sessions, reader.at, StartsRead(reader.todo), LinesLeft(reader.todo))
      BY <2>2 DEF LogInv, ReaderTrue
    <3>2. \A i \in 1..Len(reader.sessions) : SessionTrue(reader.sessions[i])
      BY <3>1 DEF Found
    <3>3. ASSUME reader.step = "done", NEW r \in 1..run, ~StartGone(r)
          PROVE  \E i \in 1..Len(reader.sessions) :
                   IsStart(reader.sessions[i].first, r)
      <4>1. r \in Runs
        BY LogAssumption DEF LogInv, LogShape, Runs
      <4>2. reader.todo = {}
        BY <3>3 DEF LogInv, ReaderShape
      <4>3. r \in StartsRead(reader.todo)
        BY <3>3, <4>1, <4>2 DEF StartsRead, StartGone
      <4> QED BY <3>1, <4>3 DEF Found
    <3> QED BY <3>2, <3>3 DEF SessionsFaithful
  <2> QED BY <2>1, <2>2
<1> QED BY <1>1, LogInvariant, PTL
=============================================================================
