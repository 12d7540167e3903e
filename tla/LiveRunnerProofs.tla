-------------------------- MODULE LiveRunnerProofs ---------------------------
(***************************************************************************)
(* Proofs about LiveRunner, for any number of runs, texts and lines: the   *)
(* variables keep their types, the rows of a live run are the lines seen,  *)
(* each once, and a run that has settled shows its log.                    *)
(***************************************************************************)
EXTENDS LiveRunner, Counting

-----------------------------------------------------------------------------
(* What a poll finds.                                                       *)

Fresh ==
    {i \in DOMAIN FileLines :
        /\ FileLines[i] \notin seen
        /\ \A j \in 1 .. i - 1 : FileLines[j] # FileLines[i]}

Nth(k) == CHOOSE i \in Fresh : Cardinality(UpTo(Fresh, i)) = k

LEMMA NewLinesAre ==
    NewLines = [k \in 1 .. Cardinality(Fresh) |-> FileLines[Nth(k)]]
BY DEF NewLines, Fresh, Nth, UpTo

LinesTyped == log \in Seq(Line) /\ cut \in {<<>>} \union {<<l>> : l \in Line}

LEMMA TextOfLines ==
    ASSUME NEW s \in Seq(Line), NEW how \in {"whole", "part"}
    PROVE  [i \in DOMAIN s |-> <<s[i], how>>] \in Seq(Text)
<1>1. \A i \in 1 .. Len(s) : <<s[i], how>> \in Text
    BY DEF Text
<1>2. DOMAIN s = 1 .. Len(s) /\ Len(s) \in Nat
    OBVIOUS
<1> QED BY <1>1, <1>2

LEMMA FileLinesTyped ==
    ASSUME LinesTyped
    PROVE  FileLines \in Seq(Text)
<1>1. log \in Seq(Line) /\ cut \in Seq(Line)
    <2>1. \A l \in Line : <<l>> \in Seq(Line)
        OBVIOUS
    <2>2. <<>> \in Seq(Line)
        OBVIOUS
    <2> QED BY <2>1, <2>2 DEF LinesTyped
<1>2. [i \in DOMAIN log |-> <<log[i], "whole">>] \in Seq(Text)
    BY <1>1, TextOfLines
<1>3. [i \in DOMAIN cut |-> <<cut[i], "part">>] \in Seq(Text)
    BY <1>1, TextOfLines
<1> QED BY <1>2, <1>3 DEF FileLines

\* The rows of s from place a on differ from each other.
DistinctFrom(s, a) == \A i, j \in a .. Len(s) : s[i] = s[j] => i = j

\* A poll finds each text of the file that it has not seen, once.
LEMMA PollFinds ==
    ASSUME FileLines \in Seq(Text)
    PROVE  /\ NewLines \in Seq(Text)
           /\ DistinctFrom(NewLines, 1)
           /\ \A t : (\E k \in 1 .. Len(NewLines) : NewLines[k] = t)
                       <=> t \notin seen /\ \E i \in 1 .. Len(FileLines) : FileLines[i] = t
<1> DEFINE n == Len(FileLines)
           c == Cardinality(Fresh)
<1>1. n \in Nat /\ DOMAIN FileLines = 1 .. n /\ \A i \in 1 .. n : FileLines[i] \in Text
    OBVIOUS
<1>2. Fresh \in SUBSET (1 .. n)
    BY <1>1 DEF Fresh
<1> HIDE DEF n
<1>3. c \in Nat
    BY <1>1, <1>2, RankIsNat
<1>4. ASSUME NEW k \in 1 .. c
      PROVE  Nth(k) \in Fresh /\ Cardinality(UpTo(Fresh, Nth(k))) = k
    <2>1. \E i \in Fresh : Cardinality(UpTo(Fresh, i)) = k
        BY <1>1, <1>2, RankExists
    <2> QED BY <2>1 DEF Nth
<1> HIDE DEF c
<1>5. NewLines = [k \in 1 .. c |-> FileLines[Nth(k)]]
    BY NewLinesAre DEF c
<1>6. \A k \in 1 .. c : FileLines[Nth(k)] \in Text
    BY <1>1, <1>2, <1>4
<1>7. NewLines \in Seq(Text) /\ Len(NewLines) = c /\ \A k \in 1 .. c : NewLines[k] = FileLines[Nth(k)]
    BY <1>3, <1>5, <1>6
<1>8. ASSUME NEW k \in 1 .. c, NEW l \in 1 .. c, NewLines[k] = NewLines[l]
      PROVE  k = l
    <2>1. PICK i : i = Nth(k)
        OBVIOUS
    <2>2. PICK j : j = Nth(l)
        OBVIOUS
    <2>3. i \in Fresh /\ j \in Fresh /\ FileLines[i] = FileLines[j]
        BY <1>4, <1>7, <1>8, <2>1, <2>2
    <2>4. i \in Nat /\ j \in Nat /\ i >= 1 /\ j >= 1
        BY <1>1, <1>2, <2>3
    <2>5. ~(i < j) /\ ~(j < i)
        BY <2>3, <2>4 DEF Fresh
    <2>6. i = j
        BY <2>4, <2>5
    <2> QED BY <1>4, <2>1, <2>2, <2>6
<1>9. ASSUME NEW t, NEW k \in 1 .. c, NewLines[k] = t
      PROVE  t \notin seen /\ \E i \in 1 .. n : FileLines[i] = t
    <2>1. Nth(k) \in Fresh /\ FileLines[Nth(k)] = t
        BY <1>4, <1>7, <1>9
    <2> QED BY <1>2, <2>1 DEF Fresh
<1>10. ASSUME NEW t, t \notin seen, NEW m \in 1 .. n, FileLines[m] = t
       PROVE  \E k \in 1 .. c : NewLines[k] = t
    <2> DEFINE At == {i \in 1 .. n : FileLines[i] = t}
    <2>1. At \in SUBSET Nat /\ m \in At
        BY <1>1, <1>10
    <2>2. PICK i \in At : \A j \in At : i <= j
        BY <2>1, LeastNat
    <2>3. i \in Fresh
        BY <1>1, <1>10, <2>2 DEF Fresh
    <2>4. PICK k : k = Cardinality(UpTo(Fresh, i))
        OBVIOUS
    <2>5. k \in 1 .. c
        BY <1>1, <1>2, <2>3, <2>4, RankInRange DEF c
    <2>6. Nth(k) = i
        BY <1>1, <1>2, <1>4, <2>3, <2>4, <2>5, RankIsItsOwn
    <2> QED BY <1>7, <2>2, <2>5, <2>6
<1> QED BY <1>7, <1>8, <1>9, <1>10 DEF DistinctFrom, n

-----------------------------------------------------------------------------
(* The runs.  Only the newest can be alive or write the log; one that ended *)
(* well has stopped writing, so the log it left stays as it is.             *)

State == {"none", "started", "running", "over", "handled"}

RunTypes ==
    /\ variant \in {"python", "cpp"}
    /\ current \in 0 .. MaxRuns
    /\ process \in BOOLEAN /\ timer \in BOOLEAN /\ suppress \in BOOLEAN
    /\ process => current # 0
    /\ script \in [Run -> State]
    /\ exit \in [Run -> {"none", "ok", "failed"}]
    /\ writer \in 0 .. current

RunOrder ==
    /\ \A r \in Run : script[r] = "none" <=> r > current
    /\ \A r \in Run : r < current => script[r] \in {"over", "handled"}
    /\ \A r \in Run : r > current => exit[r] = "none"
    /\ script[current] = "running" /\ current # 0 => writer = current
    /\ exit[current] = "ok" /\ current # 0 =>
         writer = 0 /\ script[current] \in {"over", "handled"}

\* The C++ GUI keeps the process as long as it polls, and lets it go only when
\* its signal has been handled.
KeptWhilePolling ==
    variant = "cpp" =>
        /\ timer => process
        /\ current # 0 /\ ~process => script[current] = "handled"

FileOrder ==
    /\ LinesTyped
    /\ present \in BOOLEAN
    /\ writer # 0 => present
    /\ log # <<>> \/ cut # <<>> => present

RunInv == RunTypes /\ RunOrder /\ KeptWhilePolling /\ FileOrder

LEMMA RunInBounds == MaxRuns \in Nat /\ Run \subseteq Nat /\ 0 \notin Run
BY BoundAssumption DEF Run

LEMMA CurrentIsRun ==
    ASSUME RunTypes, current # 0
    PROVE  current \in Run
BY BoundAssumption DEF RunTypes, Run

\* The newest run alone may be alive.
LEMMA AliveIsNewest ==
    ASSUME RunInv, NEW r \in Run, script[r] \in {"started", "running"}
    PROVE  r = current /\ current # 0
<1>1. r \in Nat /\ r # 0 /\ current \in Nat
    BY RunInBounds DEF RunInv, RunTypes
<1>2. ~(r > current) /\ ~(r < current)
    BY DEF RunInv, RunOrder
<1> QED BY <1>1, <1>2

LEMMA RunStart == Init => RunInv
<1> SUFFICES ASSUME Init
             PROVE  RunInv
    OBVIOUS
<1>1. RunTypes
    <2>1. /\ variant \in {"python", "cpp"} /\ current = 0 /\ writer = 0
          /\ process = FALSE /\ timer = FALSE /\ suppress = FALSE
          /\ script = [r \in Run |-> "none"] /\ exit = [r \in Run |-> "none"]
        BY DEF Init
    <2>2. script \in [Run -> State] /\ exit \in [Run -> {"none", "ok", "failed"}]
        BY <2>1 DEF State
    <2>3. 0 \in 0 .. MaxRuns /\ 0 \in 0 .. 0
        BY BoundAssumption
    <2> QED BY <2>1, <2>2, <2>3 DEF RunTypes
<1>2. RunOrder
    BY RunInBounds DEF Init, RunOrder, Run
<1>3. KeptWhilePolling
    BY DEF Init, KeptWhilePolling
<1>4. FileOrder
    <2>1. <<>> \in Seq(Line) /\ \A l \in Line : <<l>> \in Seq(Line)
        OBVIOUS
    <2> QED BY <2>1 DEF Init, FileOrder, LinesTyped
<1> QED BY <1>1, <1>2, <1>3, <1>4 DEF RunInv

\* Steps that leave the runs and the log alone, and poll no longer than before.
LEMMA RunRests ==
    ASSUME RunInv, UNCHANGED <<variant, current, process, script, exit, writer, file>>,
           suppress' \in BOOLEAN, timer' \in BOOLEAN, timer' => timer
    PROVE  RunInv'
<1>1. RunTypes' /\ RunOrder'
    BY DEF RunInv, RunTypes, RunOrder
<1>2. KeptWhilePolling'
    BY DEF RunInv, KeptWhilePolling
<1>3. FileOrder'
    BY DEF RunInv, FileOrder, LinesTyped, file
<1> QED BY <1>1, <1>2, <1>3 DEF RunInv

\* What the start of a run does to the others.
LEMMA StartEnds ==
    ASSUME RunInv, current < MaxRuns, KillLast("started") \/ StopLast("started")
    PROVE  /\ script' \in [Run -> State]
           /\ script'[current + 1] = "started"
           /\ \A r \in Run : r > current + 1 => script'[r] = "none"
           /\ \A r \in Run : r < current + 1 => script'[r] \in {"over", "handled"}
           /\ writer' \in {writer, 0} /\ suppress' \in BOOLEAN
<1>1. current \in Nat /\ current + 1 \in Run /\ Run \subseteq Nat /\ 0 \notin Run
    BY BoundAssumption DEF RunInv, RunTypes, Run
<1>2. script \in [Run -> State]
    BY DEF RunInv, RunTypes
<1>3. \A r \in Run : r > current + 1 => script[r] = "none" /\ r # current
    BY <1>1 DEF RunInv, RunOrder
<1>4. \A r \in Run : r < current => script[r] \in {"over", "handled"}
    BY DEF RunInv, RunOrder
<1>5. \A r \in Run : r < current + 1 => r < current \/ r = current
    BY <1>1
<1>6. \A r \in Run : r = current => script[r] # "none"
    BY <1>1 DEF RunInv, RunOrder
<1>7. CASE KillLast("started")
    <2>1. script' = [r \in Run |->
             CASE r = current + 1 -> "started"
               [] r = current /\ Alive(r) -> "over"
               [] OTHER -> script[r]]
        BY <1>7 DEF KillLast
    <2>2. script' \in [Run -> State]
        BY <1>2, <2>1 DEF State
    <2>3. script'[current + 1] = "started"
        BY <1>1, <2>1
    <2>4. \A r \in Run : r > current + 1 => script'[r] = "none"
        BY <1>1, <1>3, <2>1
    <2>5. ASSUME NEW r \in Run, r < current
          PROVE  script'[r] \in {"over", "handled"}
        BY <1>1, <1>4, <2>1, <2>5
    <2>6. ASSUME NEW r \in Run, r = current
          PROVE  script'[r] \in {"over", "handled"}
        <3>1. script[r] \in State /\ script[r] # "none"
            BY <1>2, <1>6, <2>6
        <3>2. script'[r] = IF Alive(r) THEN "over" ELSE script[r]
            BY <1>1, <2>1, <2>6
        <3>3. Alive(r) <=> script[r] \in {"started", "running"}
            BY <1>1 DEF Alive
        <3> QED BY <3>1, <3>2, <3>3 DEF State
    <2>7. writer' = writer /\ suppress' \in BOOLEAN
        BY <1>7 DEF KillLast
    <2> QED BY <1>5, <2>2, <2>3, <2>4, <2>5, <2>6, <2>7
<1>8. CASE StopLast("started")
    <2>1. variant = "cpp" /\ script' = [r \in Run |->
             CASE r = current + 1 -> "started"
               [] r = current /\ process -> "handled"
               [] OTHER -> script[r]]
        BY <1>8 DEF StopLast
    <2>2. script' \in [Run -> State]
        BY <1>2, <2>1 DEF State
    <2>3. script'[current + 1] = "started"
        BY <1>1, <2>1
    <2>4. \A r \in Run : r > current + 1 => script'[r] = "none"
        BY <1>1, <1>3, <2>1
    <2>5. ASSUME NEW r \in Run, r < current
          PROVE  script'[r] \in {"over", "handled"}
        BY <1>1, <1>4, <2>1, <2>5
    <2>6. ASSUME NEW r \in Run, r = current
          PROVE  script'[r] \in {"over", "handled"}
        <3>1. r # current + 1
            BY <1>1, <2>6
        <3>2. process => script'[r] = "handled"
            BY <2>1, <2>6, <3>1
        <3>3. ~process => script'[r] = script[r]
            BY <2>1, <3>1
        <3>4. ~process => script[r] = "handled"
            BY <1>1, <2>1, <2>6 DEF RunInv, KeptWhilePolling
        <3> QED BY <3>2, <3>3, <3>4
    <2>7. writer' \in {writer, 0}
        BY <1>8 DEF StopLast
    <2>8. suppress' \in BOOLEAN
        BY <1>8 DEF StopLast, RunInv, RunTypes
    <2> QED BY <1>5, <2>2, <2>3, <2>4, <2>5, <2>6, <2>7, <2>8
<1> QED BY <1>7, <1>8

LEMMA RunAtStart ==
    ASSUME RunInv, RunTopology
    PROVE  RunInv'
<1>1. /\ current < MaxRuns /\ current' = current + 1 /\ process' = TRUE /\ timer' = TRUE
      /\ KillLast("started") \/ StopLast("started")
      /\ exit' = [r \in Run |-> IF r = current /\ Alive(r) THEN "failed" ELSE exit[r]]
      /\ UNCHANGED <<variant, present, log, cut>>
    BY DEF RunTopology, NextProcess, file
<1>2. current \in Nat /\ current + 1 \in Run /\ Run \subseteq Nat /\ 0 \notin Run /\ MaxRuns \in Nat
    BY <1>1, BoundAssumption DEF RunInv, RunTypes, Run
<1>3. /\ script' \in [Run -> State]
      /\ script'[current + 1] = "started"
      /\ \A r \in Run : r > current + 1 => script'[r] = "none"
      /\ \A r \in Run : r < current + 1 => script'[r] \in {"over", "handled"}
      /\ writer' \in {writer, 0} /\ suppress' \in BOOLEAN
    BY <1>1, StartEnds
<1>4. /\ exit' \in [Run -> {"none", "ok", "failed"}]
      /\ \A r \in Run : r > current => exit'[r] = "none"
    <2>1. exit \in [Run -> {"none", "ok", "failed"}] /\ \A r \in Run : r > current => exit[r] = "none"
        BY DEF RunInv, RunTypes, RunOrder
    <2> QED BY <1>1, <1>2, <2>1
<1>5. RunTypes'
    <2>1. writer' \in 0 .. current + 1
        BY <1>2, <1>3 DEF RunInv, RunTypes
    <2>2. current + 1 \in 0 .. MaxRuns
        BY <1>1, <1>2
    <2> QED BY <1>1, <1>2, <1>3, <1>4, <2>1, <2>2 DEF RunInv, RunTypes
<1>6. RunOrder'
    <2>1. \A r \in Run : r > current + 1 \/ r = current + 1 \/ r < current + 1
        BY <1>2
    <2>2. \A r \in Run : script'[r] = "none" <=> r > current + 1
        BY <1>2, <1>3, <2>1
    <2>3. \A r \in Run : r > current + 1 => r > current
        BY <1>2
    <2>4. exit'[current + 1] = "none"
        BY <1>2, <1>4
    <2> QED BY <1>1, <1>3, <1>4, <2>2, <2>3, <2>4 DEF RunOrder
<1>7. KeptWhilePolling'
    BY <1>1 DEF KeptWhilePolling
<1>8. FileOrder'
    BY <1>1, <1>3 DEF RunInv, FileOrder, LinesTyped
<1> QED BY <1>5, <1>6, <1>7, <1>8 DEF RunInv

\* A run that is alive goes on, or is over.
LEMMA RunAtScript ==
    ASSUME RunInv, NEW r \in Run, Launch(r) \/ ScriptEnds(r) \/ ScriptFails(r)
    PROVE  RunInv'
<1>1. script[r] \in {"started", "running"} /\ UNCHANGED <<variant, current, process, suppress, timer>>
    BY DEF Launch, ScriptEnds, ScriptFails, gui
<1>2. r = current /\ current # 0
    BY <1>1, AliveIsNewest
<1>3. RunTypes /\ RunOrder /\ KeptWhilePolling /\ FileOrder
    BY DEF RunInv
<1>4. current \in Nat /\ Run \subseteq Nat
    BY <1>3, RunInBounds DEF RunTypes
<1>5. KeptWhilePolling'
    BY <1>1, <1>2, <1>3 DEF KeptWhilePolling
<1>6. CASE Launch(r)
    <2>1. script' = [script EXCEPT ![r] = "running"] /\ writer' = r /\ exit' = exit
          /\ present' = TRUE /\ log' = <<>> /\ cut' = <<>> /\ script[r] = "started"
        BY <1>6 DEF Launch
    <2>2. RunTypes'
        BY <1>1, <1>2, <1>3, <1>4, <2>1 DEF RunTypes, State
    <2>3. RunOrder'
        BY <1>1, <1>2, <1>3, <1>4, <2>1 DEF RunTypes, RunOrder
    <2>4. FileOrder'
        BY <2>1 DEF FileOrder, LinesTyped
    <2> QED BY <1>5, <2>2, <2>3, <2>4 DEF RunInv
<1>7. CASE ScriptEnds(r) \/ ScriptFails(r)
    <2>1. PICK how \in {"ok", "failed"} :
            /\ script' = [script EXCEPT ![r] = "over"] /\ exit' = [exit EXCEPT ![r] = how]
            /\ how = "ok" => script[r] = "running"
        BY <1>7 DEF ScriptEnds, ScriptFails
    <2>2. writer' = (IF writer = r THEN 0 ELSE writer) /\ UNCHANGED <<present, log, cut>>
        BY <1>7 DEF ScriptEnds, ScriptFails, file
    <2>3. RunTypes'
        BY <1>1, <1>2, <1>3, <1>4, <2>1, <2>2 DEF RunTypes, State
    <2>4. how = "ok" => writer' = 0
        BY <1>2, <1>3, <2>1, <2>2 DEF RunOrder
    <2>5. RunOrder'
        BY <1>1, <1>2, <1>3, <1>4, <2>1, <2>4 DEF RunTypes, RunOrder
    <2>6. FileOrder'
        BY <1>3, <2>2 DEF FileOrder, LinesTyped
    <2> QED BY <1>5, <2>3, <2>5, <2>6 DEF RunInv
<1> QED BY <1>6, <1>7

LEMMA RunAtWrite ==
    ASSUME RunInv, (\E l \in Line : WriteLine(l) \/ WritePart(l)) \/ WriteRest
    PROVE  RunInv'
<1>1. writer # 0 /\ UNCHANGED <<variant, current, process, suppress, timer, script, exit, writer, present>>
    BY DEF WriteLine, WritePart, WriteRest, gui
<1>2. RunTypes /\ RunOrder /\ KeptWhilePolling /\ FileOrder
    BY DEF RunInv
<1>3. RunTypes' /\ RunOrder'
    BY <1>1, <1>2 DEF RunTypes, RunOrder
<1>4. KeptWhilePolling'
    BY <1>1, <1>2 DEF KeptWhilePolling
<1>5. LinesTyped'
    <2>1. log \in Seq(Line) /\ (cut = <<>> \/ \E l \in Line : cut = <<l>>)
        BY <1>2 DEF FileOrder, LinesTyped
    <2>2. \A l \in Line : Append(log, l) \in Seq(Line) /\ log \o <<l>> \in Seq(Line)
        BY <2>1
    <2>3. CASE \E l \in Line : WriteLine(l) \/ WritePart(l)
        BY <2>1, <2>2, <2>3 DEF WriteLine, WritePart, LinesTyped
    <2>4. CASE WriteRest
        BY <2>1, <2>2, <2>4 DEF WriteRest, LinesTyped
    <2> QED BY <2>3, <2>4
<1>6. FileOrder'
    BY <1>1, <1>2, <1>5 DEF FileOrder
<1> QED BY <1>3, <1>4, <1>6 DEF RunInv

LEMMA RunAtPoll ==
    ASSUME RunInv, PollLive
    PROVE  RunInv'
<1>1. /\ timer /\ timer' = ~LastPoll /\ process' = (process /\ ~LastPoll)
      /\ UNCHANGED <<variant, current, suppress, script, exit, writer, present, log, cut>>
    BY DEF PollLive, AddNewLines, file
<1>2. RunTypes /\ RunOrder /\ KeptWhilePolling /\ FileOrder
    BY DEF RunInv
<1>3. RunTypes' /\ RunOrder'
    BY <1>1, <1>2 DEF RunTypes, RunOrder
<1>4. KeptWhilePolling'
    BY <1>1, <1>2 DEF KeptWhilePolling, LastPoll
<1>5. FileOrder'
    BY <1>1, <1>2 DEF FileOrder, LinesTyped
<1> QED BY <1>3, <1>4, <1>5 DEF RunInv

LEMMA RunAtFinish ==
    ASSUME RunInv, NEW r \in Run, RunnerFinished(r)
    PROVE  RunInv'
<1>1. /\ script[r] = "over" /\ script' = [script EXCEPT ![r] = "handled"]
      /\ UNCHANGED <<variant, current, process, exit, writer, present, log, cut>>
    BY DEF RunnerFinished, FinishedRun, file
<1>2. suppress' \in BOOLEAN /\ timer' \in BOOLEAN /\ (timer' => timer)
    <2>1. suppress \in BOOLEAN /\ timer \in BOOLEAN
        BY DEF RunInv, RunTypes
    <2>2. CASE Suppressed
        BY <2>1, <2>2 DEF Suppressed
    <2>3. CASE Reported(r) /\ timer' = (timer /\ variant = "cpp")
        <3>1. suppress' = suppress
            BY <2>3 DEF Reported
        <3> QED BY <2>1, <2>3, <3>1
    <2> QED BY <2>2, <2>3 DEF RunnerFinished
<1>3. RunTypes /\ RunOrder /\ KeptWhilePolling /\ FileOrder
    BY DEF RunInv
<1>4. RunTypes'
    BY <1>1, <1>2, <1>3 DEF RunTypes, State
<1>5. RunOrder'
    BY <1>1, <1>3 DEF RunTypes, RunOrder
<1>6. KeptWhilePolling'
    BY <1>1, <1>2, <1>3 DEF RunTypes, KeptWhilePolling
<1>7. FileOrder'
    BY <1>1, <1>3 DEF FileOrder, LinesTyped
<1> QED BY <1>4, <1>5, <1>6, <1>7 DEF RunInv

LEMMA RunStep == RunInv /\ [Next]_vars => RunInv'
<1> SUFFICES ASSUME RunInv, [Next]_vars
             PROVE  RunInv'
    OBVIOUS
<1>1. CASE ShowOther
    BY <1>1, RunRests DEF ShowOther, RunInv, RunTypes
<1>2. CASE Runner
    BY <1>2, RunAtScript, RunAtWrite DEF Runner
<1>3. CASE Finished
    BY <1>3, RunAtFinish DEF Finished
<1>4. CASE UNCHANGED vars
    BY <1>4, RunRests DEF vars, gui, RunInv, RunTypes
<1> QED BY <1>1, <1>2, <1>3, <1>4, RunAtStart, RunAtPoll DEF Next

-----------------------------------------------------------------------------
(* The table.  While a run is polled it is the fabric and the texts seen;  *)
(* when its finish has loaded the log it is the log, to which the last     *)
(* poll of the C++ GUI may add texts of it once more.                      *)

Shown == Text \union {Fabric, Opened}

TableTypes ==
    /\ seen \subseteq Text
    /\ table \in Seq(Shown)
    /\ opened \in BOOLEAN
    /\ settled \in 0 .. current

Live ==
    /\ Len(table) >= 1 /\ table[1] = Fabric
    /\ \A t : t \in seen <=> \E i \in 2 .. Len(table) : table[i] = t
    /\ DistinctFrom(table, 2)

LiveInv == timer /\ ~opened /\ settled = 0 => Live

Loaded ==
    /\ script[current] = "handled" /\ exit[current] = "ok"
    /\ Len(table) >= Len(FileLines)
    /\ \A i \in 1 .. Len(FileLines) : table[i] = FileLines[i]
    /\ \A i \in Len(FileLines) + 1 .. Len(table) :
         \E j \in 1 .. Len(FileLines) : table[i] = FileLines[j]
    /\ DistinctFrom(table, Len(FileLines) + 1)
    /\ Len(table) > Len(FileLines) => variant = "cpp" /\ ~timer
    /\ variant = "python" => ~timer

LoadedInv == settled # 0 /\ settled = current => Loaded

TableInv == TableTypes /\ LiveInv /\ LoadedInv

LEMMA FileIsTyped ==
    ASSUME RunInv
    PROVE  FileLines \in Seq(Text)
BY FileLinesTyped DEF RunInv, FileOrder

\* Adding the lines a poll finds.
LEMMA JoinedAt ==
    ASSUME NEW X, NEW s \in Seq(X), NEW t \in Seq(X)
    PROVE  /\ s \o t \in Seq(X) /\ Len(s \o t) = Len(s) + Len(t)
           /\ \A i \in 1 .. Len(s) : (s \o t)[i] = s[i]
           /\ \A i \in 1 .. Len(t) : (s \o t)[Len(s) + i] = t[i]
OBVIOUS

LEMMA JoinedPlaces ==
    ASSUME NEW m \in Nat, NEW n \in Nat, NEW a \in Nat, a >= 1, NEW i \in a .. m + n
    PROVE  i \in a .. m \/ \E k \in 1 .. n : i = m + k
<1>1. i > m => i - m \in 1 .. n /\ i = m + (i - m)
    OBVIOUS
<1> QED BY <1>1

\* Distinct rows stay so when distinct rows that are not among them follow.
LEMMA DistinctJoined ==
    ASSUME NEW X, NEW s \in Seq(X), NEW t \in Seq(X), NEW a \in Nat, a >= 1,
           DistinctFrom(s, a), DistinctFrom(t, 1),
           \A i \in a .. Len(s) : \A k \in 1 .. Len(t) : s[i] # t[k]
    PROVE  DistinctFrom(s \o t, a)
<1> SUFFICES ASSUME NEW i \in a .. Len(s \o t), NEW j \in a .. Len(s \o t),
                    (s \o t)[i] = (s \o t)[j]
             PROVE  i = j
    BY DEF DistinctFrom
<1>1. PICK u : u = s \o t
    OBVIOUS
<1>2. /\ Len(u) = Len(s) + Len(t) /\ Len(s) \in Nat /\ Len(t) \in Nat
      /\ \A n \in 1 .. Len(s) : u[n] = s[n]
      /\ \A n \in 1 .. Len(t) : u[Len(s) + n] = t[n]
    BY <1>1, JoinedAt
<1>3. i \in a .. Len(s) \/ \E k \in 1 .. Len(t) : i = Len(s) + k
    BY <1>1, <1>2, JoinedPlaces
<1>4. j \in a .. Len(s) \/ \E k \in 1 .. Len(t) : j = Len(s) + k
    BY <1>1, <1>2, JoinedPlaces
<1>5. \A n \in a .. Len(s) : u[n] = s[n]
    BY <1>2
<1>6. u[i] = u[j]
    BY <1>1
<1> QED BY <1>2, <1>3, <1>4, <1>5, <1>6 DEF DistinctFrom

LEMMA TableStart == Init => TableInv
<1> SUFFICES ASSUME Init
             PROVE  TableInv
    OBVIOUS
<1>1. timer = FALSE /\ seen = {} /\ table = <<>> /\ opened = FALSE /\ settled = 0 /\ current = 0
    BY DEF Init
<1>2. <<>> \in Seq(Shown) /\ 0 \in 0 .. 0
    OBVIOUS
<1> QED BY <1>1, <1>2 DEF TableInv, TableTypes, LiveInv, LoadedInv

\* Steps that leave the table and what was read of the log alone.
LEMMA TableRests ==
    ASSUME TableInv, UNCHANGED <<variant, current, seen, table, opened, settled>>,
           timer' \in BOOLEAN, timer' => timer,
           settled # 0 /\ settled = current =>
               UNCHANGED <<log, cut>> /\ script'[current] = script[current]
               /\ exit'[current] = exit[current]
    PROVE  TableInv'
<1>1. TableTypes'
    BY DEF TableInv, TableTypes
<1>2. LiveInv'
    BY DEF TableInv, LiveInv, Live, DistinctFrom
<1>3. LoadedInv'
    <2> SUFFICES ASSUME settled # 0, settled = current
                 PROVE  Loaded'
        BY DEF LoadedInv
    <2>1. FileLines' = FileLines
        BY DEF FileLines
    <2>2. Loaded
        BY DEF TableInv, LoadedInv
    <2> QED BY <2>1, <2>2 DEF Loaded, DistinctFrom
<1> QED BY <1>1, <1>2, <1>3 DEF TableInv

\* The log of a run that has settled is not written any more.
LEMMA SettledIsQuiet ==
    ASSUME RunInv, TableInv, Runner
    PROVE  ~(settled # 0 /\ settled = current)
<1> SUFFICES ASSUME settled # 0, settled = current
             PROVE  FALSE
    OBVIOUS
<1>1. script[current] = "handled" /\ exit[current] = "ok" /\ current # 0
    BY DEF TableInv, LoadedInv, Loaded
<1>2. writer = 0
    BY <1>1 DEF RunInv, RunOrder
<1>3. ASSUME NEW r \in Run, script[r] \in {"started", "running"}
      PROVE  FALSE
    BY <1>1, <1>3, AliveIsNewest
<1> QED BY <1>2, <1>3 DEF Runner, Launch, ScriptEnds, ScriptFails, WriteLine, WritePart, WriteRest

LEMMA TableAtStart ==
    ASSUME RunInv, TableInv, RunTopology \/ ShowOther
    PROVE  TableInv'
<1>1. CASE RunTopology
    <2>1. /\ table' = <<Fabric>> /\ seen' = {} /\ opened' = FALSE /\ settled' = 0
          /\ current' = current + 1
        BY <1>1 DEF RunTopology, NextProcess
    <2>2. <<Fabric>> \in Seq(Shown) /\ Len(<<Fabric>>) = 1 /\ <<Fabric>>[1] = Fabric
        BY DEF Shown
    <2>3. settled' \in 0 .. current'
        BY <2>1 DEF RunInv, RunTypes
    <2>4. Live'
        BY <2>1, <2>2 DEF Live, DistinctFrom
    <2> QED BY <2>1, <2>2, <2>3, <2>4 DEF TableInv, TableTypes, LiveInv, LoadedInv
<1>2. CASE ShowOther
    <2>1. table' = <<Opened>> /\ opened' = TRUE /\ settled' = 0 /\ UNCHANGED <<current, seen>>
        BY <1>2 DEF ShowOther
    <2>2. <<Opened>> \in Seq(Shown)
        BY DEF Shown
    <2>3. settled' \in 0 .. current'
        BY <2>1 DEF RunInv, RunTypes
    <2> QED BY <2>1, <2>2, <2>3 DEF TableInv, TableTypes, LiveInv, LoadedInv
<1> QED BY <1>1, <1>2

LEMMA TableAtRunner ==
    ASSUME RunInv, TableInv, Runner
    PROVE  TableInv'
<1>1. UNCHANGED <<variant, current, timer, seen, table, opened, settled>>
    BY DEF Runner, Launch, ScriptEnds, ScriptFails, WriteLine, WritePart, WriteRest, gui
<1>2. timer \in BOOLEAN
    BY DEF RunInv, RunTypes
<1> QED BY <1>1, <1>2, SettledIsQuiet, TableRests

LEMMA TableAtPoll ==
    ASSUME RunInv, TableInv, PollLive
    PROVE  TableInv'
<1>1. /\ timer /\ timer' = ~LastPoll /\ table' = table \o NewLines
      /\ seen' = seen \union Range(NewLines)
      /\ UNCHANGED <<variant, current, opened, settled, script, exit, log, cut>>
    BY DEF PollLive, AddNewLines, file
<1>2. FileLines \in Seq(Text) /\ FileLines' = FileLines
    BY <1>1, FileIsTyped DEF FileLines
<1>3. PICK new : new = NewLines
    OBVIOUS
<1>4. /\ new \in Seq(Text) /\ DistinctFrom(new, 1)
      /\ \A t : (\E k \in 1 .. Len(new) : new[k] = t)
                  <=> t \notin seen /\ \E i \in 1 .. Len(FileLines) : FileLines[i] = t
    BY <1>2, <1>3, PollFinds
<1>5. new \in Seq(Shown) /\ table \in Seq(Shown) /\ Len(new) \in Nat /\ Len(table) \in Nat
    BY <1>4 DEF Shown, TableInv, TableTypes
<1>6. PICK m \in Nat : m = Len(table)
    BY <1>5
<1>7. /\ table' \in Seq(Shown) /\ Len(table') = m + Len(new)
      /\ \A i \in 1 .. m : table'[i] = table[i]
      /\ \A k \in 1 .. Len(new) : table'[m + k] = new[k]
    BY <1>1, <1>3, <1>5, <1>6, JoinedAt
<1>8. \A t : t \in seen' <=> t \in seen \/ \E k \in 1 .. Len(new) : new[k] = t
    <2>1. Range(new) = {new[k] : k \in 1 .. Len(new)}
        BY <1>5 DEF Range
    <2> QED BY <1>1, <1>3, <2>1
<1>9. TableTypes'
    <2>1. seen' \subseteq Text
        BY <1>4, <1>8 DEF TableInv, TableTypes
    <2> QED BY <1>1, <1>7, <2>1 DEF TableInv, TableTypes
<1>10. LiveInv'
    <2> SUFFICES ASSUME ~opened, settled = 0
                 PROVE  Live'
        BY <1>1 DEF LiveInv
    <2>1. Live
        BY <1>1 DEF TableInv, LiveInv
    <2>2. m >= 1 /\ table'[1] = Fabric
        BY <1>6, <1>7, <2>1 DEF Live
    <2>3. ASSUME NEW t
          PROVE  t \in seen' <=> \E i \in 2 .. Len(table') : table'[i] = t
        <3>1. \A i \in 2 .. m : i \in 1 .. m /\ i \in 2 .. m + Len(new)
            BY <1>5
        <3>2. \A k \in 1 .. Len(new) : m + k \in 2 .. m + Len(new)
            BY <1>5, <2>2
        <3>3. \A i \in 2 .. m + Len(new) : i \in 2 .. m \/ \E k \in 1 .. Len(new) : i = m + k
            BY <1>5, JoinedPlaces
        <3>4. t \in seen <=> \E i \in 2 .. m : table[i] = t
            BY <1>6, <2>1 DEF Live
        <3>5. Len(table') = m + Len(new)
            BY <1>7
        <3>6. ASSUME t \in seen'
              PROVE  \E i \in 2 .. m + Len(new) : table'[i] = t
            <4>1. CASE t \in seen
                <5>1. PICK i \in 2 .. m : table[i] = t
                    BY <3>4, <4>1
                <5>2. i \in 1 .. m /\ i \in 2 .. m + Len(new)
                    BY <3>1
                <5>3. table'[i] = t
                    BY <1>7, <5>1, <5>2
                <5> QED BY <5>2, <5>3
            <4>2. CASE \E k \in 1 .. Len(new) : new[k] = t
                <5>1. PICK k \in 1 .. Len(new) : new[k] = t
                    BY <4>2
                <5>2. m + k \in 2 .. m + Len(new)
                    BY <3>2
                <5>3. table'[m + k] = t
                    BY <1>7, <5>1
                <5> QED BY <5>2, <5>3
            <4> QED BY <1>8, <3>6, <4>1, <4>2
        <3>7. ASSUME NEW i \in 2 .. m + Len(new), table'[i] = t
              PROVE  t \in seen'
            <4>1. CASE i \in 2 .. m
                <5>1. table[i] = t
                    BY <1>7, <3>1, <3>7, <4>1
                <5> QED BY <1>8, <3>4, <4>1, <5>1
            <4>2. CASE \E k \in 1 .. Len(new) : i = m + k
                <5>1. PICK k \in 1 .. Len(new) : i = m + k
                    BY <4>2
                <5>2. new[k] = t
                    BY <1>7, <3>7, <5>1
                <5> QED BY <1>8, <5>2
            <4> QED BY <3>3, <4>1, <4>2
        <3> QED BY <3>5, <3>6, <3>7
    <2>4. DistinctFrom(table', 2)
        <3>1. \A i \in 2 .. Len(table) : \A k \in 1 .. Len(new) : table[i] # new[k]
            BY <1>4, <2>1 DEF Live
        <3>2. DistinctFrom(table, 2)
            BY <2>1 DEF Live
        <3>3. DistinctFrom(table \o new, 2)
            BY <1>4, <1>5, <3>1, <3>2, DistinctJoined
        <3> QED BY <1>1, <1>3, <3>3
    <2>5. Len(table') >= 1
        BY <1>5, <1>7, <2>2
    <2> QED BY <2>2, <2>3, <2>4, <2>5 DEF Live
<1>11. LoadedInv'
    <2> SUFFICES ASSUME settled # 0, settled = current
                 PROVE  Loaded'
        BY <1>1 DEF LoadedInv
    <2>1. Loaded
        BY DEF TableInv, LoadedInv
    <2>2. PICK n \in Nat : n = Len(FileLines)
        BY <1>2
    <2>3. m = n /\ variant = "cpp"
        <3>1. variant \in {"python", "cpp"}
            BY DEF RunInv, RunTypes
        <3> QED BY <1>1, <1>6, <2>1, <2>2, <3>1 DEF Loaded
    <2>4. timer' = FALSE
        BY <1>1, <2>1, <2>3 DEF LastPoll, Loaded, RunInv, KeptWhilePolling
    <2>5. \A i \in 1 .. n : table'[i] = FileLines[i]
        BY <1>7, <2>1, <2>2, <2>3 DEF Loaded
    <2>6. ASSUME NEW i \in n + 1 .. Len(table')
          PROVE  \E k \in 1 .. Len(new) : i = n + k /\ table'[i] = new[k]
        <3>1. i - n \in 1 .. Len(new) /\ i = n + (i - n)
            BY <1>5, <1>7, <2>3
        <3> QED BY <1>7, <2>3, <3>1
    <2>7. \A i \in n + 1 .. Len(table') : \E j \in 1 .. n : table'[i] = FileLines[j]
        BY <1>4, <2>2, <2>6
    <2>8. \A i, j \in n + 1 .. Len(table') : table'[i] = table'[j] => i = j
        BY <1>4, <2>6 DEF DistinctFrom
    <2>9. Len(table') >= n
        BY <1>5, <1>7, <2>3
    <2> QED BY <1>1, <1>2, <2>1, <2>2, <2>3, <2>4, <2>5, <2>7, <2>8, <2>9 DEF Loaded, DistinctFrom
<1> QED BY <1>9, <1>10, <1>11 DEF TableInv

LEMMA TableAtFinish ==
    ASSUME RunInv, TableInv, NEW r \in Run, RunnerFinished(r)
    PROVE  TableInv'
<1>1. /\ script[r] = "over" /\ script' = [script EXCEPT ![r] = "handled"]
      /\ UNCHANGED <<variant, current, seen, exit, log, cut>>
    BY DEF RunnerFinished, FinishedRun, file
<1>2. settled # 0 /\ settled = current => script'[current] = script[current]
    <2>1. settled # 0 /\ settled = current => script[current] = "handled"
        BY DEF TableInv, LoadedInv, Loaded
    <2> QED BY <1>1, <2>1
<1>3. timer \in BOOLEAN /\ r \in 0 .. current /\ r # 0
    <2>1. r \in Nat /\ r # 0 /\ current \in Nat /\ ~(r > current)
        BY <1>1, RunInBounds DEF RunInv, RunTypes, RunOrder
    <2> QED BY <2>1 DEF RunInv, RunTypes
<1>4. CASE Suppressed
    BY <1>1, <1>2, <1>3, <1>4, TableRests DEF Suppressed
<1>5. CASE Reported(r) /\ timer' = (timer /\ variant = "cpp")
    <2>1. timer' \in BOOLEAN /\ (timer' => timer)
        BY <1>3, <1>5
    <2>2. CASE UNCHANGED <<table, opened, settled>>
        BY <1>1, <1>2, <2>1, <2>2, TableRests
    <2>3. CASE LoadLog /\ settled' = (IF Loads THEN r ELSE settled) /\ exit[r] = "ok"
        <3>1. CASE ~Loads
            <4>1. table' = table /\ settled' = settled /\ opened' = opened
                <5>1. opened \in BOOLEAN
                    BY DEF TableInv, TableTypes
                <5> QED BY <2>3, <3>1, <5>1 DEF LoadLog
            <4> QED BY <2>2, <4>1
        <3>2. CASE Loads
            <4>1. table' = FileLines /\ settled' = r /\ opened' = FALSE
                BY <2>3, <3>2 DEF LoadLog
            <4>2. FileLines' = FileLines /\ FileLines \in Seq(Text)
                BY <1>1, FileIsTyped DEF FileLines
            <4>3. TableTypes'
                <5>1. FileLines \in Seq(Shown)
                    BY <4>2 DEF Shown
                <5> QED BY <1>1, <1>3, <4>1, <5>1 DEF TableInv, TableTypes
            <4>4. LiveInv'
                BY <1>3, <4>1 DEF LiveInv
            <4>5. LoadedInv'
                <5> SUFFICES ASSUME r = current
                             PROVE  Loaded'
                    BY <1>1, <4>1 DEF LoadedInv
                <5>1. script'[current] = "handled" /\ exit'[current] = "ok"
                    BY <1>1, <2>3 DEF RunInv, RunTypes
                <5>2. PICK n \in Nat : n = Len(FileLines)
                    BY <4>2
                <5>3. \A i \in n + 1 .. n : FALSE
                    OBVIOUS
                <5>4. variant = "python" => ~timer'
                    BY <1>5
                <5> QED BY <1>1, <4>1, <4>2, <5>1, <5>2, <5>3, <5>4 DEF Loaded, DistinctFrom
            <4> QED BY <4>3, <4>4, <4>5 DEF TableInv
        <3> QED BY <3>1, <3>2
    <2> QED BY <1>5, <2>2, <2>3 DEF Reported
<1> QED BY <1>4, <1>5 DEF RunnerFinished

LEMMA TableStep == RunInv /\ TableInv /\ [Next]_vars => TableInv'
<1> SUFFICES ASSUME RunInv, TableInv, [Next]_vars
             PROVE  TableInv'
    OBVIOUS
<1>1. CASE UNCHANGED vars
    <2>1. timer \in BOOLEAN
        BY DEF RunInv, RunTypes
    <2> QED BY <1>1, <2>1, TableRests DEF vars, gui, file
<1> QED BY <1>1, TableAtStart, TableAtRunner, TableAtPoll, TableAtFinish DEF Next, Finished

-----------------------------------------------------------------------------
(* The theorems.                                                            *)

LiveRunnerInv == RunInv /\ TableInv

LEMMA LiveRunnerAlways ==
    /\ Init => LiveRunnerInv
    /\ LiveRunnerInv /\ [Next]_vars => LiveRunnerInv'
<1>1. Init => LiveRunnerInv
    BY RunStart, TableStart DEF LiveRunnerInv
<1>2. LiveRunnerInv /\ [Next]_vars => LiveRunnerInv'
    BY RunStep, TableStep DEF LiveRunnerInv
<1> QED BY <1>1, <1>2

LEMMA InvIsTyped == LiveRunnerInv => TypeOK
<1> SUFFICES ASSUME LiveRunnerInv
             PROVE  TypeOK
    OBVIOUS
<1>1. RunTypes /\ RunOrder /\ FileOrder /\ TableTypes
    BY DEF LiveRunnerInv, RunInv, TableInv
<1>2. FileLines # <<>> => present
    <2>1. log = <<>> /\ cut = <<>> => FileLines = <<>>
        BY DEF FileLines
    <2> QED BY <1>1, <2>1 DEF FileOrder
<1> QED BY <1>1, <1>2 DEF TypeOK, RunTypes, RunOrder, FileOrder, LinesTyped, TableTypes, State, Shown

\* As many texts as rows, when no two rows are the same.
LEMMA SizeOfDistinct ==
    ASSUME NEW X, NEW s \in Seq(X), DistinctFrom(s, 1)
    PROVE  Cardinality(Range(s)) = Len(s)
<1>1. Len(s) \in Nat /\ DOMAIN s = 1 .. Len(s) /\ s \in [1 .. Len(s) -> Range(s)]
    BY DEF Range
<1>2. s \in Surjection(1 .. Len(s), Range(s))
    BY <1>1 DEF Surjection, Range
<1>3. s \in Injection(1 .. Len(s), Range(s))
    BY <1>1 DEF Injection, IsInjective, DistinctFrom
<1>4. IsFiniteSet(1 .. Len(s)) /\ Cardinality(1 .. Len(s)) = Len(s)
    BY <1>1, FS_Interval
<1> QED BY <1>2, <1>3, <1>4, FS_Surjection

LEMMA PartOf ==
    ASSUME NEW X, NEW s \in Seq(X), NEW a \in Nat, a >= 1, a <= Len(s) + 1
    PROVE  /\ SubSeq(s, a, Len(s)) \in Seq(X) /\ Len(SubSeq(s, a, Len(s))) = Len(s) - a + 1
           /\ \A k \in 1 .. Len(s) - a + 1 : SubSeq(s, a, Len(s))[k] = s[a + k - 1]
OBVIOUS

LEMMA DistinctPart ==
    ASSUME NEW X, NEW s \in Seq(X), NEW a \in Nat, a >= 1, a <= Len(s) + 1, DistinctFrom(s, a)
    PROVE  DistinctFrom(SubSeq(s, a, Len(s)), 1)
<1>1. PICK t : t = SubSeq(s, a, Len(s))
    OBVIOUS
<1>2. Len(t) = Len(s) - a + 1 /\ \A k \in 1 .. Len(t) : t[k] = s[a + k - 1]
    BY <1>1, PartOf
<1>3. \A k \in 1 .. Len(t) : a + k - 1 \in a .. Len(s)
    BY <1>2
<1>4. \A k, l \in 1 .. Len(t) : a + k - 1 = a + l - 1 => k = l
    OBVIOUS
<1>5. DistinctFrom(t, 1)
    BY <1>2, <1>3, <1>4 DEF DistinctFrom
<1> QED BY <1>1, <1>5

LEMMA LiveRows == LiveRunnerInv => LiveRowsAreSeen
<1> SUFFICES ASSUME LiveRunnerInv, timer, ~opened, settled = 0
             PROVE  /\ Head(table) = Fabric
                    /\ Range(Tail(table)) = seen
                    /\ Cardinality(seen) = Len(Tail(table))
    BY DEF LiveRowsAreSeen
<1>1. Live /\ table \in Seq(Shown)
    BY DEF LiveRunnerInv, TableInv, LiveInv, TableTypes
<1>2. PICK rest : rest = Tail(table)
    OBVIOUS
<1>3. Len(table) >= 1 /\ Head(table) = Fabric
    BY <1>1 DEF Live
<1>4. Len(table) \in Nat /\ rest = SubSeq(table, 2, Len(table))
    BY <1>1, <1>2, <1>3
<1>5. /\ rest \in Seq(Shown) /\ Len(rest) = Len(table) - 1
      /\ \A k \in 1 .. Len(rest) : rest[k] = table[k + 1]
    <2>1. /\ rest \in Seq(Shown) /\ Len(rest) = Len(table) - 2 + 1
          /\ \A k \in 1 .. Len(table) - 2 + 1 : rest[k] = table[2 + k - 1]
        <3>1. 2 \in Nat /\ 2 >= 1 /\ 2 <= Len(table) + 1
            BY <1>3, <1>4
        <3>2. /\ SubSeq(table, 2, Len(table)) \in Seq(Shown)
              /\ Len(SubSeq(table, 2, Len(table))) = Len(table) - 2 + 1
              /\ \A k \in 1 .. Len(table) - 2 + 1 : SubSeq(table, 2, Len(table))[k] = table[2 + k - 1]
            BY <1>1, <3>1, PartOf
        <3> QED BY <1>4, <3>2
    <2>2. Len(table) - 2 + 1 = Len(table) - 1 /\ \A k \in Nat : 2 + k - 1 = k + 1
        BY <1>4
    <2>3. rest \in Seq(Shown) /\ Len(rest) = Len(table) - 1
        BY <2>1, <2>2
    <2>4. \A k \in 1 .. Len(rest) : rest[k] = table[k + 1]
        <3>1. TAKE k \in 1 .. Len(rest)
        <3>2. k \in 1 .. Len(table) - 2 + 1 /\ 2 + k - 1 = k + 1
            BY <2>2, <2>3
        <3>3. rest[k] = table[2 + k - 1]
            BY <2>1, <3>2
        <3> QED BY <3>2, <3>3
    <2> QED BY <2>3, <2>4
<1>6. DistinctFrom(rest, 1)
    BY <1>1, <1>3, <1>4, DistinctPart DEF Live
<1>7. Range(rest) = seen
    <2>1. Range(rest) = {rest[k] : k \in 1 .. Len(rest)}
        BY <1>5 DEF Range
    <2>2. \A k \in 1 .. Len(rest) : k + 1 \in 2 .. Len(table)
        BY <1>4, <1>5
    <2>3. \A i \in 2 .. Len(table) : i - 1 \in 1 .. Len(rest) /\ (i - 1) + 1 = i
        BY <1>4, <1>5
    <2>4. \A t : t \in Range(rest) <=> \E i \in 2 .. Len(table) : table[i] = t
        <3>1. ASSUME NEW t, NEW k \in 1 .. Len(rest), rest[k] = t
              PROVE  \E i \in 2 .. Len(table) : table[i] = t
            <4>1. table[k + 1] = t /\ k + 1 \in 2 .. Len(table)
                BY <1>5, <2>2, <3>1
            <4> QED BY <4>1
        <3>2. ASSUME NEW t, NEW i \in 2 .. Len(table), table[i] = t
              PROVE  \E k \in 1 .. Len(rest) : rest[k] = t
            <4>1. PICK k \in 1 .. Len(rest) : k + 1 = i
                BY <2>3
            <4>2. rest[k] = t
                BY <1>5, <3>2, <4>1
            <4> QED BY <4>2
        <3> QED BY <2>1, <3>1, <3>2
    <2> QED BY <1>1, <2>4 DEF Live
<1> QED BY <1>2, <1>3, <1>5, <1>6, <1>7, SizeOfDistinct

LEMMA SettledRows == LiveRunnerInv => SettledTableIsLog
<1> DEFINE n == Len(FileLines)
           again == SubSeq(table, n + 1, Len(table))
<1> SUFFICES ASSUME LiveRunnerInv, settled # 0, settled = current
             PROVE  /\ SubSeq(table, 1, n) = FileLines
                    /\ Range(again) \subseteq Range(FileLines)
                    /\ Cardinality(Range(again)) = Len(again)
                    /\ again # <<>> => variant = "cpp" /\ ~timer
    BY DEF SettledTableIsLog
<1>1. Loaded /\ table \in Seq(Shown) /\ FileLines \in Seq(Text)
    BY FileIsTyped DEF LiveRunnerInv, TableInv, LoadedInv, TableTypes
<1>2. n \in Nat /\ Len(table) \in Nat /\ n <= Len(table) /\ n + 1 \in Nat /\ n + 1 >= 1
      /\ n + 1 <= Len(table) + 1
    BY <1>1 DEF Loaded
<1>3. /\ again \in Seq(Shown) /\ Len(again) = Len(table) - n
      /\ \A k \in 1 .. Len(again) : again[k] = table[n + k]
    <2> HIDE DEF n
    <2>1. /\ again \in Seq(Shown) /\ Len(again) = Len(table) - (n + 1) + 1
          /\ \A k \in 1 .. Len(table) - (n + 1) + 1 : again[k] = table[(n + 1) + k - 1]
        BY <1>1, <1>2, PartOf
    <2>2. Len(table) - (n + 1) + 1 = Len(table) - n /\ \A k \in Nat : (n + 1) + k - 1 = n + k
        BY <1>2
    <2> HIDE DEF again
    <2> QED BY <1>2, <2>1, <2>2
<1>4. DistinctFrom(again, 1)
    BY <1>1, <1>2, DistinctPart DEF Loaded
<1>5. SubSeq(table, 1, n) = FileLines
    <2>1. /\ SubSeq(table, 1, n) \in Seq(Shown) /\ Len(SubSeq(table, 1, n)) = n
          /\ \A k \in 1 .. n : SubSeq(table, 1, n)[k] = table[k]
        <3> HIDE DEF n
        <3> QED BY <1>1, <1>2
    <2>2. \A k \in 1 .. n : table[k] = FileLines[k]
        BY <1>1 DEF Loaded
    <2>3. FileLines \in Seq(Shown)
        BY <1>1 DEF Shown
    <2> QED BY <2>1, <2>2, <2>3
<1> HIDE DEF again
<1>6. Range(again) \subseteq Range(FileLines)
    <2>1. Range(again) = {again[k] : k \in 1 .. Len(again)}
          /\ Range(FileLines) = {FileLines[j] : j \in 1 .. n}
        BY <1>1, <1>3 DEF Range
    <2>2. \A k \in 1 .. Len(again) : n + k \in n + 1 .. Len(table)
        BY <1>2, <1>3
    <2> QED BY SMTT(30), <1>1, <1>3, <2>1, <2>2 DEF Loaded
<1>7. again # <<>> => variant = "cpp" /\ ~timer
    <2>1. again # <<>> => Len(again) # 0
        BY <1>3
    <2> QED BY <1>1, <1>2, <1>3, <2>1 DEF Loaded
<1> QED BY <1>3, <1>4, <1>5, <1>6, <1>7, SizeOfDistinct

\* Every variable keeps its type; only runs that were started have a process,
\* and the log is there when it has lines.
THEOREM TypeCorrect == Spec => []TypeOK
BY LiveRunnerAlways, InvIsTyped, PTL DEF Spec

\* However polls, writes, kills and new runs interleave, the rows of the run
\* that is polled are the texts seen, each once (_poll_live, pollLiveTrace).
THEOREM LiveRowsHold == Spec => []LiveRowsAreSeen
BY LiveRunnerAlways, LiveRows, PTL DEF Spec

\* Once the finish of the current run has loaded the table, neither a late
\* signal of an earlier run nor a poll takes a row of the log away from it
\* (_runner_finished, the finished handler of runTopologyButton).
THEOREM SettledTableHolds == Spec => []SettledTableIsLog
BY LiveRunnerAlways, SettledRows, PTL DEF Spec
=============================================================================
