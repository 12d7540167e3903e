----------------------------- MODULE LiveRunner ------------------------------
(***************************************************************************)
(* The live trace of the two GUIs, gui/python/pcieshark_gui/window.py and  *)
(* gui/src/MainWindow.cpp, on the Zephyr runner                            *)
(* (scripts/run_zephyr_ai_topology.sh).                                    *)
(*                                                                         *)
(* "Run" starts the script as a child process and polls the log it writes. *)
(* The handlers of the GUI run one at a time, but between two of them the  *)
(* script, and the QEMU | tee pipeline it started, go on; the finished     *)
(* signal of a process is handled some time after the process is over.     *)
(* The Python GUI kills a run it replaces and does not wait for the signal;*)
(* the C++ GUI terminates it and waits, which delivers the signal.  A      *)
(* script that is killed leaves its pipeline writing: the trap that would  *)
(* stop it does not run.                                                   *)
(***************************************************************************)
EXTENDS Naturals, Sequences, FiniteSets, Functions

CONSTANTS
    Line,       \* the texts QEMU prints: config accesses without a timestamp
    MaxRuns,    \* bound: runs the user starts
    MaxLines    \* bound: lines one run prints

ASSUME BoundAssumption == MaxRuns \in Nat \ {0} /\ MaxLines \in Nat

Run == 1 .. MaxRuns

\* A line of the log as a reader finds it: the last one may be cut short and
\* still look like a config access, with fewer digits.
Text == Line \X {"whole", "part"}

Fabric == <<"fabric", "row">>   \* what inject_fabric puts in the table
Opened == <<"opened", "row">>   \* what another trace puts in the table

VARIABLES
    variant,    \* which GUI: "python" or "cpp"
    current,    \* the last run started, 0 for none
    process,    \* live_proc, liveTraceProcess: the process of that run is kept
    script,     \* script[r]: the process of run r, as the system knows it
    exit,       \* exit[r]: how it ended
    writer,     \* the run whose pipeline writes the log, 0 for none
    present,    \* the log file exists
    log,        \* the whole lines of the log
    cut,        \* the line being written, <<>> for none
    suppress,   \* suppress_exit, suppressAiRunnerExitWarning
    timer,      \* live_timer, liveTraceTimer is active
    seen,       \* live_seen, liveTraceSeen
    table,      \* the rows shown
    opened,     \* history: another trace was opened since the last run
    settled     \* history: the run whose finish loaded the table, 0 for none

gui == <<variant, current, process, suppress, timer, seen, table, opened, settled>>
file == <<present, log, cut>>
vars == <<gui, script, exit, writer, file>>

\* What read_text().splitlines() returns.
FileLines ==
    [i \in DOMAIN log |-> <<log[i], "whole">>]
        \o [i \in DOMAIN cut |-> <<cut[i], "part">>]

-----------------------------------------------------------------------------
(* The user.                                                                *)

Alive(r) == r # 0 /\ script[r] \in {"started", "running"}

\* kill() in the Python GUI: the signal is handled later.  live_proc is never
\* None again, so a run after a run that is over asks to suppress a signal
\* that has been handled already.
KillLast(state) ==
    /\ variant = "python"
    /\ suppress' = (process \/ suppress)
    /\ script' = [r \in Run |->
         CASE r = current + 1 -> state
           [] r = current /\ Alive(r) -> "over"
           [] OTHER -> script[r]]
    /\ UNCHANGED writer

\* stopProcessAndDelete in the C++ GUI: the script is terminated and stops its
\* pipeline, or is killed after two seconds; the wait delivers the signal, and
\* its handler takes the request to suppress it.  Nobody takes the request
\* where the signal of a process that is still kept was delivered before.
StopLast(state) ==
    /\ variant = "cpp"
    /\ suppress' = IF process THEN script[current] = "handled" ELSE suppress
    /\ script' = [r \in Run |->
         CASE r = current + 1 -> state
           [] r = current /\ process -> "handled"
           [] OTHER -> script[r]]
    /\ \/ UNCHANGED writer
       \/ Alive(current) /\ writer = current /\ writer' = 0

NextProcess(state) ==
    /\ current < MaxRuns
    /\ current' = current + 1
    /\ process' = TRUE
    /\ KillLast(state) \/ StopLast(state)
    /\ exit' = [r \in Run |-> IF r = current /\ Alive(r) THEN "failed" ELSE exit[r]]
    /\ table' = <<Fabric>>
    /\ timer' = TRUE
    /\ opened' = FALSE /\ settled' = 0
    /\ UNCHANGED <<variant, file>>

\* Fault: the lines of the run before count as seen.
RunTopologyUncleared == NextProcess("started") /\ UNCHANGED seen

\* Fault: the new process is set up and never started.
RunTopologyUnstarted == NextProcess("none") /\ seen' = {}

\* _run_topology and the handler of runTopologyButton.
RunTopology == NextProcess("started") /\ seen' = {}

\* Opening a file, enumerating a device, measuring, running a generated
\* fabric: the table is replaced, polling goes on.
ShowOther ==
    /\ table' = <<Opened>>
    /\ opened' = TRUE /\ settled' = 0
    /\ UNCHANGED <<variant, current, process, suppress, timer, seen, script, exit, writer, file>>

-----------------------------------------------------------------------------
(* The script and its pipeline.                                             *)

\* The script stops a QEMU left over from an earlier run, by its pid file,
\* and starts the pipeline: tee empties the log.
Launch(r) ==
    /\ script[r] = "started"
    /\ script' = [script EXCEPT ![r] = "running"]
    /\ writer' = r
    /\ present' = TRUE /\ log' = <<>> /\ cut' = <<>>
    /\ UNCHANGED <<gui, exit>>

WriteLine(l) ==
    /\ writer # 0 /\ cut = <<>> /\ Len(log) < MaxLines
    /\ log' = Append(log, l)
    /\ UNCHANGED <<gui, script, exit, writer, present, cut>>

WritePart(l) ==
    /\ writer # 0 /\ cut = <<>> /\ Len(log) < MaxLines
    /\ cut' = <<l>>
    /\ UNCHANGED <<gui, script, exit, writer, present, log>>

WriteRest ==
    /\ writer # 0 /\ cut # <<>>
    /\ log' = log \o cut
    /\ cut' = <<>>
    /\ UNCHANGED <<gui, script, exit, writer, present>>

\* The pipeline of a run is over and so is the script that waited for it.
ScriptEnds(r) ==
    /\ script[r] = "running"
    /\ script' = [script EXCEPT ![r] = "over"]
    /\ exit' = [exit EXCEPT ![r] = "ok"]
    /\ writer' = IF writer = r THEN 0 ELSE writer
    /\ UNCHANGED <<gui, file>>

\* The script refuses to start QEMU, or is terminated and cleans up.
ScriptFails(r) ==
    /\ script[r] \in {"started", "running"}
    /\ script' = [script EXCEPT ![r] = "over"]
    /\ exit' = [exit EXCEPT ![r] = "failed"]
    /\ writer' = IF writer = r THEN 0 ELSE writer
    /\ UNCHANGED <<gui, file>>

-----------------------------------------------------------------------------
(* Events of the GUI.                                                       *)

\* The lines not seen before, each once, in the order of the file.
NewLines ==
    LET fresh == {i \in DOMAIN FileLines :
                    /\ FileLines[i] \notin seen
                    /\ \A j \in 1 .. i - 1 : FileLines[j] # FileLines[i]}
        nth(k) == CHOOSE i \in fresh : Cardinality({j \in fresh : j <= i}) = k
    IN  [k \in 1 .. Cardinality(fresh) |-> FileLines[nth(k)]]

\* The C++ GUI ends its polling when a poll finds the process over, which it
\* is once its signal has been delivered.
LastPoll == variant = "cpp" /\ process /\ script[current] = "handled"

AddNewLines ==
    /\ seen' = seen \union Range(NewLines)
    /\ table' = table \o NewLines
    /\ UNCHANGED <<variant, current, suppress, opened, settled, script, exit, writer, file>>

\* _poll_live and pollLiveTrace, every half second; a poll without a file
\* returns at once.
PollLive ==
    /\ timer /\ present
    /\ NewLines # <<>> \/ LastPoll
    /\ AddNewLines
    /\ timer' = ~LastPoll
    /\ process' = (process /\ ~LastPoll)

\* load_trace of the Python GUI refuses a file without rows; loadCsv clears
\* the table before it looks.
Loads == variant = "cpp" \/ FileLines # <<>>
LoadLog ==
    /\ table' = IF Loads THEN FileLines ELSE table
    /\ opened' = (opened /\ ~Loads)

FinishedRun(r) ==
    /\ script[r] = "over"
    /\ script' = [script EXCEPT ![r] = "handled"]
    /\ UNCHANGED <<variant, current, process, seen, exit, writer, file>>

Suppressed ==
    /\ suppress
    /\ suppress' = FALSE
    /\ UNCHANGED <<timer, table, opened, settled>>

\* A failure is only reported.
Reported(r) ==
    /\ ~suppress
    /\ UNCHANGED suppress
    /\ \/ exit[r] = "failed" /\ UNCHANGED <<table, opened, settled>>
       \/ /\ exit[r] = "ok"
          /\ LoadLog
          /\ settled' = IF Loads THEN r ELSE settled

\* Fault: the Python GUI goes on polling, as the C++ GUI does.
RunnerFinishedPolling(r) ==
    /\ FinishedRun(r)
    /\ Suppressed \/ (Reported(r) /\ UNCHANGED timer)

\* Fault: the request to suppress is not taken back when a signal has met it.
RunnerFinishedDeaf(r) ==
    /\ FinishedRun(r)
    /\ \/ suppress /\ UNCHANGED <<suppress, timer, table, opened, settled>>
       \/ Reported(r) /\ timer' = (timer /\ variant = "cpp")

\* _runner_finished and the finished handler of the C++ GUI, for the process
\* of run r: any process, there is no test that it is the current one.
RunnerFinished(r) ==
    /\ FinishedRun(r)
    /\ \/ Suppressed
       \/ Reported(r) /\ timer' = (timer /\ variant = "cpp")

-----------------------------------------------------------------------------
\* A log of an earlier session may still be there.
Init ==
    /\ variant \in {"python", "cpp"}
    /\ current = 0
    /\ process = FALSE
    /\ script = [r \in Run |-> "none"]
    /\ exit = [r \in Run |-> "none"]
    /\ writer = 0
    /\ present \in BOOLEAN
    /\ log \in {<<>>} \union {<<l>> : l \in Line}
    /\ log # <<>> => present
    /\ cut = <<>>
    /\ suppress = FALSE
    /\ timer = FALSE
    /\ seen = {}
    /\ table = <<>>
    /\ opened = FALSE
    /\ settled = 0

Runner ==
    \/ \E r \in Run : Launch(r) \/ ScriptEnds(r) \/ ScriptFails(r)
    \/ \E l \in Line : WriteLine(l) \/ WritePart(l)
    \/ WriteRest

Finished == \E r \in Run : RunnerFinished(r)

Next == RunTopology \/ ShowOther \/ Runner \/ PollLive \/ Finished

Spec == Init /\ [][Next]_vars

\* Qt delivers every finished signal, and the timer keeps firing.
FairSpec == Spec /\ WF_vars(PollLive) /\ WF_vars(Finished)

-----------------------------------------------------------------------------
(* Properties.                                                              *)

\* Types of the variables; only runs that were started have a process, and the
\* log does not exist before a script or an earlier session wrote it.
TypeOK ==
    /\ variant \in {"python", "cpp"}
    /\ current \in 0 .. MaxRuns
    /\ process \in BOOLEAN /\ (process => current # 0)
    /\ script \in [Run -> {"none", "started", "running", "over", "handled"}]
    /\ \A r \in Run : script[r] = "none" <=> r > current
    /\ exit \in [Run -> {"none", "ok", "failed"}]
    /\ writer \in 0 .. current
    /\ log \in Seq(Line) /\ cut \in {<<>>} \union {<<l>> : l \in Line}
    /\ present \in BOOLEAN /\ (FileLines # <<>> => present)
    /\ suppress \in BOOLEAN /\ timer \in BOOLEAN
    /\ seen \subseteq Text
    /\ table \in Seq(Text \union {Fabric, Opened})
    /\ opened \in BOOLEAN /\ settled \in 0 .. current

\* While a run is polled, before its finish loads the log and while no other
\* trace is opened, the rows after the fabric are the lines seen, each once: a
\* poll adds no row twice and forgets none, however polls, runs and writes
\* interleave (_poll_live and live_seen, pollLiveTrace and liveTraceSeen).
LiveRowsAreSeen ==
    timer /\ ~opened /\ settled = 0 =>
        LET live == Tail(table)
        IN  /\ Head(table) = Fabric
            /\ Range(live) = seen
            /\ Cardinality(seen) = Len(live)

\* Once the finish of the current run has loaded the table, the table is the
\* log, without the rows of lines that were polled half written, and no later
\* poll or late signal of a killed run disturbs it.  In the C++ GUI, whose
\* timer goes on, the last poll may add lines of the log a second time, each
\* at most once, after the ones loaded (_runner_finished, pollLiveTrace).
SettledTableIsLog ==
    settled # 0 /\ settled = current =>
        LET n == Len(FileLines)
            again == SubSeq(table, n + 1, Len(table))
        IN  /\ SubSeq(table, 1, n) = FileLines
            /\ Range(again) \subseteq Range(FileLines)
            /\ Cardinality(Range(again)) = Len(again)
            /\ again # <<>> => variant = "cpp" /\ ~timer

\* A run that is over ends the polling, unless the user starts another run
\* first.  In the Python GUI the one request to suppress may meet the signal of
\* this run and not that of the killed run it was meant for: whichever comes
\* second ends the polling.  Left out is a run whose request has no killed run
\* left to meet; in the C++ GUI, one without a log for the poll to open
\* (_runner_finished, pollLiveTrace).
RunConcludes ==
    \A r \in Run :
        /\ current = r
        /\ script[r] = "over"
        /\ \/ variant = "cpp" /\ present
           \/ variant = "python" /\ (suppress => \E q \in 1 .. r - 1 : script[q] = "over")
        ~> (~timer \/ current # r)
=============================================================================
