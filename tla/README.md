# A TLA+ model of pcieshark

pcieshark is a C library (`libpcapcie`) that builds, sends, receives and records PCIe
transaction layer packets (TLPs), a set of backends behind it, two Qt GUIs (C++ and
Python) that show and analyse traces, and scripts that run an emulated fabric under QEMU
and write its config-space traffic to a log the GUIs read while it grows. This directory
models the parts of it whose correctness depends on order: of calls, callbacks, polls,
signals, bytes of a stream, elements of a description.

All paths below are relative to `src/`, the root of the repository.

## 1. Inventory

### Library core — `src/pcapcie.c`, `src/filter.c`, `include/pcapcie/`

*State.* A context (`pcie_ctx`): backend, statistics, table of 8 sniffers, trace buffer
(`trace_records`, `trace_count`, `trace_capacity`). *Operations.* `pcie_open`, `pcie_close`,
`pcie_send`, `pcie_recv`, `pcie_sniff`, `pcie_loop`, `pcie_trace_record/append/reset`,
writers, link and device queries. *Interaction.* Calls the backend through
`pcie_backend_ops_t`; calls sniffer callbacks, which may call the library again.
*Hard.* Re-entrance of `pcie_loop`; a `realloc` that fails and later succeeds; a receive
budget of the dummy backend that all contexts share. *Correct when* the trace is what was
given to it, in order; nothing is lost except where the table was full and could not grow;
every received TLP is counted once and heard once by each sniffer it matches.

### Backends

| Part | State | Operations | Hard | Correct when |
|---|---|---|---|---|
| Golden (dummy), `src/backend_dummy.c` | environment variables, `served` counter, `next_tx_ns` | send and receive with latency and throttle, link status, link check | statics shared by all contexts; the next deadline is computed from the time before the sleep; profiles named in three ways | a profile alone decides the link; the throttle spaces TLPs |
| PCI, `src/backend_pci.c` | the config file of one device | config access, capability walk, device info, link status | short transfers, a link that retrains between accesses, cyclic capability list | accesses stay in place; the walk ends and is right |
| FPGA, `src/backend_fpga.c` | mapped registers | init, send, recv, close | TLP words overlap status and control | a send leaves the device enabled |
| FPGA driver, `fpga_driver.c` | command register, two delayed works | write, read, seek | two drafts in one file; never built | - |
| ARM DS, `src/backend_armds.c` and `armds_bridge_server.c` | a TCP stream each way, its blocking mode | connect, send, recv, close; forwarding loop | short reads and writes, timeouts, one end expecting bytes the other never sends | both directions are FIFO and in step |

Above them, in `src/pcapcie.c`: `pcie_get_link_status`, `pcie_get_device_info` and
`pcie_check_link_target`, without state; `examples/pci_link_matrix.c` makes a series of
checks and one exit code of them.

### Fabric model — `src/pcie_topology.c`

*State.* Arrays of root complexes, root ports, switches, endpoints. *Operations.* Read a
JSON description, complete it with default parents, count the functions, walk them. *Hard.*
The tree exists only through names, which may be missing, ambiguous or dangling; sections
come in any order. *Correct when* the arrays hold, the defaults make one tree, and the walk
shows each function once.

### Trace analysis — `gui/python/pcieshark_gui/trace.py`, `gui/src/MainWindow.cpp`

*State.* The rows of the table, the partner and the Match label of each. *Operations.*
`analyze` / `rebuildTraceAnalysis`, run after each load and each poll; jump to the partner.
*Interaction.* Loaders and polls add rows; the table reads pairs and labels. *Hard.* Tags
are reused; rows arrive in pieces and the whole analysis runs again over old results.
*Correct when* partners name each other, requests are served in order, labels say what the
pairs say, and a pair once shown stays.

### Live runs — `gui/python/pcieshark_gui/window.py`, `MainWindow.cpp`, `scripts/`

*State.* The child process, the poll timer, the lines seen, the rows; outside the GUI the
script, the QEMU | tee pipeline, the pid file, the log. *Operations.* Run, poll, the
finished signal, opening another trace, closing. *Hard.* Everything outside the GUI runs
on between two handlers: half-written lines, a stale log, signals of killed processes that
arrive late. *Correct when* polls show each line once, a finished run shows its log, and
other traces are left alone.

### Capture files — `src/pcapcie.c`, `MainWindow.cpp`, `trace.py`

*State.* The file; in a GUI the rows, the Match column, the filter, the hidden rows, the
stats bar. *Operations.* `pcie_trace_write_pcap`, `pcie_trace_write_csv`, saving a table,
opening a file of any origin, a poll, an enumeration, a filter change. *Hard.* Two writers
and two readers of each format were written apart; the table, what is computed from it and
what is shown of it are updated by different functions with early returns between them.
*Correct when* what one part writes another reads back, and what is shown belongs to the
table.

### The rest

The examples (but for the link matrix), export and HDL scripts, themes and build files have
no behaviour that interleaves with anything.

## 2. Plan

All of it is done except where it says otherwise.

1. `PcieCtx` — library core.
2. `TraceMatch` — analysis; `RequestQueues`, the abstract specification it implements: one
   FIFO queue of open requests per tag and address.
3. `LiveRunner` — live runs of both GUIs on the Zephyr runner. Left: `closeEvent` and the
   Linux runner with its pid file.
4. `ArmdsLink` — both ends of the ARM DS stream.
5. `Topology` — reader, defaults and walk.
6. `LinkTarget`, `PciBackend`, `DummyBackend`, and `Backends`, which composes them with the
   library above and the link matrix.
7. `TraceFiles` — writers and readers of capture files, and the table they are shown in.
8. Left: the FPGA backend's register window (section 6 says why it is last).
9. Proofs: every invariant and action property of 1 to 7 that holds, and the refinement of 2.
   What has no theorem is liveness, which stays with TLC.

The bounds of each run are given in section 4. Modules use no `RECURSIVE` operator, and
invariants are conjunctions of named parts.

## 3. The modules and the code

**PcieCtx** has one action per entry point. `stack` is the chain of `pcie_loop` calls in
progress: a frame is the `tlp` and loop index of one call and says whether a callback of
the client is running. Client actions are enabled when the stack is empty or its top is in
a callback, which is where C code of the client can run. `RecordTlp` is
`pcie_trace_record` with both outcomes of `realloc`. `served` is the static counter of
`dummy_recv`. `recorded`, `source`, `grown`, `heard` and others marked *history* exist for
the properties.

**TraceMatch** walks the table with `next`, one row per step, as the loops of `analyze` do;
`Gui` selects the Python or the C++ rule for what matches (the C++ rule also compares ids and
takes an empty address for any). `Load` and `AppendLive` are the two ways rows come in, and
both start the walk over. `JumpTarget` is what a double click on Match does in each GUI.
**RequestQueues** says what matching means, without a table walk; **TraceMatchQueues** maps
the analysis to it: the queue of a tag and address is the part of `pending` with that key in
ascending order (`Ascending`), what was answered and refused is read off `pair`.

**LiveRunner** has the GUI's fields (`process` for whether the pointer to the current run's
process is kept, `suppress`, `timer`, `seen`, the rows) and the world outside: `script[r]`,
`exit[r]`, `writer`, `log`, whether it is `present`, and `cut`, the line half written.
`variant` says which GUI it is. They differ in four places: the Python GUI kills a run it
replaces and leaves the signal for later, the C++ GUI terminates it and waits, which
delivers the signal (`KillLast`, `StopLast`); the C++ timer is ended by a poll that finds the
process over, not by the finish (`LastPoll`); a failed C++ load empties the table (`Loads`); the C++
finish leaves the timer on (`RunnerFinished`). Handlers are atomic because Qt runs one at a
time; script and pipeline take steps of their own between them. A run that is killed leaves
its pipeline writing, since SIGKILL runs no trap, until the next script stops it by the pid
file. Both variants use one log, the default path. Lines stand for config accesses without a
timestamp.

**ArmdsLink** keeps the unread units of each direction. A header is two units so that it can
be cut, a payload one unit per length. Reads are nondeterministic in what they find exactly
where TCP is: `HeaderReads`, `RecvPayloadShort`; a cut read or write sets `tornUp` or
`tornDown`, after which nothing is promised. A `send` or `recv` of the library takes a step
for the header and one for the payload, so that the bridge can act between them. A reader
out of step takes any two units for a header with any of the lengths.

**Topology** reads a description element by element in any order, which covers every order
and number of sections. `Finish` is `assign_default_parents`. A line of the walk is a pair: what
it is printed below, and what it shows; showing something twice is two lines for it.

**LinkTarget** has what the backends share: the link status, the generations a code stands
for, and the comparison of `pcie_check_link_target`. **PciBackend** carries out one call at a
time: `call` is the call and its phase, `io` the access of the config file it waits for, one
`pread` or `pwrite` per step, so that the link retrains (`Retrain`), a transfer moves a part,
or an access fails between any two. The config space has one cell for each register the code
tells apart; `cap`, `before`, `seen` and `failed` are history. **DummyBackend** reads its
configuration from `env` at each call, as the code does; `Throttle` takes the time at which
it is entered and the time at which it is left, since a sleep may last longer than asked;
`paced` is history. `InForce` says which of the places that name a profile the code lets win.
**Backends** opens one of them by name and makes the calls of a program:
single calls, and then the cases of the link matrix one after another with its exit code.
The golden backend keeps no state between two calls other than `clock`, `nextTx` and
`count`, and its calls are atomic, since only the time passes in them.

**TraceFiles** writes and reads the binary format byte by byte (`PcapBytes`, `PcapRowsCpp`,
`PcapRowsPython`), because its writer and readers disagree about where the fields are; only
the payload is shorter (`PayloadSize`, 4 for 256). A reader is the sequence of the places at
which it looks for records, and the first at which it gives up. Text formats are lines of cells; a payload
text is the list of its parts between commas. `Show` is what every complete change of the
table ends with, in either GUI: analysis, filter, counts; `ShowUnfinished` is one of the three early
returns of the C++ GUI that skip them (a pcap of an impossible length, a file that begins
with an empty line, an enumeration that fails half way), and `unfinished` remembers it.
All rows share one tag and address; what matches what is the subject of `TraceMatch`.

Each component has a module of theorems: **PcieCtxProofs**, **TraceMatchProofs**,
**LiveRunnerProofs**, **ArmdsLinkProofs**, **TopologyProofs**, **BackendsProofs** and
**TraceFilesProofs**. **Counting** holds the lemmas several of them rest on. The `MC` modules
give constants their values.

Definitions that begin with *Fault:* in their comment are deliberate errors of the kind the
code could have; each property of a passing run is violated by one of them in place of the
definition it is named after, so the property does depend on the code.

## 4. Runs

| Run | Checks | Shows |
|---|---|---|
| ctx_trace | TypeOK, TraceFaithful, LossOnlyAtFull | One context, no sniffers, growth from one record, 5 recorded TLPs: every mix of growth, failure, reset, close, reopen. Doubling happens three times, so a failure can fall before, between and after growths. |
| ctx_sniff | ReceivedAccounted, HeardOnce, HeardAll, FirstSnifferInOrder, LoopReturns | Two contexts on one budget of 3 TLPs, two sniffers on one and one on the other, whose callbacks register more and run the loop again on either context, two deep. Each TLP is counted by exactly one context. Only the first sniffer hears in order: a later one hears the TLPs of a nested loop first. Three TLPs let one be dispatched before, one within and one after a nested loop. |
| match_python | TypeOK, PairsMutual, LabelsAgree, StablePairs, ImplementsQueues | Every table of up to 4 rows over 10 kinds of rows, loaded or grown by polls of up to 2. Four rows hold two requests and two completions, the least in which an order can be wrong. The pending list is a FIFO queue per tag and address, which is how this GUI serves requests in order. |
| match_cpp | FirstFit, LabelsAgree, JumpReachesPair | The C++ rule, whose choice is not by one key, so that order is stated by pairs (FirstFit) and not by queues, and its jump. PairsMutual and StablePairs are proved for either rule. |
| match_jump_python | JumpReachesPair (violated) | In the Python GUI row 0 counts as no partner, so the jump to it does nothing. |
| live_runs | TypeOK, LiveRowsAreSeen, SettledTableIsLog, RunConcludes | Either GUI, three runs, two texts, two lines: a run can be replaced before the one before it has been handled. A run that is over stops the polling, also when a late signal of a killed run takes its place; the exceptions are a Python run whose request to suppress meets no killed run, and a C++ run without a log. The last C++ poll may add lines of a finished log once more. |
| armds_stream | TypeOK, RequestsInOrder, AnswersInOrder, RequestsArrive | Two requests and answers without payload, with a short one, and with one that does not fit into the buffers of 4 units together with its header; cut headers, timeouts, restarts of the bridge. The bridge can stand before a full buffer with a request waiting; a library that polls undoes this, and every request sent whole is forwarded. Without polling (`LibraryPolls`) the property is false. |
| armds_reads | RequestsInOrder (violated) | A read request has a length and no data; the bridge eats the next header as its payload. |
| topology_load | TypeOK, NothingShownTwice, DefaultsMakeOneTree, ParentsCompleted, DefaultsAreSpread | Every description of up to 2 root complexes with 2 ports, 2 switches with 2 ports and 3 endpoints; one more of each is refused. Three endpoints let a named one come between two unnamed ones. |
| backends | TypeOK, TransfersInPlace, CapabilityIsThere, VerdictWasTrue, ProfileDecidesLink, AtMostTwoPerPeriod, MatrixIsConsistent, CallsReturn | 22 devices of two capabilities and a walk of 3 hops, so that lists are empty, whole, circular, leave the space, or are hidden from an unprivileged reader; accesses of up to 4 cells in parts of 1, 2 or all; two link words. Six environments that change between calls, a second of 3 ticks on a clock that stops after 4. Two cases in the matrix, an easy and a hard one. |
| files | TypeOK, CsvOpensAsWritten, TableIsCurrent | Either GUI, files of up to two rows from the library, the GUIs, QEMU and elsewhere, tables of up to 3 rows through polls, every type and analysis filter. Two rows are a request and its completion; a third arrives after both were shown. |
| files_pcap | LibraryPcapOpens (violated) | What the library writes as pcap does not open as written in either GUI: the records announce 4 bytes fewer for the direction than they hold, and the Python reader skips 24 bytes of a header of 28. |

The violated properties say what a document or comment of the repository promises;
`PROJECT.json` quotes it. `topology_load` and `backends` run with deadlock checking off: a
failed or finished load, and a program that has returned, is the end.

*Bounds.* Runs bound the TLPs, rows, runs, lines and nesting a client can ask for, never what
the code does with them; array sizes (`FirstCapacity`, `RecvLimit`, `MaxSniffers`, `MAX_*`,
`Capacity`) are constants of the models, made small so that the full array, the empty one
and the wrap are all reached. `Start` of `ArmdsLink` waits until the library has noticed that
the bridge ended.

*Fairness.* `PcieCtx`: the loop and the callback under way go on (they are one thread
of C code); the client need not call. `LiveRunner`: the timer fires and Qt delivers finished
signals (the event loop of either GUI); the script and the user promise nothing.
`ArmdsLink`: the bridge's loop goes on when it is not blocked; the library promises nothing, and neither does the user.
`RequestsArrive` has as its premise that calls of the library return and that it polls. `Backends`: the
call in progress goes on (`Within(PciStep)`, one thread of C code whose system calls return);
the client, the link and the clock promise nothing. `TraceFiles` and `Topology` state none.

## 5. Proofs

TLAPS checks the theorems below for every value of the constants, from the assumptions named
in the modules. TLC evaluates each assumption on the values of the runs, and each theorem
about an invariant was first checked as a property of a run. `PROJECT.json` names for each
theorem the property it states.

*Assumptions.* Most are types of what clients, users and devices provide (`InputAssumption`,
`RequestAssumption`, `RowAssumption`, `RecordAssumption`, `ShapeAssumption`, `SizeAssumption`,
the bounds). Those that say more:

- `ContextsAssumption`: finitely many contexts, without which "counted by exactly one" has no sum.
- `ListAssumption`: the capability list of a device may be circular or lead out of the space,
  but its registers are read-only, a PCIe capability lies within the space, and it has no more
  places than the walk has hops. A longer list would be cut off by the code.
- `CaseAssumption`: the table of cases of the link matrix gets harder from one to the next, as
  the one in the program does.
- `ConfigAssumption`, `ScenarioAssumption`, `TargetAssumption`: rates and widths are parsed as
  unsigned numbers, a scenario is a list of known keys, targets are generations and widths.
- `NameAssumption`: no parent is given by the name that stands for none.

`RequestsStayInOrder` and `AnswersStayInOrder` assume `PayloadsComplete` (what has a length
has its data), since read requests break the stream: `armds_reads` shows it.
`JumpFindsPartner` assumes the C++ GUI, since `match_jump_python` shows the Python GUI
without it; `PythonImplementsQueues` assumes the Python GUI, whose rule has a key.

*Induction.* The provers have no induction over data. Where a proof needs one, it takes the
least number at which the claim fails (`LeastNat` of `Counting`) and shows that it does not
fail there: along the pointers of a capability list, the offsets of a reader, the
entries of a scenario. The other lemmas of `Counting` are about ranks: the number of elements
of a finite set up to a given one, which turns a set of lines or rows into a sequence.

*PcieCtxProofs.* `TypeCorrect`, `TraceIsFaithful`, `LossIsAtFull`. The inductive invariant is
`BufferOK /\ RestOK`. `BufferOK` has the two properties, the bound `Len(trace) <= capacity`
and `FullIsGrown`: the present capacity is one the table has had. Without the last, a TLP
dropped at a full table would leave a gap at a number nothing ties to a real capacity.
The invariant is proved by `RecordTlpBuffer` (storing, growing and dropping) and
`EmptyBuffer` (reset), then one step per action.
`SniffersHearOnce`, `SniffersMissNothing`, `FirstSnifferHearsInOrder`, `ReceivedIsAccounted`
are about the dispatch. In `DispatchInv`, what a sniffer has heard was `Offered` to it, by a
loop that is over or by a frame of `stack` that has come to its slot (`HeardWasOffered`), and
the other way round (`OfferedWasHeard`); no TLP has two frames (`AddressesDistinct`), and a
frame that has offered nothing yet carries the newest TLP (`FreshUnoffered`), which is what
puts the first sniffer in order. Callbacks may register and run loops at any depth, so it
speaks of all frames and not only of the top.

*TraceMatchProofs.* `TypeCorrect`, `PairingIsMutual`, `RequestsAreServedInOrder`,
`PairsAreStable`. The properties hold only when the walk is idle or up to the visited row, so
the invariant states them for the prefix walked (`MutualUpTo`, `FirstFitUpTo`), adds that
`pending` is exactly the open unpaired requests of the prefix (`PendingExact`), that the
table before the walk was sound (`ShownSound`), and that the walk has so far agreed with it
(`Agrees`). Stability needs the last two: a completion could change partner in a rerun only
if some earlier request were open in one walk and not in the other. `LabelsTellPairs` adds
`LabelsSettled`, `JumpFindsPartner` follows. `PythonImplementsQueues` is the refinement of
`RequestQueues`, step by step: loading and appending map to `Start`, a request to `Ask`, a
completion to `Answer` or `Refuse`, other rows to `Pass`, the end of a walk to a stutter. Its
core is that a queue read off a set by rank gains the visited row at its end
(`AscendingAppends`) and loses its least one at its head (`AscendingTakesLeast`).

*LiveRunnerProofs.* `TypeCorrect`, `LiveRowsHold`, `SettledTableHolds`. `RunInv` is about the
runs: only the newest may be alive, the process is kept while the timer runs, and what is in
the file. `Live` says that the rows of a polled run are the texts `seen`, each in one place;
`Loaded` that after a finish the table begins with the lines of the file, and which later
polls may still add to it in which GUI. Both are stated with the flags (`timer`, `opened`,
`settled`) under which the code makes them true.

*ArmdsLinkProofs.* `TypeCorrect`, `RequestsStayInOrder`, `AnswersStayInOrder`. Nothing in the
stream marks where a TLP starts, so that the ends agree is a fact about all that is on its
way: each header is followed by its payload and the next header (`Framed`), and the reader is
in front of a header (`Ready`) or of the payload of the one it has read (`Waiting`). Both
directions use the same predicates and lemmas; `UpInv` and `DownInv` say at which of its own
steps each end must be ready or waiting.

*TopologyProofs.* `TypeCorrect`, `DefaultsComplete`, `WalkShowsOnce`, `DefaultsAreOneTree`,
`DefaultsSpread`. `TopoInv` is short: the arrays hold, and a loaded topology is its
description completed in turn. The properties are facts about that completion; the last two
count: functions of the tree against lines of the walk, unnamed endpoints against ports.

*BackendsProofs.* `ThrottleHolds`, `ProfileHolds`, `TransfersStayInPlace`,
`WalkFindsCapability`, `VerdictHolds`, `MatrixHolds`, `TypeCorrect`. The throttle stores one
number and the property speaks of three calls; `DueAfter` ties them together: the stored
deadline is at least one period after the return of the call before the last, and at most one
period after the return of the last. `ProfileHolds` follows the name of a profile through
`PROFILE` and every entry of the scenario (`ScenarioRuns`). For transfers, `AtNext` derives the
place of the next one from what was moved so far, `Untouched` says that a read-only call
leaves the config space as it was when the call began, and `PhaseOK` how many cells each phase
reads. For the walk, `WalkInv` has the chain of pointers the device stores: the walk has
followed it to `call.ptr`, no place before was a capability, and a chain longer than the
places of the list has come back to one. For verdicts, the word compared is one the device
had while the call ran (`LinkKnown`), also when it retrains in between. For the matrix, each
verdict is that of a link word the device had since it began (`Judged`); while there was only
one, a case that passes makes the easier ones pass.

*TraceFilesProofs.* `TypeCorrect`, `CsvReadsBack`, `TableStaysCurrent`. Whatever fills a table
must be rows, also what a reader makes of a file it is out of step with. `ReaderEnds`:
each record it looks for begins behind the one before, so it gives up somewhere.
`PcapShowsRows`: up to there it has made a row of each.

*Only model-checked.* Liveness (`LoopReturns`, `RunConcludes`, `RequestsArrive`,
`CallsReturn`), which is out of reach of the prover used; and the three violated properties,
which are false.

## 6. Known behaviours and what is not modelled

Behaviours of the code that the models have and a reader may not expect. The three violated
runs show the first three.

- The Python GUI takes row 0 for no partner, so the jump to it does nothing.
- A read request over the ARM DS stream makes the bridge swallow the next header.
- What `pcie_trace_write_pcap` writes does not open as written in either GUI.
- A poll that finds nothing leaves the ARM DS socket non-blocking: the returns at
  `backend_armds.c:126`, 129 and 132 come before the line that restores the flags, and the
  next call takes the changed flags for the ones to restore (`RecvNothing` and `RecvShort` set
  `nonblock`).
- A header or payload that is cut, by a timeout or a short read, leaves the ends of the ARM DS
  stream out of step until the next connection (`tornUp`, `tornDown`).
- The bridge does not read requests while it cannot send an answer: a library that only sends
  is stuck with it, until it polls (`RequestsArrive`).
- The root ports of two root complexes, and switches of one name, may share ids: what hangs from
  them is shown below each (`Unambiguous`).
- Nothing stops the poll timer when another trace is opened, measured or enumerated: the
  poll appends the rows of the run to it (`ShowOther`, `PollLive`), although README.md:73
  asks to keep that path separate. `LiveRowsAreSeen` therefore says `~opened`.
- The finish of a run in the C++ GUI loads the log and leaves `timer` and `seen` as they are,
  so the poll after it may show lines twice (`SettledTableIsLog`).
- One flag suppresses whichever finished signal comes next, so the finish of a run started
  after one that was over is lost. `RunConcludes` leaves out these runs in Python, and speaks of
  the polling only, not of the report, in C++.
- A C++ poll without a log file returns before it looks at the process (`present`).
- Three early returns of the C++ GUI leave Match column, filter and counts behind the table
  (`ShowUnfinished`; `TableIsCurrent` says `~unfinished`).
- A table saved as a log cannot be opened again when its rows have payload bytes: the line has no
  shape a reader takes for a config access (`Save`).

Not modelled:

- The FPGA backend: each call is a few writes to registers of a device the repository does
  not contain, and the README (line 51) calls it planned. That the words of a TLP overlap the
  control register is listed as a hazard.
- The FPGA driver `fpga_driver.c`: the file holds two drafts, one after the other, that
  define the same functions and use names neither declares; CMake does not build it. There
  is no program to model.
- The completion ring of the PCI backend, which no call reaches, the identification numbers
  of a device info, and jitter, burst and drop rate of the golden backend, which the code reads
  and does not use. Signals that interrupt a sleep.
- `closeEvent` of the GUIs, which kills whatever pid `qemu.pid` of the current directory
  names; runs whose log path the user changed; the generated mode of the Python GUI; the Linux runner.
- In files: quotes, and commas outside the payload; names and numbers longer than their
  fields; the search text and the direction and pair filters of the tables.
- Undefined behaviour outside the contract of the library: more than 8 sniffers, calls on a
  null or closed context.
- The FPGA behind the ARM DS bridge, a placeholder in the code (any answer or none), and
  SIGPIPE on a connection the peer has reset.
- The JSON tokenizer of the topology reader, and cut-off of names longer than the arrays.
- Other examples, export scripts, synthetic fabric tables, widgets, themes, build files,
  assets.

A hazard in `PROJECT.json` without a property says in its note why it has none.
