# A TLA+ model of VirtualBasys

VirtualBasys simulates a Digilent Basys 3 board around a Verilated design. One
engine owns the 100 MHz clock; a board model splits time at an absolute
observation grid and at the bit edges of the serial line; a Qt adapter shows
the board and a controller on the same thread advances it in batches. Almost
every promise the program makes is about *time*: an input is sampled at an
exact cycle, a log is the same however time was sliced, a terminal shows the
same rows whenever it is refreshed, a run stops on its last cycle. Those
promises are hard to test because they quantify over every interleaving of
ticks, sends, timer callbacks and refreshes. They are what this project states.

All definitions are translated from the C++ sources under `src/src`;
`PROJECT.json` maps each one to its lines.

## The system

| Part | State | Operations | Talks to |
|---|---|---|---|
| Verilated engine (`engine/`) | model, `cycle_`, `dirty_`, trace writer | `poke`, `peek`, `step`, `stepCapture`, `trace` | called by the board only |
| UART receive driver (`board/Uart`) | `queue_`, `shifting_`, `frameStart_`, `lineFreeCycle_`, `edgeIndex_` | `send`, `nextEdgeCycle`, `advance` | the board consumes its edges |
| UART transmit decoder (`board/Uart`) | candidate, bit index, shift register | `sample` | fed by the board once per grid crossing |
| Seven-segment view (`board/SevenSeg`) | per digit: segments, point, cycle last lit | `sample`, `segments`, `dp` | fed at crossings, read at any time |
| VGA assembler (`board/Vga`) | sync history, measured period, working and completed frame | `consume` | fed every cycle of a segment |
| Board (`board/BoardModel`, `SimLog`) | the above, switch and button states, previous outputs, log | `tick`, `setSwitch`, `setButton`, `sendUart` | engine below, adapter and scripts above |
| Script runner (`script/`) | cursor over sorted inputs and sends | `advanceScripted`, `initializeScriptedRun` | ticks the board |
| Simulation controller (`qt/`) | running, realtime, error, script, end cycle, finish flags, timer, wall clocks | `run`, `pause`, `step`, `reset`, `setRealtime`, `startScript`, timer callback | advances the board, refreshes the adapter, signals listeners |
| Board adapter (`qt/`) | what was already shown, pending frame ends, unshown scripted sends | `refresh`, `setSwitch`, `setButton`, `sendUartText`, `clearUart`, watches, log recording | reads the board, writes the presentation models |
| Terminal, event log, inspector, LED/switch/digit/VGA models (`qt/`) | rows, counters | append, trim, clear, stage and publish | QML views |
| Launcher and `virtualbasys run` (`qt/Launcher`, `qt/main_run`) | options, output files | compose, run once, write results | builder, controller |
| Design builder (`design/`) | a cache directory shared by processes, work directories, a child process | `buildDesign`, `runProcess`, `cancelProcesses` | Verilator, CMake |
| Constraints and binding (`constraints/`) | pin table | `parseXdc`, `bind` | used once, at construction |

Everything up to the launcher runs on one thread. Interleaving still happens,
in three ways: the order in which callers mix ticks, sends and pokes; the timer
firing in a nested event loop that a listener runs inside a publication; and
refreshes that come when wall time says so. The builder adds real concurrency
(several processes on one cache, a signal handler) and crashes.

What makes each part correct:

* receive driver: every start bit is driven at the cycle `send()` returned;
  frames never overlap; the design sees exactly the promised waveform;
* transmit decoder: each frame is reported once, in order, by its stop bit, and
  noise is never reported;
* board: log and state depend on the input schedule and the cycle count alone;
  outputs precede inputs of the same stamp; a segment is never empty or wrapped;
* controller and scripts: Run is never left without a timer, a script acts at
  exact cycles, a finite run stops on its last cycle and is announced once,
  BTNC returns to its owner, 1x never runs ahead by more than a batch, the
  screen of a resting simulation shows the board's cycle;
* terminal: rows do not depend on refreshes, pending input is the line's;
* engine: a peek always sees settled pins, a capture equals single steps;
* event log: recording loses and repeats no line; another owner's log is kept;
* inspector: handles stay parallel to rows, a snapshot belongs to one cycle;
* VGA: a frame reported as good was regular in every respect, its picture is
  what the pins showed, and a transient clears with the next good frame;
* constraints: a document survives being written and read, and every switch is
  wired to the HDL bit that the text names;
* command line: its four readers take the same words for options and values;
* launcher: a finished run leaves, with its files or an error;
* builder: a stored module was built from the text its key names; a published
  entry is whole; a cancelled build leaves nothing running.

## Modules

| Module | Models | State and actions against the code |
|---|---|---|
| `SerialLine` | abstract: what the UART_RX line promises | slots (byte, start cycle) and the waveform seen so far; no counterpart in the code |
| `UartRxDriver` | `UartRxDriver` and the caller its header asks for | fields one to one; `Send` = `send()`, `AdvanceEdge` = `advance()`; `ConsumeEdge` and `Elapse` are the contract of `advance(now == nextEdgeCycle())` |
| `UartRxDriver_proofs` | theorems about it | the inductive invariants are stated at the end of the module they are about, here and below |
| `UartTx` | `UartTxDecoder` | `TxSample` = `sample()`; the decoder is a value, so two modules share it |
| `SevenSeg` | `SevenSeg`, `decodeSevenSeg` | operators over a digit record; the segment table is a constant operator |
| `BoardModel` | `BoardModel` | one step per turn of the loops in `tick()` (`Tick`, `ApplyEdge`, `EdgesApplied`, `Segment`), so `pc` and `end` are the call's locals; `SendUart`, `SetInput` between ticks; `StepEngine` is a caller that bypasses `tick()` |
| `BoardReference` | what the frozen contract says, without ticks | recomputes log, design, display, LEDs and decoder cycle by cycle from the recorded calls (`slots` with `handed`, `pokes`); `ScheduleInv` ties each of them to the board's at every step of `tick()` |
| `Recursion` | no code: what recursion computes | induction with a set in place of an operator; the equations of a recursively defined function, taken from it by `INSTANCE Recursion WITH Base, Step`; those of the library's `FlattenSeq`; folds over a sequence, which agree when their steps do |
| `BoardModel_proofs` | theorems about the board and its reference | |
| `UartTxLine` | a transmitter and a wire in front of `UartTx` | one step per grid crossing; pulses begin at chosen phases; `Sampled` says how fine the grid must be for a divisor |
| `SimulationController` | `SimulationController` with `ScriptRunner` inside `advance()` | one step per turn of the script loop, one per callback, one per command; `pc` says which call is on the stack; `publish()` is split where its listeners run |
| `SimulationController_proofs` | theorems about it | |
| `UartTerminal` | the UART path of `BoardAdapter` with `UartConsoleModel` | each public operation one action; refreshes are an action of their own that may come at any time |
| `UartTerminal_proofs` | theorems about it | |
| `EventLog` | `SimLog` with the log side of `BoardAdapter` and `EventLogModel` | `boardLog` is the lines with their numbers, `logRead` the adapter's position in a retained log, `view` the rows; recording, draining, clearing and trimming are its actions |
| `BoardAdapter` | publication and the inspector | extends `EventLog`; a publication stages everything, then notifies; the views' notifications are one step, `Notify`, before which any of them may have called back into the adapter; rows and `inspectorIds_` are two lists, as in the code |
| `CommandLine` | `helpOption()`, `splitArguments()`, `parseLaunch()`, `parseRun()`, `parseRunArgs()` | pure operators over sequences of words, and `AcceptedAsMeant`, the reference: is there a way to cut the words into options with good values? |
| `Launcher` | `runLauncher()` and `main()` | extends both; `phase` is the statement reached, `posted` the events the loop has still to deliver, in any order; signals, the user, timeouts and the window are its environment |
| `Launcher_proofs` | theorems about `EventLog`, `BoardAdapter` and `Launcher` | |
| `SimEngine` | abstract: the contract of `SimEngine.h` | registers, inputs and the answer of the last call; no evaluation, no dirt |
| `VerilatorEngine` | `VerilatorEngine` | the model's storage, `dirty_`, `entries_`, `byName_`, trace state; each call of `SimEngine.h` one action; shown to implement `SimEngine!Spec` |
| `TransmitAndEngine_proofs` | theorems about `UartTxLine` and `VerilatorEngine` | two subjects that have nothing in common but the module |
| `VgaFrameAssembler` | `VgaFrameAssembler` | a record of its fields and `Consumed`, the loop of `consume()` |
| `Xdc` | `parseXdc()`, `writeXdc()` and their helpers | recursive operators over sequences of symbols, one for each function; a symbol is a character or a whole ordinary word |
| `PinBinding` | `bind()`, `setPin()` | `Bind` folds over the pins of a document; `Wires` and `WireLevel` say the same of the document without storage offsets |
| `VideoBoard` | `BoardModel` with VGA bound, over the engine, the monitor and the binding | `Tick`, `Segment` (a captured one), `SetDriver`; `EngineCall` is the inspector or a tool that uses the engine between ticks |
| `DesignCache` | `buildDesign()` and `main()`'s load, by several processes | a record per run: `pc` is the line of `build()` it stands before, the other fields are its locals (files, stamps, contents, the copies, what the compiler read, its `WorkDir`); `cache` and `dirs` are the cache root; `Edit`, `Damage`, `Kill`, `Signal` are the world |
| `ProcessCancel` | `runProcess()` against `cancelProcesses()` | every access to the two atomics is a step; groups and their members are the operating system's |
| `DesignBuilder_proofs` | theorems about both | what entries hold; what runs do to one another; what a cancelled build leaves |

Two refinements are chained: `BoardModel` instantiates `UartRxDriver`, `SevenSeg`
and `UartTx` and implements `UartRxDriver!Spec` (`ImplementsDriver`), which
implements `SerialLine!Spec` (`ImplementsLine`). Both are proved, so what holds of
the driver holds of the board as long as nobody steps the engine behind it
(`BoardStampsAreExact` draws that conclusion for the promised stamps); and as `tx_9600`
shows that the decoder reports whatever a well-timed line sends, a byte sent to a
design that echoes comes back. A third, `EngineImplements`, says that
`VerilatorEngine` under `VideoBoard`'s calls is a `SimEngine`: its registers and
inputs are those of the model's storage, and dirt, evaluation and the tables of
names are not seen. It is proved for any caller (`EngineSpec`), and checked under
the board's calls.

In `DesignCache` a design is a source, a header it includes, a header of the same
name that may appear in an earlier include directory, and the engine sources. A
file is a content and a stamp: `stateOf()` fingerprints identity, size and times,
of which the status-change time cannot be set back, so every write gives a new
stamp. A key is the content of every file that was read; hashes do not collide. A step is one system call or one tool
that reads one file, so edits and other runs come in between. Child processes
are one step there; `ProcessCancel` opens them up. The work directories under
the temporary directory are private to their run and swept by the same rule as
the stage directories; only the latter, which share the cache root with
entries, are in the model.

The Verilated design is not part of the repository. It enters `BoardModel` as
three constant operators (registers after a cycle, pins for given inputs), given
in `MCBoard` as a register behind UART_RX, a multiplexed digit and a LED wired
to a switch. The engine's contract used there is that `step(n)` advances n cycles
with constant inputs and that a peek is settled, which is part of what
`EngineImplements` shows. In `VerilatorEngine` a design is what `eval()` does:
registers move on a rising clock, signals follow registers and inputs.

## Runs

| Run | Question | Bounds, and why they are enough |
|---|---|---|
| `rx_driver` | promised stamps, frames, waveform | 2 data bits (start, first, last, stop: every kind of edge), 3 bytes (a chained pair and one more), 40 cycles = 3 frames and idle time on both sides |
| `board` | is tick partitioning visible, does `tick()` keep the driver's contract? | chunk 4 against frames of 6: edges meet and miss the grid; ticks of 1, 3, 6; a poke and two sends at any cycle; a digit whose pattern changes while its character stays `?`; one step of the engine behind the board's back, as long as three bits, after which only `LogOrdered` and `SegmentAdvances` are claimed |
| `tx_9600` | does grid sampling lose frames? | the program's real numbers (10417 cycles per bit, chunks of 1000), 8 data bits, two pulses at residues chosen at every boundary of the chunk |
| `controller` | the promises of the scheduler; does a run end, is it announced? | four commands, one exception at any cycle of an advance, four scripts (endless, finite, no frames, too long); limit 14 cycles = over four batches |
| `terminal` | do rows depend on refreshes? | rows of 2 bytes and 2 rows, so that filling, ending and trimming all happen, and a text of two line ends and a byte, which alone has more rows than the scrollback; two decoded items, three operations |
| `terminal_tie` | the same when a send and a reset share a cycle | violated, see below |
| `cache_edits` | does an entry always match its key? | two runs of two processes, two contents, two writes: an edit and its undoing, or edits of two files |
| `cache_faults` | what do races, damage and a kill leave behind, and do runs that find damage end? | three runs of two processes (one pid is reused after a kill), one of each fault; without edits, so that both want the same entry |
| `cache_ctrl_c` | is nothing stored after a signal? | violated, see below |
| `launch` | are command lines read as meant; what do the views, the log file and the exit of a launch say? | a source with every tail of up to 3 words of 20, every tail of 4 of the ones that interact, and those of the launches followed; followed are an endless, an empty and a two-frame run, an interactive board, a smoke test and a preview, for 5 cycles with 3 actions of the user or the window; a view of 2 lines, so that batches as large as it, and larger, occur |
| `video` | are constraints read and bound as written, frames judged and shown as sent, is the engine's contract kept? | a raster of 5 by 4 with a visible part of 2 by 2; two pixel clocks, vsync falling before, with and inside a line's hsync, too long or of another polarity, frames one line too long; 66 cycles = three frames of the fast clock, of which a transient may spoil one; a grid of 7 that divides neither lines nor ticks; two changes of a switch, or three direct engine calls, in the middle; 3375 sequences of up to three constraint commands out of 14 sound and broken ones; every text of up to three of 14 characters where a value, a key, a name or a port may stand |
| `process_cancel` | does a signal end all that was started? | two commands, two further processes each, two kinds of signal; the waits of 100 and 300 units are 1 and 3 |

Deadlock checking is on for the controller, where wall time always passes. It is
off where the bound on the clock or on the number of runs ends the behaviour and
the program itself would go on, and in `ProcessCancel` and `Launcher`, which end
with their build and their process.

The MC modules only give values to constants. Processes of the cache are
interchangeable in its safety runs; no other symmetry is used: bytes are
distinguished by their bits and commands by their effects.

Two runs end in a violation because the code does something its documents deny:

* `terminal_tie`: a scripted send at the cycle a reset pulse begins is shown
  before the reset notice if a refresh came between, after it if not.
  `BoardAdapter.h:116-118` promises an order that never depends on refreshes.
  Without that tie it holds (`RowsAreTrafficUntied` in `terminal`).

* `cache_ctrl_c`: `build()` looks at the cancellation flag for the last time when
  the compiler has ended. A signal during verification or staging lets the
  module be published, and `main()` then prints `interrupted` and exits with 130.
  `docs/design_loading.md:58-59` promises that "nothing is cached".

### Fairness

`SimulationController`: `WF(Work)`: calls and
listeners return, as every loop in them is bounded. `WF(Callback)`: the event
loop delivers a timer that is due. `WF(WallMs)`: wall time passes. Nothing is
assumed of the user, whose commands are bounded by `MaxCommands`: after the last
of them the system is left alone, which is the situation `RunEnds` speaks of. An
endless run ends in the model at `Limit`, where the code fails the advance for
lack of cycles; so `RunEnds` also says that every batch makes progress.

`Launcher`: `WF(Compose \/ Exec)`, `WF(NotifyViews)`, `WF(WriteFiles)`: calls return.
`WF(Batch)`: the timer of a running controller is delivered.
`WF(EventLoop)`, `WF(LeaveLoop)`: Qt delivers what was posted, and a loop told to
exit returns. Nothing is assumed of the user, of signals and of rendering.

`DesignCache`: `WF(BuildStep(p))`, the system schedules every process and every
tool comes back; nothing is assumed of edits, damage, kills and new runs, which
are bounded. `ProcessCancel`: the main thread and the handlers run, and a command
that was sent SIGTERM ends (cmake, make and the compilers do not block it); the
processes it started need not, which is why the code kills them.

## Proofs

A theorem holds for every value of the constants that satisfies the named
assumption of its module, a run for one. Each inductive invariant was first
checked by TLC. What the proofs of one module have in common is one lemma for
each action, under it one step for each conjunct that the action can disturb.

### Receive driver (`UartRxDriver_proofs`, from `RxAssumption`)

Every bit length, frame length, payload set and bound: `TypeCorrect`,
`StampsAreExact` (`[]StampExact`), `FramesNeverOverlap` (`[]FramesDisjoint`),
`DriverImplementsLine` (`Spec => ImplementsLine`).

`StampExact` is not inductive: a stamp is promised when the byte is queued and
kept a whole queue later. `RxInv` says why it is kept. `QueueIsPending`: the
queue is the tail of the accepted bytes, and the k-th queued byte was promised
k-1 frames after `frameStart`. `LineOwned`: `lineFreeCycle_` is the end of the last
completed frame and never lies behind the frame in flight. `EdgeOnTime`: the clock
is between the previous edge and the next one. `DrivenIsStarted` and
`LineIsSymbol` tie the histories and the pin to the edge index. For the refinement
`LineInv` adds what the abstract line can see: accepted frames lie apart, and
after the last edge of a frame the pin stays high. A step of the driver then
extends the waveform by exactly the levels that the slots prescribe.
Products such as `edgeIndex * Bit` are not linear; `EdgeStep` and `PromiseStep`
state the facts about them that the proof needs.

### Transmit line (`TransmitAndEngine_proofs`, from `TxLineAssumption`)

For every frame length, bit length, grid, set of divisors, phase, gap and order of
frames and glitches: `FramesAreReportedAsSent` (`[]ReportedIsSent`) and
`FramesAreReportedInTime` (`[]ReportedByStop`). `TxLineAssumption` asks of a divisor
what `Uart.h:13-18` argues about, in the four inequalities of `Sampled`;
`FourChunksPerBit` proves that the bound named there is enough when both sides divide
alike. TLC evaluates the assumption at the program's numbers, for the divisors
10416 and 10417.

`TxLineInv` says what the decoder may be waiting for by what is on the wire: the
frame, seen less than a chunk after it began, with the bits before `index` taken
(`Receiving`); nothing, or the rest of a low stop bit that will be high again before
it is confirmed as a start (`Received`); nothing, or a glitch that will be over
(`Ignored`). In all of them the sample that it waits for is still ahead of the clock
(`Waiting`), because `Cross` looks at every crossing. The proof splits a sample by
the three.

### Board (`BoardModel_proofs`, from `BoardAssumption`)

For every design, grid, display, bit length and way to slice time:

* `SegmentsAdvance` (`[]SegmentAdvances`) and `LogIsOrdered` (`[]LogOrdered`), also when
  somebody steps the engine behind the board. `LoopInv` is the types and where
  `now`, `end` and the next grid point lie in each `pc`; `LogShape` adds that no line
  lies in the future.
* `BoardImplementsDriver` (`Spec => ImplementsDriver`): inductively, `DriverInv` says
  that the driver's own invariants hold under the board's calls. So no edge is
  late, `ApplyEdge` is the driver's `ConsumeEdge` and a segment its `Elapse`.
  `BoardStampsAreExact` carries `StampExact` over.
* `PartitionIndependence` (`[]PartitionIndependent`) and `ScheduleIsKept`
  (`[]ScheduleInv`), for ticks of at least one cycle.

`PartitionIndependent` compares the board between ticks with a reference
that knows no ticks. Its invariant holds inside `tick()` too. `CallsInv`: the
switches are those of the recorded pokes, and each handed byte has its slot.
`DueInv`: the driver is as far as the schedule says. `SampledInv`: the design is
at this cycle, and display, LEDs and decoder are at the last crossing. `LogInv`:
the log is the reference's, short of nothing but a start bit that is due. There
is one lemma for each action (`TickStep`, `ApplyStep`, `LoopStep`, `SegmentStep`,
`SendStep`, `InputStep`). Each of them rests on one idea: what the reference
computes for a past cycle does not depend on calls made later (`BeforeSettled`,
`LinesSettled`, `DisplaySettled`, `TxSettled`, `DesignSettled`). A segment that reaches
a crossing must moreover sample what the reference computes there, although
it was reached in segments that ended at edges (`CrossingSampled`).

The reference is recursive. A recursive function is unique and has its equation
because the numbers are well founded; `Recursion` states that once, for a `Base`
and a `Step`, and is instantiated for the design, the decoder and a design that
goes on from a state. `Induction` speaks of a set that holds 0 and is closed
under successor, so that it can be used inside a proof.

### Simulation controller (`SimulationController_proofs`, from `ControllerAssumption` and `ScriptsAssumption`)

For every set of scripts that are sorted, every speed and end, and every order
of commands, batches, nested event loops and failures. `ControllerIsSound` is
`[]ControllerInv`; from it follow `RunIsNeverStranded`, `RunEndsOnTime`, `RestShowsNow`,
`NeverABatchAhead`, `PulseGivesBack` and `ScriptIsExact`. The
conjuncts say what the properties need while a call is on the stack:
`TimerKept` (what is armed or will be re-armed, by `pc`, while running),
`HorizonKept` (target and end of the advance in progress, and that an armed run has
not reached its end; a run that stands at its end is finished, unless the board threw
at that very cycle), `ShownKept` (which cycle the view shows until the
publication in progress), `PacingKept` (virtual time against the wall clock's
origin, with the batch in progress counted), `ButtonKept` (who owns BTNC, inside a
reset pulse and outside it) and `ScriptKept` (the history of applied events is the
consumed part of the script, each at its cycle, and the cursor stands before
the first event that is not yet due).

### Terminal (`UartTerminal_proofs`, from `TerminalAssumption`)

`PendingIsTheLines` (`[]PendingIsExact`) and `TypingFits` (`[]TypedFits`), for every
frame length, set of texts and order of typing, scripted sends, refreshes, clears
and resets. The adapter adds to `uartRxFrameEnds_` with every send, scripted ones
included, and pops what is over only when it refreshes, clears or is typed at.
`PendingInv` says why the list can be trusted when it is read: frames on the line
are scheduled one behind the other (`FramesApart`), so that those which are over
come first, and the list is the end of the line's, short of frames that are over
(`EndsAreTail`). Popping the front then leaves exactly the unfinished ones
(`StillQueuedIs`), and a typed text is measured against all of them.

`RowsNeverDependOnRefreshes` (`[]RowsAreTrafficUntied`), for every row length, number
of rows, text and order of traffic, sends, resets, clears and refreshes: bytes,
framing errors and scripted sends wait in three lists, a reset notice in none, and a
refresh merges them by stamp; what is shown is nevertheless what a terminal would
show that was refreshed all the time. `TrafficInv` says why. `WaitingTyped`: nothing
that waits is stamped later than now, and the rows shown are trimmed already.
`ScriptsInTraffic`: a scripted send that waits is part of the traffic.
`RowsFollow`: were everything that waits published now, with the notice of the running
pulse or without it, the rows would be the traffic. So a refresh changes nothing
(it publishes what `RowsFollow` speaks of), a typed text is added behind such a
publication, and any other step adds one thing that waits and one happening to the
traffic. What must be shown is that the one comes out
of the merge where the other is, at the end:

* every operation on the rows commutes with trimming them (`AddByteIs`, `GroupedType`,
  `WatchedIs`), so it does not matter in how many publications rows are trimmed;
* a stable sort is insertion behind all that is not later; a marker goes to the end
  if those collected before it are not later (`SortLast`) and those collected behind
  it are earlier (`SortMiddle`);
* a byte that is later than all markers is shown after them (`PlacedLater`).

`ShownTx`, `ShownError`, `ShownScript` and `ShownReset` put this together for the four
kinds of things that wait. `SortMiddle` asks that what is collected behind a new
marker be strictly earlier: a notice is collected before the scripted sends and
added after them. That strictness is exactly what `Tied` takes away, for scripted sends
only (a typed one is shown where it is typed), and what `terminal_tie` shows to be wrong
in the code. The notice is the hard case: it is stamped
when the pulse begins and shown when it ends, if it does; so `RowsFollow` also
speaks of `Noted`, the traffic with the notice where the pulse began (`RowsPulse`).

### Cache (`DesignBuilder_proofs`, from `ContentsAssumption`, `BoundsAssumption`, `ValuesAssumption`)

What entries hold, for every number of processes, runs, edits and faults:
`CacheMatchesKeys` (`[]EntriesMatchKeys`), `KeysAreWhole` (`[]KeysAreSnapshots`),
`CacheTyped` (`[]TypeOK`).
`EntriesMatchKeys` speaks of entries alone; it holds because of what a build knows
about files that change under it. `CacheInv` adds, for every run (`RunOK`): a
stamp only grows; whatever the run hashed (`Tied`) or compiled (`BuiltTied`) of a
file is the file's content for as long as the file still has the stamp taken
first. So when the second stamp equals the first, the hashes belong together; and
when the stamps still agree after the compile, what was compiled is what was
hashed. A build from copies does not depend on the files any more, as its copies
were compared with the hashes. From there on `built = content`, and the rename
publishes nothing else.

What runs do to one another: `RunsShareTheCache` (`[]SharingInv`), `NobodyLosesAlone`
(`[]LostOnlyToOthers`), `OnlyKilledRunsLeave` (`[]LeftoversAreOfKilled`),
`PublishedEntriesStay` (`Spec => EntriesStay`). `SharingInv` says what a run that
nobody disturbed can count on (`HoldsItsOwn`: its stage directory is there, and
an entry under its key is good enough to replace its own), that without
damage every entry can be loaded (`Peaceful`), and that the directories that
nobody is working on are few (`LeftBehind`: two for each kill).

The invariants show how much rests on process ids. A sweep finds out whether the
owner of a directory lives, and removes it later; if the owner was killed
and its id is used again in between, the new run's directory goes. `EntriesStay`
excepts the run that this happens to, which may take another run's good entry
for what stands in its way. Damage is excepted as well: between the failed load
and `discardEntry()` (`DesignBuilder.cpp:662-664`) another run may replace the
damaged entry, and it is the good one that is then discarded.

### Cancellation (`DesignBuilder_proofs`, from `CancelAssumption`)

For any number of commands, processes and signals: `NothingIsLeft`
(`[]NothingLeftRunning`) and `OnlyACancelledBuildIsTold`. `CancelInv` says at
which stage of `runProcess()` which members of the group can be alive
(`GroupAtStage`, `OneAtATime`), that a process that outlives its leader was told to
end (`OrphansWereTold`), and that only a cancelled build tells
(`TellersCancelled`).

### Engine (`TransmitAndEngine_proofs`, from `EngineAssumption`)

`EngineKeepsItsContract` is `EngineSpec => EngineImplements`, for every design (what
`eval()` does with registers and inputs), list of ports and watches, size of step
and order of calls: every call of `VerilatorEngine` is the same call of `SimEngine`, or
refused there too. `EngineInv` says why nothing of the implementation is seen:

* `ModelKept`: the model's clock is where `eval()` last saw it, so an evaluation that
  settles pokes is not an edge; and what is not dirty is settled.
* `TimeKept`: the context's time and `cycle_` count the same cycles; a trace that is on
  has a file.
* `NamesKept`: an entry is the signal its id was given out for, and a name that is
  remembered as not found does not exist.

A step is a recursion over its cycles in both modules. `Reached` relates the two
after each cycle: the registers are the contract's, the inputs are those poked
before, the waveform has grown by two dumps (`DumpsGrow`). An edge sees pokes that were
never evaluated, because the low half of the cycle evaluates first (`HalfIs`).

### Launch (`Launcher_proofs`, from `LauncherAssumption`, `PortsAssumption`, `RowsAssumption`)

For every design, list of watches, size of the view and of the batches, and every
order of commands, notifications, clicks, signals and failures:
`LaunchKeepsItsPromises` is `[]LauncherInv`; from it follow `LogViewTellsTheStory`
(`[]ViewIsStory`), `InspectorShowsOneCycle` (`[]SnapshotOfOneCycle`), `LogFileIsComplete`
(`[]LogFileWhole`) and `ScreenshotIsAccountedFor` (`[]ShotOrTold`). The parts:

* `LogInv`: what the view shows, what waits to be shown and what the board's log
  holds unread are, in this order, the end of what happened, and the trimmed count
  is the rest. The reader's position lies inside a log that is retained, and the
  owner's switch is back where it was when the view stops recording.
* `InspectorInv`: `SignalInspectorModel`'s rows and the adapter's ids are two lists
  that are changed in different places; they stay parallel, no name is there twice,
  and the rows are the ports of the latest snapshot followed by the inner signals.
* `StartKept`: before the event loop nobody has recorded, switched or run.
* `FileKept`: a log that is retained for the file is a header and all that happened.
  This is why `takeLog()` must not be used by the view while there is a file.
* `ShotKept`: a finite run is not past its end, and the end of a run is queued
  until it is dealt with.

There is one lemma for each action (`ParseKeeps` to `WriteFilesKeeps`). What the user
and a notification do to the adapter is one thing, `AdapterStep`, proved once. The
lemmas at the start are about ends of sequences: dropping, appending and trimming
them, and which events a list of lines holds (`EventsIn`, a flattening).

### Only model-checked

* `RunEnds`, `FinishIsAnnounced`, `RunsEnd`, `CancelEnds`, `FinishedLeaves`: liveness rests
  on fairness, and so on ENABLED, which the provers do not handle.
* `ConstraintsRoundTrip`, `InputsMatchPins`, `FrameHealthExact`, `PictureIsSignal`: `Xdc`
  declares RECURSIVE operators (its functions call each other), for which the SMT
  backend is not available, and `VideoBoard` uses it.
* `CommandLineAsMeant`: it compares four scanners with a reference that searches all
  ways to cut a line into options, through the library's SelectSeq and SetToSortSeq, of
  which the provers know no fact. It speaks of no step of the launcher, so what is
  missing is not an invariant but a theory of these operators.

## Not modelled, and limits of what is

* An exception from the board is modelled where the board is advanced, in the
  middle of a tick, and where a switch is bound to the clock: `setSwitch()` records
  the new state before the engine refuses, so a retry is ignored; `InputsMatchPins`
  excepts exactly that wire, so that the swallowed retry is described and not
  checked. Elsewhere `setButton` and `applyStimulus` are taken not to throw.
* Speed measurement, message texts and diagnostics, formatting and layout.
* The log is taken to be enabled in `BoardModel`, and `VideoBoard` binds no UART,
  LED or digit. The two forms of a segment are checked apart.
* `Xdc`: the characters that the code treats alike are one (blanks, carriage
  returns and tabs; the other control escapes), numbers are a few numerals. One
  document does not come back from its text: a design property whose key is
  `-dict` (it can be read from a list) is written in the form that begins a list.
  `RoundTrips` excepts it, although `Xdc.h:61` does not.
* `Launcher`: a run that had just finished has its end queued; when the quit of a
  user or a signal overtakes it, no screenshot is taken and nothing is said, and
  the exit code is 0 (`overtaken` in `ShotOrTold`). Signals during the build end
  with 130 and belong to `ProcessCancel` and `DesignCache`. A notification may call
  back into the adapter, but runs no event loop there (the controller's model has
  those). The text of a refused watch is left out, and so is what QML warns of. A window
  that does not load ends the launch (`StartFails`), one that can no longer be rendered
  posts an error (`WindowEnds`, `GivesUp`).
* `CommandLine`: what a single word denotes (a number, an event, a file) is a
  constant operator; the order and effect of words is modelled.
* In `DesignCache`, the disk has room: `build()` does not look at the stream it
  writes `manifest.txt` to, and a write that fails is left out. The rename that moves
  a damaged entry aside (`DesignBuilder.cpp:326-333`) is taken to work. A file that appears before the first stamp in an earlier
  include directory is noticed by a build but not by a lookup that hits; and what
  refuses a request before any file is read is left out.
* Process numbers reused between the handler's read of `running` and its `kill`:
  the window is two instructions, and no state of the program can tell.
* `tick(0)` applies the RX edges of the current cycle, as
  `docs/simulator_invariants.md` says; a caller that inserts one between two
  inputs of the same cycle reorders their lines. `board` uses ticks of at least
  one cycle, and `PartitionIndependence` assumes them; the other theorems about
  the board do not.
* Verilator's JSON reader is a recursive parser without state between calls; the
  loader of modules is `dlopen` and a comparison of versions; QML and painting
  show the models' state; tools, benchmarks and tests are not the program.

## Plan

Done: driver, decoder, board, controller with scripts, terminal, design cache,
process cancellation, event log, adapter and inspector, command line, launcher,
engine, VGA monitor, constraints and binding; the theorems of the driver, the
transmit line, the board and its reference, the controller, the terminal, the cache,
cancellation, the event log, the inspector, the launcher and the engine. What would
come next, in order:

1. `FrameHealthExact` as a theorem: the monitor apart from the constraints, so that
   nothing recursive is in reach.
2. `BoardModel` and `VideoBoard` over one engine, with the UART and VGA bound.
3. LEDs, digits and pictures in `BoardAdapter`'s publication.
