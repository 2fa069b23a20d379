------------------------------ MODULE Launcher ------------------------------
(***************************************************************************)
(* qt/Launcher.cpp, runLauncher(): the composition of a board, an adapter  *)
(* and a controller, the event loop between them and the user, and the     *)
(* files written when it ends. Of the controller only what the launcher    *)
(* relies on is here (SimulationController has the rest): batches that     *)
(* advance and publish, the last cycle of a finite run, runFinished.       *)
(*                                                                         *)
(* Events reach the loop through a set: Qt delivers what a batch posted,   *)
(* a signal's byte, a rendered frame, a rendering error and a timeout in   *)
(* an order that the program does not control, and after exit() the events *)
(* of the same pass are still delivered.                                   *)
(***************************************************************************)
EXTENDS BoardAdapter, CommandLine

CONSTANTS
  CommandLines, \* the command lines
  Options,      \* bound: the accepted options whose launch is followed to its end
  Startup,      \* cycles of the startup reset
  FrameCycles,  \* RunOptions::cyclesPerFrame
  BatchSizes,   \* cycles of a batch or a step
  MaxCycle,     \* bound: the last cycle of an endless run
  MaxUser       \* bound: actions of the user and the window

VARIABLES
  args,       \* the command line, until the board is made
  command,    \* what main() makes of it
  opt,        \* LaunchOptions, with file names reduced to their presence
  phase,      \* "args", "parsed", "made", "composed", "loop", "left", "over", "killed"
  running,    \* SimulationController::running_
  finished,   \* SimulationController::finished_
  endCycle,   \* script_->endCycle, or Endless
  posted,     \* events the loop has still to deliver
  exiting,    \* exit() was called
  code,       \* the last exit code given
  rendered,   \* renderedFrame
  saved,      \* the screenshot is on disk
  failed,     \* artifactFailure
  told,       \* the warning that the run ended early
  file,       \* lines of the log file, once it is written
  signals,    \* signals that arrived
  user,       \* history: actions of the user and the window so far
  overtaken   \* history: the loop was left with the end of the run undelivered

control == <<running, finished, endCycle>>
loop == <<posted, exiting, code, rendered>>
artifacts == <<saved, failed, told, file>>
parsing == <<args, command, opt>>
vars == <<adapterVars, parsing, phase, control, loop, artifacts, signals, user, overtaken>>

\* What parseLaunch() leaves, with file names reduced to their presence.
OptionsOf(launch) ==
  [preview |-> launch.preview, scripted |-> launch.scripted, frames |-> launch.run.frames,
   shot |-> launch.run.shot # "", log |-> launch.run.log # "",
   smoke |-> launch.smoke, realtime |-> launch.realtime]

NoFile == <<>>
NoCommand == Answer("none", NoLaunch, "")
NoOptions == [preview |-> FALSE, scripted |-> FALSE, frames |-> Endless,
              shot |-> FALSE, log |-> FALSE, smoke |-> FALSE, realtime |-> FALSE]

ASSUME LauncherAssumption ==
  /\ Startup \in Nat \ {0} /\ FrameCycles \in Nat \ {0}
  /\ BatchSizes \subseteq Nat \ {0}
  /\ MaxCycle \in Nat /\ MaxUser \in Nat
  /\ Options \subseteq [preview: BOOLEAN, scripted: BOOLEAN, frames: {Endless} \cup Nat,
                        shot: BOOLEAN, log: BOOLEAN, smoke: BOOLEAN, realtime: BOOLEAN]
  \* Only `run` reads a screenshot or a log, and it needs a design.
  /\ \A o \in Options : /\ o.shot \/ o.log => o.scripted
                        /\ o.scripted => ~o.preview

Finite == opt.scripted /\ opt.frames # Endless
WantsShot == opt.shot /\ opt.frames > 0

-----------------------------------------------------------------------------
(* The controller, as far as the launcher relies on it. *)

\* advance() never passes the last cycle of a finite run.
Clipped(n) == IF endCycle # Endless THEN Lesser(n, endCycle - now) ELSE n

\* A publication while nobody records and no view exists yet.
PublishUnseen(ls, c) ==
  /\ rows' = Staged(rows, [i \in DOMAIN inspectorIds |-> Value(inspectorIds[i], c, switch)])
  /\ snapshotCycle' = c
  /\ before' = [n \in Listed(rows) |-> (CHOOSE r \in Range(rows) : r.name = n).value]
  /\ UNCHANGED <<inspectorIds, haveSnapshot, shown>>

\* startScript(): the log first, then the startup cycles with BTNC held, unless
\* the run has no frames; publishes the end of such a run before anybody listens.
StartScript ==
  LET cycles == IF opt.frames = 0 THEN 0 ELSE Startup
      poke(c) == IF cycles = 0 THEN <<>> ELSE <<Line(c, "in")>>
      ls == IF opt.log THEN poke(0) \o Output(0, cycles) \o poke(cycles) ELSE <<>>
  IN  /\ enabled' = opt.log
      /\ wanted' = opt.log
      /\ now' = cycles
      /\ lines' = lines \o ls
      /\ happened' = ls
      /\ endCycle' = IF opt.frames = Endless THEN Endless
                     ELSE cycles + opt.frames * FrameCycles
      /\ finished' = (opt.frames = 0)
      /\ PublishUnseen(lines', cycles)

\* The startup reset of a run that is not scripted.
StartupReset ==
  /\ now' = Startup
  /\ PublishUnseen(lines, Startup)
  /\ UNCHANGED <<lines, enabled, wanted, happened, endCycle, finished>>

-----------------------------------------------------------------------------
(* main(), up to the event loop. *)

\* The command line is read; help and errors end the process.
Parse ==
  /\ phase = "args"
  /\ command' = Command(args)
  /\ phase' = IF command'.what \in {"run", "preview"} THEN "parsed" ELSE "over"
  /\ code' = IF command'.what = "error" THEN 1 ELSE 0
  /\ UNCHANGED <<adapterVars, args, opt, control, posted, exiting, rendered, artifacts,
                 signals, user, overtaken>>

\* Constraints are read, the design is built and loaded, the board and its
\* adapter are made.
MakeBoard ==
  /\ phase = "parsed"
  /\ opt' = OptionsOf(command.launch) /\ opt' \in Options
  /\ phase' = "made"
  /\ args' = <<>> /\ command' = NoCommand
  /\ AdapterMade(~opt'.preview)
  /\ UNCHANGED <<logVars, switch, control, loop, artifacts, signals, user, overtaken>>

\* One of these fails: unreadable constraints, a design that does not build or
\* load, a script whose inputs are not bound, a window that does not load.
StartFails ==
  /\ phase \in {"parsed", "made", "composed"}
  /\ phase' = "over" /\ code' = 1
  /\ UNCHANGED <<adapterVars, parsing, control, posted, exiting, rendered, artifacts,
                 signals, user, overtaken>>

\* Adapter and log retention; then the scripted startup, or the reset if the
\* design asks for it or, by its kind, has BTNC bound.
Compose ==
  /\ phase = "made"
  /\ phase' = "composed"
  /\ logRetained' = opt.log
  /\ IF opt.scripted THEN StartScript
     ELSE \/ board /\ StartupReset
          \/ UNCHANGED <<boardLog, wanted, happened, endCycle, finished, snapshot>>
  /\ UNCHANGED <<view, logRead, logWasEnabled, publication, story, board, switch,
                 parsing, running, loop, artifacts, signals, user, overtaken>>

\* Mutant: a run without frames waits for an announcement that came too early.
ToDeliverAnnounced == IF opt.smoke THEN {"deadline", "frame"} ELSE {}

\* What is posted before exec(): the smoke test's deadline and first frame, and
\* the end of a run that has no frames and was announced to nobody.
ToDeliver ==
  (IF opt.smoke THEN {"deadline", "frame"} ELSE {})
    \cup (IF opt.scripted /\ finished THEN {"finish"} ELSE {})

\* run() publishes before the first batch.
Exec ==
  /\ phase = "composed"
  /\ phase' = "loop"
  /\ posted' = posted \cup ToDeliver
  /\ running' = (opt.scripted /\ ~finished)
  /\ IF running' \/ (opt.realtime /\ board) THEN PublishUnseen(lines, now)
                                          ELSE UNCHANGED snapshot
  /\ UNCHANGED <<logVars, board, switch, parsing, finished, endCycle, exiting, code,
                 rendered, artifacts, signals, user, overtaken>>

-----------------------------------------------------------------------------
(* The event loop. *)

InLoop == phase = "loop" /\ ~publishing

\* advance() and publish(): the lines of the cycles, then one snapshot.
AdvanceAndPublish(n) ==
  /\ now' = now + n
  /\ Remember(Output(now, n))
  /\ Stage(Logged(Output(now, n)), switch, now + n, rows, inspectorIds)
  /\ UNCHANGED <<enabled, board, switch>>

\* What the loop has to deliver once a batch or a step is over.
Announced(ends) == IF ends THEN posted \cup {"finish"} ELSE posted

\* Time advances by n cycles; the publication is skipped if it is not due and the
\* run goes on. A listener sees runFinished only after the rows, queued.
Advance(n, due) ==
  LET cycles == Clipped(n)
      ends == endCycle # Endless /\ now + cycles = endCycle
  IN  /\ now + cycles <= MaxCycle
      /\ IF due \/ ends THEN AdvanceAndPublish(cycles) ELSE BoardTick(cycles)
      /\ finished' = ends
      /\ posted' = Announced(ends)

\* processBatch()
Batch ==
  /\ InLoop /\ running
  /\ \E n \in BatchSizes, due \in BOOLEAN : Advance(n, due)
  /\ running' = ~finished'
  /\ UNCHANGED <<parsing, phase, endCycle, exiting, code, rendered, artifacts, signals, user, overtaken>>

NotifyViews ==
  /\ phase = "loop"
  /\ Notify
  /\ UNCHANGED <<parsing, phase, control, loop, artifacts, signals, user, overtaken>>

\* step(): always publishes.
Step ==
  /\ InLoop /\ ~running /\ ~finished
  /\ \E n \in BatchSizes : Advance(n, TRUE)
  /\ UNCHANGED <<running, endCycle>>

\* run() and pause(), which publish.
RunOrPause ==
  /\ InLoop /\ ~finished
  /\ running' = ~running
  /\ Refresh
  /\ UNCHANGED <<finished, endCycle, posted>>

\* The views reach the adapter directly, also from inside a notification, where
\* canAccessBoard() has to refuse them.
UseViews == Views /\ UNCHANGED <<control, posted>>

User ==
  /\ phase = "loop" /\ board
  /\ user < MaxUser /\ user' = user + 1
  /\ Step \/ RunOrPause \/ UseViews
  /\ UNCHANGED <<parsing, phase, exiting, code, rendered, artifacts, signals, overtaken>>

\* app.exit() or app.quit(); the last code given in a pass of the loop counts.
Exits(c) == exiting' = TRUE /\ code' = c

\* Ctrl-C, SIGTERM or SIGHUP: a byte for the loop; the same signal again kills.
Signal ==
  /\ phase \in {"made", "composed", "loop"}
  /\ signals < 2 /\ signals' = signals + 1
  /\ \/ posted' = posted \cup {"quit"} /\ UNCHANGED phase
     \/ signals > 0 /\ phase' = "killed" /\ UNCHANGED posted
  /\ UNCHANGED <<adapterVars, parsing, control, exiting, code, rendered, artifacts, user, overtaken>>

\* The user closes the last window, or it can no longer be rendered.
WindowEnds ==
  /\ InLoop
  /\ user < MaxUser /\ user' = user + 1
  /\ \E e \in {"quit", "broken"} : e \notin posted /\ posted' = posted \cup {e}
  /\ UNCHANGED <<adapterVars, parsing, phase, control, exiting, code, rendered, artifacts,
                 signals, overtaken>>

Deliver(e) == InLoop /\ e \in posted

Quit ==
  /\ Deliver("quit")
  /\ posted' = posted \ {"quit"}
  /\ Exits(0)
  /\ UNCHANGED <<rendered, saved, failed>>

\* finishRun(): --frames 0 is a launch check that saves nothing.
FinishRun ==
  /\ Deliver("finish")
  /\ posted' = posted \ {"finish"}
  /\ IF WantsShot
     THEN \E written \in BOOLEAN : saved' = written /\ failed' = ~written
     ELSE UNCHANGED <<saved, failed>>
  /\ Exits(0)
  /\ UNCHANGED rendered

\* frameSwapped in a smoke test, without or with QML warnings.
FrameSwapped ==
  /\ Deliver("frame")
  /\ posted' = posted \ {"frame", "deadline"}
  /\ rendered' = TRUE
  /\ Exits(0) \/ Exits(1)
  /\ UNCHANGED <<saved, failed>>

\* The smoke test's deadline, or the window's rendering error.
GivesUp ==
  /\ \E e \in {"deadline", "broken"} : Deliver(e) /\ posted' = posted \ {e}
  /\ Exits(1)
  /\ UNCHANGED <<rendered, saved, failed>>

EventLoop ==
  /\ Quit \/ FinishRun \/ FrameSwapped \/ GivesUp
  /\ UNCHANGED <<adapterVars, parsing, phase, control, told, file, signals, user, overtaken>>

\* exec() returns.
LeaveLoop ==
  /\ InLoop /\ exiting
  /\ phase' = "left"
  /\ overtaken' = ("finish" \in posted)
  /\ UNCHANGED <<adapterVars, parsing, control, loop, artifacts, signals, user>>

-----------------------------------------------------------------------------
(* After it. *)

\* Mutant: only a run still in motion counts as ended early.
EndedEarlyRunning == WantsShot /\ running

\* The condition of the warning.
EndedEarly == WantsShot /\ ~finished

\* Warnings, the log file, the exit code; then the adapter lets go of the log.
WriteFiles ==
  /\ phase = "left"
  /\ phase' = "over"
  /\ told' = EndedEarly
  /\ \E written \in BOOLEAN :
       /\ opt.log \/ written
       /\ file' = IF opt.log /\ written THEN lines ELSE NoFile
       /\ failed' = (failed \/ ~written)
  /\ code' = IF (opt.smoke /\ ~rendered) \/ failed' THEN 1 ELSE code
  /\ ReleaseLog
  /\ UNCHANGED <<board, switch, snapshot, parsing, control, posted, exiting, rendered, saved,
                 signals, user, overtaken>>

Init ==
  /\ args \in CommandLines
  /\ command = NoCommand /\ opt = NoOptions
  /\ AdapterInit
  /\ phase = "args"
  /\ running = FALSE /\ finished = FALSE /\ endCycle = Endless
  /\ posted = {} /\ exiting = FALSE /\ code = 0 /\ rendered = FALSE
  /\ saved = FALSE /\ failed = FALSE /\ told = FALSE /\ file = NoFile
  /\ signals = 0 /\ user = 0 /\ overtaken = FALSE

Starting == Parse \/ MakeBoard \/ StartFails \/ Compose \/ Exec
Loop == Batch \/ NotifyViews \/ EventLoop \/ LeaveLoop
World == User \/ Signal \/ WindowEnds

Next == Starting \/ Loop \/ WriteFiles \/ World

\* main() runs on, from the composition to its end, and so does the event loop.
Fairness == /\ WF_vars(Compose \/ Exec) /\ WF_vars(WriteFiles)
            /\ WF_vars(Batch) /\ WF_vars(NotifyViews) /\ WF_vars(EventLoop)
            /\ WF_vars(LeaveLoop)

Spec == Init /\ [][Next]_vars /\ Fairness

-----------------------------------------------------------------------------
Gone == phase \in {"over", "killed"}

\* After the sources, a command line is accepted exactly if its words can be cut
\* into options with good values, and it is run as that cut says (AcceptedAsMeant):
\* the four scanners take the same words for options and for values.
CommandLineAsMeant ==
  (Len(args) > 1 /\ args[2] = "run" /\ command.what \in {"run", "error"})
    => AcceptedAsMeant(args, command)

\* docs/qt_scripted_runs.md promises the whole log from cycle 0 in the file when
\* the app exits, whatever the Logs view recorded, stopped and cleared meanwhile.
LogFileWhole ==
  (phase = "over" /\ opt.log) => \/ file = <<Header>> \o happened
                                 \/ code = 1

\* A run asked for a screenshot leaves with it, with an error code, or with the
\* warning that it ended early. (When the quit of a user or a signal overtakes the
\* queued end of a run that had just finished, the code does neither.)
ShotOrTold ==
  (phase = "over" /\ WantsShot) => saved \/ code = 1 \/ told \/ overtaken

\* A finite run that reached its last cycle leaves, also one without frames, whose
\* end was announced before anybody could listen.
FinishedLeaves == (Finite /\ finished) ~> Gone
-----------------------------------------------------------------------------
(* Why they hold: an inductive invariant, with LogInv and InspectorInv. *)

Unmade == phase \in {"args", "parsed", "made"}
BeforeLoop == Unmade \/ phase = "composed"

Phases == {"args", "parsed", "made", "composed", "loop", "left", "over", "killed"}

\* Before the loop nobody has recorded, switched or run.
StartKept ==
  /\ phase \in Phases
  /\ phase \in {"args", "parsed"} =>
       /\ opt = NoOptions /\ ~board
       /\ snapshotCycle = 0 /\ shown = FALSE /\ before = <<>>
  /\ phase \notin {"args", "parsed"} => opt \in Options \cup {NoOptions}
  /\ phase \in {"made", "composed"} => board = ~opt.preview
  /\ Unmade => /\ ~finished /\ ~wanted /\ ~logRetained /\ ~switch /\ endCycle = Endless
               /\ lines = Cleared /\ happened = <<>>
  /\ BeforeLoop => /\ ~running /\ ~recording /\ shown = switch
                   /\ finished => opt.frames = 0

\* A retained log is the owner's: nobody clears it, switches it off or misses a line.
FileKept ==
  /\ ~Unmade /\ phase \notin {"over", "killed"} =>
       /\ logRetained = opt.log /\ wanted = opt.log
       /\ opt.log => lines = <<Header>> \o happened
  /\ LogFileWhole

\* A finite run is not past its end, and the end is queued until somebody has
\* dealt with it.
ShotKept ==
  /\ endCycle # Endless => endCycle \in Nat /\ now <= endCycle
  /\ running => ~finished
  /\ finished /\ WantsShot =>
       /\ phase = "loop" => saved \/ failed \/ "finish" \in posted
       /\ phase = "left" => saved \/ failed \/ overtaken
  /\ ShotOrTold

LauncherInv == /\ LogInv /\ InspectorInv /\ StartKept /\ FileKept /\ ShotKept
               /\ phase = "left" => ~publishing
=============================================================================
