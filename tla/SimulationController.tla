------------------------ MODULE SimulationController ------------------------
(***************************************************************************)
(* qt/SimulationController.{h,cpp} with script/ScriptRunner.cpp inside it: *)
(* the scheduler on the GUI thread. Run, Pause, Step, Reset and a script   *)
(* advance one board in bounded batches; a single-shot timer paces them.   *)
(*                                                                         *)
(* There is one thread, yet calls do interleave: publishing calls          *)
(* listeners, and a listener may run a nested event loop, in which the     *)
(* timer fires while a command is still on the stack. Wall time is counted *)
(* in whole milliseconds since the events the code compares it with, so it *)
(* never ends. Speed measurement and message texts are left out.           *)
(***************************************************************************)
EXTENDS Integers, SequencesExt

CONSTANTS
  Batch,         \* options_.batchCycles
  ResetCycles,   \* ResetCycles, and the 16 cycles of a scripted startup
  MsCycles,      \* virtual cycles that take 1 ms at 1x speed
  MaxDelay,      \* longest pacing delay, in ms
  PublishMs,     \* PublishInterval
  Limit,         \* MaximumCycle
  HasReset,      \* canReset_
  Scripts,       \* RunOptions startScript() may be given
  StepSizes,     \* arguments of step()
  MaxCommands,   \* bound: commands from the user
  MaxFailures    \* bound: exceptions from the board

VARIABLES
  now, button,              \* the board's clock and its BTNC level
  script,                   \* script_: <<>> or <<options>>
  event, send,              \* script_->cursor: how many were applied
  endCycle,                 \* script_->endCycle: <<>> or <<cycle>>
  running, realtime, error, finished, finishAnnounced, scriptFailed,
  timer,                    \* timer_: <<>> when stopped, <<ms left>> when armed
  elapsed, runCycle,        \* ms since runWall_ (saturating), and runCycle_
  sincePublish,             \* ms since lastPublishWall_ (saturating)
  shown,                    \* cycleText_
  pc,       \* "idle", "advance", "publish", "adapter" (it publishes by itself)
  task,     \* the call that is advancing
  end,      \* the cycle this advance stops at
  before,   \* reset()'s locals wasPressed and eventsBefore
  rearm,    \* argument of the schedule() that follows this publication
  wanted,   \* history: BTNC as the user or the script set it last
  trace,    \* history: script actions applied, each at its cycle
  announced,            \* history: the cycle shown at each runFinished
  commands, failures    \* counters behind the bounds

board == <<now, button>>
cursor == <<event, send>>
clocks == <<elapsed, runCycle, sincePublish>>
call == <<task, end, before>>
state == <<running, realtime, error, finished, scriptFailed>>
told == <<finishAnnounced, announced>>
vars == <<board, script, cursor, endCycle, state, told, timer, clocks, shown, pc,
          call, rearm, wanted, trace, commands, failures>>

ASSUME ControllerAssumption ==
  /\ Batch \in Nat \ {0} /\ ResetCycles \in Nat \ {0} /\ MsCycles \in Nat \ {0}
  /\ MaxDelay \in Nat \ {0} /\ PublishMs \in Nat /\ Limit \in Nat
  /\ StepSizes \subseteq Nat \ {0}
  /\ ResetCycles <= Limit

\* What RunOptions promises of a script: both lists "sorted by cycle", and a frame
\* takes time (startScript() refuses one that does not).
ScriptsAssumption ==
  \A o \in Scripts :
    /\ o.stimulus \in Seq([cycle: Nat, btnc: BOOLEAN, value: BOOLEAN])
    /\ \A i, j \in DOMAIN o.stimulus : i < j => o.stimulus[i].cycle <= o.stimulus[j].cycle
    /\ o.sends \in Seq(Nat)
    /\ \A i, j \in DOMAIN o.sends : i < j => o.sends[i] <= o.sends[j]
    /\ o.frames \in Int /\ o.cyclesPerFrame \in Nat \ {0}

ASSUME ScriptsAreSorted == ScriptsAssumption

Later(a, b) == IF a > b THEN a ELSE b
Sooner(a, b) == IF a < b THEN a ELSE b

\* Past this many ms the board, which stops at Limit, is never ahead.
ElapsedCap == Limit \div MsCycles + 1

-----------------------------------------------------------------------------
\* clearMeasurement().
ClearMeasurementAt(c) == elapsed' = 0 /\ runCycle' = c /\ sincePublish' = 0
ClearMeasurement == ClearMeasurementAt(now)

\* Mutant: rounded down, so that less than a millisecond ahead is not ahead.
PacingRoundsDown ==
  LET ahead == (now - runCycle) - elapsed * MsCycles
  IN  IF ~realtime \/ ahead <= 0 THEN 0 ELSE Sooner(ahead \div MsCycles, MaxDelay)

\* pacingDelay(): ms by which virtual time is ahead of 1x, rounded up.
PacingDelay ==
  LET ahead == (now - runCycle) - elapsed * MsCycles
  IN  IF ~realtime \/ ahead <= 0 THEN 0
      ELSE Sooner((ahead + MsCycles - 1) \div MsCycles, MaxDelay)

\* schedule(ms): the timer afterwards, when it was t and running_ is on.
Scheduled(on, ms, t) == IF on THEN <<Later(1, ms)>> ELSE t

\* publish() up to its listeners; schedule(next[1]) follows once they return.
PublishingAt(c, next) ==
  /\ pc' = "publish"
  /\ rearm' = next
  /\ shown' = c
Publishing(next) == PublishingAt(now, next)

\* fail().
Fail == running' = FALSE /\ timer' = <<>> /\ error' = TRUE

\* canMutate(): nothing is on the stack, neither here nor in the adapter.
CanMutate == pc = "idle"

Command == CanMutate /\ commands < MaxCommands /\ commands' = commands + 1

\* Mutant: a request may pass the last cycle.
ClippedNever(n) == n

\* advance(), before it touches the board: a finite script clips the request.
Clipped(n) == IF endCycle = <<>> THEN n ELSE Sooner(n, endCycle[1] - now)

\* Mutant: nothing guards the counter.
RefusedNever(n) == FALSE

\* The next-grid arithmetic must not wrap: advance() fails without advancing.
Refused(n) == Clipped(n) > Limit - now

AdvanceRefused ==
  /\ Fail
  /\ ClearMeasurement
  /\ Publishing(<<>>)
  /\ UNCHANGED call

AdvanceBegins(n, who) ==
  /\ pc' = "advance"
  /\ task' = who
  /\ end' = now + Clipped(n)
  /\ UNCHANGED <<running, error, clocks, shown, rearm>>

-----------------------------------------------------------------------------
(* advanceScripted(); without a script it is a single tick. *)

Stimulus == IF script = <<>> THEN <<>> ELSE script[1].stimulus
Sends == IF script = <<>> THEN <<>> ELSE script[1].sends

EventDue == event < Len(Stimulus) /\ Stimulus[event + 1].cycle <= now
SendDue == send < Len(Sends) /\ Sends[send + 1] <= now

ApplyEvent ==
  /\ pc = "advance" /\ EventDue
  /\ LET e == Stimulus[event + 1]
     IN  /\ event' = event + 1
         /\ button' = IF e.btnc THEN e.value ELSE button
         /\ wanted' = IF e.btnc THEN e.value ELSE wanted
         /\ trace' = Append(trace, [what |-> "event", index |-> event + 1, at |-> now])
  /\ UNCHANGED <<now, script, send, endCycle, state, told, timer, clocks, shown, pc,
                 call, rearm, commands, failures>>

ApplySend ==
  /\ pc = "advance" /\ ~EventDue /\ SendDue
  /\ send' = send + 1
  /\ trace' = Append(trace, [what |-> "send", index |-> send + 1, at |-> now])
  /\ UNCHANGED <<board, script, event, endCycle, state, told, timer, clocks, shown,
                 pc, call, rearm, wanted, commands, failures>>

\* Mutant: events wait for the end of the tick.
TickToEnd == end

\* The next cycle at which the loop has something to do.
TickTarget ==
  Min({end} \cup (IF event < Len(Stimulus) THEN {Stimulus[event + 1].cycle} ELSE {})
            \cup (IF send < Len(Sends) THEN {Sends[send + 1]} ELSE {}))

CaughtUp == ~EventDue /\ ~SendDue

Tick ==
  /\ pc = "advance" /\ CaughtUp /\ now < end
  /\ now' = TickTarget
  /\ UNCHANGED <<button, script, cursor, endCycle, state, told, timer, clocks, shown,
                 pc, call, rearm, wanted, trace, commands, failures>>

\* A BTNC event applied since the pulse began owns BTNC from then on.
ScriptedButton == \E k \in (before.events + 1)..event : Stimulus[k].btnc

\* Mutant: the pulse's owner takes the button back from the script.
RestoreAlways(level) == button' = level

\* Give BTNC back when the pulse is over.
RestoreButton(level) == button' = IF ScriptedButton THEN button ELSE level

\* The board throws in a tick: on the way, or with the observers and the edges of
\* the cycle it was going to.
BoardThrows ==
  /\ pc = "advance" /\ CaughtUp /\ now < end
  /\ failures < MaxFailures
  /\ failures' = failures + 1
  /\ \E part \in now..TickTarget : /\ now' = part
                                        /\ ClearMeasurementAt(part)
                                        /\ PublishingAt(part, <<>>)
  /\ Fail
  /\ scriptFailed' = (scriptFailed \/ task = "startup")
  /\ IF task = "reset" THEN RestoreButton(before.pressed) ELSE UNCHANGED button
  /\ UNCHANGED <<script, cursor, endCycle, realtime, finished, told, call, wanted,
                 trace, commands>>

-----------------------------------------------------------------------------
(* The advance is over: finish() at the last cycle, then the caller's tail. *)

\* advanceScripted() returns.
AdvanceOver == pc = "advance" /\ CaughtUp /\ now = end

\* finish(), when the advance stopped at the last cycle.
FinishFlags(last) ==
  /\ finished' = (finished \/ last = <<now>>)
  /\ running' = (running /\ last # <<now>>)

FinishIfAtEnd(last) ==
  /\ FinishFlags(last)
  /\ timer' = IF last = <<now>> THEN <<>> ELSE timer

StepOver ==
  /\ AdvanceOver /\ task = "step"
  /\ FinishIfAtEnd(endCycle)
  /\ Publishing(<<>>)
  /\ sincePublish' = 0
  /\ UNCHANGED <<board, script, cursor, endCycle, realtime, error, scriptFailed, told,
                 elapsed, runCycle, call, wanted, trace, commands, failures>>

\* Mutant: the interval alone decides.
PublishesByInterval == sincePublish >= PublishMs

\* processBatch(): publish a final state, or after PublishInterval.
BatchPublishes == endCycle = <<now>> \/ sincePublish >= PublishMs

BatchOver ==
  /\ AdvanceOver /\ task = "batch"
  /\ FinishFlags(endCycle)
  /\ IF BatchPublishes
     THEN Publishing(<<PacingDelay>>) /\ sincePublish' = 0
     ELSE pc' = "idle" /\ UNCHANGED <<rearm, shown, sincePublish>>
  /\ timer' = IF BatchPublishes THEN <<>> ELSE Scheduled(running', PacingDelay, <<>>)
  /\ UNCHANGED <<board, script, cursor, endCycle, realtime, error, scriptFailed, told,
                 elapsed, runCycle, call, wanted, trace, commands, failures>>

ResetOver ==
  /\ AdvanceOver /\ task = "reset"
  /\ FinishIfAtEnd(endCycle)
  /\ RestoreButton(before.pressed)
  /\ ClearMeasurement
  /\ Publishing(<<>>)
  /\ UNCHANGED <<now, script, cursor, endCycle, realtime, error, scriptFailed, told,
                 call, wanted, trace, commands, failures>>

\* startScript() after initializeScriptedRun(): set the horizon, if it fits.
Horizon(o) ==
  IF o.frames < 0 THEN <<>> ELSE <<now + o.frames * o.cyclesPerFrame>>

StartupOver ==
  /\ AdvanceOver /\ task = "startup"
  /\ RestoreButton(FALSE)
  /\ IF script[1].frames > (Limit - now) \div script[1].cyclesPerFrame
     THEN /\ Fail
          /\ scriptFailed' = TRUE
          /\ UNCHANGED <<endCycle, finished>>
     ELSE /\ endCycle' = Horizon(script[1])
          /\ FinishIfAtEnd(endCycle')
          /\ UNCHANGED <<error, scriptFailed>>
  /\ ClearMeasurement
  /\ Publishing(<<>>)
  /\ UNCHANGED <<now, script, cursor, realtime, told, call, wanted, trace, commands,
                 failures>>

-----------------------------------------------------------------------------
(* Publication and the timer. *)

\* publish() emits runFinished.
Announces == finished /\ ~finishAnnounced

\* The listeners of publish() return; runFinished; the schedule() that follows.
EndPublish ==
  /\ pc = "publish"
  /\ pc' = "idle"
  /\ finishAnnounced' = finished
  /\ announced' = IF Announces THEN Append(announced, shown) ELSE announced
  /\ timer' = IF rearm = <<>> THEN timer ELSE Scheduled(running, rearm[1], timer)
  /\ rearm' = <<>>
  /\ UNCHANGED <<board, script, cursor, endCycle, state, clocks, shown, call, wanted,
                 trace, commands, failures>>

EndAdapterPublish ==
  /\ pc = "adapter"
  /\ pc' = "idle"
  /\ UNCHANGED <<board, script, cursor, endCycle, state, told, timer, clocks, shown,
                 call, rearm, wanted, trace, commands, failures>>

TimerFires == timer = <<0>>

\* Mutant: the callback is consumed.
BatchDropped ==
  /\ TimerFires
  /\ pc \in {"publish", "adapter"}
  /\ timer' = <<>>
  /\ UNCHANGED <<board, script, cursor, endCycle, state, told, clocks, shown, pc,
                 call, rearm, wanted, trace, commands, failures>>

\* processBatch() in a nested event loop: keep Run alive, try again later.
BatchDeferred ==
  /\ TimerFires
  /\ pc \in {"publish", "adapter"}
  /\ timer' = Scheduled(running, 1, <<>>)
  /\ UNCHANGED <<board, script, cursor, endCycle, state, told, clocks, shown, pc,
                 call, rearm, wanted, trace, commands, failures>>

\* processBatch() ahead of real time: wait, publishing first when it is due.
BatchPaced ==
  /\ TimerFires /\ CanMutate /\ PacingDelay > 0
  /\ IF sincePublish >= PublishMs
     THEN /\ Publishing(<<PacingDelay>>)
          /\ sincePublish' = 0
          /\ timer' = <<>>
     ELSE /\ timer' = Scheduled(running, PacingDelay, <<>>)
          /\ UNCHANGED <<pc, rearm, shown, sincePublish>>
  /\ UNCHANGED <<board, script, cursor, endCycle, state, told, elapsed, runCycle, call,
                 wanted, trace, commands, failures>>

\* processBatch() proper. The single-shot timer has been used up.
BatchBegins ==
  /\ TimerFires /\ CanMutate /\ PacingDelay = 0
  /\ IF Refused(Batch) THEN AdvanceRefused
     ELSE /\ AdvanceBegins(Batch, "batch")
          /\ timer' = <<>>
          /\ UNCHANGED before
  /\ UNCHANGED <<board, script, cursor, endCycle, realtime, finished, scriptFailed,
                 told, wanted, trace, commands, failures>>

\* A millisecond of wall time, whatever the thread is doing.
WallMs ==
  /\ elapsed' = Sooner(elapsed + 1, ElapsedCap)
  /\ sincePublish' = Sooner(sincePublish + 1, PublishMs)
  /\ timer' = IF timer = <<>> THEN <<>> ELSE <<Later(timer[1] - 1, 0)>>
  /\ UNCHANGED <<board, script, cursor, endCycle, state, told, runCycle, shown, pc,
                 call, rearm, wanted, trace, commands, failures>>

-----------------------------------------------------------------------------
(* Commands. Each is refused while another call is on the stack. *)

\* The launcher hands over a script before the window's event loop runs.
\* --frames 0 resets and applies nothing.
StartScript(o) ==
  /\ CanMutate /\ commands = 0
  /\ script = <<>> /\ ~running /\ ~error /\ now = 0
  /\ script' = <<o>>
  /\ IF o.frames = 0
     THEN /\ endCycle' = <<0>>
          /\ FinishIfAtEnd(endCycle')
          /\ ClearMeasurement
          /\ Publishing(<<>>)
          /\ UNCHANGED <<button, call>>
     ELSE /\ pc' = "advance" /\ task' = "startup" /\ end' = ResetCycles
          /\ before' = [pressed |-> FALSE, events |-> 0]
          /\ button' = TRUE
          /\ UNCHANGED <<endCycle, running, timer, finished, clocks, shown, rearm>>
  /\ UNCHANGED <<now, cursor, realtime, error, scriptFailed, told, wanted, trace,
                 commands, failures>>

\* Nothing advances after the last cycle or a failed start.
MayAdvance == ~finished /\ ~scriptFailed

Run ==
  /\ Command /\ ~running /\ ~error /\ MayAdvance
  /\ running' = TRUE
  /\ ClearMeasurement
  /\ Publishing(<<0>>)
  /\ UNCHANGED <<board, script, cursor, endCycle, realtime, error, finished,
                 scriptFailed, told, timer, call, wanted, trace, failures>>

Pause ==
  /\ Command
  /\ running' = FALSE
  /\ timer' = <<>>
  /\ ClearMeasurement
  /\ Publishing(<<>>)
  /\ UNCHANGED <<board, script, cursor, endCycle, realtime, error, finished,
                 scriptFailed, told, call, wanted, trace, failures>>

Step(n) ==
  /\ Command /\ ~running /\ ~error /\ MayAdvance
  /\ IF Refused(n) THEN AdvanceRefused
     ELSE AdvanceBegins(n, "step") /\ UNCHANGED <<timer, before>>
  /\ UNCHANGED <<board, script, cursor, endCycle, realtime, finished, scriptFailed,
                 told, wanted, trace, failures>>

Reset ==
  /\ Command /\ HasReset /\ MayAdvance
  /\ IF ResetCycles > Limit - now
     THEN AdvanceRefused /\ UNCHANGED button
     ELSE /\ running' = FALSE
          /\ timer' = <<>>
          /\ error' = FALSE
          /\ before' = [pressed |-> button, events |-> event]
          /\ button' = TRUE
          /\ pc' = "advance" /\ task' = "reset" /\ end' = now + Clipped(ResetCycles)
          /\ UNCHANGED <<clocks, shown, rearm>>
  /\ UNCHANGED <<now, script, cursor, endCycle, realtime, finished, scriptFailed, told,
                 wanted, trace, failures>>

SetRealtime ==
  /\ Command
  /\ realtime' = ~realtime
  /\ ClearMeasurement
  /\ Publishing(IF running THEN <<0>> ELSE <<>>)
  /\ UNCHANGED <<board, script, cursor, endCycle, running, error, finished,
                 scriptFailed, told, timer, call, wanted, trace, failures>>

\* The user presses or releases BTNC; the adapter then publishes by itself. It
\* looks at its own guard only, so a listener of stateChanged may do it too.
PressButton ==
  /\ pc \in {"idle", "publish"}
  /\ commands < MaxCommands
  /\ commands' = commands + 1
  /\ button' = ~button
  /\ wanted' = ~button
  /\ pc' = IF pc = "idle" THEN "adapter" ELSE pc
  /\ UNCHANGED <<now, script, cursor, endCycle, state, told, timer, clocks, shown,
                 call, rearm, trace, failures>>

Init ==
  /\ now = 0 /\ button = FALSE
  /\ script = <<>> /\ event = 0 /\ send = 0 /\ endCycle = <<>>
  /\ running = FALSE /\ realtime = FALSE /\ error = FALSE
  /\ finished = FALSE /\ finishAnnounced = FALSE /\ scriptFailed = FALSE
  /\ timer = <<>> /\ elapsed = 0 /\ runCycle = 0 /\ sincePublish = 0 /\ shown = 0
  /\ pc = "idle" /\ task = "step" /\ end = 0
  /\ before = [pressed |-> FALSE, events |-> 0]
  /\ rearm = <<>> /\ wanted = FALSE /\ trace = <<>> /\ announced = <<>>
  /\ commands = 0 /\ failures = 0

Work == ApplyEvent \/ ApplySend \/ Tick \/ StepOver \/ BatchOver \/ ResetOver
          \/ StartupOver \/ EndPublish \/ EndAdapterPublish

Callback == BatchDeferred \/ BatchPaced \/ BatchBegins

User == \/ \E o \in Scripts : StartScript(o)
        \/ Run \/ Pause \/ Reset \/ SetRealtime \/ PressButton
        \/ \E n \in StepSizes : Step(n)

Next == Work \/ Callback \/ WallMs \/ User \/ BoardThrows

\* Calls return and listeners return, wall time passes, and the event loop
\* delivers a timer that is due. The user owes nothing.
Spec == Init /\ [][Next]_vars /\ WF_vars(Work) /\ WF_vars(Callback) /\ WF_vars(WallMs)

-----------------------------------------------------------------------------
\* Run is never stranded: whenever control is back in the event loop a running
\* simulation has its timer armed, although the timer is single-shot and may be
\* used up by a callback that had to give way; and nothing is left armed for a
\* simulation that does not run ("cannot leave queued stepping active"), nor for
\* one whose script could not start, not even after a reset.
NeverStranded ==
  /\ (running /\ pc \in {"idle", "adapter"}) => timer # <<>>
  /\ ~running => timer = <<>>
  /\ scriptFailed => ~running

\* Which scripted actions of a kind have been applied.
AppliedOf(kind) == {trace[k].index : k \in {i \in DOMAIN trace : trace[i].what = kind}}

\* Every scripted input and send is applied at its own cycle, inputs before
\* sends of the same cycle, each kind in order, whatever mixture of batches,
\* steps, resets and failures advanced the board; and when a call returns, none
\* whose cycle has come is left over. (Runs that do not start are excepted, those
\* without frames among them.)
ScriptExact ==
  /\ \A k \in DOMAIN trace :
       trace[k].at = IF trace[k].what = "event" THEN Stimulus[trace[k].index].cycle
                                                ELSE Sends[trace[k].index]
  /\ \A k \in 1..(Len(trace) - 1) :
       \/ trace[k].at < trace[k + 1].at
       \/ /\ trace[k].at = trace[k + 1].at
          /\ trace[k].what = "send" => trace[k + 1].what = "send"
  /\ \A i, j \in DOMAIN trace :
       i < j /\ trace[i].what = trace[j].what => trace[i].index < trace[j].index
  /\ AppliedOf("event") = 1..event /\ AppliedOf("send") = 1..send
  /\ (/\ pc # "advance" /\ script # <<>> /\ ~error /\ ~scriptFailed
      /\ script[1].frames # 0) => CaughtUp

\* Time never passes the limit of the cycle counter, nor the last cycle of a finite
\* run, which is finished exactly there, unless the board failed at that very cycle,
\* and announced once, its final state shown.
EndsOnTime ==
  /\ now <= Limit
  /\ endCycle # <<>> => /\ now <= endCycle[1]
                        /\ finished => now = endCycle[1]
                        /\ pc # "advance" /\ now = endCycle[1] => finished \/ error
  /\ announced # <<>> => announced = endCycle /\ shown = now /\ finished

\* A reset pulse takes BTNC from nobody: outside a pulse the button is as the
\* user or the script last set it, a script that spoke up in the pulse included.
ButtonIsOwners ==
  (pc # "advance" \/ task \notin {"reset", "startup"}) /\ ~scriptFailed
    => button = wanted

\* At 1x, virtual time is never more than one batch ahead of wall time.
RealtimePaced ==
  running /\ realtime => now - runCycle <= elapsed * MsCycles + Batch

\* Whenever the simulation rests, the screen shows the board's own cycle.
RestingShowsNow == pc = "idle" /\ ~running => shown = now

\* Left alone, a run gets to its end, its limit or its failure: batches keep
\* coming in spite of pacing, mode changes and nested event loops.
RunEnds == running ~> ~running

\* A finished run is announced, so a launcher waiting for it always exits.
FinishIsAnnounced == finished ~> announced # <<>>
-----------------------------------------------------------------------------
(***************************************************************************)
(* Why they hold: what is kept while a call is on the stack, one conjunct  *)
(* for each of the invariants above.                                       *)
(***************************************************************************)
MaybeIn(v, S) == v = <<>> \/ (v = <<v[1]>> /\ v[1] \in S)

OptionTypes == /\ MaybeIn(script, Scripts) /\ MaybeIn(endCycle, Nat)
               /\ MaybeIn(timer, Nat) /\ MaybeIn(rearm, Nat)

FlagTypes ==
  /\ button \in BOOLEAN /\ wanted \in BOOLEAN
  /\ running \in BOOLEAN /\ realtime \in BOOLEAN /\ error \in BOOLEAN
  /\ finished \in BOOLEAN /\ finishAnnounced \in BOOLEAN /\ scriptFailed \in BOOLEAN
  /\ pc \in {"idle", "advance", "publish", "adapter"}
  /\ task \in {"step", "batch", "reset", "startup"}
  /\ before \in [pressed: BOOLEAN, events: Nat]

CountTypes ==
  /\ now \in Nat /\ event \in Nat /\ send \in Nat /\ end \in Nat /\ shown \in Nat
  /\ elapsed \in Nat /\ runCycle \in Nat /\ sincePublish \in Nat
  /\ commands \in Nat /\ failures \in Nat
  /\ trace \in Seq([what: {"event", "send"}, index: Nat, at: Nat])
  /\ announced \in Seq(Nat)

TypeOK == OptionTypes /\ FlagTypes /\ CountTypes

\* A running simulation has its timer, or is inside the batch or the publication
\* that will arm it.
TimerKept ==
  /\ NeverStranded
  /\ running /\ pc = "publish" => timer # <<>> \/ rearm # <<>>
  /\ pc = "advance" => (running <=> task = "batch")

\* An advance never aims past the end of the run, and a run that is finished is
\* at its end.
HorizonKept ==
  /\ EndsOnTime
  /\ pc = "advance" => /\ now <= end /\ end <= Limit /\ ~finished
                       /\ endCycle # <<>> => end <= endCycle[1]
                       /\ task = "startup" => endCycle = <<>> /\ script # <<>>
  /\ script = <<>> => endCycle = <<>>
  /\ finished => endCycle # <<>> /\ ~running
  /\ finishAnnounced <=> announced # <<>>

ShownKept ==
  /\ RestingShowsNow
  /\ pc = "publish" \/ (pc = "adapter" /\ ~running) => shown = now

\* A batch begins when virtual time is not ahead.
PacingKept ==
  /\ RealtimePaced
  /\ elapsed <= ElapsedCap
  /\ pc = "advance" /\ task = "batch" /\ realtime =>
       end - runCycle <= elapsed * MsCycles + Batch

\* During a pulse the level to give back is remembered until the script speaks up.
ButtonKept ==
  /\ ButtonIsOwners
  /\ pc = "advance" /\ task \in {"reset", "startup"} =>
       /\ before.events <= event
       /\ IF ScriptedButton THEN button = wanted ELSE before.pressed = wanted
       /\ task = "startup" => before.pressed = FALSE
  /\ script = <<>> /\ commands = 0 => ~wanted

\* Nothing scripted is overdue, and the last send was the end of its cycle's events.
ScriptKept ==
  /\ ScriptExact
  /\ event <= Len(Stimulus) /\ (event < Len(Stimulus) => now <= Stimulus[event + 1].cycle)
  /\ send <= Len(Sends) /\ (send < Len(Sends) => now <= Sends[send + 1])
  /\ trace # <<>> =>
       /\ trace[Len(trace)].at <= now
       /\ trace[Len(trace)].at = now /\ trace[Len(trace)].what = "send" => ~EventDue
  /\ script = <<>> => trace = <<>> /\ event = 0 /\ send = 0

ControllerInv == /\ TypeOK /\ TimerKept /\ HorizonKept /\ ShownKept
                 /\ PacingKept /\ ButtonKept /\ ScriptKept
=============================================================================
