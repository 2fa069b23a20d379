---------------------- MODULE SimulationController_proofs ----------------------
(***************************************************************************)
(* Proofs about SimulationController, for every batch size, pacing, limit, *)
(* script and number of commands and failures. ControllerInv has one part  *)
(* for each invariant; each part is shown to survive every action.         *)
(***************************************************************************)
EXTENDS SimulationController, SequenceTheorems, TLAPS

USE ControllerAssumption

-----------------------------------------------------------------------------
(* What a script and a script's next cycle are. *)

Inputs == [cycle: Nat, btnc: BOOLEAN, value: BOOLEAN]

LEMMA ScriptFacts ==
  ASSUME MaybeIn(script, Scripts)
  PROVE  /\ Stimulus \in Seq(Inputs) /\ Len(Stimulus) \in Nat /\ DOMAIN Stimulus = 1..Len(Stimulus)
         /\ \A i \in 1..Len(Stimulus) : Stimulus[i] \in Inputs
         /\ \A i, j \in 1..Len(Stimulus) : i < j => Stimulus[i].cycle <= Stimulus[j].cycle
         /\ Sends \in Seq(Nat) /\ Len(Sends) \in Nat /\ DOMAIN Sends = 1..Len(Sends)
         /\ \A i \in 1..Len(Sends) : Sends[i] \in Nat
         /\ \A i, j \in 1..Len(Sends) : i < j => Sends[i] <= Sends[j]
<1>1. CASE script = <<>>
  <2>1. Stimulus = <<>> /\ Sends = <<>>  BY <1>1 DEF Stimulus, Sends
  <2> QED  BY <2>1
<1>2. CASE script # <<>>
  <2>1. Stimulus = script[1].stimulus /\ Sends = script[1].sends /\ script[1] \in Scripts
    BY <1>2 DEF Stimulus, Sends, MaybeIn
  <2>2. Stimulus \in Seq(Inputs) /\ Sends \in Seq(Nat)
    BY <2>1, ScriptsAreSorted DEF ScriptsAssumption, Inputs
  <2>3. /\ Len(Stimulus) \in Nat /\ DOMAIN Stimulus = 1..Len(Stimulus)
        /\ Len(Sends) \in Nat /\ DOMAIN Sends = 1..Len(Sends)
    BY <2>2
  <2>4. /\ \A i \in 1..Len(Stimulus) : Stimulus[i] \in Inputs
        /\ \A i \in 1..Len(Sends) : Sends[i] \in Nat
    BY <2>2, ElementOfSeq
  <2>5. /\ \A i, j \in 1..Len(Stimulus) : i < j => Stimulus[i].cycle <= Stimulus[j].cycle
        /\ \A i, j \in 1..Len(Sends) : i < j => Sends[i] <= Sends[j]
    BY <2>1, <2>3, ScriptsAreSorted DEF ScriptsAssumption
  <2> QED  BY <2>2, <2>3, <2>4, <2>5
<1> QED  BY <1>1, <1>2

\* At most one of Nat, and the least of up to three.
Optional(S) == S = {} \/ \E n \in Nat : S = {n}

LEMMA LeastOfThree ==
  ASSUME NEW a \in Nat, NEW B, Optional(B), NEW C, Optional(C)
  PROVE  LET S == {a} \cup B \cup C IN Min(S) \in S /\ \A x \in S : Min(S) <= x
<1> DEFINE S == {a} \cup B \cup C
<1>1. \E m \in S : \A x \in S : m <= x
  <2>1. PICK l \in {a} \cup B : l \in Nat /\ \A x \in {a} \cup B : l <= x
    BY DEF Optional
  <2>2. CASE C = {}  BY <2>1, <2>2
  <2>3. CASE C # {}
    <3>1. PICK c \in Nat : C = {c}  BY <2>3 DEF Optional
    <3>2. CASE c < l  BY <2>1, <3>1, <3>2
    <3>3. CASE ~(c < l)  BY <2>1, <3>1, <3>3
    <3> QED  BY <3>2, <3>3
  <2> QED  BY <2>2, <2>3
<1> HIDE DEF S
<1>2. Min(S) \in S /\ \A x \in S : Min(S) <= x  BY <1>1 DEF Min
<1> QED  BY <1>2 DEF S

\* The loop of advanceScripted() moves time, past nothing that is due.
LEMMA TargetFacts ==
  ASSUME ControllerInv, CaughtUp, now < end
  PROVE  /\ TickTarget \in Nat /\ now < TickTarget /\ TickTarget <= end
         /\ event < Len(Stimulus) => TickTarget <= Stimulus[event + 1].cycle
         /\ send < Len(Sends) => TickTarget <= Sends[send + 1]
<1>1. /\ now \in Nat /\ end \in Nat /\ event \in Nat /\ send \in Nat /\ MaybeIn(script, Scripts)
  BY DEF ControllerInv, TypeOK, FlagTypes, CountTypes, OptionTypes
<1>2. /\ Len(Stimulus) \in Nat /\ Len(Sends) \in Nat
      /\ event < Len(Stimulus) => Stimulus[event + 1].cycle \in Nat /\ now < Stimulus[event + 1].cycle
      /\ send < Len(Sends) => Sends[send + 1] \in Nat /\ now < Sends[send + 1]
  BY <1>1, ScriptFacts DEF CaughtUp, EventDue, SendDue, Inputs
<1> DEFINE B == IF event < Len(Stimulus) THEN {Stimulus[event + 1].cycle} ELSE {}
           C == IF send < Len(Sends) THEN {Sends[send + 1]} ELSE {}
<1>3. TickTarget = Min({end} \cup B \cup C)  BY DEF TickTarget
<1>4. /\ Optional(B) /\ (event < Len(Stimulus) => Stimulus[event + 1].cycle \in B)
      /\ Optional(C) /\ (send < Len(Sends) => Sends[send + 1] \in C)
      /\ \A x \in {end} \cup B \cup C : x \in Nat /\ now < x
  BY <1>1, <1>2 DEF Optional
<1> HIDE DEF B, C
<1>5. TickTarget \in {end} \cup B \cup C /\ \A x \in {end} \cup B \cup C : TickTarget <= x
  BY <1>1, <1>3, <1>4, LeastOfThree
<1> QED  BY <1>4, <1>5

-----------------------------------------------------------------------------
(* Types. *)

\* The arithmetic of the scheduler stays natural.
LEMMA NumberFacts ==
  ASSUME TypeOK
  PROVE  /\ ElapsedCap \in Nat /\ PacingDelay \in Nat
         /\ PacingDelay = 0 /\ realtime => now - runCycle <= elapsed * MsCycles
<1>1. now \in Nat /\ runCycle \in Nat /\ elapsed \in Nat /\ MsCycles \in Nat \ {0}
  BY DEF TypeOK, CountTypes
<1>2. elapsed * MsCycles \in Nat  BY <1>1
<1> DEFINE ahead == (now - runCycle) - elapsed * MsCycles
           up == (ahead + MsCycles - 1) \div MsCycles
<1>3. ahead \in Int  BY <1>1, <1>2
<1>4. ahead > 0 => up \in Nat /\ up > 0
  <2> SUFFICES ASSUME NEW n \in Nat, NEW m \in Nat \ {0}, n >= m
               PROVE  n \div m \in Nat /\ n \div m > 0
    BY <1>1, <1>3
  <2> QED  OBVIOUS
<1>5. PacingDelay = IF ~realtime \/ ahead <= 0 THEN 0 ELSE Sooner(up, MaxDelay)
  BY DEF PacingDelay
<1>6. ElapsedCap \in Nat
  <2>1. Limit \div MsCycles \in Nat  BY <1>1
  <2> QED  BY <2>1 DEF ElapsedCap
<1> HIDE DEF up
<1>7. PacingDelay \in Nat /\ (PacingDelay = 0 /\ realtime => ahead <= 0)
  BY <1>3, <1>4, <1>5 DEF Sooner
<1> QED  BY <1>1, <1>2, <1>6, <1>7

\* An absent and a present number, and the timer after a schedule().
LEMMA MaybeNat == MaybeIn(<<>>, Nat) /\ \A n \in Nat : MaybeIn(<<n>>, Nat)
BY DEF MaybeIn

LEMMA ScheduledTyped ==
  ASSUME NEW on, NEW ms \in Nat, NEW t, MaybeIn(t, Nat)
  PROVE  MaybeIn(Scheduled(on, ms, t), Nat)
BY DEF Later, Scheduled, MaybeIn

\* The horizon of a script that fits in the counter.
LEMMA HorizonFacts ==
  ASSUME NEW o \in Scripts, now \in Nat, now <= Limit,
         ~(o.frames > (Limit - now) \div o.cyclesPerFrame)
  PROVE  /\ MaybeIn(Horizon(o), Nat)
         /\ Horizon(o) # <<>> => now <= Horizon(o)[1] /\ Horizon(o)[1] <= Limit
<1>1. o.frames \in Int /\ o.cyclesPerFrame \in Nat \ {0}  BY ScriptsAreSorted DEF ScriptsAssumption
<1> DEFINE f == o.frames  c == o.cyclesPerFrame  d == (Limit - now) \div c
<1>2. CASE f < 0  BY <1>1, <1>2 DEF Horizon, MaybeIn
<1>3. CASE f >= 0
  <2>1. d \in Nat /\ d * c <= Limit - now  BY <1>1
  <2>2. f * c \in Nat /\ f * c <= d * c
    <3> SUFFICES ASSUME NEW m \in Nat, NEW n \in Nat, NEW k \in Nat, m <= n
                 PROVE  m * k \in Nat /\ m * k <= n * k
      BY <1>1, <1>3, <2>1
    <3>1. m * k \in Nat /\ n * k \in Nat /\ (n - m) * k \in Nat  OBVIOUS
    <3>2. n * k = m * k + (n - m) * k  OBVIOUS
    <3> QED  BY <3>1, <3>2
  <2>3. Horizon(o) = <<now + f * c>>  BY <1>1, <1>3 DEF Horizon
  <2> QED  BY <1>1, <2>1, <2>2, <2>3 DEF MaybeIn
<1> QED  BY <1>1, <1>2, <1>3

\* A request clipped by the end of the run neither goes back nor passes it.
LEMMA ClippedFacts ==
  ASSUME TypeOK, EndsOnTime, NEW n \in Nat
  PROVE  /\ Clipped(n) \in Nat /\ Clipped(n) <= n
         /\ endCycle # <<>> => now + Clipped(n) <= endCycle[1]
<1>1. now \in Nat /\ MaybeIn(endCycle, Nat) /\ (endCycle # <<>> => now <= endCycle[1])
  BY DEF TypeOK, OptionTypes, CountTypes, EndsOnTime
<1>2. CASE endCycle = <<>>  BY <1>2 DEF Clipped
<1>3. CASE endCycle # <<>>
  <2>1. endCycle[1] \in Nat  BY <1>1, <1>3 DEF MaybeIn
  <2>2. Clipped(n) = Sooner(n, endCycle[1] - now)  BY <1>3 DEF Clipped
  <2> QED  BY <1>1, <1>3, <2>1, <2>2 DEF Sooner
<1> QED  BY <1>2, <1>3

\* Absent or a value of the right kind.
LEMMA OptionsKept == ControllerInv /\ Next => OptionTypes'
<1> SUFFICES ASSUME ControllerInv, Next PROVE OptionTypes'  OBVIOUS
<1> USE DEF board, cursor, clocks, call, state, told, Publishing, PublishingAt, Fail, ClearMeasurement,
            ClearMeasurementAt, Command, CanMutate, AdvanceOver, FinishFlags, FinishIfAtEnd
<1>0. TypeOK /\ HorizonKept /\ ScriptKept  BY DEF ControllerInv
<1>1. CASE ApplyEvent
  BY <1>0, <1>1, ScriptFacts DEF TypeOK, OptionTypes, ApplyEvent, EventDue, Inputs
<1>2. CASE ApplySend
  BY <1>0, <1>2 DEF TypeOK, OptionTypes, ApplySend
<1>3. CASE Tick
  BY <1>0, <1>3, TargetFacts DEF TypeOK, OptionTypes, Tick
<1>4. CASE BoardThrows
  BY <1>0, <1>4, TargetFacts, MaybeNat DEF TypeOK, OptionTypes, BoardThrows, RestoreButton
<1>5. CASE StepOver
  BY <1>0, <1>5, MaybeNat DEF TypeOK, OptionTypes, StepOver
<1>6. CASE BatchOver
  BY <1>0, <1>6, NumberFacts, MaybeNat, ScheduledTyped DEF TypeOK, OptionTypes, BatchOver
<1>7. CASE ResetOver
  BY <1>0, <1>7, MaybeNat DEF TypeOK, OptionTypes, ResetOver, RestoreButton
<1>8. CASE StartupOver
  <2>1. now \in Nat /\ now <= Limit /\ script[1] \in Scripts
    BY <1>0, <1>8 DEF TypeOK, OptionTypes, CountTypes, MaybeIn, HorizonKept, EndsOnTime, StartupOver
  <2>2. MaybeIn(endCycle', Nat)
    BY <1>0, <1>8, <2>1, HorizonFacts DEF TypeOK, OptionTypes, StartupOver
  <2> QED  BY <1>0, <1>8, <2>2, MaybeNat DEF TypeOK, OptionTypes, StartupOver
<1>9. CASE EndPublish
  BY <1>0, <1>9, MaybeNat, ScheduledTyped DEF TypeOK, OptionTypes, EndPublish, Announces, MaybeIn
<1>10. CASE EndAdapterPublish
  BY <1>0, <1>10 DEF TypeOK, OptionTypes, EndAdapterPublish
<1>11. CASE BatchDeferred
  BY <1>0, <1>11, MaybeNat, ScheduledTyped DEF TypeOK, OptionTypes, BatchDeferred
<1>12. CASE BatchPaced
  BY <1>0, <1>12, NumberFacts, MaybeNat, ScheduledTyped DEF TypeOK, OptionTypes, BatchPaced
<1>13. CASE BatchBegins
  BY <1>0, <1>13, MaybeNat DEF TypeOK, OptionTypes, BatchBegins, AdvanceRefused, AdvanceBegins
<1>14. CASE WallMs
  BY <1>0, <1>14, NumberFacts, MaybeNat DEF TypeOK, OptionTypes, WallMs, Sooner, Later, MaybeIn
<1>15. CASE Run
  BY <1>0, <1>15, MaybeNat DEF TypeOK, OptionTypes, Run
<1>16. CASE Pause
  BY <1>0, <1>16, MaybeNat DEF TypeOK, OptionTypes, Pause
<1>17. CASE Reset
  BY <1>0, <1>17, MaybeNat DEF TypeOK, OptionTypes, Reset, AdvanceRefused
<1>18. CASE SetRealtime
  BY <1>0, <1>18, MaybeNat DEF TypeOK, OptionTypes, SetRealtime
<1>19. CASE PressButton
  BY <1>0, <1>19 DEF TypeOK, OptionTypes, PressButton
<1>20. ASSUME NEW o \in Scripts, StartScript(o) PROVE OptionTypes'
  BY <1>0, <1>20, MaybeNat DEF TypeOK, OptionTypes, StartScript, MaybeIn
<1>21. ASSUME NEW n \in StepSizes, Step(n) PROVE OptionTypes'
  BY <1>0, <1>21, MaybeNat DEF TypeOK, OptionTypes, Step, AdvanceRefused, AdvanceBegins
<1> QED  BY <1>1, <1>2, <1>3, <1>4, <1>5, <1>6, <1>7, <1>8, <1>9, <1>10, <1>11, <1>12, <1>13, <1>14, <1>15, <1>16, <1>17, <1>18, <1>19, <1>20, <1>21
     DEF Next, Work, Callback, User

\* Flags and places.
LEMMA FlagsKept == ControllerInv /\ Next => FlagTypes'
<1> SUFFICES ASSUME ControllerInv, Next PROVE FlagTypes'  OBVIOUS
<1> USE DEF board, cursor, clocks, call, state, told, Publishing, PublishingAt, Fail, ClearMeasurement,
            ClearMeasurementAt, Command, CanMutate, AdvanceOver, FinishFlags, FinishIfAtEnd
<1>0. TypeOK /\ HorizonKept /\ ScriptKept  BY DEF ControllerInv
<1>1. CASE ApplyEvent
  <2>1. Stimulus[event + 1].value \in BOOLEAN
    BY <1>0, <1>1, ScriptFacts DEF TypeOK, OptionTypes, CountTypes, ApplyEvent, EventDue, Inputs
  <2> QED  BY <1>0, <1>1, <2>1 DEF TypeOK, FlagTypes, ApplyEvent
<1>2. CASE ApplySend
  BY <1>0, <1>2 DEF TypeOK, FlagTypes, ApplySend
<1>3. CASE Tick
  BY <1>0, <1>3, TargetFacts DEF TypeOK, FlagTypes, Tick
<1>4. CASE BoardThrows
  BY <1>0, <1>4, TargetFacts DEF TypeOK, FlagTypes, BoardThrows, RestoreButton
<1>5. CASE StepOver
  BY <1>0, <1>5 DEF TypeOK, FlagTypes, StepOver
<1>6. CASE BatchOver
  BY <1>0, <1>6, NumberFacts DEF TypeOK, FlagTypes, BatchOver
<1>7. CASE ResetOver
  BY <1>0, <1>7 DEF TypeOK, FlagTypes, ResetOver, RestoreButton
<1>8. CASE StartupOver
  BY <1>0, <1>8 DEF TypeOK, FlagTypes, StartupOver, RestoreButton
<1>9. CASE EndPublish
  BY <1>0, <1>9 DEF TypeOK, FlagTypes, EndPublish, Announces
<1>10. CASE EndAdapterPublish
  BY <1>0, <1>10 DEF TypeOK, FlagTypes, EndAdapterPublish
<1>11. CASE BatchDeferred
  BY <1>0, <1>11 DEF TypeOK, FlagTypes, BatchDeferred
<1>12. CASE BatchPaced
  BY <1>0, <1>12, NumberFacts DEF TypeOK, FlagTypes, BatchPaced
<1>13. CASE BatchBegins
  BY <1>0, <1>13 DEF TypeOK, FlagTypes, BatchBegins, AdvanceRefused, AdvanceBegins
<1>14. CASE WallMs
  BY <1>0, <1>14, NumberFacts DEF TypeOK, FlagTypes, WallMs, Sooner, Later
<1>15. CASE Run
  BY <1>0, <1>15 DEF TypeOK, FlagTypes, Run
<1>16. CASE Pause
  BY <1>0, <1>16 DEF TypeOK, FlagTypes, Pause
<1>17. CASE Reset
  <2>1. before' \in [pressed: BOOLEAN, events: Nat]
    BY <1>0, <1>17 DEF TypeOK, FlagTypes, CountTypes, Reset, AdvanceRefused
  <2> QED  BY <1>0, <1>17, <2>1 DEF TypeOK, FlagTypes, Reset, AdvanceRefused
<1>18. CASE SetRealtime
  BY <1>0, <1>18 DEF TypeOK, FlagTypes, SetRealtime
<1>19. CASE PressButton
  BY <1>0, <1>19 DEF TypeOK, FlagTypes, PressButton
<1>20. ASSUME NEW o \in Scripts, StartScript(o) PROVE FlagTypes'
  <2>1. before' \in [pressed: BOOLEAN, events: Nat]
    <3>1. before' = before \/ before' = [pressed |-> FALSE, events |-> 0]  BY <1>20 DEF StartScript
    <3>2. [pressed |-> FALSE, events |-> 0] \in [pressed: BOOLEAN, events: Nat]  OBVIOUS
    <3>3. before \in [pressed: BOOLEAN, events: Nat]  BY <1>0 DEF TypeOK, FlagTypes
    <3> QED  BY <3>1, <3>2, <3>3
  <2> QED  BY <1>0, <1>20, <2>1 DEF TypeOK, FlagTypes, StartScript
<1>21. ASSUME NEW n \in StepSizes, Step(n) PROVE FlagTypes'
  BY <1>0, <1>21 DEF TypeOK, FlagTypes, Step, AdvanceRefused, AdvanceBegins
<1> QED  BY <1>1, <1>2, <1>3, <1>4, <1>5, <1>6, <1>7, <1>8, <1>9, <1>10, <1>11, <1>12, <1>13, <1>14, <1>15, <1>16, <1>17, <1>18, <1>19, <1>20, <1>21
     DEF Next, Work, Callback, User

\* Cycles, counters and histories.
LEMMA CountsKept == ControllerInv /\ Next => CountTypes'
<1> SUFFICES ASSUME ControllerInv, Next PROVE CountTypes'  OBVIOUS
<1> USE DEF board, cursor, clocks, call, state, told, Publishing, PublishingAt, Fail, ClearMeasurement,
            ClearMeasurementAt, Command, CanMutate, AdvanceOver, FinishFlags, FinishIfAtEnd
<1>0. TypeOK /\ HorizonKept /\ ScriptKept  BY DEF ControllerInv
<1>1. CASE ApplyEvent
  BY <1>0, <1>1, ScriptFacts DEF TypeOK, CountTypes, ApplyEvent, EventDue, Inputs
<1>2. CASE ApplySend
  BY <1>0, <1>2 DEF TypeOK, CountTypes, ApplySend
<1>3. CASE Tick
  BY <1>0, <1>3, TargetFacts DEF TypeOK, CountTypes, Tick
<1>4. CASE BoardThrows
  BY <1>0, <1>4, TargetFacts DEF TypeOK, CountTypes, BoardThrows, RestoreButton
<1>5. CASE StepOver
  BY <1>0, <1>5 DEF TypeOK, CountTypes, StepOver
<1>6. CASE BatchOver
  BY <1>0, <1>6, NumberFacts DEF TypeOK, CountTypes, BatchOver
<1>7. CASE ResetOver
  BY <1>0, <1>7 DEF TypeOK, CountTypes, ResetOver, RestoreButton
<1>8. CASE StartupOver
  BY <1>0, <1>8 DEF TypeOK, CountTypes, StartupOver, RestoreButton
<1>9. CASE EndPublish
  BY <1>0, <1>9 DEF TypeOK, CountTypes, EndPublish, Announces
<1>10. CASE EndAdapterPublish
  BY <1>0, <1>10 DEF TypeOK, CountTypes, EndAdapterPublish
<1>11. CASE BatchDeferred
  BY <1>0, <1>11 DEF TypeOK, CountTypes, BatchDeferred
<1>12. CASE BatchPaced
  BY <1>0, <1>12, NumberFacts DEF TypeOK, CountTypes, BatchPaced
<1>13. CASE BatchBegins
  <2>1. Clipped(Batch) \in Nat  BY <1>0, ClippedFacts DEF HorizonKept
  <2>2. end' \in Nat  BY <1>0, <1>13, <2>1 DEF TypeOK, CountTypes, BatchBegins, AdvanceRefused, AdvanceBegins
  <2> QED  BY <1>0, <1>13, <2>2 DEF TypeOK, CountTypes, BatchBegins, AdvanceRefused, AdvanceBegins
<1>14. CASE WallMs
  BY <1>0, <1>14, NumberFacts DEF TypeOK, CountTypes, WallMs, Sooner, Later
<1>15. CASE Run
  BY <1>0, <1>15 DEF TypeOK, CountTypes, Run
<1>16. CASE Pause
  BY <1>0, <1>16 DEF TypeOK, CountTypes, Pause
<1>17. CASE Reset
  <2>1. Clipped(ResetCycles) \in Nat  BY <1>0, ClippedFacts DEF HorizonKept
  <2>2. end' \in Nat  BY <1>0, <1>17, <2>1 DEF TypeOK, CountTypes, Reset, AdvanceRefused
  <2> QED  BY <1>0, <1>17, <2>2 DEF TypeOK, CountTypes, Reset, AdvanceRefused
<1>18. CASE SetRealtime
  BY <1>0, <1>18 DEF TypeOK, CountTypes, SetRealtime
<1>19. CASE PressButton
  BY <1>0, <1>19 DEF TypeOK, CountTypes, PressButton
<1>20. ASSUME NEW o \in Scripts, StartScript(o) PROVE CountTypes'
  BY <1>0, <1>20 DEF TypeOK, CountTypes, StartScript
<1>21. ASSUME NEW n \in StepSizes, Step(n) PROVE CountTypes'
  <2>1. n \in Nat /\ Clipped(n) \in Nat  BY <1>0, ClippedFacts DEF HorizonKept
  <2>2. end' \in Nat  BY <1>0, <1>21, <2>1 DEF TypeOK, CountTypes, Step, AdvanceRefused, AdvanceBegins
  <2> QED  BY <1>0, <1>21, <2>2 DEF TypeOK, CountTypes, Step, AdvanceRefused, AdvanceBegins
<1> QED  BY <1>1, <1>2, <1>3, <1>4, <1>5, <1>6, <1>7, <1>8, <1>9, <1>10, <1>11, <1>12, <1>13, <1>14, <1>15, <1>16, <1>17, <1>18, <1>19, <1>20, <1>21
     DEF Next, Work, Callback, User

-----------------------------------------------------------------------------
(* The timer and the screen. *)

\* Every way back to the event loop arms the timer of a running simulation.
LEMMA TimerIsKept == ControllerInv /\ Next => TimerKept'
<1> SUFFICES ASSUME ControllerInv, Next PROVE TimerKept'  OBVIOUS
<1> USE DEF board, cursor, clocks, call, state, told, Publishing, PublishingAt, Fail, ClearMeasurement,
            ClearMeasurementAt, Command, CanMutate, AdvanceOver, FinishFlags, FinishIfAtEnd
<1>0. TypeOK /\ TimerKept /\ HorizonKept  BY DEF ControllerInv
<1>1. CASE ApplyEvent \/ ApplySend \/ Tick \/ EndAdapterPublish \/ PressButton
  BY <1>0, <1>1 DEF TypeOK, FlagTypes, TimerKept, NeverStranded, ApplyEvent, ApplySend,
     Tick, EndAdapterPublish, PressButton
<1>2. CASE BoardThrows
  BY <1>0, <1>2 DEF TypeOK, FlagTypes, TimerKept, NeverStranded, BoardThrows,
     RestoreButton
<1>3. CASE StepOver
  BY <1>0, <1>3 DEF TypeOK, FlagTypes, TimerKept, NeverStranded, StepOver
<1>4. CASE BatchOver
  BY <1>0, <1>4 DEF TypeOK, FlagTypes, TimerKept, NeverStranded, BatchOver,
     BatchPublishes, Scheduled
<1>5. CASE ResetOver
  BY <1>0, <1>5 DEF TypeOK, FlagTypes, TimerKept, NeverStranded, ResetOver
<1>6. CASE StartupOver
  BY <1>0, <1>6 DEF TypeOK, FlagTypes, TimerKept, NeverStranded, StartupOver
<1>7. CASE EndPublish
  BY <1>0, <1>7 DEF TypeOK, FlagTypes, TimerKept, NeverStranded, EndPublish, Scheduled
<1>8. CASE BatchDeferred
  BY <1>0, <1>8 DEF TypeOK, FlagTypes, TimerKept, NeverStranded, BatchDeferred,
     TimerFires, Scheduled
<1>9. CASE BatchPaced
  BY <1>0, <1>9 DEF TypeOK, FlagTypes, TimerKept, NeverStranded, BatchPaced, TimerFires,
     Scheduled
<1>10. CASE BatchBegins
  BY <1>0, <1>10 DEF TypeOK, FlagTypes, TimerKept, NeverStranded, BatchBegins,
     TimerFires, AdvanceRefused, AdvanceBegins
<1>11. CASE WallMs
  BY <1>0, <1>11 DEF TypeOK, FlagTypes, TimerKept, NeverStranded, WallMs
<1>12. CASE Run
  BY <1>0, <1>12 DEF TypeOK, FlagTypes, TimerKept, NeverStranded, Run, MayAdvance
<1>13. CASE Pause
  BY <1>0, <1>13 DEF TypeOK, FlagTypes, TimerKept, NeverStranded, Pause
<1>14. CASE Reset
  BY <1>0, <1>14 DEF TypeOK, FlagTypes, TimerKept, NeverStranded, Reset, AdvanceRefused,
     MayAdvance
<1>15. CASE SetRealtime
  BY <1>0, <1>15 DEF TypeOK, FlagTypes, TimerKept, NeverStranded, SetRealtime
<1>16. ASSUME NEW o \in Scripts, StartScript(o) PROVE TimerKept'
  BY <1>0, <1>16 DEF TypeOK, FlagTypes, TimerKept, NeverStranded, StartScript
<1>17. ASSUME NEW n \in StepSizes, Step(n) PROVE TimerKept'
  BY <1>0, <1>17 DEF TypeOK, FlagTypes, TimerKept, NeverStranded, Step, AdvanceRefused,
     AdvanceBegins, MayAdvance
<1> QED
  BY <1>1, <1>2, <1>3, <1>4, <1>5, <1>6, <1>7, <1>8, <1>9, <1>10, <1>11, <1>12, <1>13,
     <1>14, <1>15, <1>16, <1>17 DEF Next, Work, Callback, User

\* Every way to rest goes through a publication of the cycle reached.
LEMMA ShownIsKept == ControllerInv /\ Next => ShownKept'
<1> SUFFICES ASSUME ControllerInv, Next PROVE ShownKept'  OBVIOUS
<1> USE DEF board, cursor, clocks, call, state, told, Publishing, PublishingAt, Fail, ClearMeasurement,
            ClearMeasurementAt, Command, CanMutate, AdvanceOver, FinishFlags, FinishIfAtEnd
<1>0. TypeOK /\ TimerKept /\ ShownKept  BY DEF ControllerInv
<1>1. CASE ApplyEvent \/ ApplySend \/ EndAdapterPublish \/ PressButton \/ WallMs
  BY <1>0, <1>1 DEF TypeOK, FlagTypes, TimerKept, NeverStranded, ShownKept,
     RestingShowsNow, ApplyEvent, ApplySend, EndAdapterPublish, PressButton, WallMs
<1>2. CASE Tick
  BY <1>0, <1>2 DEF TypeOK, FlagTypes, TimerKept, NeverStranded, ShownKept,
     RestingShowsNow, Tick
<1>3. CASE BoardThrows
  BY <1>0, <1>3 DEF TypeOK, FlagTypes, TimerKept, NeverStranded, ShownKept,
     RestingShowsNow, BoardThrows, RestoreButton
<1>4. CASE StepOver
  BY <1>0, <1>4 DEF TypeOK, FlagTypes, TimerKept, NeverStranded, ShownKept,
     RestingShowsNow, StepOver
<1>5. CASE BatchOver
  BY <1>0, <1>5 DEF TypeOK, FlagTypes, TimerKept, NeverStranded, ShownKept,
     RestingShowsNow, BatchOver, BatchPublishes
<1>6. CASE ResetOver
  BY <1>0, <1>6 DEF TypeOK, FlagTypes, TimerKept, NeverStranded, ShownKept,
     RestingShowsNow, ResetOver
<1>7. CASE StartupOver
  BY <1>0, <1>7 DEF TypeOK, FlagTypes, TimerKept, NeverStranded, ShownKept,
     RestingShowsNow, StartupOver
<1>8. CASE EndPublish
  BY <1>0, <1>8 DEF TypeOK, FlagTypes, TimerKept, NeverStranded, ShownKept,
     RestingShowsNow, EndPublish
<1>9. CASE BatchDeferred
  BY <1>0, <1>9 DEF TypeOK, FlagTypes, TimerKept, NeverStranded, ShownKept,
     RestingShowsNow, BatchDeferred, TimerFires
<1>10. CASE BatchPaced
  BY <1>0, <1>10 DEF TypeOK, FlagTypes, TimerKept, NeverStranded, ShownKept,
     RestingShowsNow, BatchPaced, TimerFires
<1>11. CASE BatchBegins
  BY <1>0, <1>11 DEF TypeOK, FlagTypes, TimerKept, NeverStranded, ShownKept,
     RestingShowsNow, BatchBegins, TimerFires, AdvanceRefused, AdvanceBegins
<1>12. CASE Run
  BY <1>0, <1>12 DEF TypeOK, FlagTypes, TimerKept, NeverStranded, ShownKept,
     RestingShowsNow, Run
<1>13. CASE Pause
  BY <1>0, <1>13 DEF TypeOK, FlagTypes, TimerKept, NeverStranded, ShownKept,
     RestingShowsNow, Pause
<1>14. CASE Reset
  BY <1>0, <1>14 DEF TypeOK, FlagTypes, TimerKept, NeverStranded, ShownKept,
     RestingShowsNow, Reset, AdvanceRefused
<1>15. CASE SetRealtime
  BY <1>0, <1>15 DEF TypeOK, FlagTypes, TimerKept, NeverStranded, ShownKept,
     RestingShowsNow, SetRealtime
<1>16. ASSUME NEW o \in Scripts, StartScript(o) PROVE ShownKept'
  BY <1>0, <1>16 DEF TypeOK, FlagTypes, TimerKept, NeverStranded, ShownKept,
     RestingShowsNow, StartScript
<1>17. ASSUME NEW n \in StepSizes, Step(n) PROVE ShownKept'
  BY <1>0, <1>17 DEF TypeOK, FlagTypes, TimerKept, NeverStranded, ShownKept,
     RestingShowsNow, Step, AdvanceRefused, AdvanceBegins
<1> QED
  BY <1>1, <1>2, <1>3, <1>4, <1>5, <1>6, <1>7, <1>8, <1>9, <1>10, <1>11, <1>12, <1>13,
     <1>14, <1>15, <1>16, <1>17 DEF Next, Work, Callback, User

-----------------------------------------------------------------------------
(* The end of the run: one lemma for each kind of step there is. *)

run == <<script, endCycle, finished, finishAnnounced, announced>>

LEMMA AtLastCycle ==
  ASSUME NEW e, MaybeIn(e, Nat), NEW c PROVE e = <<c>> <=> e # <<>> /\ e[1] = c
BY DEF MaybeIn

\* Nothing moves.
LEMMA HorizonStays ==
  ASSUME HorizonKept, UNCHANGED <<now, run>>, error => error',
         pc # "advance" /\ pc' # "advance",
         finished => ~running', announced # <<>> => shown' = now
  PROVE  HorizonKept'
BY DEF HorizonKept, EndsOnTime, run

\* The board moves, towards the end of the advance.
LEMMA HorizonAdvances ==
  ASSUME TypeOK, HorizonKept, pc = "advance", UNCHANGED <<run, pc, task, end, running>>,
         now' \in Nat, now <= now', now' <= end
  PROVE  HorizonKept'
<1>1. now \in Nat /\ end \in Nat /\ (endCycle # <<>> => endCycle[1] \in Nat)
  BY DEF TypeOK, CountTypes, OptionTypes, MaybeIn
<1>2. announced = <<>>  BY DEF HorizonKept, EndsOnTime
<1> QED  BY <1>1, <1>2 DEF HorizonKept, EndsOnTime, run

\* An advance begins.
LEMMA HorizonBegins ==
  ASSUME TypeOK, HorizonKept, pc # "advance", ~finished,
         UNCHANGED <<now, endCycle, finished, finishAnnounced, announced>>,
         script' # <<>> \/ script' = script,
         pc' = "advance", now <= end', end' <= Limit, endCycle # <<>> => end' <= endCycle[1],
         task' = "startup" => endCycle = <<>> /\ script' # <<>>
  PROVE  HorizonKept'
BY DEF HorizonKept, EndsOnTime, run

\* It is over: the run is finished when this was its last cycle.
LEMMA HorizonEnds ==
  ASSUME TypeOK, HorizonKept, pc = "advance", now = end, pc' # "advance",
         UNCHANGED <<now, script, finishAnnounced, announced>>,
         endCycle' = endCycle \/ (script # <<>> /\ endCycle' # <<>> /\ now <= endCycle'[1]),
         finished' = (finished \/ (endCycle' # <<>> /\ endCycle'[1] = now)),
         finished' => ~running'
  PROVE  HorizonKept'
<1>1. ~finished /\ announced = <<>>  BY DEF HorizonKept, EndsOnTime
<1> QED  BY <1>1 DEF HorizonKept, EndsOnTime

\* It is cut short.
LEMMA HorizonFails ==
  ASSUME TypeOK, HorizonKept, pc = "advance", pc' # "advance", UNCHANGED run, ~running', error',
         now' \in Nat, now' <= end
  PROVE  HorizonKept'
<1>1. end \in Nat /\ (endCycle # <<>> => endCycle[1] \in Nat)
  BY DEF TypeOK, CountTypes, OptionTypes, MaybeIn
<1>2. ~finished /\ announced = <<>>  BY DEF HorizonKept, EndsOnTime
<1> QED  BY <1>1, <1>2 DEF HorizonKept, EndsOnTime, run

\* Requests are clipped, and finish() is called exactly at the last cycle.
LEMMA HorizonIsKept == ControllerInv /\ Next => HorizonKept'
<1> SUFFICES ASSUME ControllerInv, Next PROVE HorizonKept'  OBVIOUS
<1> USE DEF board, cursor, clocks, call, state, told, Publishing, PublishingAt, Fail, ClearMeasurement,
            ClearMeasurementAt, Command, CanMutate, AdvanceOver, FinishFlags, FinishIfAtEnd
<1>0. TypeOK /\ TimerKept /\ HorizonKept /\ ShownKept  BY DEF ControllerInv
<1>1. CASE ApplyEvent
  <2>1. pc = "advance" /\ UNCHANGED <<run, pc, task, end, running, now>>  BY <1>1 DEF ApplyEvent, run
  <2> QED  BY <1>0, <2>1, HorizonAdvances DEF TypeOK, CountTypes, HorizonKept
<1>2. CASE ApplySend
  <2>1. pc = "advance" /\ UNCHANGED <<run, pc, task, end, running, now>>  BY <1>2 DEF ApplySend, run
  <2> QED  BY <1>0, <2>1, HorizonAdvances DEF TypeOK, CountTypes, HorizonKept
<1>3. CASE Tick
  <2>1. now' \in Nat /\ now <= now' /\ now' <= end  BY <1>0, <1>3, TargetFacts DEF Tick, TypeOK, CountTypes
  <2> QED  BY <1>0, <1>3, <2>1, HorizonAdvances DEF Tick, run
<1>4. CASE BoardThrows
  <2>1. now' \in Nat /\ now' <= end  BY <1>0, <1>4, TargetFacts DEF BoardThrows, TypeOK, CountTypes
  <2>2. pc = "advance" /\ pc' = "publish" /\ ~running' /\ error' /\ UNCHANGED run  BY <1>4 DEF BoardThrows, run
  <2> QED  BY <1>0, <2>1, <2>2, HorizonFails
<1>5. CASE StepOver
  <2>1. /\ pc = "advance" /\ now = end /\ pc' # "advance" /\ UNCHANGED <<now, script, endCycle, finishAnnounced, announced>>
        /\ finished' = (finished \/ endCycle = <<now>>)
        /\ running' = (running /\ endCycle # <<now>>) /\ ~finished
    BY <1>0, <1>5 DEF StepOver, HorizonKept
  <2> QED  BY <1>0, <2>1, AtLastCycle, HorizonEnds DEF TypeOK, OptionTypes
<1>6. CASE BatchOver
  <2>1. /\ pc = "advance" /\ now = end /\ pc' # "advance" /\ UNCHANGED <<now, script, endCycle, finishAnnounced, announced>>
        /\ finished' = (finished \/ endCycle = <<now>>)
        /\ running' = (running /\ endCycle # <<now>>) /\ ~finished
    BY <1>0, <1>6 DEF BatchOver, HorizonKept
  <2> QED  BY <1>0, <2>1, AtLastCycle, HorizonEnds DEF TypeOK, OptionTypes
<1>7. CASE ResetOver
  <2>1. /\ pc = "advance" /\ now = end /\ pc' # "advance" /\ UNCHANGED <<now, script, endCycle, finishAnnounced, announced>>
        /\ finished' = (finished \/ endCycle = <<now>>)
        /\ running' = (running /\ endCycle # <<now>>) /\ ~finished
    BY <1>0, <1>7 DEF ResetOver, HorizonKept
  <2> QED  BY <1>0, <2>1, AtLastCycle, HorizonEnds DEF TypeOK, OptionTypes
<1>8. CASE StartupOver
  <2>1. /\ pc = "advance" /\ now = end /\ pc' # "advance" /\ UNCHANGED <<now, script, finishAnnounced, announced>>
        /\ script # <<>> /\ endCycle = <<>> /\ ~finished /\ now <= Limit /\ now \in Nat
    BY <1>0, <1>8 DEF StartupOver, HorizonKept, EndsOnTime, TypeOK, CountTypes
  <2>2. script[1] \in Scripts  BY <1>0, <2>1 DEF TypeOK, OptionTypes, MaybeIn
  <2>3. CASE script[1].frames > (Limit - now) \div script[1].cyclesPerFrame
    <3>1. endCycle' = endCycle /\ finished' = finished  BY <1>8, <2>3 DEF StartupOver
    <3> QED  BY <1>0, <2>1, <3>1, HorizonEnds DEF TypeOK, FlagTypes
  <2>4. CASE ~(script[1].frames > (Limit - now) \div script[1].cyclesPerFrame)
    <3>1. endCycle' = Horizon(script[1]) /\ finished' = (finished \/ endCycle' = <<now>>)
          /\ running' = (running /\ endCycle' # <<now>>)
      BY <1>8, <2>4 DEF StartupOver
    <3>2. MaybeIn(endCycle', Nat) /\ (endCycle' # <<>> => now <= endCycle'[1])
      BY <2>1, <2>2, <2>4, <3>1, HorizonFacts
    <3> QED  BY <1>0, <2>1, <3>1, <3>2, AtLastCycle, HorizonEnds
  <2> QED  BY <2>3, <2>4
<1>9. CASE EndPublish
  <2>1. UNCHANGED <<now, script, endCycle, finished, shown, running, error>> /\ pc = "publish" /\ pc' = "idle" /\ shown = now
    BY <1>0, <1>9 DEF EndPublish, ShownKept
  <2>2. CASE Announces
    <3>1. announced = <<>> /\ finished /\ finishAnnounced'  BY <1>0, <1>9, <2>2 DEF Announces, HorizonKept, EndPublish
    <3>2. endCycle = <<now>>  BY <1>0, <2>1, <3>1, AtLastCycle DEF HorizonKept, EndsOnTime, TypeOK, OptionTypes
    <3>3. announced' = <<shown>>  BY <1>9, <2>2, <3>1 DEF EndPublish
    <3> QED  BY <1>0, <2>1, <3>1, <3>2, <3>3 DEF HorizonKept, EndsOnTime
  <2>3. CASE ~Announces
    <3>1. announced' = announced /\ finishAnnounced' = finishAnnounced
      BY <1>0, <1>9, <2>3 DEF EndPublish, Announces, HorizonKept, EndsOnTime, TypeOK, FlagTypes
    <3> QED  BY <1>0, <2>1, <3>1 DEF HorizonKept, EndsOnTime
  <2> QED  BY <2>2, <2>3
<1>10. CASE EndAdapterPublish
  <2>1. /\ pc # "advance" /\ pc' # "advance" /\ UNCHANGED <<now, run>> /\ (error => error') /\ (finished => ~running')
        /\ shown' \in {shown, now}
    BY <1>0, <1>10 DEF EndAdapterPublish, run, HorizonKept
  <2> QED  BY <1>0, <2>1, HorizonStays DEF HorizonKept, EndsOnTime
<1>11. CASE BatchDeferred
  <2>1. /\ pc # "advance" /\ pc' # "advance" /\ UNCHANGED <<now, run>> /\ (error => error') /\ (finished => ~running')
        /\ shown' \in {shown, now}
    BY <1>0, <1>11 DEF BatchDeferred, run, HorizonKept
  <2> QED  BY <1>0, <2>1, HorizonStays DEF HorizonKept, EndsOnTime
<1>12. CASE BatchPaced
  <2>1. /\ pc # "advance" /\ pc' # "advance" /\ UNCHANGED <<now, run>> /\ (error => error') /\ (finished => ~running')
        /\ shown' \in {shown, now}
    BY <1>0, <1>12 DEF BatchPaced, run, HorizonKept
  <2> QED  BY <1>0, <2>1, HorizonStays DEF HorizonKept, EndsOnTime
<1>13. CASE BatchBegins
  <2>1. pc # "advance" /\ ~finished /\ UNCHANGED <<now, run>>
    BY <1>0, <1>13 DEF BatchBegins, AdvanceRefused, AdvanceBegins, TimerFires, NeverStranded, TimerKept, HorizonKept, run
  <2>2. CASE Refused(Batch)
    <3>1. pc' # "advance" /\ shown' = now /\ error'  BY <1>13, <2>2 DEF BatchBegins, AdvanceRefused
    <3> QED  BY <1>0, <2>1, <3>1, HorizonStays
  <2>3. CASE ~Refused(Batch)
    <3>1. /\ pc' = "advance" /\ task' # "startup" /\ end' = now + Clipped(Batch) /\ Clipped(Batch) <= Limit - now
      BY <1>0, <1>13, <2>3, ClippedFacts DEF BatchBegins, AdvanceBegins, Refused, HorizonKept, TypeOK, CountTypes
    <3>2. Clipped(Batch) \in Nat /\ (endCycle # <<>> => now + Clipped(Batch) <= endCycle[1])
      BY <1>0, ClippedFacts DEF HorizonKept
    <3> QED  BY <1>0, <2>1, <3>1, <3>2, HorizonBegins DEF TypeOK, CountTypes, run
  <2> QED  BY <2>2, <2>3
<1>14. CASE WallMs
  <2>1. UNCHANGED <<run, pc, task, end, running, now, shown, error>>  BY <1>14 DEF WallMs, run
  <2>2. CASE pc = "advance"  BY <1>0, <2>1, <2>2, HorizonAdvances DEF TypeOK, CountTypes, HorizonKept
  <2>3. CASE pc # "advance"  BY <1>0, <2>1, <2>3, HorizonStays DEF HorizonKept, EndsOnTime
  <2> QED  BY <2>2, <2>3
<1>15. CASE Run
  <2>1. /\ pc # "advance" /\ pc' # "advance" /\ UNCHANGED <<now, run>> /\ (error => error') /\ (finished => ~running')
        /\ shown' \in {shown, now}
    BY <1>0, <1>15 DEF Run, run, HorizonKept, MayAdvance
  <2> QED  BY <1>0, <2>1, HorizonStays DEF HorizonKept, EndsOnTime
<1>16. CASE Pause
  <2>1. /\ pc # "advance" /\ pc' # "advance" /\ UNCHANGED <<now, run>> /\ (error => error') /\ (finished => ~running')
        /\ shown' \in {shown, now}
    BY <1>0, <1>16 DEF Pause, run, HorizonKept
  <2> QED  BY <1>0, <2>1, HorizonStays DEF HorizonKept, EndsOnTime
<1>17. CASE Reset
  <2>1. pc # "advance" /\ ~finished /\ UNCHANGED <<now, run>>
    BY <1>17 DEF Reset, AdvanceRefused, MayAdvance, run
  <2>2. CASE ResetCycles > Limit - now
    <3>1. pc' # "advance" /\ shown' = now /\ error'  BY <1>17, <2>2 DEF Reset, AdvanceRefused
    <3> QED  BY <1>0, <2>1, <3>1, HorizonStays
  <2>3. CASE ~(ResetCycles > Limit - now)
    <3>1. pc' = "advance" /\ task' # "startup" /\ end' = now + Clipped(ResetCycles)  BY <1>17, <2>3 DEF Reset
    <3>2. /\ Clipped(ResetCycles) \in Nat /\ Clipped(ResetCycles) <= ResetCycles
          /\ endCycle # <<>> => now + Clipped(ResetCycles) <= endCycle[1]
      BY <1>0, ClippedFacts DEF HorizonKept
    <3> QED  BY <1>0, <2>1, <2>3, <3>1, <3>2, HorizonBegins DEF TypeOK, CountTypes, run
  <2> QED  BY <2>2, <2>3
<1>18. CASE SetRealtime
  <2>1. /\ pc # "advance" /\ pc' # "advance" /\ UNCHANGED <<now, run>> /\ (error => error') /\ (finished => ~running')
        /\ shown' \in {shown, now}
    BY <1>0, <1>18 DEF SetRealtime, run, HorizonKept
  <2> QED  BY <1>0, <2>1, HorizonStays DEF HorizonKept, EndsOnTime
<1>19. CASE PressButton
  <2>1. /\ pc # "advance" /\ pc' # "advance" /\ UNCHANGED <<now, run>> /\ (error => error') /\ (finished => ~running')
        /\ shown' \in {shown, now}
    BY <1>0, <1>19 DEF PressButton, run, HorizonKept
  <2> QED  BY <1>0, <2>1, HorizonStays DEF HorizonKept, EndsOnTime
<1>20. ASSUME NEW o \in Scripts, StartScript(o) PROVE HorizonKept'
  <2>1. pc # "advance" /\ endCycle = <<>> /\ announced = <<>> /\ ~finished /\ now = 0 /\ script' = <<o>>
    BY <1>0, <1>20 DEF StartScript, HorizonKept, EndsOnTime
  <2>2. CASE o.frames = 0
    <3>1. /\ pc' = "publish" /\ now' = 0 /\ finished' /\ ~running' /\ endCycle' = <<0>>
          /\ UNCHANGED <<announced, finishAnnounced>>
      BY <1>20, <2>1, <2>2 DEF StartScript
    <3> QED  BY <1>0, <2>1, <3>1 DEF HorizonKept, EndsOnTime
  <2>3. CASE o.frames # 0
    <3>1. /\ pc' = "advance" /\ end' = ResetCycles
          /\ UNCHANGED <<now, endCycle, finished, finishAnnounced, announced>>
      BY <1>20, <2>3 DEF StartScript
    <3> QED  BY <1>0, <2>1, <3>1, HorizonBegins
  <2> QED  BY <2>2, <2>3
<1>21. ASSUME NEW n \in StepSizes, Step(n) PROVE HorizonKept'
  <2>1. pc # "advance" /\ ~finished /\ UNCHANGED <<now, run>>
    BY <1>0, <1>21 DEF Step, AdvanceRefused, AdvanceBegins, MayAdvance, HorizonKept, run
  <2>2. CASE Refused(n)
    <3>1. pc' # "advance" /\ shown' = now /\ error'  BY <1>21, <2>2 DEF Step, AdvanceRefused
    <3> QED  BY <1>0, <2>1, <3>1, HorizonStays
  <2>3. CASE ~Refused(n)
    <3>1. /\ pc' = "advance" /\ task' # "startup" /\ end' = now + Clipped(n) /\ Clipped(n) <= Limit - now
      BY <1>0, <1>21, <2>3, ClippedFacts DEF Step, AdvanceBegins, Refused, HorizonKept, TypeOK, CountTypes
    <3>2. Clipped(n) \in Nat /\ (endCycle # <<>> => now + Clipped(n) <= endCycle[1])
      BY <1>0, ClippedFacts DEF HorizonKept
    <3> QED  BY <1>0, <2>1, <3>1, <3>2, HorizonBegins DEF TypeOK, CountTypes, run
  <2> QED  BY <2>2, <2>3
<1> QED
  BY <1>1, <1>2, <1>3, <1>4, <1>5, <1>6, <1>7, <1>8, <1>9, <1>10, <1>11, <1>12, <1>13,
     <1>14, <1>15, <1>16, <1>17, <1>18, <1>19, <1>20, <1>21 DEF Next, Work, Callback, User

-----------------------------------------------------------------------------
(* Pacing. *)

\* Where virtual time is measured from, and against what.
LEMMA PacingNumbers ==
  ASSUME TypeOK
  PROVE  /\ now \in Nat /\ end \in Nat /\ runCycle \in Nat /\ elapsed \in Nat /\ ElapsedCap \in Nat
         /\ elapsed * MsCycles \in Nat /\ (elapsed + 1) * MsCycles = elapsed * MsCycles + MsCycles
BY NumberFacts DEF TypeOK, CountTypes

\* The measurement begins anew.
LEMMA PacingCleared ==
  ASSUME TypeOK, elapsed' = 0, runCycle' = now', now' \in Nat, pc' # "advance"
  PROVE  PacingKept'
<1>1. ElapsedCap \in Nat /\ ElapsedCap' = ElapsedCap  BY PacingNumbers DEF ElapsedCap
<1>2. elapsed' * MsCycles = 0
  <2>1. \A m \in Nat : 0 * m = 0  OBVIOUS
  <2> QED  BY <2>1
<1>3. now' - runCycle' = 0
  <2>1. \A n \in Nat : n - n = 0  OBVIOUS
  <2> QED  BY <2>1
<1>4. now' - runCycle' <= elapsed' * MsCycles + Batch
  <2>1. 0 <= 0 + Batch  OBVIOUS
  <2> QED  BY <1>2, <1>3, <2>1
<1>5. elapsed' <= ElapsedCap'
  <2> HIDE DEF ElapsedCap
  <2> QED  BY <1>1
<1> QED  BY <1>4, <1>5 DEF PacingKept, RealtimePaced

\* It goes on, and the board does not move.
LEMMA PacingStays ==
  ASSUME PacingKept, UNCHANGED <<now, elapsed, runCycle, realtime>>, running' => running,
         pc' = "advance" /\ task' = "batch" => UNCHANGED <<pc, task, end>>
  PROVE  PacingKept'
BY DEF PacingKept, RealtimePaced, ElapsedCap

\* Only a batch moves a running simulation, and it begins when time is not ahead.
LEMMA PacingIsKept == ControllerInv /\ Next => PacingKept'
<1> SUFFICES ASSUME ControllerInv, Next PROVE PacingKept'  OBVIOUS
<1> USE DEF board, cursor, clocks, call, state, told, Publishing, PublishingAt, Fail, ClearMeasurement,
            ClearMeasurementAt, Command, CanMutate, AdvanceOver, FinishFlags, FinishIfAtEnd
<1>0. TypeOK /\ TimerKept /\ HorizonKept /\ PacingKept  BY DEF ControllerInv
<1>00. now' \in Nat  BY CountsKept DEF CountTypes
<1>1. CASE ApplyEvent
  <2>1. /\ UNCHANGED <<now, elapsed, runCycle, realtime>> /\ (running' => running)
        /\ pc' = "advance" => UNCHANGED <<pc, task, end>>
    BY <1>1 DEF ApplyEvent
  <2> QED  BY <1>0, <2>1, PacingStays
<1>2. CASE ApplySend
  <2>1. /\ UNCHANGED <<now, elapsed, runCycle, realtime>> /\ (running' => running)
        /\ pc' = "advance" => UNCHANGED <<pc, task, end>>
    BY <1>2 DEF ApplySend
  <2> QED  BY <1>0, <2>1, PacingStays
<1>3. CASE Tick
  <2>1. /\ UNCHANGED <<elapsed, runCycle, realtime, running, pc, task, end>> /\ pc = "advance"
        /\ now' <= end
    BY <1>3, TargetFacts DEF Tick
  <2>2. running => task = "batch"  BY <1>0, <2>1 DEF TimerKept
  <2> QED  BY <1>0, <1>00, <2>1, <2>2, PacingNumbers DEF PacingKept, RealtimePaced, ElapsedCap
<1>4. CASE BoardThrows
  <2>1. elapsed' = 0 /\ runCycle' = now' /\ pc' # "advance"  BY <1>4 DEF BoardThrows
  <2> QED  BY <1>0, <1>00, <2>1, PacingCleared
<1>5. CASE StepOver
  <2>1. /\ UNCHANGED <<now, elapsed, runCycle, realtime>> /\ (running' => running)
        /\ pc' = "advance" => UNCHANGED <<pc, task, end>>
    BY <1>5 DEF StepOver
  <2> QED  BY <1>0, <2>1, PacingStays
<1>6. CASE BatchOver
  <2>1. /\ UNCHANGED <<now, elapsed, runCycle, realtime>> /\ (running' => running)
        /\ pc' = "advance" => UNCHANGED <<pc, task, end>>
    BY <1>6 DEF BatchOver
  <2> QED  BY <1>0, <2>1, PacingStays
<1>7. CASE ResetOver
  <2>1. elapsed' = 0 /\ runCycle' = now' /\ pc' # "advance"  BY <1>7 DEF ResetOver
  <2> QED  BY <1>0, <1>00, <2>1, PacingCleared
<1>8. CASE StartupOver
  <2>1. elapsed' = 0 /\ runCycle' = now' /\ pc' # "advance"  BY <1>8 DEF StartupOver
  <2> QED  BY <1>0, <1>00, <2>1, PacingCleared
<1>9. CASE EndPublish
  <2>1. /\ UNCHANGED <<now, elapsed, runCycle, realtime>> /\ (running' => running)
        /\ pc' = "advance" => UNCHANGED <<pc, task, end>>
    BY <1>9 DEF EndPublish
  <2> QED  BY <1>0, <2>1, PacingStays
<1>10. CASE EndAdapterPublish
  <2>1. /\ UNCHANGED <<now, elapsed, runCycle, realtime>> /\ (running' => running)
        /\ pc' = "advance" => UNCHANGED <<pc, task, end>>
    BY <1>10 DEF EndAdapterPublish
  <2> QED  BY <1>0, <2>1, PacingStays
<1>11. CASE BatchDeferred
  <2>1. /\ UNCHANGED <<now, elapsed, runCycle, realtime>> /\ (running' => running)
        /\ pc' = "advance" => UNCHANGED <<pc, task, end>>
    BY <1>11 DEF BatchDeferred
  <2> QED  BY <1>0, <2>1, PacingStays
<1>12. CASE BatchPaced
  <2>1. /\ UNCHANGED <<now, elapsed, runCycle, realtime>> /\ (running' => running)
        /\ pc' = "advance" => UNCHANGED <<pc, task, end>>
    BY <1>12 DEF BatchPaced
  <2> QED  BY <1>0, <2>1, PacingStays
<1>13. CASE BatchBegins
  <2>1. CASE Refused(Batch)
    <3>1. elapsed' = 0 /\ runCycle' = now' /\ pc' # "advance"  BY <1>13, <2>1 DEF BatchBegins, AdvanceRefused
    <3> QED  BY <1>0, <1>00, <3>1, PacingCleared
  <2>2. CASE ~Refused(Batch)
    <3>1. /\ UNCHANGED <<now, elapsed, runCycle, realtime, running>> /\ end' = now + Clipped(Batch)
          /\ PacingDelay = 0
      BY <1>13, <2>2 DEF BatchBegins, AdvanceBegins
    <3>2. Clipped(Batch) \in Nat /\ Clipped(Batch) <= Batch  BY <1>0, ClippedFacts DEF HorizonKept
    <3>3. realtime => now - runCycle <= elapsed * MsCycles  BY <1>0, <3>1, NumberFacts
    <3> QED  BY <1>0, <3>1, <3>2, <3>3, PacingNumbers DEF PacingKept, RealtimePaced, ElapsedCap
  <2> QED  BY <2>1, <2>2
<1>14. CASE WallMs
  <2>1. UNCHANGED <<now, runCycle, realtime, running, pc, task, end>>  BY <1>14 DEF WallMs
  <2>2. elapsed' \in Nat /\ elapsed' <= ElapsedCap /\ (elapsed' = elapsed \/ elapsed' = elapsed + 1)
    <3>1. elapsed \in Nat /\ ElapsedCap \in Nat /\ elapsed <= ElapsedCap
      BY <1>0, PacingNumbers DEF PacingKept
    <3>2. elapsed' = Sooner(elapsed + 1, ElapsedCap)  BY <1>14 DEF WallMs
    <3> HIDE DEF ElapsedCap
    <3> QED  BY <3>1, <3>2 DEF Sooner
  <2>3. elapsed' * MsCycles \in Nat /\ elapsed * MsCycles <= elapsed' * MsCycles
    <3>1. /\ elapsed * MsCycles \in Nat
          /\ (elapsed + 1) * MsCycles = elapsed * MsCycles + MsCycles
      BY <1>0, PacingNumbers
    <3>2. elapsed' * MsCycles \in {elapsed * MsCycles, (elapsed + 1) * MsCycles}  BY <2>2
    <3> QED  BY <3>1, <3>2
  <2> QED  BY <1>0, <2>1, <2>2, <2>3, PacingNumbers DEF PacingKept, RealtimePaced, ElapsedCap
<1>15. CASE Run
  <2>1. elapsed' = 0 /\ runCycle' = now' /\ pc' # "advance"  BY <1>15 DEF Run
  <2> QED  BY <1>0, <1>00, <2>1, PacingCleared
<1>16. CASE Pause
  <2>1. elapsed' = 0 /\ runCycle' = now' /\ pc' # "advance"  BY <1>16 DEF Pause
  <2> QED  BY <1>0, <1>00, <2>1, PacingCleared
<1>17. CASE Reset
  <2>1. CASE ResetCycles > Limit - now
    <3>1. elapsed' = 0 /\ runCycle' = now' /\ pc' # "advance"  BY <1>17, <2>1 DEF Reset, AdvanceRefused
    <3> QED  BY <1>0, <1>00, <3>1, PacingCleared
  <2>2. CASE ~(ResetCycles > Limit - now)
    <3>1. UNCHANGED <<now, elapsed, runCycle, realtime>> /\ (running' => running) /\ task' # "batch"
      BY <1>17, <2>2 DEF Reset
    <3> QED  BY <1>0, <3>1, PacingStays
  <2> QED  BY <2>1, <2>2
<1>18. CASE SetRealtime
  <2>1. elapsed' = 0 /\ runCycle' = now' /\ pc' # "advance"  BY <1>18 DEF SetRealtime
  <2> QED  BY <1>0, <1>00, <2>1, PacingCleared
<1>19. CASE PressButton
  <2>1. /\ UNCHANGED <<now, elapsed, runCycle, realtime>> /\ (running' => running)
        /\ pc' = "advance" => UNCHANGED <<pc, task, end>>
    BY <1>19 DEF PressButton
  <2> QED  BY <1>0, <2>1, PacingStays
<1>20. ASSUME NEW o \in Scripts, StartScript(o) PROVE PacingKept'
  <2>1. CASE o.frames = 0
    <3>1. elapsed' = 0 /\ runCycle' = now' /\ pc' # "advance"  BY <1>20, <2>1 DEF StartScript
    <3> QED  BY <1>0, <1>00, <3>1, PacingCleared
  <2>2. CASE o.frames # 0
    <3>1. UNCHANGED <<now, elapsed, runCycle, realtime, running>> /\ task' # "batch"
      BY <1>20, <2>2 DEF StartScript
    <3> QED  BY <1>0, <3>1, PacingStays
  <2> QED  BY <2>1, <2>2
<1>21. ASSUME NEW n \in StepSizes, Step(n) PROVE PacingKept'
  <2>1. CASE Refused(n)
    <3>1. elapsed' = 0 /\ runCycle' = now' /\ pc' # "advance"  BY <1>21, <2>1 DEF Step, AdvanceRefused
    <3> QED  BY <1>0, <1>00, <3>1, PacingCleared
  <2>2. CASE ~(Refused(n))
    <3>1. UNCHANGED <<now, elapsed, runCycle, realtime>> /\ (running' => running) /\ task' # "batch"
      BY <1>21, <2>2 DEF Step, AdvanceBegins
    <3> QED  BY <1>0, <3>1, PacingStays
  <2> QED  BY <2>1, <2>2
<1> QED
  BY <1>1, <1>2, <1>3, <1>4, <1>5, <1>6, <1>7, <1>8, <1>9, <1>10, <1>11, <1>12, <1>13,
     <1>14, <1>15, <1>16, <1>17, <1>18, <1>19, <1>20, <1>21 DEF Next, Work, Callback, User

-----------------------------------------------------------------------------
(* The reset button. *)

InPulse == pc = "advance" /\ task \in {"reset", "startup"}

\* Nothing touches it.
LEMMA ButtonSame ==
  ASSUME ButtonKept,
         UNCHANGED <<pc, task, button, wanted, before, event, script, scriptFailed, commands>>
  PROVE  ButtonKept'
BY DEF ButtonKept, ButtonIsOwners, ScriptedButton, Stimulus

\* No pulse is on.
LEMMA ButtonOutside ==
  ASSUME ~InPulse', ~scriptFailed' => button' = wanted',
         script' = <<>> /\ commands' = 0 => ~wanted'
  PROVE  ButtonKept'
BY DEF ButtonKept, ButtonIsOwners, InPulse

\* Nor was there one.
LEMMA ButtonFree ==
  ASSUME TypeOK, ButtonKept, ~InPulse, ~InPulse', UNCHANGED <<button, wanted, script>>,
         commands' \in {commands, commands + 1}, scriptFailed => scriptFailed'
  PROVE  ButtonKept'
<1>1. commands \in Nat  BY DEF TypeOK, CountTypes
<1>2. commands' = 0 => commands = 0  BY <1>1
<1> QED  BY <1>2, ButtonOutside DEF ButtonKept, ButtonIsOwners, InPulse

\* A pulse begins: the owner's level is put aside, and no event is newer than it.
LEMMA PulseBegins ==
  ASSUME before'.pressed = wanted', before'.events = event', event' \in Nat,
         task' = "startup" => ~before'.pressed,
         script' = <<>> /\ commands' = 0 => ~wanted',
         InPulse', before'.pressed \in BOOLEAN
  PROVE  ButtonKept'
<1>1. ~ScriptedButton'
  <2>1. \A n \in Nat : (n + 1)..n = {}  OBVIOUS
  <2>2. (before'.events + 1)..event' = {}  BY <2>1
  <2> QED  BY <2>2 DEF ScriptedButton
<1> QED  BY <1>1 DEF ButtonKept, ButtonIsOwners, InPulse

\* It is over: the owner has the button back.
LEMMA PulseEnds ==
  ASSUME ButtonKept, InPulse, ~InPulse', RestoreButton(before.pressed),
         UNCHANGED <<wanted, script, commands>>
  PROVE  ButtonKept'
<1>1. button' = wanted'  BY DEF ButtonKept, InPulse, RestoreButton
<1> QED  BY <1>1 DEF ButtonKept, ButtonIsOwners, InPulse

\* An event in the middle of a pulse: the script may be the owner from now on.
LEMMA PulseScripted ==
  ASSUME TypeOK, ButtonKept, InPulse, ApplyEvent
  PROVE  ButtonKept'
<1>1. /\ event \in Nat /\ before.events \in Nat /\ before.events <= event /\ button \in BOOLEAN
      /\ wanted \in BOOLEAN
  BY DEF TypeOK, CountTypes, FlagTypes, ButtonKept, InPulse
<1>2. /\ UNCHANGED <<pc, task, before, script, scriptFailed, commands>> /\ event' = event + 1
      /\ button' = IF Stimulus[event + 1].btnc THEN Stimulus[event + 1].value ELSE button
      /\ wanted' = IF Stimulus[event + 1].btnc THEN Stimulus[event + 1].value ELSE wanted
  BY DEF ApplyEvent, call, state
<1>3. Stimulus' = Stimulus  BY <1>2 DEF Stimulus
<1>4. (before'.events + 1)..event' = ((before.events + 1)..event) \cup {event + 1}  BY <1>1, <1>2
<1>5. ScriptedButton' <=> ScriptedButton \/ Stimulus[event + 1].btnc
  BY <1>2, <1>3, <1>4 DEF ScriptedButton
<1>6. script # <<>>
  <2>1. Len(<<>>) = 0  OBVIOUS
  <2> QED  BY <1>1, <2>1 DEF ApplyEvent, EventDue, Stimulus
<1>7. before'.events <= event'  BY <1>1, <1>2
<1>8. IF ScriptedButton' THEN button' = wanted' ELSE before'.pressed = wanted'
  BY <1>2, <1>5 DEF ButtonKept, InPulse
<1> QED  BY <1>2, <1>6, <1>7, <1>8 DEF ButtonKept, ButtonIsOwners, InPulse

\* A pulse gives the button back to its owner, unless the script took it.
LEMMA ButtonIsKept == ControllerInv /\ Next => ButtonKept'
<1> SUFFICES ASSUME ControllerInv, Next PROVE ButtonKept'  OBVIOUS
<1> USE DEF board, cursor, clocks, call, state, told, Publishing, PublishingAt, Fail, ClearMeasurement,
            ClearMeasurementAt, Command, CanMutate, AdvanceOver, FinishFlags, FinishIfAtEnd
<1>0. TypeOK /\ ButtonKept /\ ScriptKept  BY DEF ControllerInv
<1>1. CASE ApplyEvent
  <2>1. CASE InPulse  BY <1>0, <1>1, <2>1, PulseScripted
  <2>2. CASE ~InPulse
    <3>1. /\ UNCHANGED <<pc, task, script, scriptFailed, commands>>
          /\ button' = wanted' \/ UNCHANGED <<button, wanted>>
      BY <1>1 DEF ApplyEvent
    <3>2. script # <<>>
      <4>1. Len(<<>>) = 0  OBVIOUS
      <4> QED  BY <1>0, <1>1, <4>1 DEF ApplyEvent, EventDue, Stimulus, TypeOK, CountTypes
    <3> QED  BY <1>0, <2>2, <3>1, <3>2, ButtonOutside DEF ButtonKept, ButtonIsOwners, InPulse
  <2> QED  BY <2>1, <2>2
<1>2. CASE ApplySend
  <2>1. UNCHANGED <<pc, task, button, wanted, before, event, script, scriptFailed, commands>>  BY <1>2 DEF ApplySend
  <2> QED  BY <1>0, <2>1, ButtonSame
<1>3. CASE Tick
  <2>1. UNCHANGED <<pc, task, button, wanted, before, event, script, scriptFailed, commands>>  BY <1>3 DEF Tick
  <2> QED  BY <1>0, <2>1, ButtonSame
<1>4. CASE BoardThrows
  <2>1. /\ pc = "advance" /\ ~InPulse' /\ UNCHANGED <<wanted, script, commands>>
        /\ scriptFailed' = (scriptFailed \/ task = "startup")
        /\ IF task = "reset" THEN RestoreButton(before.pressed) ELSE UNCHANGED button
    BY <1>4 DEF BoardThrows, InPulse
  <2>2. CASE task = "reset"  BY <1>0, <2>1, <2>2, PulseEnds DEF InPulse
  <2>3. CASE task = "startup"  BY <1>0, <2>1, <2>3, ButtonOutside DEF ButtonKept
  <2>4. CASE task \notin {"reset", "startup"}  BY <1>0, <2>1, <2>4, ButtonFree DEF InPulse
  <2> QED  BY <2>2, <2>3, <2>4
<1>5. CASE StepOver
  <2>1. ~InPulse /\ ~InPulse' /\ UNCHANGED <<button, wanted, script>> /\ commands' \in {commands, commands + 1}
        /\ (scriptFailed => scriptFailed')
    BY <1>5 DEF StepOver, InPulse
  <2> QED  BY <1>0, <2>1, ButtonFree
<1>6. CASE BatchOver
  <2>1. ~InPulse /\ ~InPulse' /\ UNCHANGED <<button, wanted, script>> /\ commands' \in {commands, commands + 1}
        /\ (scriptFailed => scriptFailed')
    BY <1>6 DEF BatchOver, InPulse
  <2> QED  BY <1>0, <2>1, ButtonFree
<1>7. CASE ResetOver
  <2>1. /\ InPulse /\ ~InPulse' /\ UNCHANGED <<wanted, script, commands>> /\ RestoreButton(before.pressed)
    BY <1>7 DEF ResetOver, InPulse
  <2> QED  BY <1>0, <2>1, PulseEnds
<1>8. CASE StartupOver
  <2>1. /\ InPulse /\ task = "startup" /\ ~InPulse' /\ UNCHANGED <<wanted, script, commands>>
        /\ RestoreButton(FALSE)
    BY <1>8 DEF StartupOver, InPulse
  <2>2. before.pressed = FALSE  BY <1>0, <2>1 DEF ButtonKept, InPulse
  <2> QED  BY <1>0, <2>1, <2>2, PulseEnds
<1>9. CASE EndPublish
  <2>1. ~InPulse /\ ~InPulse' /\ UNCHANGED <<button, wanted, script>> /\ commands' \in {commands, commands + 1}
        /\ (scriptFailed => scriptFailed')
    BY <1>9 DEF EndPublish, InPulse
  <2> QED  BY <1>0, <2>1, ButtonFree
<1>10. CASE EndAdapterPublish
  <2>1. ~InPulse /\ ~InPulse' /\ UNCHANGED <<button, wanted, script>> /\ commands' \in {commands, commands + 1}
        /\ (scriptFailed => scriptFailed')
    BY <1>10 DEF EndAdapterPublish, InPulse
  <2> QED  BY <1>0, <2>1, ButtonFree
<1>11. CASE BatchDeferred
  <2>1. UNCHANGED <<pc, task, button, wanted, before, event, script, scriptFailed, commands>>  BY <1>11 DEF BatchDeferred
  <2> QED  BY <1>0, <2>1, ButtonSame
<1>12. CASE BatchPaced
  <2>1. ~InPulse /\ ~InPulse' /\ UNCHANGED <<button, wanted, script>> /\ commands' \in {commands, commands + 1}
        /\ (scriptFailed => scriptFailed')
    BY <1>12 DEF BatchPaced, InPulse
  <2> QED  BY <1>0, <2>1, ButtonFree
<1>13. CASE BatchBegins
  <2>1. ~InPulse /\ ~InPulse' /\ UNCHANGED <<button, wanted, script>> /\ commands' \in {commands, commands + 1}
        /\ (scriptFailed => scriptFailed')
    BY <1>13 DEF BatchBegins, AdvanceRefused, AdvanceBegins, InPulse
  <2> QED  BY <1>0, <2>1, ButtonFree
<1>14. CASE WallMs
  <2>1. UNCHANGED <<pc, task, button, wanted, before, event, script, scriptFailed, commands>>  BY <1>14 DEF WallMs
  <2> QED  BY <1>0, <2>1, ButtonSame
<1>15. CASE Run
  <2>1. ~InPulse /\ ~InPulse' /\ UNCHANGED <<button, wanted, script>> /\ commands' \in {commands, commands + 1}
        /\ (scriptFailed => scriptFailed')
    BY <1>15 DEF Run, InPulse
  <2> QED  BY <1>0, <2>1, ButtonFree
<1>16. CASE Pause
  <2>1. ~InPulse /\ ~InPulse' /\ UNCHANGED <<button, wanted, script>> /\ commands' \in {commands, commands + 1}
        /\ (scriptFailed => scriptFailed')
    BY <1>16 DEF Pause, InPulse
  <2> QED  BY <1>0, <2>1, ButtonFree
<1>17. CASE Reset
  <2>1. /\ ~InPulse /\ ~scriptFailed /\ UNCHANGED <<wanted, script, scriptFailed, event>>
        /\ commands' = commands + 1
    BY <1>17 DEF Reset, MayAdvance, InPulse
  <2>2. CASE ResetCycles > Limit - now
    <3>1. ~InPulse' /\ UNCHANGED button  BY <1>17, <2>2 DEF Reset, AdvanceRefused, InPulse
    <3> QED  BY <1>0, <2>1, <3>1, ButtonFree
  <2>3. CASE ~(ResetCycles > Limit - now)
    <3>1. /\ before' = [pressed |-> button, events |-> event] /\ InPulse' /\ task' # "startup"
      BY <1>17, <2>3 DEF Reset, InPulse
    <3>2. button = wanted  BY <1>0, <2>1 DEF ButtonKept, ButtonIsOwners, InPulse
    <3>3. commands' # 0 /\ event \in Nat /\ button \in BOOLEAN
      BY <1>0, <2>1 DEF TypeOK, CountTypes, FlagTypes
    <3> QED  BY <2>1, <3>1, <3>2, <3>3, PulseBegins
  <2> QED  BY <2>2, <2>3
<1>18. CASE SetRealtime
  <2>1. ~InPulse /\ ~InPulse' /\ UNCHANGED <<button, wanted, script>> /\ commands' \in {commands, commands + 1}
        /\ (scriptFailed => scriptFailed')
    BY <1>18 DEF SetRealtime, InPulse
  <2> QED  BY <1>0, <2>1, ButtonFree
<1>19. CASE PressButton
  <2>1. /\ ~InPulse' /\ button' = wanted' /\ commands' = commands + 1
    BY <1>19 DEF PressButton, InPulse
  <2>2. commands' # 0  BY <1>0, <2>1 DEF TypeOK, CountTypes
  <2> QED  BY <2>1, <2>2, ButtonOutside
<1>20. ASSUME NEW o \in Scripts, StartScript(o) PROVE ButtonKept'
  <2>1. /\ ~InPulse /\ script = <<>> /\ commands = 0 /\ script' = <<o>> /\ UNCHANGED <<wanted, event, scriptFailed>>
    BY <1>20 DEF StartScript, InPulse
  <2>2. wanted = FALSE /\ event = 0
    BY <1>0, <2>1 DEF ButtonKept, ScriptKept, TypeOK, FlagTypes
  <2>3. CASE o.frames = 0
    <3>1. ~InPulse' /\ UNCHANGED button  BY <1>20, <2>3 DEF StartScript, InPulse
    <3> QED  BY <1>0, <2>1, <3>1, ButtonOutside DEF ButtonKept, ButtonIsOwners, InPulse
  <2>4. CASE o.frames # 0
    <3>1. InPulse' /\ before' = [pressed |-> FALSE, events |-> 0]  BY <1>20, <2>4 DEF StartScript, InPulse
    <3> QED  BY <2>1, <2>2, <3>1, PulseBegins
  <2> QED  BY <2>3, <2>4
<1>21. ASSUME NEW n \in StepSizes, Step(n) PROVE ButtonKept'
  <2>1. ~InPulse /\ ~InPulse' /\ UNCHANGED <<button, wanted, script>> /\ commands' \in {commands, commands + 1}
        /\ (scriptFailed => scriptFailed')
    BY <1>21 DEF Step, AdvanceRefused, AdvanceBegins, InPulse
  <2> QED  BY <1>0, <2>1, ButtonFree
<1> QED
  BY <1>1, <1>2, <1>3, <1>4, <1>5, <1>6, <1>7, <1>8, <1>9, <1>10, <1>11, <1>12, <1>13,
     <1>14, <1>15, <1>16, <1>17, <1>18, <1>19, <1>20, <1>21 DEF Next, Work, Callback, User

-----------------------------------------------------------------------------
(* The script. *)

Entries == [what: {"event", "send"}, index: Nat, at: Nat]
LastApplied == trace[Len(trace)]

\* The excuses for leaving something overdue.
Unstarted == script = <<>> \/ error \/ scriptFailed \/ script[1].frames = 0

\* What was applied last.
LEMMA EntryTyped ==
  ASSUME trace \in Seq(Entries), trace # <<>>
  PROVE  Len(trace) \in 1..Len(trace) /\ trace[Len(trace)] \in Entries
<1>1. Len(trace) \in Nat /\ Len(trace) # 0  OBVIOUS
<1> QED  BY <1>1, ElementOfSeq

\* Neither the board nor the script moves.
LEMMA ScriptStays ==
  ASSUME ScriptKept, UNCHANGED <<now, script, event, send, trace>>,
         pc' # "advance" => Unstarted' \/ CaughtUp
  PROVE  ScriptKept'
<1>1. CaughtUp' <=> CaughtUp  BY DEF CaughtUp, EventDue, SendDue, Stimulus, Sends
<1>2. ScriptExact'
  BY <1>1 DEF ScriptKept, ScriptExact, AppliedOf, Unstarted, Stimulus, Sends
<1> QED  BY <1>2 DEF ScriptKept, EventDue, Stimulus, Sends

\* The board moves, past nothing that is due.
LEMMA ScriptAdvances ==
  ASSUME TypeOK, ScriptKept, UNCHANGED <<script, event, send, trace>>,
         now' \in Nat, now < now',
         event < Len(Stimulus) => now' <= Stimulus[event + 1].cycle,
         send < Len(Sends) => now' <= Sends[send + 1],
         pc' = "advance" \/ error'
  PROVE  ScriptKept'
<1>1. Stimulus' = Stimulus /\ Sends' = Sends  BY DEF Stimulus, Sends
<1>2. ScriptExact'
  BY <1>1 DEF ScriptKept, ScriptExact, AppliedOf
<1>3. trace # <<>> => LastApplied.at <= now' /\ LastApplied.at # now'
  <2> SUFFICES ASSUME trace # <<>> PROVE LastApplied.at <= now' /\ LastApplied.at # now'
    OBVIOUS
  <2>1. LastApplied \in Entries  BY EntryTyped DEF LastApplied, TypeOK, CountTypes, Entries
  <2>2. LastApplied.at \in Nat /\ LastApplied.at <= now /\ now \in Nat
    BY <2>1 DEF Entries, ScriptKept, LastApplied, TypeOK, CountTypes
  <2> QED  BY <2>2
<1> QED  BY <1>1, <1>2, <1>3 DEF ScriptKept, LastApplied

\* One more action is on record.
LEMMA Recorded ==
  ASSUME trace \in Seq(Entries), NEW e \in Entries, trace' = Append(trace, e)
  PROVE  /\ Len(trace) \in Nat /\ Len(trace') = Len(trace) + 1
         /\ DOMAIN trace = 1..Len(trace) /\ DOMAIN trace' = 1..(Len(trace) + 1)
         /\ \A k \in 1..Len(trace) : trace'[k] = trace[k]
         /\ trace'[Len(trace) + 1] = e /\ trace' # <<>>
         /\ \A kind : AppliedOf(kind)' =
              IF e.what = kind THEN AppliedOf(kind) \cup {e.index} ELSE AppliedOf(kind)
<1>1. /\ Len(trace) \in Nat /\ Len(trace') = Len(trace) + 1
      /\ DOMAIN trace = 1..Len(trace) /\ DOMAIN trace' = 1..(Len(trace) + 1)
      /\ \A k \in 1..Len(trace) : trace'[k] = trace[k]
      /\ trace'[Len(trace) + 1] = e
  BY AppendProperties, LenProperties
<1>2. trace' # <<>>
  <2>1. Len(<<>>) = 0  OBVIOUS
  <2> QED  BY <1>1, <2>1
<1>3. ASSUME NEW kind
      PROVE  AppliedOf(kind)' =
               IF e.what = kind THEN AppliedOf(kind) \cup {e.index} ELSE AppliedOf(kind)
  <2>1. DOMAIN trace' = DOMAIN trace \cup {Len(trace) + 1}  BY <1>1
  <2>2. \A k \in DOMAIN trace : trace'[k] = trace[k]  BY <1>1
  <2> QED  BY <1>1, <2>1, <2>2 DEF AppliedOf
<1> QED  BY <1>1, <1>2, <1>3

\* One more action applied, in its order and at its cycle.
LEMMA ExactAppended ==
  ASSUME TypeOK, ScriptExact, script' = script, pc' = "advance",
         NEW e \in Entries, trace' = Append(trace, e),
         e.at = now,
         now = IF e.what = "event" THEN Stimulus[e.index].cycle ELSE Sends[e.index],
         e.index = IF e.what = "event" THEN event + 1 ELSE send + 1,
         event' = IF e.what = "event" THEN event + 1 ELSE event,
         send' = IF e.what = "event" THEN send ELSE send + 1,
         trace # <<>> => /\ LastApplied.at <= now
                         /\ LastApplied.at = now /\ LastApplied.what = "send" => e.what = "send"
  PROVE  ScriptExact'
<1> DEFINE n == Len(trace)
<1>0. now \in Nat /\ event \in Nat /\ send \in Nat /\ trace \in Seq(Entries)
  BY DEF TypeOK, CountTypes, Entries
<1>1. /\ n \in Nat /\ Len(trace') = n + 1 /\ DOMAIN trace = 1..n /\ DOMAIN trace' = 1..(n + 1)
      /\ \A k \in 1..n : trace'[k] = trace[k]
      /\ trace'[n + 1] = e
      /\ \A kind : AppliedOf(kind)' =
           IF e.what = kind THEN AppliedOf(kind) \cup {e.index} ELSE AppliedOf(kind)
  BY <1>0, Recorded
<1>2. trace # <<>> => LastApplied \in Entries  BY <1>0, EntryTyped DEF LastApplied
<1>3. n # 0 => trace # <<>>
  BY <1>0
<1>4. Stimulus' = Stimulus /\ Sends' = Sends  BY DEF Stimulus, Sends
<1>5. e.what \in {"event", "send"} /\ AppliedOf("event") = 1..event /\ AppliedOf("send") = 1..send
  BY DEF Entries, ScriptExact
<1> HIDE DEF n
<1>6. \A k \in DOMAIN trace' :
         trace'[k].at = IF trace'[k].what = "event" THEN Stimulus'[trace'[k].index].cycle
                                                    ELSE Sends'[trace'[k].index]
  <2>1. \A k \in 1..n : trace[k].at = IF trace[k].what = "event" THEN Stimulus[trace[k].index].cycle
                                                                 ELSE Sends[trace[k].index]
    BY <1>1 DEF ScriptExact
  <2>2. \A k \in DOMAIN trace' : k \in 1..n \/ k = n + 1  BY <1>1
  <2> QED  BY <1>1, <1>4, <2>1, <2>2
<1>7. \A k \in 1..(Len(trace') - 1) :
         \/ trace'[k].at < trace'[k + 1].at
         \/ /\ trace'[k].at = trace'[k + 1].at
            /\ trace'[k].what = "send" => trace'[k + 1].what = "send"
  <2> SUFFICES ASSUME NEW k \in 1..n
               PROVE  \/ trace'[k].at < trace'[k + 1].at
                      \/ /\ trace'[k].at = trace'[k + 1].at
                         /\ trace'[k].what = "send" => trace'[k + 1].what = "send"
    BY <1>1
  <2>1. CASE k # n
    <3>1. k \in 1..(n - 1) /\ k + 1 \in 1..n  BY <1>1, <2>1
    <3>2. \/ trace[k].at < trace[k + 1].at
          \/ /\ trace[k].at = trace[k + 1].at
             /\ trace[k].what = "send" => trace[k + 1].what = "send"
      BY <3>1 DEF ScriptExact, n
    <3> QED  BY <1>1, <3>1, <3>2
  <2>2. CASE k = n
    <3>1. trace # <<>> /\ trace'[k] = LastApplied /\ trace'[k + 1] = e
      BY <1>1, <1>3, <2>2 DEF LastApplied, n
    <3>2. LastApplied.at \in Nat  BY <1>2, <3>1 DEF Entries
    <3> QED  BY <1>0, <3>1, <3>2
  <2> QED  BY <2>1, <2>2
<1>8. \A i, j \in DOMAIN trace' :
         i < j /\ trace'[i].what = trace'[j].what => trace'[i].index < trace'[j].index
  <2> SUFFICES ASSUME NEW i \in 1..(n + 1), NEW j \in 1..(n + 1), i < j, trace'[i].what = trace'[j].what
               PROVE  trace'[i].index < trace'[j].index
    BY <1>1
  <2>1. i \in 1..n /\ trace'[i] = trace[i]  BY <1>1
  <2>2. CASE j # n + 1
    <3>1. j \in 1..n /\ trace'[j] = trace[j]  BY <1>1, <2>2
    <3>2. i \in DOMAIN trace /\ j \in DOMAIN trace /\ trace[i].what = trace[j].what  BY <1>1, <2>1, <3>1
    <3>3. trace[i].index < trace[j].index  BY <3>2 DEF ScriptExact
    <3> QED  BY <2>1, <3>1, <3>3
  <2>3. CASE j = n + 1
    <3>1. trace[i].index \in AppliedOf(e.what)
      BY <1>1, <2>1, <2>3 DEF AppliedOf
    <3>2. trace[i].index \in 1..(IF e.what = "event" THEN event ELSE send)  BY <1>5, <3>1
    <3> QED  BY <1>0, <1>1, <2>1, <2>3, <3>2
  <2> QED  BY <2>2, <2>3
<1>9. AppliedOf("event")' = 1..event' /\ AppliedOf("send")' = 1..send'
  <2>1. \A m \in Nat : 1..(m + 1) = (1..m) \cup {m + 1}  OBVIOUS
  <2>2. CASE e.what = "event"  BY <1>0, <1>1, <1>5, <2>1, <2>2
  <2>3. CASE e.what = "send"  BY <1>0, <1>1, <1>5, <2>1, <2>3
  <2> QED  BY <1>5, <2>2, <2>3
<1> QED  BY <1>6, <1>7, <1>8, <1>9 DEF ScriptExact

\* An event is applied at its cycle, before any send of that cycle.
LEMMA EventApplied ==
  ASSUME TypeOK, ScriptKept, ApplyEvent
  PROVE  ScriptKept'
<1> DEFINE e == [what |-> "event", index |-> event + 1, at |-> now]
<1>1. /\ now \in Nat /\ event \in Nat /\ trace \in Seq(Entries) /\ MaybeIn(script, Scripts)
  BY DEF TypeOK, CountTypes, OptionTypes, Entries
<1>2. /\ UNCHANGED <<now, script, send, pc>> /\ pc = "advance" /\ event' = event + 1 /\ EventDue
      /\ trace' = Append(trace, e)
  BY DEF ApplyEvent, call
<1>3. e \in Entries  BY <1>1 DEF Entries
<1>4. Stimulus' = Stimulus /\ Sends' = Sends  BY <1>2 DEF Stimulus, Sends
<1> HIDE DEF e
<1>5. e.what = "event" /\ e.index = event + 1 /\ e.at = now  BY DEF e
<1>6. /\ Len(Stimulus) \in Nat /\ event < Len(Stimulus) /\ Stimulus[event + 1].cycle = now
      /\ event + 1 < Len(Stimulus) => now <= Stimulus[event + 2].cycle
  <2>1. /\ Len(Stimulus) \in Nat /\ event < Len(Stimulus) /\ Stimulus[event + 1].cycle <= now
        /\ now <= Stimulus[event + 1].cycle
    BY <1>1, <1>2, ScriptFacts DEF EventDue, ScriptKept
  <2>2. event + 1 \in 1..Len(Stimulus)  BY <1>1, <2>1
  <2>3. Stimulus[event + 1].cycle \in Nat  BY <1>1, <2>2, ScriptFacts DEF Inputs
  <2>4. Stimulus[event + 1].cycle = now  BY <1>1, <2>1, <2>3
  <2>5. event + 1 < Len(Stimulus) => Stimulus[event + 1].cycle <= Stimulus[event + 2].cycle
    <3> SUFFICES ASSUME event + 1 < Len(Stimulus)
                 PROVE  Stimulus[event + 1].cycle <= Stimulus[event + 2].cycle
      OBVIOUS
    <3>1. event + 2 \in 1..Len(Stimulus) /\ event + 1 < event + 2  BY <1>1, <2>1
    <3> QED  BY <1>1, <2>2, <3>1, ScriptFacts
  <2> QED  BY <2>1, <2>4, <2>5
<1>7. ScriptExact'
  <2>1. trace # <<>> => LastApplied.at <= now /\ ~(LastApplied.at = now /\ LastApplied.what = "send")
    BY <1>2 DEF ScriptKept, LastApplied
  <2>2. ScriptExact  BY DEF ScriptKept
  <2> QED  BY <1>2, <1>3, <1>5, <1>6, <2>1, <2>2, ExactAppended
<1>8. /\ event' <= Len(Stimulus') /\ (event' < Len(Stimulus') => now' <= Stimulus'[event' + 1].cycle)
      /\ send' <= Len(Sends') /\ (send' < Len(Sends') => now' <= Sends'[send' + 1])
  <2>1. event' + 1 = event + 2  BY <1>1, <1>2
  <2> QED  BY <1>1, <1>2, <1>4, <1>6, <2>1 DEF ScriptKept
<1>9. trace'[Len(trace')].at <= now' /\ trace'[Len(trace')].what = "event"
  <2>1. trace'[Len(trace')] = e  BY <1>1, <1>2, <1>3, Recorded
  <2> QED  BY <1>1, <1>2, <1>5, <2>1
<1>10. script' # <<>>
  <2>1. Len(<<>>) = 0  OBVIOUS
  <2> QED  BY <1>1, <1>2, <2>1 DEF EventDue, Stimulus
<1> QED  BY <1>7, <1>8, <1>9, <1>10 DEF ScriptKept

\* A send is applied at its cycle, after the events of that cycle.
LEMMA SendApplied ==
  ASSUME TypeOK, ScriptKept, ApplySend
  PROVE  ScriptKept'
<1> DEFINE e == [what |-> "send", index |-> send + 1, at |-> now]
<1>1. /\ now \in Nat /\ send \in Nat /\ trace \in Seq(Entries) /\ MaybeIn(script, Scripts)
  BY DEF TypeOK, CountTypes, OptionTypes, Entries
<1>2. /\ UNCHANGED <<now, script, event, pc>> /\ pc = "advance" /\ send' = send + 1
      /\ SendDue /\ ~EventDue /\ trace' = Append(trace, e)
  BY DEF ApplySend, call, board
<1>3. e \in Entries  BY <1>1 DEF Entries
<1>4. Stimulus' = Stimulus /\ Sends' = Sends  BY <1>2 DEF Stimulus, Sends
<1> HIDE DEF e
<1>5. e.what = "send" /\ e.index = send + 1 /\ e.at = now  BY DEF e
<1>6. /\ Len(Sends) \in Nat /\ send < Len(Sends) /\ Sends[send + 1] = now
      /\ send + 1 < Len(Sends) => now <= Sends[send + 2]
  <2>1. Len(Sends) \in Nat /\ send < Len(Sends) /\ Sends[send + 1] <= now /\ now <= Sends[send + 1]
    BY <1>1, <1>2, ScriptFacts DEF SendDue, ScriptKept
  <2>2. send + 1 \in 1..Len(Sends)  BY <1>1, <2>1
  <2>3. Sends[send + 1] \in Nat  BY <1>1, <2>2, ScriptFacts
  <2>4. Sends[send + 1] = now  BY <1>1, <2>1, <2>3
  <2>5. send + 1 < Len(Sends) => Sends[send + 1] <= Sends[send + 2]
    <3> SUFFICES ASSUME send + 1 < Len(Sends) PROVE Sends[send + 1] <= Sends[send + 2]
      OBVIOUS
    <3>1. send + 2 \in 1..Len(Sends) /\ send + 1 < send + 2  BY <1>1, <2>1
    <3> QED  BY <1>1, <2>2, <3>1, ScriptFacts
  <2> QED  BY <2>1, <2>4, <2>5
<1>7. ScriptExact'
  <2>1. trace # <<>> => LastApplied.at <= now  BY DEF ScriptKept, LastApplied
  <2>2. ScriptExact  BY DEF ScriptKept
  <2> QED  BY <1>2, <1>3, <1>5, <1>6, <2>1, <2>2, ExactAppended
<1>8. /\ event' <= Len(Stimulus') /\ (event' < Len(Stimulus') => now' <= Stimulus'[event' + 1].cycle)
      /\ send' <= Len(Sends') /\ (send' < Len(Sends') => now' <= Sends'[send' + 1])
  <2>1. send' + 1 = send + 2  BY <1>1, <1>2
  <2> QED  BY <1>1, <1>2, <1>4, <1>6, <2>1 DEF ScriptKept
<1>9. trace'[Len(trace')].at <= now' /\ ~EventDue'
  <2>1. trace'[Len(trace')] = e  BY <1>1, <1>2, <1>3, Recorded
  <2> QED  BY <1>1, <1>2, <1>4, <1>5, <2>1 DEF EventDue
<1>10. script' # <<>>
  <2>1. Len(<<>>) = 0  OBVIOUS
  <2> QED  BY <1>1, <1>2, <2>1 DEF SendDue, Sends
<1> QED  BY <1>7, <1>8, <1>9, <1>10 DEF ScriptKept

\* A script's next cycles.
LEMMA NextIsNat ==
  ASSUME TypeOK
  PROVE  /\ event < Len(Stimulus) => Stimulus[event + 1].cycle \in Nat
         /\ send < Len(Sends) => Sends[send + 1] \in Nat
<1>1. event \in Nat /\ send \in Nat /\ MaybeIn(script, Scripts)
  BY DEF TypeOK, CountTypes, OptionTypes
<1>2. Len(Stimulus) \in Nat /\ Len(Sends) \in Nat  BY <1>1, ScriptFacts
<1>3. /\ event < Len(Stimulus) => event + 1 \in 1..Len(Stimulus)
      /\ send < Len(Sends) => send + 1 \in 1..Len(Sends)
  BY <1>1, <1>2
<1> QED  BY <1>1, <1>3, ScriptFacts DEF Inputs

\* What any script consists of.
LEMMA ScriptsTyped ==
  ASSUME NEW o \in Scripts
  PROVE  /\ Len(o.stimulus) \in Nat /\ \A i \in 1..Len(o.stimulus) : o.stimulus[i] \in Inputs
         /\ Len(o.sends) \in Nat /\ \A i \in 1..Len(o.sends) : o.sends[i] \in Nat
<1>1. o.stimulus \in Seq(Inputs) /\ o.sends \in Seq(Nat)
  BY ScriptsAreSorted DEF ScriptsAssumption, Inputs
<1> QED  BY <1>1, ElementOfSeq, LenProperties

\* At rest before, at rest after.
LEMMA RestStays ==
  ASSUME ScriptKept, UNCHANGED <<now, script, event, send, trace, scriptFailed>>,
         pc' # "advance" => pc # "advance" /\ (error => error')
  PROVE  ScriptKept'
<1>1. pc' # "advance" => Unstarted' \/ CaughtUp  BY DEF ScriptKept, ScriptExact, Unstarted
<1> QED  BY <1>1, ScriptStays

\* Every way to move the board stops at what is due, and applies it first.
LEMMA ScriptIsKept == ControllerInv /\ Next => ScriptKept'
<1> SUFFICES ASSUME ControllerInv, Next PROVE ScriptKept'  OBVIOUS
<1> USE DEF board, cursor, clocks, call, state, told, Publishing, PublishingAt, Fail, ClearMeasurement,
            ClearMeasurementAt, Command, CanMutate, AdvanceOver, FinishFlags, FinishIfAtEnd
<1>0. ControllerInv /\ TypeOK /\ ScriptKept  BY DEF ControllerInv
<1>1. CASE ApplyEvent
  BY <1>0, <1>1, EventApplied
<1>2. CASE ApplySend
  BY <1>0, <1>2, SendApplied
<1>3. CASE Tick
  <2>1. UNCHANGED <<script, event, send, trace, pc>> /\ pc = "advance" /\ now' = TickTarget
    BY <1>3 DEF Tick
  <2> QED  BY <1>0, <1>3, <2>1, TargetFacts, ScriptAdvances DEF Tick
<1>4. CASE BoardThrows
  <2>1. UNCHANGED <<script, event, send, trace>> /\ error' /\ now' \in now..TickTarget
    BY <1>4 DEF BoardThrows
  <2>2. /\ now \in Nat /\ TickTarget \in Nat
        /\ event < Len(Stimulus) => TickTarget <= Stimulus[event + 1].cycle /\ Stimulus[event + 1].cycle \in Nat
        /\ send < Len(Sends) => TickTarget <= Sends[send + 1] /\ Sends[send + 1] \in Nat
    BY <1>0, <1>4, TargetFacts, NextIsNat DEF BoardThrows, TypeOK, CountTypes
  <2>3. CASE now' = now  BY <1>0, <2>1, <2>3, ScriptStays DEF Unstarted
  <2>4. CASE now' # now
    <3>1. now' \in Nat /\ now < now' /\ now' <= TickTarget  BY <2>1, <2>2, <2>4
    <3> QED  BY <1>0, <2>1, <2>2, <3>1, ScriptAdvances
  <2> QED  BY <2>3, <2>4
<1>5. CASE StepOver
  <2>1. /\ UNCHANGED <<now, script, event, send, trace>>
        /\ CaughtUp
    BY <1>5 DEF StepOver
  <2> QED  BY <1>0, <2>1, ScriptStays
<1>6. CASE BatchOver
  <2>1. /\ UNCHANGED <<now, script, event, send, trace>>
        /\ CaughtUp
    BY <1>6 DEF BatchOver
  <2> QED  BY <1>0, <2>1, ScriptStays
<1>7. CASE ResetOver
  <2>1. /\ UNCHANGED <<now, script, event, send, trace>>
        /\ CaughtUp
    BY <1>7 DEF ResetOver
  <2> QED  BY <1>0, <2>1, ScriptStays
<1>8. CASE StartupOver
  <2>1. /\ UNCHANGED <<now, script, event, send, trace>>
        /\ CaughtUp
    BY <1>8 DEF StartupOver
  <2> QED  BY <1>0, <2>1, ScriptStays
<1>9. CASE EndPublish
  <2>1. /\ UNCHANGED <<now, script, event, send, trace, scriptFailed>>
        /\ pc' # "advance" => pc # "advance" /\ (error => error')
    BY <1>9 DEF EndPublish
  <2> QED  BY <1>0, <2>1, RestStays
<1>10. CASE EndAdapterPublish
  <2>1. /\ UNCHANGED <<now, script, event, send, trace, scriptFailed>>
        /\ pc' # "advance" => pc # "advance" /\ (error => error')
    BY <1>10 DEF EndAdapterPublish
  <2> QED  BY <1>0, <2>1, RestStays
<1>11. CASE BatchDeferred
  <2>1. /\ UNCHANGED <<now, script, event, send, trace, scriptFailed>>
        /\ pc' # "advance" => pc # "advance" /\ (error => error')
    BY <1>11 DEF BatchDeferred
  <2> QED  BY <1>0, <2>1, RestStays
<1>12. CASE BatchPaced
  <2>1. /\ UNCHANGED <<now, script, event, send, trace, scriptFailed>>
        /\ pc' # "advance" => pc # "advance" /\ (error => error')
    BY <1>12 DEF BatchPaced
  <2> QED  BY <1>0, <2>1, RestStays
<1>13. CASE BatchBegins
  <2>1. /\ UNCHANGED <<now, script, event, send, trace, scriptFailed>>
        /\ pc' # "advance" => pc # "advance" /\ (error => error')
    BY <1>13 DEF BatchBegins, AdvanceRefused, AdvanceBegins
  <2> QED  BY <1>0, <2>1, RestStays
<1>14. CASE WallMs
  <2>1. /\ UNCHANGED <<now, script, event, send, trace, scriptFailed>>
        /\ pc' # "advance" => pc # "advance" /\ (error => error')
    BY <1>14 DEF WallMs
  <2> QED  BY <1>0, <2>1, RestStays
<1>15. CASE Run
  <2>1. /\ UNCHANGED <<now, script, event, send, trace, scriptFailed>>
        /\ pc' # "advance" => pc # "advance" /\ (error => error')
    BY <1>15 DEF Run
  <2> QED  BY <1>0, <2>1, RestStays
<1>16. CASE Pause
  <2>1. /\ UNCHANGED <<now, script, event, send, trace, scriptFailed>>
        /\ pc' # "advance" => pc # "advance" /\ (error => error')
    BY <1>16 DEF Pause
  <2> QED  BY <1>0, <2>1, RestStays
<1>17. CASE Reset
  <2>1. /\ UNCHANGED <<now, script, event, send, trace, scriptFailed>>
        /\ pc' # "advance" => pc # "advance" /\ (error => error')
    BY <1>17 DEF Reset, AdvanceRefused
  <2> QED  BY <1>0, <2>1, RestStays
<1>18. CASE SetRealtime
  <2>1. /\ UNCHANGED <<now, script, event, send, trace, scriptFailed>>
        /\ pc' # "advance" => pc # "advance" /\ (error => error')
    BY <1>18 DEF SetRealtime
  <2> QED  BY <1>0, <2>1, RestStays
<1>19. CASE PressButton
  <2>1. /\ UNCHANGED <<now, script, event, send, trace, scriptFailed>>
        /\ pc' # "advance" => pc # "advance" /\ (error => error')
    BY <1>19 DEF PressButton
  <2> QED  BY <1>0, <2>1, RestStays
<1>20. ASSUME NEW o \in Scripts, StartScript(o) PROVE ScriptKept'
  <2>1. /\ script = <<>> /\ script' = <<o>> /\ now = 0 /\ now' = 0 /\ UNCHANGED <<event, send, trace, error>>
        /\ pc' = "advance" \/ o.frames = 0
    BY <1>20 DEF StartScript
  <2>2. trace = <<>> /\ event = 0 /\ send = 0  BY <1>0, <2>1 DEF ScriptKept
  <2>3. /\ 0 <= Len(Stimulus') /\ (0 < Len(Stimulus') => 0 <= Stimulus'[1].cycle)
        /\ 0 <= Len(Sends') /\ (0 < Len(Sends') => 0 <= Sends'[1])
    <3>1. MaybeIn(script', Scripts)  BY <2>1 DEF MaybeIn
    <3>2. /\ Len(Stimulus') \in Nat /\ \A i \in 1..Len(Stimulus') : Stimulus'[i] \in Inputs
          /\ Len(Sends') \in Nat /\ \A i \in 1..Len(Sends') : Sends'[i] \in Nat
      BY <3>1, ScriptsTyped DEF Stimulus, Sends, MaybeIn
    <3> QED  BY <3>2 DEF Inputs
  <2>4. ScriptExact'
    BY <2>1, <2>2 DEF ScriptExact, AppliedOf
  <2> QED  BY <2>1, <2>2, <2>3, <2>4 DEF ScriptKept
<1>21. ASSUME NEW n \in StepSizes, Step(n) PROVE ScriptKept'
  <2>1. /\ UNCHANGED <<now, script, event, send, trace, scriptFailed>>
        /\ pc' # "advance" => pc # "advance" /\ (error => error')
    BY <1>21 DEF Step, AdvanceRefused, AdvanceBegins
  <2> QED  BY <1>0, <2>1, RestStays
<1> QED
  BY <1>1, <1>2, <1>3, <1>4, <1>5, <1>6, <1>7, <1>8, <1>9, <1>10, <1>11, <1>12, <1>13,
     <1>14, <1>15, <1>16, <1>17, <1>18, <1>19, <1>20, <1>21 DEF Next, Work, Callback, User

-----------------------------------------------------------------------------
(* The theorems. *)

LEMMA InitInv == Init => ControllerInv
<1> SUFFICES ASSUME Init PROVE ControllerInv  OBVIOUS
<1> USE DEF Init
<1>1. Stimulus = <<>> /\ Sends = <<>> /\ Len(<<>>) = 0  BY DEF Stimulus, Sends
<1>2. TypeOK
  <2>1. OptionTypes  BY DEF OptionTypes, MaybeIn
  <2>2. FlagTypes  BY DEF FlagTypes
  <2>3. CountTypes  BY DEF CountTypes
  <2> QED  BY <2>1, <2>2, <2>3 DEF TypeOK
<1>3. TimerKept /\ ShownKept  BY DEF TimerKept, NeverStranded, ShownKept, RestingShowsNow
<1>4. HorizonKept  BY DEF HorizonKept, EndsOnTime
<1>5. PacingKept
  <2>1. ElapsedCap \in Nat  BY <1>2, NumberFacts
  <2> HIDE DEF ElapsedCap
  <2> QED  BY <2>1 DEF PacingKept, RealtimePaced
<1>6. ButtonKept  BY DEF ButtonKept, ButtonIsOwners
<1>7. ScriptKept
  <2>1. ScriptExact  BY <1>1 DEF ScriptExact, AppliedOf, CaughtUp, EventDue, SendDue
  <2> QED  BY <1>1, <2>1 DEF ScriptKept
<1> QED  BY <1>2, <1>3, <1>4, <1>5, <1>6, <1>7 DEF ControllerInv

LEMMA Stuttering == ControllerInv /\ UNCHANGED vars => ControllerInv'
<1> SUFFICES ASSUME ControllerInv, UNCHANGED vars PROVE ControllerInv'  OBVIOUS
<1> USE DEF vars, board, cursor, clocks, call, state, told
<1>1. TypeOK'  BY DEF ControllerInv, TypeOK, OptionTypes, FlagTypes, CountTypes
<1>2. TimerKept' /\ ShownKept'
  BY DEF ControllerInv, TimerKept, NeverStranded, ShownKept, RestingShowsNow
<1>3. HorizonKept'  BY DEF ControllerInv, HorizonKept, EndsOnTime
<1>4. PacingKept'
  <2>1. PacingKept  BY DEF ControllerInv
  <2> QED  BY <2>1, PacingStays
<1>5. ButtonKept'
  <2>1. ButtonKept  BY DEF ControllerInv
  <2> QED  BY <2>1, ButtonSame
<1>6. ScriptKept'
  <2>1. ScriptKept  BY DEF ControllerInv
  <2> QED  BY <2>1, RestStays
<1> QED  BY <1>1, <1>2, <1>3, <1>4, <1>5, <1>6 DEF ControllerInv

\* The inductive invariant.
THEOREM ControllerIsSound == Spec => []ControllerInv
<1>1. ControllerInv /\ Next => ControllerInv'
  BY OptionsKept, FlagsKept, CountsKept, TimerIsKept, HorizonIsKept, ShownIsKept, PacingIsKept,
     ButtonIsKept, ScriptIsKept DEF ControllerInv, TypeOK
<1> QED  BY InitInv, Stuttering, <1>1, PTL DEF Spec

\* Run is never stranded, whichever way a callback, a command or a listener's
\* nested event loop returns to the event loop; and nothing stays armed otherwise.
THEOREM RunIsNeverStranded == Spec => []NeverStranded
<1>1. ControllerInv => NeverStranded  BY DEF ControllerInv, TimerKept
<1> QED  BY ControllerIsSound, <1>1, PTL

\* Time never passes the counter's limit nor the last cycle of a finite run, and
\* the run is finished exactly there, announced once.
THEOREM RunEndsOnTime == Spec => []EndsOnTime
<1>1. ControllerInv => EndsOnTime  BY DEF ControllerInv, HorizonKept
<1> QED  BY ControllerIsSound, <1>1, PTL

\* Whenever the simulation rests, its cycle is on the screen.
THEOREM RestShowsNow == Spec => []RestingShowsNow
<1>1. ControllerInv => RestingShowsNow  BY DEF ControllerInv, ShownKept
<1> QED  BY ControllerIsSound, <1>1, PTL

\* At 1x the board is never more than a batch ahead of the wall clock.
THEOREM NeverABatchAhead == Spec => []RealtimePaced
<1>1. ControllerInv => RealtimePaced  BY DEF ControllerInv, PacingKept
<1> QED  BY ControllerIsSound, <1>1, PTL

\* Outside a reset pulse BTNC is as its owner, the user or the script, set it.
THEOREM PulseGivesBack == Spec => []ButtonIsOwners
<1>1. ControllerInv => ButtonIsOwners  BY DEF ControllerInv, ButtonKept
<1> QED  BY ControllerIsSound, <1>1, PTL

\* Whatever advances the board, each scripted action is applied at its own cycle,
\* in order, once, and none is left behind.
THEOREM ScriptIsExact == Spec => []ScriptExact
<1>1. ControllerInv => ScriptExact  BY DEF ControllerInv, ScriptKept
<1> QED  BY ControllerIsSound, <1>1, PTL

=============================================================================
