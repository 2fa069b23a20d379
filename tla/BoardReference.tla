--------------------------- MODULE BoardReference ---------------------------
(***************************************************************************)
(* What the board's frozen contract promises about observation, written    *)
(* without ticks: docs/simulator_invariants.md says the log and the state  *)
(* are a function of the input schedule and the cycle count alone. The     *)
(* definitions below compute them cycle by cycle from the recorded calls.  *)
(***************************************************************************)
EXTENDS BoardModel

\* The switches and buttons as cycle c's rising edge samples them.
HeldIn(c) ==
  [i \in Inputs |->
     LET before == {k \in DOMAIN pokes : pokes[k].input = i /\ pokes[k].at <= c}
     IN  before # {} /\ pokes[Max(before)].on]

\* Every design input in cycle c, the RX pin from the promised slots.
InputsIn(c) == [rx |-> Rx!Line!Level(c), held |-> HeldIn(c)]

\* The design's registers after c cycles.
DesignAt(c) ==
  LET state[k \in 0..c] ==
        IF k = 0 THEN DesignInit ELSE DesignCycle(state[k - 1], InputsIn(k - 1))
  IN  state[c]

\* The pins a crossing observes: the state just reached, inputs not yet changed.
PinsAt(c) == DesignPins(DesignAt(c), InputsIn(c - 1))

Crossings(c) == {g \in 1..c : g % Chunk = 0}

\* What an eye that saw every crossing up to c reports for digit i.
Strobes(i, c) == {g \in Crossings(c) : i \in PinsAt(g).an /\ c - g <= Persist}
CharAt(i, c) ==
  Decode(IF Strobes(i, c) = {} THEN Dark ELSE PinsAt(Max(Strobes(i, c))).seg)
PointAt(i, c) == Strobes(i, c) # {} /\ PinsAt(Max(Strobes(i, c))).dp

LedAt(i, c) == IF c = 0 THEN FALSE ELSE PinsAt(c).led[i]

\* The UART decoder fed the first n crossings.
TxAt(n) ==
  LET result[k \in 0..n] ==
        IF k = 0 THEN Tx!TxResult(Tx!TxIdle, "none")
        ELSE Tx!TxSample(result[k - 1].state, k * Chunk, PinsAt(k * Chunk).tx)
  IN  result[n]

\* The lines of the crossing at c, each relative to the crossing before it.
CrossingLines(c) ==
  LET before == c - Chunk
      tx == TxAt(c \div Chunk)
  IN  FlattenSeq([i \in Digits |->
        Change(CharAt(i, c) # CharAt(i, before), c, <<"SSEG", i, CharAt(i, c)>>)
        \o Change(PointAt(i, c) # PointAt(i, before), c, <<"DP", i, PointAt(i, c)>>)])
      \o FlattenSeq([i \in Leds |->
        Change(LedAt(i, c) # LedAt(i, before), c, <<"LED", i, LedAt(i, c)>>)])
      \o Change(HasUartTx /\ tx.what # "none", c,
                IF tx.what = "byte" THEN <<"TX", tx.state.shift>>
                                    ELSE <<"TX framing error">>)

\* The start bits of cycle c, of bytes handed over in it or before it.
StartLines(c, fresh) ==
  FlattenSeq([k \in DOMAIN slots |->
    Change(slots[k].start = c /\ ((handed[k] = c) <=> fresh), c,
           <<"RX", slots[k].byte>>)])

PokeLines(c) ==
  FlattenSeq([k \in DOMAIN pokes |->
    Change(pokes[k].at = c, c, <<"IN", pokes[k].input, pokes[k].on>>)])

\* Outputs, then edges already scheduled, then the callers' pokes, then the
\* start bits of bytes handed over in this very cycle.
LinesOf(c) ==
  (IF c > 0 /\ c % Chunk = 0 THEN CrossingLines(c) ELSE <<>>)
    \o StartLines(c, FALSE) \o PokeLines(c)
    \o (IF Rx!EdgeDueBy(c) THEN <<>> ELSE StartLines(c, TRUE))

ExpectedLog == FlattenSeq([k \in 1..(now + 1) |-> LinesOf(k - 1)])

-----------------------------------------------------------------------------
(***************************************************************************)
(* Why it does.  At every step of tick() the board's state is that of the  *)
(* schedule up to here: the inputs and the design at this cycle, the       *)
(* display, the LEDs and the decoder at the last crossing, and the log     *)
(* short of the start bit that is due and not yet applied.                 *)
(***************************************************************************)

\* Where tick() is.  What it was called with is ahead of it, and it steps only
\* when no edge is due.
TickInv ==
  /\ pc \in {"idle", "edges", "step"} /\ direct \in Nat
  /\ now \in 0..MaxCycle /\ end \in 0..MaxCycle
  /\ pc # "idle" => now <= end
  /\ pc = "step" => now < end /\ ~Rx!EdgeDueBy(now)

\* All calls were made before cycle c.
CallsBefore(c) ==
  /\ \A k \in DOMAIN handed : handed[k] < c
  /\ \A k \in DOMAIN pokes : pokes[k].at < c

\* In cycle c: calls are recorded at the board's clock, and the inputs are those
\* of the last transitions.
CallsInv(c) ==
  /\ Len(handed) = Len(slots)
  /\ CallsBefore(c + 1)
  /\ held = HeldIn(c)

\* An edge that is due is either met by the tick that has just arrived at it, or
\* it is the start of a byte handed over in this cycle; and a start handed over
\* in this cycle stays due until a tick is called.
DueInv(c) ==
  /\ Rx!EdgeDueBy(c) => \/ pc = "edges" /\ CallsBefore(c)
                        \/ edgeIndex = 0 /\ handed[Rx!Sent + 1] = c
  /\ pc = "idle" => \A k \in DOMAIN slots :
       slots[k].start = c /\ handed[k] = c => Rx!EdgeDueBy(c)
  /\ pc # "idle" /\ end = c => CallsBefore(c)

\* The last crossing.
LastGrid(c) == (c \div Chunk) * Chunk

\* The crossings up to c that strobe digit i, and what the last one left there.
Lit(i, c) == {g \in Crossings(c) : i \in PinsAt(g).an}
DigitAt(i, c) ==
  IF Lit(i, c) = {} THEN Seg!NeverLit
  ELSE LET last == Max(Lit(i, c))
       IN  [lit |-> TRUE, lastLit |-> last, seg |-> PinsAt(last).seg, dp |-> PinsAt(last).dp]

\* The design is at this cycle, what was sampled is at the last crossing.
SampledInv(c) ==
  /\ design = DesignAt(c)
  /\ display = [i \in Digits |-> DigitAt(i, LastGrid(c))]
  /\ prevChar = [i \in Digits |-> CharAt(i, LastGrid(c))]
  /\ prevDp = [i \in Digits |-> PointAt(i, LastGrid(c))]
  /\ prevLed = [i \in Leds |-> LedAt(i, LastGrid(c))]
  /\ HasUartTx => uartTx = TxAt(c \div Chunk).state

\* The lines of cycle c that are out: short of a start bit that is due.
LinesOut(c) ==
  (IF c > 0 /\ c % Chunk = 0 THEN CrossingLines(c) ELSE <<>>)
    \o (IF Rx!EdgeDueBy(c) THEN <<>> ELSE StartLines(c, FALSE))
    \o PokeLines(c)
    \o (IF Rx!EdgeDueBy(c) THEN <<>> ELSE StartLines(c, TRUE))

LogInv(c) == log = FlattenSeq([k \in 1..c |-> LinesOf(k - 1)]) \o LinesOut(c)

\* In every state of tick(), not only between ticks, all that the board keeps
\* is a function of the calls recorded so far, unless the engine was stepped
\* behind its back; PartitionIndependent follows from it.
ScheduleInv ==
  direct = 0 => CallsInv(now) /\ DueInv(now) /\ SampledInv(now) /\ LogInv(now)

-----------------------------------------------------------------------------
\* However the callers slice time into ticks, the log and the design's state
\* are the ones computed from the schedule alone (the board's frozen contract;
\* BoardModel.h: "a pure function of (stimulus schedule, total cycles)").
PartitionIndependent ==
  (pc = "idle" /\ direct = 0) => /\ log = ExpectedLog
                                 /\ design = DesignAt(now)

\* Lines never go back in time, and at one stamp outputs precede inputs: the
\* tiebreak the log's header line states for every reader of the file.
LogOrdered ==
  \A i \in 1..(Len(log) - 1) :
    \/ log[i].at < log[i + 1].at
    \/ /\ log[i].at = log[i + 1].at
       /\ log[i].what[1] \in {"RX", "IN"} => log[i + 1].what[1] \in {"RX", "IN"}

\* tick()'s unsigned target - now() never wraps: the segment is never empty
\* or negative, whatever edges became overdue behind tick()'s back.
SegmentAdvances == pc = "step" => Target > now

\* tick() is a caller that keeps the RX driver's contract, as long as nobody
\* steps the engine past it: the driver's proved stamps and waveform therefore
\* hold of the board.
ImplementsDriver == Rx!Init /\ [][direct' = 0 => [Rx!Next]_(Rx!vars)]_vars
=============================================================================
