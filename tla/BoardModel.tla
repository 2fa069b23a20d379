----------------------------- MODULE BoardModel -----------------------------
(***************************************************************************)
(* board/BoardModel.{h,cpp}: the loop that advances virtual time. tick()   *)
(* splits stepping at the absolute observation grid and at every UART_RX   *)
(* bit edge, samples the design's outputs at crossings and logs what       *)
(* changed. Callers poke switches and buttons and queue UART bytes between *)
(* ticks.                                                                  *)
(*                                                                         *)
(* The Verilated design is outside the repository's sources and enters as  *)
(* three operators: its state after one clock cycle and the pins it drives.*)
(***************************************************************************)
EXTENDS Integers, SequencesExt

CONSTANTS
  Bit, DataBits, Bytes,   \* the serial line, as in SerialLine
  Chunk,                  \* kSampleChunkCycles
  Persist, Dark, Decode(_),  \* the display, as in SevenSeg
  Inputs,                 \* bound switches and buttons
  Leds,                   \* 1..n: bound LEDs
  Digits,                 \* 1..n: digits of the display; {} when no anode is bound
  HasUartTx,              \* UART_TX is bound
  DesignInit,             \* external: the design's state after construction
  DesignCycle(_, _),      \* external: its state after a cycle with these inputs
  DesignPins(_, _),       \* external: settled output pins for these inputs
  TickSizes,              \* bound: arguments tick() is called with
  MaxCycle, MaxSends,     \* bounds: last cycle, bytes queued
  MaxPokes,               \* bound: switch and button transitions
  MaxDirect               \* bound: engine steps that bypass tick()

VARIABLES
  queue, shifting, frameStart, lineFree, edgeIndex,  \* uartRx_
  now, line, slots, driven, wave,                    \* clock, RX pin, histories
  pc,        \* where tick() is: "idle" (not running), "edges", "step"
  end,       \* tick()'s local: the cycle it runs to
  held,      \* switchState_, buttonState_ and the pins they drive
  design,    \* external: registers of the design
  prevLed,   \* prevLed_
  prevChar,  \* prevDigitChar_
  prevDp,    \* prevDigitDp_
  display,   \* sevenSeg_
  uartTx,    \* uartTx_
  txBytes,   \* uartTxBytes_ with uartTxByteCycles_
  txErrors,  \* uartTxFramingErrorCycles_
  log,       \* log_, with collection enabled
  handed,    \* history: the cycle each byte of slots was handed over at
  pokes,     \* history: the transitions of inputs, each at its cycle
  direct     \* history: engine steps that bypassed tick()

rxVars == <<queue, shifting, frameStart, lineFree, edgeIndex, line, slots, driven>>
seen == <<prevLed, prevChar, prevDp, display, uartTx, txBytes, txErrors>>
calls == <<handed, pokes>>
vars == <<rxVars, now, wave, pc, end, held, design, seen, log, calls, direct>>

\* The driver's caller is tick(): the board's clock and the engine's waveform.
Rx == INSTANCE UartRxDriver WITH now <- now, wave <- wave, line <- line
Seg == INSTANCE SevenSeg
Tx == INSTANCE UartTx

ASSUME BoardAssumption ==
  /\ Bit \in Nat \ {0} /\ DataBits \in Nat \ {0}
  /\ Bytes \subseteq [1..DataBits -> BOOLEAN]
  /\ MaxCycle \in Nat /\ MaxSends \in Nat
  /\ IsFiniteSet(Leds) /\ Leds = 1..Cardinality(Leds)
  /\ IsFiniteSet(Digits) /\ Digits = 1..Cardinality(Digits)
  /\ Chunk \in Nat \ {0} /\ Persist \in Nat
  /\ TickSizes \subseteq Nat
  /\ MaxPokes \in Nat
  /\ MaxDirect \in Nat

-----------------------------------------------------------------------------
(* The design, as the engine shows it. *)

DesignInputs == [rx |-> line, held |-> held]

\* step(n): n cycles with constant inputs.
DesignAfter(n) ==
  LET state[k \in 0..n] ==
        IF k = 0 THEN design ELSE DesignCycle(state[k - 1], DesignInputs)
  IN  state[n]

\* Cycles advance; the engine's clock is the only one there is.
EngineStep(n) == Rx!Hold(n) /\ design' = DesignAfter(n)

-----------------------------------------------------------------------------
(* sampleAtGridCrossing(), on the pins the design drives at the crossing. *)

Event(c, what) == [at |-> c, what |-> what]

\* An event line, or none when nothing changed.
Change(changed, c, what) == IF changed THEN <<Event(c, what)>> ELSE <<>>

Pins == DesignPins(design', DesignInputs)

Shown == Seg!SegSample(display, now', Pins)

\* Per digit the content line, then the .dp line.
DigitEvents(i) ==
  LET char == Seg!Char(Shown[i], now')
      dp == Seg!Point(Shown[i], now')
  IN  Change(char # prevChar[i], now', <<"SSEG", i, char>>)
        \o Change(dp # prevDp[i], now', <<"DP", i, dp>>)

LedEvents(i) ==
  Change(Pins.led[i] # prevLed[i], now', <<"LED", i, Pins.led[i]>>)

Decoded == Tx!TxSample(uartTx, now', Pins.tx)

TxEvents ==
  Change(HasUartTx /\ Decoded.what # "none", now',
         IF Decoded.what = "byte" THEN <<"TX", Decoded.state.shift>>
                                  ELSE <<"TX framing error">>)

\* Lines come out display first, then LEDs ascending, then the UART.
Sample ==
  /\ display' = Shown
  /\ prevChar' = [i \in DOMAIN prevChar |-> Seg!Char(Shown[i], now')]
  /\ prevDp' = [i \in DOMAIN prevDp |-> Seg!Point(Shown[i], now')]
  /\ prevLed' = [i \in DOMAIN prevLed |-> Pins.led[i]]
  /\ IF HasUartTx
     THEN /\ uartTx' = Decoded.state
          /\ txBytes' = IF Decoded.what = "byte"
                        THEN Append(txBytes, [byte |-> Decoded.state.shift, at |-> now'])
                        ELSE txBytes
          /\ txErrors' = IF Decoded.what = "framing"
                         THEN Append(txErrors, now') ELSE txErrors
     ELSE UNCHANGED <<uartTx, txBytes, txErrors>>
  /\ log' = log \o FlattenSeq([i \in Digits |-> DigitEvents(i)])
                \o FlattenSeq([i \in Leds |-> LedEvents(i)])
                \o TxEvents

-----------------------------------------------------------------------------
(* tick(). *)

\* Mutants: the grid counted from the call; rounded up, so that a crossing just
\* reached is the next one too.
NextGridFromHere == now + Chunk

\* The next absolute grid crossing.
NextGrid == (now \div Chunk + 1) * Chunk

\* Mutant: segments are not split at bit edges.
TargetIgnoresEdges == Min({NextGrid, end})

\* min({nextGrid, end, nextEdgeCycle()})
Target == Min({NextGrid, end} \cup (IF shifting THEN {Rx!EdgeCycle} ELSE {}))

Tick(n) ==
  /\ pc = "idle"
  /\ now + n <= MaxCycle
  /\ end' = now + n
  /\ pc' = "edges"
  /\ UNCHANGED <<rxVars, now, wave, held, design, seen, log, calls, direct>>

\* Mutant: == for <=.
EdgeDueExactly == shifting /\ Rx!EdgeCycle = now

\* applyUartRxEdges(): <= and not ==, so that an edge the engine was stepped
\* past is applied late and not left behind.
EdgeDue == Rx!EdgeDueBy(now)

\* Mutant: RX lines are stamped with the end of the tick.
ApplyEdgeStampedEnd ==
  /\ pc = "edges"
  /\ EdgeDue
  /\ Rx!AdvanceEdge
  /\ log' = IF edgeIndex = 0 THEN Append(log, Event(end, <<"RX", Head(queue)>>))
            ELSE log
  /\ UNCHANGED <<now, pc, end, held, design, seen, calls, direct>>

\* One turn of its loop.
ApplyEdge ==
  /\ pc = "edges"
  /\ EdgeDue
  /\ Rx!AdvanceEdge
  /\ log' = IF edgeIndex = 0 THEN Append(log, Event(now, <<"RX", Head(queue)>>))
            ELSE log
  /\ UNCHANGED <<now, pc, end, held, design, seen, calls, direct>>

\* applyUartRxEdges() returns and tick()'s loop tests its condition.
EdgesApplied ==
  /\ pc = "edges"
  /\ ~EdgeDue
  /\ pc' = IF now < end THEN "step" ELSE "idle"
  /\ end' = IF now < end THEN end ELSE 0
  /\ UNCHANGED <<rxVars, now, wave, held, design, seen, log, calls, direct>>

\* One segment: step to the target, and observe if it is a grid crossing.
Segment ==
  /\ pc = "step"
  /\ EngineStep(Target - now)
  /\ IF now' = NextGrid THEN Sample ELSE UNCHANGED <<seen, log>>
  /\ pc' = "edges"
  /\ UNCHANGED <<rxVars, end, held, calls, direct>>

-----------------------------------------------------------------------------
(* The callers, between ticks. *)

\* sendUart().
SendUart(b) ==
  /\ pc = "idle"
  /\ Len(slots) < MaxSends
  /\ Rx!Send(b)
  /\ handed' = Append(handed, now)
  /\ UNCHANGED <<now, pc, end, held, design, seen, log, pokes, direct>>

\* setSwitch() and setButton(): transitions only, logged at the poke.
SetInput(i) ==
  /\ pc = "idle"
  /\ \E on \in BOOLEAN :
       /\ held[i] # on
       /\ held' = [held EXCEPT ![i] = on]
       /\ log' = Append(log, Event(now, <<"IN", i, on>>))
       /\ pokes' = Append(pokes, [at |-> now, input |-> i, on |-> on])
  /\ Len(pokes) < MaxPokes
  /\ UNCHANGED <<rxVars, now, wave, pc, end, design, seen, handed, direct>>

\* A caller steps the engine itself, past whatever tick() would have done.
StepEngine(n) ==
  /\ pc = "idle"
  /\ direct < MaxDirect
  /\ n > 0 /\ now + n <= MaxCycle
  /\ EngineStep(n)
  /\ direct' = direct + 1
  /\ UNCHANGED <<rxVars, pc, end, held, seen, log, calls>>

Init ==
  /\ Rx!RxInit
  /\ now = 0
  /\ wave = <<>>
  /\ pc = "idle"
  /\ end = 0
  /\ held = [i \in Inputs |-> FALSE]
  /\ design = DesignInit
  /\ prevLed = [i \in Leds |-> FALSE]
  /\ prevChar = [i \in Digits |-> Decode(Dark)]
  /\ prevDp = [i \in Digits |-> FALSE]
  /\ display = [i \in Digits |-> Seg!NeverLit]
  /\ uartTx = Tx!TxIdle
  /\ txBytes = <<>>
  /\ txErrors = <<>>
  /\ log = <<>>
  /\ handed = <<>>
  /\ pokes = <<>>
  /\ direct = 0

Next ==
  \/ \E n \in TickSizes : Tick(n)
  \/ ApplyEdge
  \/ EdgesApplied
  \/ Segment
  \/ \E b \in Bytes : SendUart(b)
  \/ \E i \in Inputs : SetInput(i)
  \/ \E n \in TickSizes : StepEngine(n)

Spec == Init /\ [][Next]_vars
=============================================================================
