---------------------------- MODULE UartRxDriver ----------------------------
(***************************************************************************)
(* board/Uart.{h,cpp}, class UartRxDriver: the queue of bytes for the      *)
(* design's UART_RX pin and the state machine that emits their bit edges.  *)
(*                                                                         *)
(* The driver never looks at the clock by itself. This module closes it    *)
(* with the caller its header asks for: time moves up to the next edge and *)
(* never past it, and an edge is consumed at its own cycle. BoardModel     *)
(* replaces that caller with the real tick loop.                           *)
(***************************************************************************)
EXTENDS Integers, Sequences

CONSTANTS
  Bit, DataBits, Bytes,  \* as in SerialLine
  MaxCycle,              \* bound: the clock stops here
  MaxSends               \* bound: bytes handed to the driver

VARIABLES
  queue,       \* queue_: bytes not yet completely sent, front in flight
  shifting,    \* shifting_
  frameStart,  \* frameStart_
  lineFree,    \* lineFreeCycle_
  edgeIndex,   \* edgeIndex_: 0 start, 1..DataBits data, DataBits + 1 stop
  now,         \* SimEngine::now()
  line,        \* level of the UART_RX pin
  slots,       \* history: each accepted byte with the cycle send() returned
  driven,      \* history: each byte with the cycle its start edge was driven
  wave         \* history: the level the design saw in each cycle

driver == <<queue, shifting, frameStart, lineFree, edgeIndex>>
vars == <<driver, now, line, slots, driven, wave>>

\* The abstract line is read off the histories: its slots are the promises, its
\* waveform what the pin showed.
Line == INSTANCE SerialLine WITH Bit <- Bit, DataBits <- DataBits, Bytes <- Bytes,
                                 slots <- slots, wave <- wave

ASSUME RxAssumption ==
  /\ Bit \in Nat \ {0}
  /\ DataBits \in Nat \ {0}
  /\ Bytes \subseteq [1..DataBits -> BOOLEAN]
  /\ MaxCycle \in Nat
  /\ MaxSends \in Nat

Frame == (DataBits + 2) * Bit
StopEdge == DataBits + 1
Later(a, b) == IF a > b THEN a ELSE b

RxInit ==
  /\ queue = <<>>
  /\ shifting = FALSE
  /\ frameStart = 0
  /\ lineFree = 0
  /\ edgeIndex = 0
  /\ line = TRUE
  /\ slots = <<>>
  /\ driven = <<>>

\* nextEdgeCycle(); kIdle stands for "no edge", so callers test shifting.
EdgeCycle == frameStart + edgeIndex * Bit

\* An edge is scheduled at or before cycle c.
EdgeDueBy(c) == shifting /\ EdgeCycle <= c

\* Mutant: the stop bit's tail does not own the line.
IdleStartAtOnce == now

\* send(): the frame's start, given that the line is idle.
IdleStart == Later(now, lineFree)

\* Mutant: the position of the byte just queued counted one off.
PromisedOneLate(start, length) == start + length * Frame

\* send(): the start cycle promised to the byte queued last.
PromisedStart(start, length) == start + (length - 1) * Frame

\* send(byte, now).
Send(b) ==
  /\ queue' = Append(queue, b)
  /\ shifting' = TRUE
  /\ frameStart' = IF shifting THEN frameStart ELSE IdleStart
  /\ edgeIndex' = IF shifting THEN edgeIndex ELSE 0
  /\ slots' = Append(slots, [byte |-> b,
                start |-> PromisedStart(frameStart', Len(queue'))])
  /\ UNCHANGED <<lineFree, line, driven, wave>>

\* Mutant: most significant bit first.
EdgeLevelMsbFirst ==
  IF edgeIndex = 0 THEN FALSE
  ELSE IF edgeIndex <= DataBits THEN Head(queue)[DataBits + 1 - edgeIndex] ELSE TRUE

\* advance(): the level of the edge being consumed.
EdgeLevel ==
  IF edgeIndex = 0 THEN FALSE
  ELSE IF edgeIndex <= DataBits THEN Head(queue)[edgeIndex] ELSE TRUE

\* advance(): the frame is complete; chain the next byte or go idle.
FinishFrame ==
  /\ queue' = Tail(queue)
  /\ lineFree' = frameStart + Frame
  /\ shifting' = (Tail(queue) # <<>>)
  /\ frameStart' = IF Tail(queue) # <<>> THEN frameStart + Frame ELSE frameStart
  /\ edgeIndex' = IF Tail(queue) # <<>> THEN 0 ELSE edgeIndex + 1

\* advance(), whose level the caller puts on the pin.
AdvanceEdge ==
  /\ line' = EdgeLevel
  /\ driven' = IF edgeIndex = 0
               THEN Append(driven, [byte |-> Head(queue), start |-> now])
               ELSE driven
  /\ IF edgeIndex = StopEdge
     THEN FinishFrame
     ELSE /\ edgeIndex' = edgeIndex + 1
          /\ UNCHANGED <<queue, shifting, frameStart, lineFree>>
  /\ UNCHANGED <<slots, wave>>

\* SimEngine::step(n) seen from the pin: n cycles with a constant input.
Hold(n) == /\ wave' = wave \o [i \in 1..n |-> line]
           /\ now' = now + n

-----------------------------------------------------------------------------
\* The caller of the header's contract.

Init == RxInit /\ now = 0 /\ wave = <<>>

SendByte == \E b \in Bytes : /\ Len(slots) < MaxSends
                             /\ Send(b)
                             /\ UNCHANGED now

ConsumeEdge == /\ shifting
               /\ EdgeCycle = now
               /\ AdvanceEdge
               /\ UNCHANGED now

Elapse == \E n \in 1..MaxCycle :
            /\ now + n <= MaxCycle
            /\ ~EdgeDueBy(now)
            /\ ~EdgeDueBy(now + n - 1)
            /\ Hold(n)
            /\ UNCHANGED <<driver, line, slots, driven>>

Next == SendByte \/ ConsumeEdge \/ Elapse

Spec == Init /\ [][Next]_vars

-----------------------------------------------------------------------------
TypeOK ==
  /\ queue \in Seq(Bytes)
  /\ shifting \in BOOLEAN
  /\ frameStart \in Nat
  /\ lineFree \in Nat
  /\ edgeIndex \in 0..(DataBits + 2)
  /\ now \in Nat
  /\ line \in BOOLEAN
  /\ slots \in Seq([byte: Bytes, start: Nat])
  /\ driven \in Seq([byte: Bytes, start: Nat])
  /\ wave \in Seq(BOOLEAN)

\* send() promises a cycle long before the start bit is driven, from the queue
\* length alone. Every start edge driven later is that byte's, in call order,
\* at exactly the promised cycle: the stamps the console and the log print.
StampExact ==
  /\ Len(driven) <= Len(slots)
  /\ \A i \in 1..Len(driven) : driven[i] = slots[i]

\* A frame owns the line through the full duration of its stop bit: a send
\* issued during the stop tail, when the driver is already idle, defers.
FramesDisjoint ==
  \A i \in 1..(Len(slots) - 1) : slots[i].start + Frame <= slots[i + 1].start

-----------------------------------------------------------------------------
(***************************************************************************)
(* Why the stamps come true. Completed frames are the first Sent slots;    *)
(* the queue is the rest, spaced one frame apart from frameStart.          *)
(***************************************************************************)
Sent == Len(slots) - Len(queue)

Started == shifting /\ edgeIndex > 0

QueueIsPending ==
  /\ shifting <=> (queue # <<>>)
  /\ Len(queue) <= Len(slots)
  /\ \A i \in 1..Len(queue) :
       slots[Sent + i] = [byte |-> queue[i], start |-> PromisedStart(frameStart, i)]

LineOwned ==
  /\ IF Sent > 0 THEN lineFree = slots[Sent].start + Frame ELSE lineFree = 0
  /\ shifting => lineFree <= frameStart

EdgeOnTime ==
  shifting => /\ edgeIndex <= StopEdge
              /\ now <= EdgeCycle
              /\ edgeIndex > 0 => EdgeCycle - Bit <= now

DrivenIsStarted == Len(driven) = IF Started THEN Sent + 1 ELSE Sent

LineIsSymbol ==
  line = IF Started THEN Line!Symbol(Head(queue), edgeIndex - 1) ELSE TRUE

\* Needed for the stamps and the frames to be provable: what the bits of the
\* driver's state say about the bytes still owed. Every conjunct is one way in
\* which queue_, frameStart_, edgeIndex_ and lineFreeCycle_ could drift apart.
RxInv ==
  /\ QueueIsPending
  /\ LineOwned
  /\ EdgeOnTime
  /\ DrivenIsStarted
  /\ LineIsSymbol
  /\ StampExact
  /\ FramesDisjoint
  /\ Len(wave) = now

\* Needed for the waveform to be provable: frames are disjoint however far apart
\* they were sent, and an edge is consumed at its own cycle, so that of the
\* frames already sent only the last one's stop bit can still be on the line.
FramesApart ==
  \A i, j \in 1..Len(slots) : i < j => slots[i].start + Frame <= slots[j].start
StopBitLasts == Sent > 0 => lineFree <= now + Bit
LineInv == FramesApart /\ StopBitLasts

\* The design sees exactly the waveform of the promised slots.
ImplementsLine == Line!Spec
=============================================================================
