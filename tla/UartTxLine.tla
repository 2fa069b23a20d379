----------------------------- MODULE UartTxLine -----------------------------
(***************************************************************************)
(* A design's transmitter, the wire, and the grid sampler in front of the  *)
(* decoder of UartTx. The question is whether 8N1 frames survive being     *)
(* looked at only once per Chunk cycles: any phase against the grid, back  *)
(* to back frames, a divisor that is a cycle off, noise shorter than half  *)
(* a bit, and frames whose stop bit is low.                                *)
(*                                                                         *)
(* One step is one grid crossing; between two crossings the transmitter    *)
(* may begin a pulse.                                                      *)
(***************************************************************************)
EXTENDS Integers, Sequences

CONSTANTS
  Bit, DataBits, Bytes,  \* the decoder's frame format
  Chunk,                 \* kSampleChunkCycles
  TxBits,                \* bit lengths the design's divisor may have
  Gaps,                  \* idle times before a pulse, at any phase of the grid
  GlitchLengths,         \* lengths of a noise pulse on the idle line
  MaxPulses, MaxCycle    \* bounds: pulses sent, last crossing

VARIABLES
  now,       \* cycle of the latest crossing
  uartTx,    \* the decoder
  txBit,     \* external: the design's bit length
  pulse,     \* external: the latest frame or glitch put on the wire
  pulses,    \* history: how many there have been
  expected,  \* history: what each frame should be reported as
  reported   \* history: what the decoder did report, each with its stamp

vars == <<now, uartTx, txBit, pulse, pulses, expected, reported>>

Tx == INSTANCE UartTx

Half == Bit \div 2

\* A bit length the grid is fine enough for (Uart.h:13-18): the start bit is
\* confirmed before it ends, every data bit and the stop bit is looked at while
\* it lasts, and a low stop bit is over before the candidate that it begins
\* would be confirmed.
Sampled(t) ==
  /\ Half + 2 * (Chunk - 1) < t
  /\ (DataBits + 1) * Bit + Half + 2 * (Chunk - 1) < (DataBits + 2) * t
  /\ (DataBits + 1) * t <= (DataBits + 1) * Bit + Half
  /\ (DataBits + 2) * t < (DataBits + 2) * Bit + Chunk

ASSUME TxLineAssumption ==
  /\ Bit \in Nat /\ DataBits \in Nat \ {0} /\ Chunk \in Nat \ {0}
  /\ Half > 0 /\ Half + Chunk <= Bit
  /\ Bytes \subseteq [1..DataBits -> BOOLEAN]
  /\ Gaps \subseteq Nat
  /\ GlitchLengths \subseteq 1..Half
  /\ TxBits \subseteq Nat
  /\ \A t \in TxBits : Sampled(t)

\* A frame's end, or the end of the time a glitch keeps the decoder busy: the
\* design leaves the line high until then.
Settle == Half + 2 * Chunk
FrameEnd(start) == start + (DataBits + 2) * txBit

FrameAt(start, byte, stop) ==
  [kind |-> "frame", start |-> start, byte |-> byte, stop |-> stop,
   free |-> FrameEnd(start) + IF stop THEN 0 ELSE Bit]

GlitchAt(start, length) ==
  [kind |-> "glitch", start |-> start, length |-> length, free |-> start + Settle]

Quiet == [kind |-> "quiet", free |-> 0]

\* The level of UART_TX at cycle c with p the latest pulse.
LevelOf(p, c) ==
  IF p.kind = "quiet" THEN TRUE
  ELSE LET n == c - p.start
       IN  IF p.kind = "glitch" THEN n >= p.length
           ELSE LET k == n \div txBit
                IN  IF k = 0 THEN FALSE
                    ELSE IF k <= DataBits THEN p.byte[k]
                    ELSE k > DataBits + 1 \/ p.stop

\* When a pulse may begin after crossing c and not after the next one; a frame
\* may follow its predecessor with no idle time at all.
Starts(c) == {pulse.free + g : g \in Gaps} \cap (c + 1)..(c + Chunk)

\* The next crossing: the decoder sees the line once.
Cross(p) ==
  LET result == Tx!TxSample(uartTx, now + Chunk, LevelOf(p, now + Chunk))
  IN  /\ now + Chunk <= MaxCycle
      /\ now' = now + Chunk
      /\ pulse' = p
      /\ uartTx' = result.state
      /\ reported' =
           IF result.what = "none" THEN reported
           ELSE Append(reported, [what |-> result.what, byte |-> result.state.shift,
                                  at |-> now'])
      /\ UNCHANGED txBit

Stay == Cross(pulse) /\ UNCHANGED <<pulses, expected>>

BeginFrame ==
  \E s \in Starts(now), b \in Bytes, stop \in BOOLEAN :
    /\ pulses < MaxPulses
    /\ Cross(FrameAt(s, b, stop))
    /\ pulses' = pulses + 1
    /\ expected' = Append(expected, [what |-> IF stop THEN "byte" ELSE "framing",
                                     byte |-> b, end |-> FrameEnd(s)])

BeginGlitch ==
  \E s \in Starts(now), g \in GlitchLengths :
    /\ pulses < MaxPulses
    /\ Cross(GlitchAt(s, g))
    /\ pulses' = pulses + 1
    /\ UNCHANGED expected

Init ==
  /\ now = 0
  /\ uartTx = Tx!TxIdle
  /\ txBit \in TxBits
  /\ pulse = Quiet
  /\ pulses = 0
  /\ expected = <<>>
  /\ reported = <<>>

Next == Stay \/ BeginFrame \/ BeginGlitch

Spec == Init /\ [][Next]_vars

-----------------------------------------------------------------------------
\* The terminal shows what the design sent: each frame is reported exactly
\* once, in order, with its payload or as a framing error, and noise shorter
\* than half a bit is never turned into a byte or an error.
ReportedIsSent ==
  /\ Len(reported) <= Len(expected)
  /\ \A k \in DOMAIN reported :
       /\ reported[k].what = expected[k].what
       /\ reported[k].what = "byte" => reported[k].byte = expected[k].byte

\* No frame is missed, even back to back: it is reported by the time its stop
\* bit ends, before the next start bit can be on the wire.
ReportedByStop ==
  /\ \A k \in DOMAIN expected : now >= expected[k].end => k <= Len(reported)
  /\ \A k \in DOMAIN reported : reported[k].at <= expected[k].end

-----------------------------------------------------------------------------
(* Why they hold: what the decoder may be waiting for, by what is on the wire. *)

LineTyped ==
  /\ now \in Nat /\ txBit \in TxBits
  /\ uartTx \in [receiving: BOOLEAN, validated: BOOLEAN, start: Nat, index: 0..DataBits,
                 shift: [1..DataBits -> BOOLEAN]]
  /\ expected \in Seq([what: {"byte", "framing"}, byte: Bytes, end: Nat])
  /\ reported \in Seq([what: {"byte", "framing"}, byte: [1..DataBits -> BOOLEAN], at: Nat])
  /\ \/ pulse = Quiet
     \/ \E s \in Nat, b \in Bytes, stop \in BOOLEAN : pulse = FrameAt(s, b, stop)
     \/ \E s \in Nat, g \in GlitchLengths : pulse = GlitchAt(s, g)

\* The centre that the decoder waits for is still to come.
Waiting == now < IF uartTx.validated THEN Tx!BitCentre(uartTx) ELSE Tx!MidStart(uartTx)

\* The pulse was seen low for the first time less than a chunk after it began.
SeenInTime == uartTx.start - pulse.start \in 0..Chunk - 1

Receiving ==
  /\ uartTx.receiving /\ Waiting /\ SeenInTime
  /\ ~uartTx.validated => uartTx.index = 0
  /\ \A i \in 1..uartTx.index : uartTx.shift[i] = pulse.byte[i]
  /\ Len(expected) = Len(reported) + 1
  /\ expected[Len(expected)] = [what |-> IF pulse.stop THEN "byte" ELSE "framing",
                                byte |-> pulse.byte, end |-> FrameEnd(pulse.start)]

\* After a low stop bit the rest of it may look like a start bit, but the line is
\* high by the time it would be confirmed.
Received ==
  /\ Len(expected) = Len(reported)
  /\ now - pulse.start >= (DataBits + 1) * txBit
  /\ IF uartTx.receiving
     THEN /\ ~pulse.stop /\ ~uartTx.validated /\ Waiting
          /\ uartTx.start < FrameEnd(pulse.start)
          /\ FrameEnd(pulse.start) <= Tx!MidStart(uartTx)
     ELSE pulse.stop \/ FrameEnd(pulse.start) <= now + Chunk + Half

\* A glitch is over when the candidate it begins would be confirmed.
Ignored ==
  /\ Len(expected) = Len(reported)
  /\ IF uartTx.receiving
     THEN ~uartTx.validated /\ Waiting /\ SeenInTime
     ELSE now - pulse.start >= pulse.length

TxLineInv ==
  /\ LineTyped /\ ReportedIsSent
  /\ \A k \in DOMAIN reported : reported[k].at <= expected[k].end
  /\ pulse.kind # "quiet" => pulse.start <= now
  /\ pulse.kind = "quiet" => ~uartTx.receiving /\ Len(expected) = Len(reported)
  /\ pulse.kind = "frame" => Receiving \/ Received
  /\ pulse.kind = "glitch" => Ignored
=============================================================================
