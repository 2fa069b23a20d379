------------------------------- MODULE UartTx -------------------------------
(***************************************************************************)
(* board/Uart.{h,cpp}, class UartTxDecoder: the 8N1 decoder that watches   *)
(* the design's UART_TX pin on the observation grid. The decoder is a      *)
(* value and sample() an operator on it, so that the board and the line    *)
(* model of UartTxLine use the same definitions.                           *)
(***************************************************************************)
EXTENDS Integers

CONSTANTS Bit,      \* cyclesPerBit_
          DataBits  \* 8 in the program

\* A freshly constructed decoder.
TxIdle == [receiving |-> FALSE, validated |-> FALSE, start |-> 0, index |-> 0,
           shift |-> [i \in 1..DataBits |-> FALSE]]

\* The state after the first low sample of a candidate start bit.
TxCandidate(c) == [TxIdle EXCEPT !.receiving = TRUE, !.start = c]

\* Mutant: any low sample confirms the candidate.
MidStartAtOnce(t) == t.start

\* The centre of the start bit, where a candidate is confirmed or dropped.
MidStart(t) == t.start + Bit \div 2

\* Mutant: half a bit too late.
BitEnd(t) == t.start + 2 * Bit + t.index * Bit

\* Nominal centre of data bit index (0-based), or of the stop bit.
BitCentre(t) == t.start + Bit + Bit \div 2 + t.index * Bit

TxResult(t, what) == [state |-> t, what |-> what]

\* One sample of a confirmed frame.
TxTakeBit(t, c, level) ==
  IF c < BitCentre(t) THEN TxResult(t, "none")
  ELSE IF t.index < DataBits
  THEN TxResult([t EXCEPT !.shift[t.index + 1] = level, !.index = @ + 1], "none")
  ELSE TxResult([t EXCEPT !.receiving = FALSE], IF level THEN "byte" ELSE "framing")

\* sample(now, level): the next decoder state and what this sample completed,
\* "none", "byte" (the payload is the state's shift register) or "framing".
TxSample(t, c, level) ==
  IF ~t.receiving
  THEN TxResult(IF level THEN t ELSE TxCandidate(c), "none")
  ELSE IF t.validated THEN TxTakeBit(t, c, level)
  ELSE IF c < MidStart(t) THEN TxResult(t, "none")
  ELSE IF level THEN TxResult([t EXCEPT !.receiving = FALSE], "none")
  ELSE TxTakeBit([t EXCEPT !.validated = TRUE], c, level)
=============================================================================
