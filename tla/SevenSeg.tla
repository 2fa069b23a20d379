------------------------------ MODULE SevenSeg ------------------------------
(***************************************************************************)
(* board/SevenSeg.{h,cpp}: the eye that fuses the multiplexed display. A   *)
(* digit keeps what it showed at its latest strobed sample for Persist     *)
(* cycles of virtual time, inclusive, and is dark after that.              *)
(*                                                                         *)
(* A pattern of lit segments is a value, Dark the empty one. Several       *)
(* patterns decode to the same character, '?'.                             *)
(***************************************************************************)
EXTENDS Integers

CONSTANTS Persist,   \* kPersistCycles
          Dark,      \* the pattern with no segment lit
          Decode(_)  \* decodeSevenSeg: the character a pattern shows

\* A digit never strobed; lastLit is kNeverLit.
NeverLit == [lit |-> FALSE, lastLit |-> 0, seg |-> Dark, dp |-> FALSE]

\* sample(): every digit whose anode is active latches the shared cathodes.
\* pins.an is the set of active digits, after the active-low inversion.
SegSample(digits, c, pins) ==
  [i \in DOMAIN digits |->
     IF i \in pins.an
     THEN [lit |-> TRUE, lastLit |-> c, seg |-> pins.seg, dp |-> pins.dp]
     ELSE digits[i]]

\* Is the digit inside its decay window at cycle c?
Visible(digit, c) == digit.lit /\ c - digit.lastLit <= Persist

\* segments(), what it decodes to, and dp().
Segments(digit, c) == IF Visible(digit, c) THEN digit.seg ELSE Dark
Char(digit, c) == Decode(Segments(digit, c))
Point(digit, c) == Visible(digit, c) /\ digit.dp
=============================================================================
