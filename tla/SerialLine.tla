----------------------------- MODULE SerialLine -----------------------------
(***************************************************************************)
(* What the UART_RX line promises a design: every byte handed to it is     *)
(* given one slot of a full 8N1 frame, slots never overlap and follow the  *)
(* order of the calls, and in every clock cycle the design sees exactly    *)
(* the level its slot prescribes, high when no slot covers the cycle.      *)
(*                                                                         *)
(* Nothing here says how the level is produced: UartRxDriver (the bit-edge *)
(* state machine) and BoardModel (the loop that splits stepping at edges)  *)
(* are shown to implement it.                                              *)
(***************************************************************************)
EXTENDS Integers, Sequences

CONSTANTS
  Bit,       \* clock cycles per bit (10417 in the program)
  DataBits,  \* data bits per frame (8 in the program)
  Bytes      \* payloads, each a function from 1..DataBits to levels

VARIABLES
  slots,  \* accepted bytes in call order, each with its start cycle
  wave    \* wave[c+1] is the level the design saw in cycle c

lineVars == <<slots, wave>>

\* A frame owns the line through the whole of its stop bit.
Frame == (DataBits + 2) * Bit

\* The j-th bit on the wire: low start bit, data from bit 1 up, high stop bit.
Symbol(byte, j) == IF j = 0 THEN FALSE
                   ELSE IF j <= DataBits THEN byte[j] ELSE TRUE

Slot == [byte: Bytes, start: Nat]

\* The level the accepted slots prescribe for cycle c.
Level(c) ==
  \A k \in DOMAIN slots : \A j \in 0..(DataBits + 1) :
    (/\ slots[k].start + j * Bit <= c
     /\ c < slots[k].start + (j + 1) * Bit) => Symbol(slots[k].byte, j)

Init ==
  /\ slots = <<>>
  /\ wave = <<>>

\* When a byte accepted now starts: at once, or when the line is free.
NextStart ==
  IF slots = <<>> THEN Len(wave)
  ELSE LET free == slots[Len(slots)].start + Frame
       IN  IF free > Len(wave) THEN free ELSE Len(wave)

Submit(b) ==
  /\ slots' = Append(slots, [byte |-> b, start |-> NextStart])
  /\ UNCHANGED wave

\* Some cycles pass, each showing the design its prescribed level.
Elapse ==
  /\ Len(wave') > Len(wave)
  /\ wave' = [i \in 1..Len(wave') |->
                IF i <= Len(wave) THEN wave[i] ELSE Level(i - 1)]
  /\ UNCHANGED slots

Next == Elapse \/ \E b \in Bytes : Submit(b)

Spec == Init /\ [][Next]_lineVars
=============================================================================
