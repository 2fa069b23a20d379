------------------------------- MODULE MCBoard -------------------------------
(***************************************************************************)
(* A small design with one of each thing a crossing can observe: a         *)
(* register that follows the RX pin and drives a LED and UART_TX, a        *)
(* free-running counter that multiplexes a digit, and a LED wired straight *)
(* to a switch. The grid is coarser than a bit, so what the decoder makes  *)
(* of UART_TX is no frame, but it must not depend on the ticks either.     *)
(***************************************************************************)
EXTENDS BoardReference

OnePayload == {[i \in 1..1 |-> TRUE]}
MCInputs == {"SW0"}
MCLeds == 1..2
MCDigits == 1..1

\* Two patterns show the same character.
MCDecode(seg) == IF seg \in {"x", "y"} THEN "?" ELSE seg

\* rx is registered; the digit is strobed while the counter is below 5, and
\* while rx is low: its pattern may go from x to y with the character the same.
MuxInit == [rx |-> TRUE, count |-> 0]
MuxCycle(d, in) == [rx |-> in.rx, count |-> (d.count + 1) % 16]
MuxPins(d, in) == [led |-> <<d.rx, in.held["SW0"]>>,
                   an |-> IF d.count < 5 \/ ~d.rx THEN {1} ELSE {},
                   seg |-> IF d.count >= 5 THEN "y" ELSE IF d.rx THEN "x" ELSE "8",
                   dp |-> in.held["SW0"],
                   tx |-> d.rx]
=============================================================================
