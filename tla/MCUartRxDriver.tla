--------------------------- MODULE MCUartRxDriver ---------------------------
(* Two-bit frames keep every edge kind (start, first and last data bit,     *)
(* stop) and every adjacency between frames within reach.                   *)
EXTENDS UartRxDriver

\* The four payloads of two data bits reduce to two: one with both a rising
\* and a falling data edge, one with neither.
MCBytes == {[i \in 1..2 |-> i = 1], [i \in 1..2 |-> FALSE]}
MCDataBits == 2
=============================================================================
