---------------------------- MODULE MCUartTxLine ----------------------------
(* Full 8-bit frames at the program's own numbers. The payloads alternate,  *)
(* isolate the first and the last data bit, and hold the line low or high.  *)
EXTENDS UartTxLine

Byte(ones) == [i \in 1..8 |-> i \in ones]

MCBytes == {Byte({1, 3, 5, 7}), Byte({1}), Byte({8})}
\* Idle times: none, a cycle either side of a chunk's end, the residues of half
\* a bit (208) and of a bit (417) against the chunk, and well over a bit.
MCGaps == {0, 1, 208, 209, 417, 583, 792, 999, 1000, 1001, 12345}
=============================================================================
