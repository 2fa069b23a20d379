--------------------------- MODULE MCUartTerminal ---------------------------
(* Rows of two bytes and two rows of scrollback, so that rows fill, end      *)
(* early and are trimmed within a few bytes, and one text has more rows than *)
(* the scrollback.                                                           *)
EXTENDS UartTerminal

MCTexts == {<<"x">>, <<"n", "n", "x">>}
MCTxValues == {"x", "n"}
=============================================================================
