----------------------------- MODULE MCController -----------------------------
(* Three scripted runs and the interactive one: an endless script whose      *)
(* inputs meet a batch's end and a reset pulse, a finite one that takes BTNC *)
(* over during startup, --frames 0, and a horizon beyond the counter.        *)
EXTENDS SimulationController

Input(c, isButton, level) == [cycle |-> c, btnc |-> isButton, value |-> level]

Endless == [stimulus |-> <<Input(4, FALSE, TRUE), Input(7, TRUE, TRUE)>>,
            sends |-> <<4, 4>>, frames |-> -1, cyclesPerFrame |-> 3]
Finite == [stimulus |-> <<Input(0, FALSE, TRUE), Input(2, TRUE, TRUE)>>,
           sends |-> <<0, 8>>, frames |-> 2, cyclesPerFrame |-> 3]
ZeroFrames == [Finite EXCEPT !.frames = 0]
TooLong == [Finite EXCEPT !.frames = 9]

MCScripts == {Endless, Finite, ZeroFrames, TooLong}
=============================================================================
