---------------------------- MODULE MCVideoBoard ----------------------------
(***************************************************************************)
(* A video generator on a raster of 5 x 4 pixel clocks. The switches are   *)
(* read at the start of each line and give it another length, pixel clock  *)
(* or polarity. Registers: the position in the line, its length and shape, *)
(* the line, and what a power-on chooses: pixel clock, where vsync falls   *)
(* in a line, lines with vsync low, lines in a frame.                      *)
(***************************************************************************)
EXTENDS VideoBoard

MCWidth(n) == CASE n \in {"sw", "rgb"} -> 2 [] OTHER -> 1
\* One range descends below zero, the other ascends.
MCRangeOf(n) == CASE n = "sw" -> <<0, -1>> [] n = "rgb" -> <<0, 1>> [] OTHER -> <<>>
MCResourceOf(pin) ==
  CASE pin = <<"V17">> -> <<"SW0">> [] pin = <<"V16">> -> <<"SW1">>
    [] pin = <<"U18">> -> <<"BTNC">>
    [] pin = <<"G19">> -> <<"VGA_R0">> [] pin = <<"J17">> -> <<"VGA_G0">>
    [] pin = <<"P19">> -> <<"VGA_HS">> [] pin = <<"R19">> -> <<"VGA_VS">>
    [] OTHER -> <<>>
MCNumberOf(text) ==
  CASE text = <<"0">> -> <<0>> [] text = <<"1">> -> <<1>> [] text = <<"-1">> -> <<-1>>
    [] text = <<"5">> -> <<5>> [] text = <<"10">> -> <<10>> [] OTHER -> <<>>
MCNumeralOf(n) ==
  CASE n = 0 -> <<"0">> [] n = 1 -> <<"1">> [] n = -1 -> <<"-1">>
    [] n = 5 -> <<"5">> [] n = 10 -> <<"10">>

MCPortOrder == <<"aux", "clk", "hs", "rgb", "sw", "vs">>
MCVgaPins == <<"VGA_R0", "VGA_G0", "VGA_HS", "VGA_VS">>

Length(shape, cpp) == CASE shape = 1 -> 5 * cpp + 1
                        [] shape = 2 -> 10 * cpp
                        [] OTHER -> 5 * cpp
PowerOn(pos, line, cpp, vsAt, vsLines, lines) ==
  [pos |-> pos, line |-> line, shape |-> 0, cpp |-> cpp, vsAt |-> vsAt,
   vsLines |-> vsLines, lines |-> lines]
MCRegsInits == {PowerOn(3, 3, 1, 0, 1, 4), PowerOn(1, 2, 1, 3, 2, 4),
                PowerOn(0, 0, 2, 0, 1, 4), PowerOn(4, 3, 1, 0, 3, 4),
                PowerOn(4, 3, 1, 1, 1, 5)}
MCRegsAfter(r, in) ==
  IF r.pos + 1 < Length(r.shape, r.cpp) THEN [r EXCEPT !.pos = @ + 1]
  ELSE [r EXCEPT !.pos = 0, !.line = (@ + 1) % r.lines, !.shape = in.sw]
\* vsync is low for vsLines lines from position vsAt of line 0.
Since(r) == (r.line * 5 * r.cpp + r.pos - r.vsAt) % (r.lines * 5 * r.cpp)
MCValue(n, r, in) ==
  CASE n = "hs" -> IF r.pos < (IF r.shape = 3 THEN 4 ELSE 1) * r.cpp THEN 0 ELSE 1
    [] n = "vs" -> IF Since(r) < r.vsLines * 5 * r.cpp THEN 0 ELSE 1
    [] n = "rgb" -> (r.pos + 2 * r.line + in.aux) % 4
    [] OTHER -> (r.line + in.sw) % 2

\* Commands of a constraint file.
Braced(t) == <<"{">> \o t \o <<"}">>
Bit(n, i) == <<n, "[", i, "]">>
GetPorts(t) == <<" ", "[", "get_ports", " ">> \o t \o <<"]">>
Dict(list, t) == <<"set_property", " ", "-dict", " ">> \o Braced(list) \o GetPorts(Braced(t)) \o <<"\n">>
Pinned(pin, t) == Dict(<<"PACKAGE_PIN", " ", pin, " ", "IOSTANDARD", " ", "LVCMOS33">>, t)
Moved(pin, t) == <<"set_property", " ", "PACKAGE_PIN", " ", pin>> \o GetPorts(t) \o <<";">>
Clocked(args) == <<"create_clock">> \o args \o <<" ", "-period", " ", "10">> \o GetPorts(<<"clk">>) \o <<"\n">>

VgaText == Pinned("G19", Bit("rgb", "0")) \o Pinned("J17", Bit("rgb", "1"))
             \o Pinned("P19", <<"hs">>) \o Pinned("R19", <<"vs">>)
BoardText == <<"#", " ", "\\", "\n">> \o Pinned("V17", Bit("sw", "-1")) \o Pinned("V17", Bit("sw", "-1"))
               \o Moved("V16", Braced(Bit("sw", "0"))) \o Pinned("U18", <<"clk">>)
               \o Clocked(<<>>) \o VgaText

\* Good, doubtful and broken commands, in any order.
Commands ==
  {Pinned("V17", Bit("sw", "0")), Pinned("V17", Bit("sw", "-1")), Moved("V16", Bit("sw", "0")),
   Moved("V16", Braced(Bit("sw", "0"))), Moved("V17", <<"sw">>), Pinned("V16", Bit("sw", "1")),
   Pinned("V16", <<"aux">>), Pinned("V17", Bit("aux", "0")), Moved("U18", <<"clk">>),
   Pinned("V17", Bit("rgb", "0")), Pinned("V16", <<"ghost">>), Pinned("Z9", <<"aux">>),
   Dict(<<"IOSTANDARD", " ", "LVCMOS33">>, Bit("sw", "0")),
   <<"set_property", " ", "PACKAGE_PIN", " ", "{", "V16">> \o GetPorts(<<"aux">>) \o <<"\n">>}
OrderTexts == {a \o b \o c : a, b, c \in Commands \cup {<<>>}}

\* Any characters, where a value, a key, a name and a port may stand.
Characters == {"K", "n", "x", " ", "\n", ";", "#", "$", "\\", "\"", "{", "}", "[", "]"}
Raw == SeqOf(Characters, 3)
Design(t) == <<"set_property", " ", "K", " ">> \o t \o <<" ", "[", "current_design", "]", ";">>
CharacterTexts ==
  UNION {{Design(t), Design(Braced(t)), Design(<<"\"">> \o t \o <<"\"">>)} : t \in Raw}
    \cup {Dict(t \o <<" ", "V">>, <<"hs">>) \o Pinned("V16", <<"aux">>) : t \in Raw}
    \cup {Moved("V16", Braced(t)) \o Clocked(<<" ", "-add", " ", "-name", " ">> \o Braced(t)) :
            t \in SeqOf(Characters, 2)}
    \cup {Clocked(<<" ", "-waveform", " ", "{", a, " ", b, "}">>) :
            a, b \in {"-1", "0", "5", "10", "K"}}

MCLimits ==
  {[powerOn |-> MCRegsInits, cycles |-> 66, ticks |-> {5, 8}, transitions |-> 2, calls |-> 0],
   [powerOn |-> {PowerOn(1, 2, 1, 3, 2, 4)}, cycles |-> 2, ticks |-> {1, 2},
    transitions |-> 2, calls |-> 3],
   [powerOn |-> {PowerOn(1, 2, 1, 3, 2, 4)}, cycles |-> 0, ticks |-> {}, transitions |-> 2,
    calls |-> 0]}
MCTextsOf(l) == IF l.cycles > 0 THEN {BoardText} ELSE OrderTexts \cup CharacterTexts
MCWatchLists == {<<"rgb", "hs", "vs">>, <<"sw", "clk", "rgb">>, <<"rgb", "rgb", "sw">>}
=============================================================================
