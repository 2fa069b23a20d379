----------------------------- MODULE MCLauncher -----------------------------
(***************************************************************************)
(* A design with one port that follows a switch and two internal signals,  *)
(* one of which changes every cycle; a third name resolves to nothing. The *)
(* command lines are a source with every tail of up to four words, and the *)
(* longer ones of the launches that are followed.                          *)
(***************************************************************************)
EXTENDS Launcher

MCPorts == <<"led">>
MCNames == {"top.a", "top.b", "top.none"}
MCSignalOf(n) == IF n = "top.none" THEN "none" ELSE n
MCValue(id, c, on) == CASE id = "led" -> IF on THEN 1 ELSE 0
                        [] id = "top.a" -> c % 2
                        [] id = "top.b" -> IF on THEN c ELSE 0
MCEmits(c) == c # 2

\* What a word is to its readers.
MCVerilogFile(w) == w = "b.v"
MCConstraintsFile(w) == w = "c.xdc"
MCInlineOf(w) == CASE w = "--frames=2" -> "--frames"
                   [] w = "-Idir" -> "-I"
                   [] OTHER -> "none"
MCFramesOf(w) == CASE w = "2" -> <<2>> [] w = "0" -> <<0>> [] OTHER -> <<>>
Event(cycle, name, value) == [cycle |-> cycle, name |-> name, value |-> value]
MCEventOf(w) == CASE w = "5:SW0=1" -> <<Event(5, "SW0", 1)>>
                  [] w = "0:SW0=0" -> <<Event(0, "SW0", 0)>>
                  [] OTHER -> <<>>
MCSendOf(w) == IF w \in {"5:SW0=1", "0:SW0=0", "0:b"}
               THEN <<[cycle |-> IF w = "5:SW0=1" THEN 5 ELSE 0, text |-> w]>> ELSE <<>>
MCPresetOf(w) == CASE w = "11" -> <<<<Event(0, "SW1", 1), Event(0, "SW0", 1)>>>>
                   [] w = "0" -> <<<<>>>>
                   [] OTHER -> <<>>

Dashes == {"--xdc", "--frames", "--log", "--switches", "--at", "--send", "--top",
           "--preview", "--smoke-test", "--realtime", "--help", "--frames=2", "-Idir"}
MCDashed(w) == w \in Dashes \cup {"--screenshot", "-I"}
Words == Dashes \cup {"0", "11", "5:SW0=1", "0:SW0=0", "b.v", "c.xdc", ""}

Run == <<"virtualbasys", "run", "a.v">>
Tails(words, n) == UNION {[1..k -> words] : k \in 0..n}
Log == <<"--log", "f">>
Shot == <<"--screenshot", "s">>
MCCommandLines ==
  {Run \o t : t \in Tails(Words, 3)}
    \cup {Run \o t : t \in [1..4 -> {"--log", "--xdc", "--at", "--switches", "--send", "--help",
                                       "11", "5:SW0=1", "0:SW0=0", "0:b", "c.xdc"}]}
    \cup {<<"virtualbasys">> \o t : t \in Tails({"--preview", "--realtime", "--help", "a.v"}, 2)}
    \cup {<<"virtualbasys", "run">> \o t : t \in Tails({"c.xdc", "-I", "a.v"}, 3)}
    \cup {Run \o Log, Run \o Shot \o <<"--frames", "0">> \o Log,
          Run \o <<"--frames", "2">> \o Shot \o Log}

Option(frames, shot, log) ==
  [preview |-> FALSE, scripted |-> TRUE, frames |-> frames, shot |-> shot, log |-> log,
   smoke |-> FALSE, realtime |-> FALSE]
Interactive == [Option(-1, FALSE, FALSE) EXCEPT !.scripted = FALSE]
MCOptions == {Option(-1, FALSE, TRUE), Option(0, TRUE, TRUE), Option(2, TRUE, TRUE),
              Interactive, [Interactive EXCEPT !.smoke = TRUE],
              [Interactive EXCEPT !.preview = TRUE, !.realtime = TRUE]}
=============================================================================
