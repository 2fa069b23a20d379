----------------------------- MODULE CommandLine -----------------------------
(***************************************************************************)
(* The command line of virtualbasys. Four scanners read it one after       *)
(* another, each with its own table of the options that take a value:      *)
(* helpOption() and parseRun() of qt/main_run.cpp, splitArguments() and    *)
(* parseLaunch() of qt/Launcher.cpp, parseRunArgs() of script/RunArgs.cpp. *)
(* They have to agree on which word is an option and which is a value.     *)
(*                                                                         *)
(* A word is a value of its own; what it denotes to each reader is given   *)
(* by the constant operators, a sequence of one, or empty if it is refused.*)
(***************************************************************************)
EXTENDS Integers, SequencesExt

CONSTANTS
  Dashed(_),          \* begins with a dash
  VerilogFile(_),     \* has the suffix of a source file
  ConstraintsFile(_), \* ends in .xdc
  InlineOf(_),        \* the option before an equals sign, or of -IDIR
  FramesOf(_),        \* a number of frames
  SendOf(_),          \* CYCLE:TEXT
  EventOf(_),         \* CYCLE:NAME=V
  PresetOf(_)         \* up to 16 digits: the events of its ones, from the left

Endless == -1
HelpOptions == {"--help", "-h", "--help-all"}

\* parseRunArgs(): the options it compares with.
ScriptOptions == {"--xdc", "--frames", "--screenshot", "--log", "--at", "--switches", "--send"}

\* Mutant: an option was added to the launcher and not to the runner.
ValueOptionsOld == ScriptOptions \ {"--log"}

\* main_run.cpp's kValueOptions and takesValue(), Launcher.cpp's kRunOptions.
ValueOptions == ScriptOptions
TakesValue == {"--top", "-I"} \cup ValueOptions
RunOptions == ScriptOptions

\* The words from a position on, each option of the table with the next word.
Items(args, from, table) ==
  LET scan[i \in 1..Len(args) + 2] ==
        CASE i > Len(args) -> <<>>
          [] i < Len(args) /\ args[i] \in table ->
               <<SubSeq(args, i, i + 1)>> \o scan[i + 2]
          [] OTHER -> <<<<args[i]>>>> \o scan[i + 1]
  IN  scan[from]

\* Items of an option that have a value; the last of them counts.
Given(items, option) == SelectSeq(items, LAMBDA it : Len(it) = 2 /\ it[1] = option)
LastOf(items, option, default) ==
  LET g == Given(items, option) IN IF g = <<>> THEN default ELSE Last(g)[2]

AnyItem(items, Test(_)) == \E k \in DOMAIN items : Test(items[k])

-----------------------------------------------------------------------------
(* main_run.cpp *)

\* helpOption()
Help(args) == AnyItem(Items(args, 2, TakesValue), LAMBDA it : it[1] \in HelpOptions)

IsOwn(item) == {item[1], InlineOf(item[1])} \cap {"--top", "-I"} # {}

\* Sources end at the first word with a dash.
FirstOption(args) ==
  LET tail == {i \in 3..Len(args) : Dashed(args[i])}
  IN  IF tail = {} THEN Len(args) + 1 ELSE CHOOSE i \in tail : \A j \in tail : i <= j

GoodSources(files) == files # <<>> /\ \A f \in Range(files) : ~ConstraintsFile(f)

\* parseRun(): sources up to the first option, then options; what is not the
\* runner's own goes to the launcher as it is.
RunCommand(args) ==
  LET items == Items(args, FirstOption(args), TakesValue)
      passed == SelectSeq(items, LAMBDA it : ~IsOwn(it))
      wrong(it) == \/ it[1] \in {"--top", "-I"} /\ (Len(it) = 1 \/ it[2] = "")
                   \/ InlineOf(it[1]) = "--top"
                   \/ it[1] = "--preview"
                   \/ ~Dashed(it[1]) /\ VerilogFile(it[1])
  IN  [ok |-> /\ GoodSources(SubSeq(args, 3, FirstOption(args) - 1))
              /\ Len(SelectSeq(items, LAMBDA it : it[1] = "--top")) <= 1
              /\ ~AnyItem(items, wrong),
       launcher |-> <<args[1]>> \o FlattenSeq(passed),
       xdc |-> LastOf(passed, "--xdc", "")]

-----------------------------------------------------------------------------
(* RunArgs.cpp and Stimulus.cpp *)

\* A stable sort by cycle.
InOrder(events) ==
  LET cycles == {e.cycle : e \in Range(events)}
  IN  FlattenSeq([k \in DOMAIN SetToSortSeq(cycles, <) |->
        SelectSeq(events, LAMBDA e : e.cycle = SetToSortSeq(cycles, <)[k])])

\* --switches is sugar for --at, in its place among them.
EventsOf(item) ==
  CASE item[1] = "--at" -> EventOf(item[2])
    [] item[1] = "--switches" -> FlattenSeq(PresetOf(item[2]))
    [] OTHER -> <<>>

\* A value its option refuses; any word that is no option with a value.
Refused(item) ==
  \/ Len(item) = 1
  \/ item[1] = "--frames" /\ FramesOf(item[2]) = <<>>
  \/ item[1] = "--send" /\ SendOf(item[2]) = <<>>
  \/ item[1] = "--at" /\ EventOf(item[2]) = <<>>
  \/ item[1] = "--switches" /\ PresetOf(item[2]) = <<>>

\* parseRunArgs() with parseStimulus().
RunArgs(list) ==
  LET items == Items(list, 2, ScriptOptions)
      frames == LastOf(items, "--frames", "")
  IN  [ok |-> ~AnyItem(items, Refused),
       xdc |-> LastOf(items, "--xdc", ""),
       frames |-> IF Given(items, "--frames") = <<>> \/ FramesOf(frames) = <<>>
                  THEN Endless ELSE FramesOf(frames)[1],
       shot |-> LastOf(items, "--screenshot", ""),
       log |-> LastOf(items, "--log", ""),
       stimulus |-> InOrder(FlattenSeq([k \in DOMAIN items |->
                              IF Len(items[k]) = 2 THEN EventsOf(items[k]) ELSE <<>>])),
       sends |-> InOrder(FlattenSeq([k \in DOMAIN Given(items, "--send") |->
                              SendOf(Given(items, "--send")[k][2])]))]

-----------------------------------------------------------------------------
(* Launcher.cpp *)

IsInline(it) == InlineOf(it[1]) \in RunOptions
IsFrontend(it) ==
  ~IsInline(it) /\ it[1] \notin RunOptions /\ Dashed(it[1]) /\ it[1] # "--"

\* splitArguments() and parseLaunch(): the front end's options are Qt's, which
\* refuses those it does not know.
Launch(list, designProvided) ==
  LET items == Items(list, 2, RunOptions)
      frontend == SelectSeq(items, IsFrontend)
      run == <<list[1]>> \o FlattenSeq(SelectSeq(items, LAMBDA it : ~IsFrontend(it)))
      scripted == AnyItem(items, LAMBDA it : IsInline(it) \/ it[1] \in RunOptions \ {"--xdc"})
      set(name) == AnyItem(frontend, LAMBDA it : it[1] = name)
  IN  [ok |-> /\ ~AnyItem(frontend, LAMBDA it :
                    it[1] \notin {"--smoke-test", "--preview", "--realtime"})
              /\ RunArgs(run).ok
              /\ ~(set("--preview") /\ Len(run) > 1)
              /\ ~(set("--smoke-test") /\ scripted)
              /\ set("--preview") \/ designProvided,
       run |-> RunArgs(run),
       scripted |-> scripted,
       smoke |-> set("--smoke-test"), preview |-> set("--preview"),
       realtime |-> set("--realtime")]

\* What main() makes of a command line before anything is read or built.
NoLaunch == Launch(<<"">>, FALSE)
Answer(what, launch, xdc) == [what |-> what, launch |-> launch, xdc |-> xdc]
Command(args) ==
  LET run == RunCommand(args)
  IN  CASE Help(args) -> Answer("help", NoLaunch, "")
        [] ~Help(args) /\ (Len(args) < 2 \/ args[2] # "run") ->
             IF "--preview" \in Range(args) /\ Launch(args, FALSE).ok
             THEN Answer("preview", Launch(args, FALSE), "")
             ELSE Answer("error", NoLaunch, "")
        [] OTHER ->
             IF run.ok /\ Launch(run.launcher, TRUE).ok
             THEN Answer("run", Launch(run.launcher, TRUE), run.xdc)
             ELSE Answer("error", NoLaunch, "")

-----------------------------------------------------------------------------
(* What a command line means, read off its words alone. *)

\* Ways to cut the words after the sources into options and their values.
Cuts(n) == {c \in SUBSET (1..n) : n > 0 => 1 \in c}
Piece(words, cut, i) ==
  LET later == {j \in cut : j > i}
  IN  SubSeq(words, i, IF later = {} THEN Len(words)
                       ELSE (CHOOSE j \in later : \A k \in later : j <= k) - 1)
Pieces(words, cut) ==
  [k \in DOMAIN SetToSortSeq(cut, <) |-> Piece(words, cut, SetToSortSeq(cut, <)[k])]

\* An option with the value it needs, or one that needs none.
Proper(p) ==
  \/ Len(p) = 2 /\ p[1] \in {"--xdc", "--screenshot", "--log"}
  \/ Len(p) = 2 /\ p[1] \in {"--top", "-I"} /\ p[2] # ""
  \/ Len(p) = 2 /\ p[1] = "--frames" /\ FramesOf(p[2]) # <<>>
  \/ Len(p) = 2 /\ p[1] = "--send" /\ SendOf(p[2]) # <<>>
  \/ Len(p) = 2 /\ p[1] = "--at" /\ EventOf(p[2]) # <<>>
  \/ Len(p) = 2 /\ p[1] = "--switches" /\ PresetOf(p[2]) # <<>>
  \/ Len(p) = 1 /\ (p[1] \in {"--smoke-test", "--realtime"} \/ InlineOf(p[1]) = "-I")

\* The same elements by cycle, those of one cycle in the order they were given.
ByCycle(given, s) ==
  /\ Len(s) = Len(given) /\ Range(s) = Range(given)
  /\ \A i, j \in DOMAIN s : i < j =>
       \/ s[i].cycle < s[j].cycle
       \/ /\ s[i].cycle = s[j].cycle
          /\ s[i] # s[j] => \E k, l \in DOMAIN given :
                              k < l /\ given[k] = s[i] /\ given[l] = s[j]

Means(pieces, launch) ==
  LET flag(name) == AnyItem(pieces, LAMBDA p : p[1] = name)
      events == [k \in DOMAIN pieces |-> IF Len(pieces[k]) = 2 THEN EventsOf(pieces[k]) ELSE <<>>]
      sends == [k \in DOMAIN Given(pieces, "--send") |-> SendOf(Given(pieces, "--send")[k][2])]
  IN  /\ launch.run.xdc = LastOf(pieces, "--xdc", "")
      /\ launch.run.shot = LastOf(pieces, "--screenshot", "")
      /\ launch.run.log = LastOf(pieces, "--log", "")
      /\ launch.run.frames = IF Given(pieces, "--frames") = <<>> THEN Endless
                             ELSE FramesOf(LastOf(pieces, "--frames", ""))[1]
      /\ launch.scripted = AnyItem(pieces, LAMBDA p : p[1] \in ScriptOptions \ {"--xdc"})
      /\ launch.smoke = flag("--smoke-test") /\ launch.realtime = flag("--realtime")
      /\ ByCycle(FlattenSeq(events), launch.run.stimulus)
      /\ ByCycle(FlattenSeq(sends), launch.run.sends)

\* The cut exists exactly if the line is accepted, and the line is run as it says:
\* the same constraints for the clock that the design is checked with and for the
\* board, the last of repeated options, inputs and sends of one cycle in their order.
AcceptedAsMeant(args, command) ==
  LET words == SubSeq(args, FirstOption(args), Len(args))
      good(pieces) ==
        /\ \A k \in DOMAIN pieces : Proper(pieces[k])
        /\ Len(Given(pieces, "--top")) <= 1
        /\ AnyItem(pieces, LAMBDA p : p[1] = "--smoke-test") =>
             ~AnyItem(pieces, LAMBDA p : p[1] \in ScriptOptions \ {"--xdc"})
      cuts == {c \in Cuts(Len(words)) : good(Pieces(words, c))}
  IN  /\ (command.what = "run") =
           (GoodSources(SubSeq(args, 3, FirstOption(args) - 1)) /\ cuts # {})
      /\ command.what = "run" =>
           /\ command.xdc = command.launch.run.xdc
           /\ \A c \in cuts : Means(Pieces(words, c), command.launch)
=============================================================================
