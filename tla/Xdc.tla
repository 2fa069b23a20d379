-------------------------------- MODULE Xdc --------------------------------
(***************************************************************************)
(* constraints/Xdc.cpp: the literal subset of Tcl in which constraints are *)
(* written, and the document read from it.                                 *)
(*                                                                         *)
(* A text is a sequence of symbols. A symbol is one character, or a word   *)
(* that stands for a run of ordinary characters and is read in one piece;  *)
(* no word comes after a backslash. What is optional is a sequence of at   *)
(* most one. Warnings are no content and are left out.                     *)
(***************************************************************************)
EXTENDS Integers, SequencesExt

CONSTANTS
  NumberOf(_),   \* std::from_chars on a text: a number, or nothing
  NumeralOf(_)   \* the text of a number

Nothing == <<>>
Spaces == {" ", "\n"}
Rest(t, i) == SubSeq(t, i, Len(t))

RECURSIVE Blankless(_), Continued(_), GroupEnd(_, _, _), ReadWord(_, _, _, _, _)
RECURSIVE ReadTokens(_, _, _, _), ClockArguments(_, _, _), ParsedFrom(_, _, _)

Blankless(t) == IF t # <<>> /\ t[1] = " " THEN Blankless(Tail(t)) ELSE t

\* continued(): a backslash before a newline, the newline and the blanks after
\* it are one blank. Another escaped character cannot begin a continuation.
Continued(t) ==
  IF Len(t) < 2 THEN t
  ELSE IF t[1] # "\\" THEN <<t[1]>> \o Continued(Tail(t))
  ELSE IF t[2] = "\n" THEN <<" ">> \o Continued(Blankless(Rest(t, 3)))
  ELSE SubSeq(t, 1, 2) \o Continued(Rest(t, 3))

-----------------------------------------------------------------------------
(* Tokens. *)

NoEnd == 0

\* What opens and closes a group inside another: braces make brackets literal,
\* quotes keep brackets inside.
Openers(top) == CASE top = "{" -> {"{"} [] top = "\"" -> {} [] OTHER -> {"[", "{", "\""}
Closer(top) == CASE top = "{" -> "}" [] top = "\"" -> "\"" [] OTHER -> "]"

\* groupEnd(): the position after the group whose openers, innermost first, are
\* still open at i.
GroupEnd(t, i, open) ==
  IF open = <<>> THEN i
  ELSE IF i > Len(t) THEN NoEnd
  ELSE LET escape == t[i] = "\\" /\ i < Len(t)
       IN  GroupEnd(t, IF escape THEN i + 2 ELSE i + 1,
             IF escape THEN open
             ELSE IF t[i] \in Openers(Head(open)) THEN <<t[i]>> \o open
             ELSE IF t[i] = Closer(Head(open)) THEN Tail(open) ELSE open)

Token(kind, text, literal) == [kind |-> kind, text |-> text, literal |-> literal]
Bracketed(token) == token.kind = "bracketed"

\* A token may end here; a list knows no semicolons.
Ends(t, i, list) == i > Len(t) \/ t[i] \in Spaces \/ (~list /\ t[i] = ";")

Unread == [ok |-> FALSE]
Token1(token, next) == [ok |-> TRUE, token |-> token, next |-> next]

\* A braced or bracketed word keeps its inside as it is.
Group(t, i, list, end) ==
  IF end = NoEnd \/ ~Ends(t, end, list) THEN Unread
  ELSE Token1(Token(IF t[i] = "{" THEN "braced" ELSE "bracketed",
                    SubSeq(t, i + 1, end - 2), TRUE), end)
ReadGroup(t, i, list) == Group(t, i, list, GroupEnd(t, i + 1, <<t[i]>>))

\* escaped(): numeric escapes are not decoded, but refused.
Unescaped(c) == IF c = "n" THEN "\n" ELSE c
NumericEscapes == {"x", "0"}

\* The next part of a plain or quoted word: an escape, a substitution, a symbol.
Part(text, literal, next) == Token1(Token("word", text, literal), next)
Substitution(t, i, end) ==
  IF end = NoEnd THEN Unread ELSE Part(SubSeq(t, i, end - 1), FALSE, end)
ReadPart(t, i, list) ==
  IF t[i] = "\\"
  THEN IF i = Len(t) THEN Unread
       ELSE Part(<<Unescaped(t[i + 1])>>, t[i + 1] \notin NumericEscapes, i + 2)
  ELSE IF ~list /\ t[i] = "[" THEN Substitution(t, i, GroupEnd(t, i + 1, <<"[">>))
  ELSE Part(<<t[i]>>, list \/ t[i] # "$", i + 1)

\* The rest of a word from i, after the part in tok.
WordAfter(t, list, quote, tok, read) ==
  IF read = Unread THEN Unread
  ELSE ReadWord(t, read.next, list, quote,
         Token("word", tok.text \o read.token.text, tok.literal /\ read.token.literal))
ReadWord(t, i, list, quote, tok) ==
  IF i > Len(t) THEN IF quote THEN Unread ELSE Token1(tok, i)
  ELSE IF quote /\ t[i] = "\"" THEN
    (IF Ends(t, i + 1, list) THEN Token1(tok, i + 1) ELSE Unread)
  ELSE IF ~quote /\ Ends(t, i, list) THEN Token1(tok, i)
  ELSE WordAfter(t, list, quote, tok, ReadPart(t, i, list))

\* readToken()
ReadToken(t, i, list) ==
  IF t[i] = "{" \/ (t[i] = "[" /\ ~list) THEN ReadGroup(t, i, list)
  ELSE LET quote == t[i] = "\""
       IN  ReadWord(t, IF quote THEN i + 1 ELSE i, list, quote, Token("word", <<>>, TRUE))

\* The tokens from i up to a stop.
Prefixed(token, more) == IF more = Unread THEN Unread ELSE [more EXCEPT !.tokens = <<token>> \o @]
TokensAfter(t, list, stops, read) ==
  IF read = Unread THEN Unread ELSE Prefixed(read.token, ReadTokens(t, read.next, list, stops))
ReadTokens(t, i, list, stops) ==
  IF i > Len(t) \/ t[i] \in stops THEN [ok |-> TRUE, tokens |-> <<>>, next |-> i]
  ELSE IF t[i] \in Spaces THEN ReadTokens(t, i + 1, list, stops)
  ELSE TokensAfter(t, list, stops, ReadToken(t, i, list))

Literal(tokens) == \A k \in DOMAIN tokens : tokens[k].literal

\* tokenize(): the tokens of a whole text, or nothing.
AllTokens(t, read) ==
  IF read.ok /\ read.next > Len(t) /\ Literal(read.tokens) THEN <<read.tokens>> ELSE Nothing
Tokenized(t, list) == AllTokens(t, ReadTokens(t, 1, list, IF list THEN {} ELSE {";"}))

-----------------------------------------------------------------------------
(* Ports and targets. *)

Trimmed(t) ==
  LET solid == {i \in DOMAIN t : t[i] \notin Spaces}
  IN  IF solid = {} THEN <<>> ELSE SubSeq(t, Min(solid), Max(solid))

PortRef(port, bit) == [port |-> port, bit |-> bit]

\* PortRef::parse(): no lists, patterns or ranges.
PortRefOf(text) ==
  LET t == Trimmed(text)
      opens == {i \in DOMAIN t : t[i] = "["}
      bit == NumberOf(SubSeq(t, Min(opens) + 1, Len(t) - 1))
  IN  IF t = <<>> \/ Range(t) \cap (Spaces \cup {"*", "?"}) # {} THEN Nothing
      ELSE IF opens = {} THEN (IF "]" \in Range(t) THEN Nothing ELSE <<PortRef(t, Nothing)>>)
      ELSE IF Min(opens) = 1 \/ Last(t) # "]" \/ bit = Nothing THEN Nothing
      ELSE <<PortRef(SubSeq(t, 1, Min(opens) - 1), bit)>>

\* PortRef::toString()
PortText(ref) ==
  IF ref.bit = Nothing THEN ref.port ELSE ref.port \o <<"[">> \o NumeralOf(ref.bit[1]) \o <<"]">>

CurrentDesign == PortRef(<<>>, Nothing)

\* parseTarget(): the design, a port, or nothing that is supported.
TargetIn(inner) ==
  LET words == inner[1]
  IN  IF inner = Nothing \/ inner = <<<<>>>> \/ \E k \in DOMAIN words : Bracketed(words[k])
      THEN Nothing
      ELSE IF words[1].text = <<"current_design">> /\ Len(words) = 1 THEN <<CurrentDesign>>
      ELSE IF words[1].text = <<"get_ports">> /\ Len(words) = 2 THEN PortRefOf(words[2].text)
      ELSE Nothing
TargetOf(token) == IF Bracketed(token) THEN TargetIn(Tokenized(token.text, FALSE)) ELSE Nothing

-----------------------------------------------------------------------------
(* The document. *)

NoConstraints == [pins |-> <<>>, clocks |-> <<>>, design |-> <<>>]

\* The last value given to a key, at the place of the first.
Put(props, key, value) ==
  IF \E k \in DOMAIN props : props[k][1] = key
  THEN [k \in DOMAIN props |-> IF props[k][1] = key THEN <<key, value>> ELSE props[k]]
  ELSE Append(props, <<key, value>>)
PutAll(props, more) == FoldLeft(LAMBDA ps, p : Put(ps, p[1], p[2]), props, more)

\* applyPinProp(), for every property of a command.
WithProperties(pin, props) ==
  FoldLeft(LAMBDA p, kv :
             CASE kv[1] = <<"PACKAGE_PIN">> -> [p EXCEPT !.package = <<kv[2]>>]
               [] kv[1] = <<"IOSTANDARD">> -> [p EXCEPT !.standard = <<kv[2]>>]
               [] OTHER -> [p EXCEPT !.extra = Put(@, kv[1], kv[2])],
           pin, props)

\* pinFor(): one entry for each port reference.
WithPin(pins, ref, props) ==
  IF \E k \in DOMAIN pins : pins[k].port = ref
  THEN [k \in DOMAIN pins |-> IF pins[k].port = ref THEN WithProperties(pins[k], props)
                              ELSE pins[k]]
  ELSE Append(pins, WithProperties([port |-> ref, package |-> Nothing, standard |-> Nothing,
                                    extra |-> <<>>], props))

\* parseSetProperty(): a list of keys and values, or one of each, for a target.
Pairs(list) ==
  IF list = Nothing \/ Len(list[1]) % 2 # 0 THEN <<>>
  ELSE [k \in 1..Len(list[1]) \div 2 |-> <<list[1][2 * k - 1].text, list[1][2 * k].text>>]
PropertiesOf(toks) ==
  IF toks[2].text = <<"-dict">> THEN Pairs(Tokenized(toks[3].text, TRUE))
  ELSE <<<<toks[2].text, toks[3].text>>>>
WithConstraints(doc, props, target) ==
  IF props = <<>> \/ target = Nothing THEN doc
  ELSE IF target = <<CurrentDesign>> THEN [doc EXCEPT !.design = PutAll(@, props)]
  ELSE [doc EXCEPT !.pins = WithPin(@, target[1], props)]
SetProperty(doc, toks) ==
  IF Len(toks) # 4 \/ Bracketed(toks[2]) \/ Bracketed(toks[3]) THEN doc
  ELSE WithConstraints(doc, PropertiesOf(toks), TargetOf(toks[4]))

Clock0 == [name |-> Nothing, period |-> Nothing, wave |-> Nothing, add |-> FALSE, port |-> Nothing]

\* Exactly two numbers.
WaveformIn(edges) ==
  LET number(k) == NumberOf(edges[1][k].text)
  IN  IF edges # Nothing /\ Len(edges[1]) = 2 /\ number(1) # Nothing /\ number(2) # Nothing
      THEN <<<<number(1)[1], number(2)[1]>>>> ELSE Nothing
Waveform(text) == WaveformIn(Tokenized(text, TRUE))

Positive(number) == number # Nothing /\ number[1] > 0
AtPort(clock, target) ==
  IF target \in {Nothing, <<CurrentDesign>>} THEN Nothing ELSE <<[clock EXCEPT !.port = target]>>

\* The options of create_clock that have a value.
Valued(toks, k) ==
  /\ ~Bracketed(toks[k]) /\ k < Len(toks)
  /\ toks[k].text \in {<<"-name">>, <<"-period">>, <<"-waveform">>}

\* The clock with the argument at k, or nothing when the command is skipped.
WithArgument(toks, k, clock) ==
  LET value == toks[k + 1].text
  IN  IF Bracketed(toks[k]) THEN AtPort(clock, TargetOf(toks[k]))
      ELSE IF ~Valued(toks, k) THEN <<[clock EXCEPT !.add = @ \/ toks[k].text = <<"-add">>]>>
      ELSE IF Bracketed(toks[k + 1]) THEN Nothing
      ELSE CASE toks[k].text = <<"-name">> -> <<[clock EXCEPT !.name = <<value>>]>>
             [] toks[k].text = <<"-waveform">> -> <<[clock EXCEPT !.wave = Waveform(value)]>>
             [] OTHER -> IF Positive(NumberOf(value))
                         THEN <<[clock EXCEPT !.period = NumberOf(value)]>> ELSE Nothing

MoreArguments(toks, k, clocks) ==
  IF clocks = Nothing THEN Nothing ELSE ClockArguments(toks, k, clocks[1])
ClockArguments(toks, k, clock) ==
  IF k > Len(toks) THEN <<clock>>
  ELSE MoreArguments(toks, IF Valued(toks, k) THEN k + 2 ELSE k + 1, WithArgument(toks, k, clock))

\* Distinct edges within one period.
GoodWave(w, period) == w[1] # w[2] /\ \A k \in 1..2 : 0 <= w[k] /\ w[k] < period

\* parseCreateClock(): other edges are dropped.
WithClock(doc, clock) ==
  IF clock.period = Nothing \/ clock.port = Nothing THEN doc
  ELSE [doc EXCEPT !.clocks = Append(@,
          IF clock.wave = Nothing \/ GoodWave(clock.wave[1], clock.period[1]) THEN clock
          ELSE [clock EXCEPT !.wave = Nothing])]
Created(doc, read) == IF read = Nothing THEN doc ELSE WithClock(doc, read[1])
CreateClock(doc, toks) == Created(doc, ClockArguments(toks, 2, Clock0))

Command(doc, toks) ==
  IF toks = <<>> \/ ~Literal(toks) \/ Bracketed(toks[1]) THEN doc
  ELSE CASE toks[1].text = <<"set_property">> -> SetProperty(doc, toks)
         [] toks[1].text = <<"create_clock">> -> CreateClock(doc, toks)
         [] OTHER -> doc

\* The position after the line that i is in.
NextLine(t, i) ==
  LET ends == {j \in i..Len(t) : t[j] = "\n"} IN IF ends = {} THEN Len(t) + 1 ELSE Min(ends) + 1

\* The loop of parseXdc(): a comment only where a command may begin; a malformed
\* command costs the line it begins in.
AfterCommand(t, i, doc, read) ==
  IF read = Unread THEN ParsedFrom(t, NextLine(t, i), doc)
  ELSE ParsedFrom(t, read.next, Command(doc, read.tokens))
ParsedFrom(t, i, doc) ==
  IF i > Len(t) THEN doc
  ELSE IF t[i] \in Spaces \cup {";", "#"}
  THEN ParsedFrom(t, IF t[i] = "#" THEN NextLine(t, i) ELSE i + 1, doc)
  ELSE AfterCommand(t, i, doc, ReadTokens(t, i, FALSE, {"\n", ";"}))

ParseXdc(text) == ParsedFrom(Continued(text), 1, NoConstraints)

-----------------------------------------------------------------------------
(* writeXdc(). *)

Special == {" ", "\n", "{", "}", "[", "]", "$", ";", "\\", "\"", "#"}
Escaped(c) ==
  CASE c = "\n" -> <<"\\", "n">>
    [] c \in {"\\", "\"", "$", "[", "]", "{", "}"} -> <<"\\", c>>
    [] OTHER -> <<c>>

\* Mutant: a value with special characters is wrapped in braces.
QuotedInBraces(v) ==
  IF v # <<>> /\ Range(v) \cap Special = {} THEN v ELSE <<"{">> \o v \o <<"}">>

\* quoted()
Quoted(v) ==
  IF v # <<>> /\ Range(v) \cap Special = {} THEN v
  ELSE <<"\"">> \o FlattenSeq([k \in DOMAIN v |-> Escaped(v[k])]) \o <<"\"">>

\* Words of a command, with blanks between.
Spaced(words) == FlattenSeq([k \in DOMAIN words |-> <<" ">> \o words[k]])
If(optional, Text(_)) == IF optional = Nothing THEN <<>> ELSE Text(optional[1])
Ports(ref) == <<" ", "[", "get_ports", " ">> \o Quoted(PortText(ref)) \o <<"]", "\n">>

PinLine(p) ==
  <<"set_property", " ", "-dict", " ", "{">>
    \o If(p.package, LAMBDA v : <<" ", "PACKAGE_PIN", " ">> \o Quoted(v))
    \o If(p.standard, LAMBDA v : <<" ", "IOSTANDARD", " ">> \o Quoted(v))
    \o Spaced(FlattenSeq([k \in DOMAIN p.extra |-> <<Quoted(p.extra[k][1]), Quoted(p.extra[k][2])>>]))
    \o <<" ", "}">> \o Ports(p.port)

ClockLine(c) ==
  <<"create_clock">>
    \o (IF c.add THEN <<" ", "-add">> ELSE <<>>)
    \o If(c.name, LAMBDA v : <<" ", "-name", " ">> \o Quoted(v))
    \o <<" ", "-period", " ">> \o NumeralOf(c.period[1])
    \o If(c.wave, LAMBDA w : <<" ", "-waveform", " ", "{">> \o NumeralOf(w[1]) \o <<" ">>
                               \o NumeralOf(w[2]) \o <<"}">>)
    \o Ports(c.port[1])

DesignLine(kv) == <<"set_property">> \o Spaced(<<Quoted(kv[1]), Quoted(kv[2])>>)
                    \o <<" ", "[", "current_design", "]", "\n">>

Lines(records, Line(_)) == FlattenSeq([k \in DOMAIN records |-> Line(records[k])])
WriteXdc(doc) ==
  Lines(doc.pins, PinLine) \o Lines(doc.clocks, ClockLine) \o Lines(doc.design, DesignLine)

-----------------------------------------------------------------------------
\* A document is what its text says. (The exception the code makes: a design
\* property named -dict is written in the form that begins a list.)
RoundTrips(d) ==
  (\A k \in DOMAIN d.design : d.design[k][1] # <<"-dict">>) => ParseXdc(WriteXdc(d)) = d
=============================================================================
