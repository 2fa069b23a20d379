------------------------------ MODULE SimEngine ------------------------------
(***************************************************************************)
(* What engine/SimEngine.h promises of an engine, whichever it is: cycles  *)
(* advance only by step() and stepCapture(), a poke is seen by every later *)
(* read and by the next edge, a read changes nothing, and the waveform has *)
(* two dumps for each cycle traced. VerilatorEngine is shown to keep it.   *)
(***************************************************************************)
EXTENDS Integers, SequencesExt

CONSTANTS
  Inputs,            \* top-level inputs, without the clock
  Clock,
  Readable,          \* names that resolve
  Names,             \* names a caller may look up
  Width(_),          \* SignalInfo::width
  WordBits,          \* 64: the bits of a packed sample
  RegsInits,         \* external: the design's registers after construction
  RegsAfter(_, _),   \* external: its registers after a rising edge, for these inputs
  Value(_, _, _),    \* external: a signal, from the registers and the inputs
  Amounts,           \* cycles to step
  WatchLists,        \* signals to capture
  PokeValues         \* values to poke

VARIABLES
  cycle,    \* now()
  regs,     \* external: the design's registers
  ins,      \* the inputs
  answer,   \* the values the last call returned
  found,    \* the signal the last lookup() found
  tracing,  \* dumps are written
  started,  \* tracing was on before
  file,     \* a file was set
  dumps     \* the waveform

vars == <<cycle, regs, ins, answer, found, tracing, started, file, dumps>>

Done == <<>>
Refused == <<-1>>
NoSignal == "no signal"

Read(n, c, r, in) ==
  IF n = Clock THEN (IF c = 0 THEN 0 ELSE 1)
  ELSE IF n \in Inputs THEN in[n] ELSE Value(n, r, in)

SumOf(s) == FoldLeft(LAMBDA a, b : a + b, 0, s)

\* Where the j-th signal of a list is in a packed sample: LSB first, in order.
LaneOffset(ids, j) == SumOf([i \in 1..j - 1 |-> Width(ids[i])])
Packed(ids, c, r, in) ==
  SumOf([j \in DOMAIN ids |-> Read(ids[j], c, r, in) * 2 ^ LaneOffset(ids, j)])

RegsIn(k) ==
  LET after[i \in 0..k] == IF i = 0 THEN regs ELSE RegsAfter(after[i - 1], ins)
  IN  after

Dump(t, r) == [time |-> t, regs |-> r, ins |-> ins]

Advance(k) ==
  /\ cycle' = cycle + k
  /\ regs' = RegsIn(k)[k]
  /\ dumps' = IF tracing
              THEN dumps \o [j \in 1..2 * k |->
                               Dump(10 * cycle + 5 * (j - 1), RegsIn(k)[j \div 2])]
              ELSE dumps
  /\ UNCHANGED <<ins, found, tracing, started, file>>

Step(k) == Advance(k) /\ answer' = Done

\* Exactly step(1) and a packed read, k times.
StepCapture(k, ids) ==
  /\ Advance(k)
  /\ answer' = [i \in 1..k |-> Packed(ids, cycle + i, RegsIn(k)[i], ins)]

Poke(n, v) ==
  /\ ins' = [ins EXCEPT ![n] = v % 2 ^ Width(n)]
  /\ answer' = Done
  /\ UNCHANGED <<cycle, regs, found, tracing, started, file, dumps>>

Answers(a) == answer' = a /\ UNCHANGED <<cycle, regs, ins, found, tracing, started, file, dumps>>

Peek(n) == Answers(<<Read(n, cycle, regs, ins)>>)

\* A call with an argument that the contract excludes.
Refuse == Answers(Refused)

Lookup(n) ==
  /\ found' = IF n \in Readable THEN n ELSE NoSignal
  /\ answer' = Done
  /\ UNCHANGED <<cycle, regs, ins, tracing, started, file, dumps>>

SetTraceFile ==
  /\ ~started
  /\ file' = TRUE /\ answer' = Done
  /\ UNCHANGED <<cycle, regs, ins, found, tracing, started, dumps>>

Trace(on) ==
  /\ on => file
  /\ tracing' = on /\ started' = (started \/ on)
  /\ answer' = Done
  /\ UNCHANGED <<cycle, regs, ins, found, file, dumps>>

Init ==
  /\ cycle = 0 /\ regs \in RegsInits /\ ins = [n \in Inputs |-> 0]
  /\ answer = Done /\ found = NoSignal
  /\ tracing = FALSE /\ started = FALSE /\ file = FALSE /\ dumps = <<>>

Next ==
  \/ \E k \in Amounts : Step(k) \/ \E ids \in WatchLists : StepCapture(k, ids)
  \/ \E n \in Inputs, v \in PokeValues : Poke(n, v)
  \/ \E n \in Readable : Peek(n)
  \/ \E n \in Names : Lookup(n)
  \/ Refuse
  \/ SetTraceFile
  \/ \E on \in BOOLEAN : Trace(on)

Spec == Init /\ [][Next]_vars
=============================================================================
