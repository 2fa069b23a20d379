--------------------------- MODULE VerilatorEngine ---------------------------
(***************************************************************************)
(* engine/VerilatorEngine.cpp: a Verilated model behind the contract of    *)
(* SimEngine. The model's ports are storage that eval() reads and writes;  *)
(* a poke only writes storage and marks the model dirty, a read settles it *)
(* first, and a cycle is two evals with the clock low and high.            *)
(*                                                                         *)
(* The model itself is generated: what eval() does is all that is assumed  *)
(* of it. Registers move when it sees the clock rise.                      *)
(***************************************************************************)
EXTENDS Integers, SequencesExt

CONSTANTS
  PortOrder,         \* external: the supported top-level ports, by name
  Inputs, Clock,     \* the inputs without the clock, and the clock
  Inner,             \* external: supported signals under the top module
  Names,             \* names a caller may look up
  Width(_), WordBits,
  RegsInits, RegsAfter(_, _), Value(_, _, _),    \* external, as in SimEngine
  Amounts, WatchLists, PokeValues                \* as in SimEngine

\* The clock is a one-bit port, which callers may not poke; the others are theirs.
ASSUME EngineAssumption ==
  /\ PortOrder \in Seq(Range(PortOrder))
  /\ Inputs \subseteq Range(PortOrder) /\ Clock \in Range(PortOrder) \ Inputs
  /\ 2 ^ Width(Clock) = 2
  /\ Amounts \subseteq Nat
  /\ WatchLists \subseteq Seq(Range(PortOrder) \cup Inner)

VARIABLES
  model,     \* external: storage of the signals, registers, clock last seen
  dirty,     \* dirty_
  cycle,     \* cycle_
  time,      \* the context's time
  entries,   \* entries_
  byName,    \* byName_: index into entries_, or NoEntry
  tracing,   \* tracing_
  vcd,       \* vcd_: "none" or "open"
  traceFile, \* opts_.traceFile is set
  dumps,     \* external: what the writer was given
  answer,    \* the values the last call returned
  found      \* the signal the last lookup() returned an id of

engineVars == <<model, dirty, cycle, time, entries, byName, tracing, vcd, traceFile,
                dumps, answer, found>>

Done == <<>>
Refused == <<-1>>
NoSignal == "no signal"
NoEntry == 0

Signals == Range(PortOrder) \cup Inner
InputsOf(data) == [n \in Inputs |-> data[n]]

Contract == INSTANCE SimEngine WITH
  Readable <- Signals,
  regs <- model.regs,
  ins <- InputsOf(model.data),
  started <- (vcd = "open"),
  file <- traceFile

-----------------------------------------------------------------------------
(* The Verilated model. *)

\* eval(): registers move on a rising clock, then everything settles.
Eval(m) ==
  LET rises == m.data[Clock] = 1 /\ m.last = 0
      r == IF rises THEN RegsAfter(m.regs, InputsOf(m.data)) ELSE m.regs
  IN  [data |-> [n \in Signals |-> IF n \in Inputs \cup {Clock} THEN m.data[n]
                                   ELSE Value(n, r, InputsOf(m.data))],
       regs |-> r,
       last |-> m.data[Clock]]

\* store(): masked to the width.
Store(m, n, v) == [m EXCEPT !.data[n] = v % 2 ^ Width(n)]

\* The model that a read finds: settled if it was dirty.
Settled(m) == IF dirty THEN Eval(m) ELSE m

-----------------------------------------------------------------------------
(* Time. *)

\* Half of advanceCycle(): a clock level, eval, dump, 5 ns.
HalfCycle(s, level) ==
  LET m == Eval(Store(s.model, Clock, level))
  IN  [model |-> m,
       time |-> s.time + 5,
       dumps |-> IF tracing
                 THEN Append(s.dumps, [time |-> s.time, regs |-> m.regs,
                                       ins |-> InputsOf(m.data)])
                 ELSE s.dumps]

\* The engine after each of k cycles.
AfterCycles(k) ==
  LET after[i \in 0..k] ==
        IF i = 0 THEN [model |-> model, time |-> time, dumps |-> dumps]
        ELSE HalfCycle(HalfCycle(after[i - 1], 0), 1)
  IN  after

\* Mutant: a step of no cycles marks the model as settled.
StillDirtyNever(k) == FALSE

\* Only a step that evaluated has settled the pokes.
StillDirty(k) == dirty /\ k = 0

Advance(k) ==
  /\ LET s == AfterCycles(k)[k]
     IN  model' = s.model /\ time' = s.time /\ dumps' = s.dumps
  /\ cycle' = cycle + k
  /\ dirty' = StillDirty(k)
  /\ UNCHANGED <<entries, byName, found, tracing, vcd, traceFile>>

Step(k) == Advance(k) /\ answer' = Done

\* load() of each lane, shifted to its offset.
Packed(ids, data) ==
  Contract!SumOf([j \in DOMAIN ids |-> data[ids[j]] * 2 ^ Contract!LaneOffset(ids, j)])

\* The lanes are resolved first: a list that does not fit steps nothing.
StepCapture(k, ids) ==
  IF Contract!LaneOffset(ids, Len(ids) + 1) > WordBits
  THEN answer' = Refused /\ UNCHANGED <<model, dirty, cycle, time, entries, byName,
                                        found, tracing, vcd, traceFile, dumps>>
  ELSE /\ Advance(k)
       /\ answer' = [i \in 1..k |-> Packed(ids, AfterCycles(k)[i].model.data)]

-----------------------------------------------------------------------------
(* Signals. *)

\* poke() of an entry: neither the clock nor anything but an input.
Poke(n, v) ==
  /\ IF n \in Inputs
     THEN model' = Store(model, n, v) /\ dirty' = TRUE /\ answer' = Done
     ELSE answer' = Refused /\ UNCHANGED <<model, dirty>>
  /\ UNCHANGED <<cycle, time, entries, byName, found, tracing, vcd, traceFile, dumps>>

\* peek(): settles and reads; an id nobody gave out is refused.
Peek(id) ==
  /\ IF id \in DOMAIN entries
     THEN /\ model' = Settled(model)
          /\ dirty' = FALSE
          /\ answer' = <<model'.data[entries[id]]>>
     ELSE answer' = Refused /\ UNCHANGED <<model, dirty>>
  /\ UNCHANGED <<cycle, time, entries, byName, found, tracing, vcd, traceFile, dumps>>

\* A read of a port and a poke of what was made of it, as setPin() does.
PeekAndPoke(n, v) ==
  /\ IF n \in Inputs
     THEN model' = Store(Settled(model), n, v) /\ dirty' = TRUE /\ answer' = Done
     ELSE model' = Settled(model) /\ dirty' = FALSE /\ answer' = Refused
  /\ UNCHANGED <<cycle, time, entries, byName, found, tracing, vcd, traceFile, dumps>>

\* lookup(): ports are known from the start, inner signals are registered when
\* first asked for, and what does not resolve is remembered too.
Lookup(n) ==
  /\ CASE n \in DOMAIN byName -> UNCHANGED <<entries, byName>>
       [] n \notin DOMAIN byName /\ n \in Inner ->
            /\ entries' = Append(entries, n)
            /\ byName' = [m \in DOMAIN byName \cup {n} |->
                            IF m = n THEN Len(entries') ELSE byName[m]]
       [] OTHER -> /\ byName' = [m \in DOMAIN byName \cup {n} |->
                                   IF m = n THEN NoEntry ELSE byName[m]]
                   /\ UNCHANGED entries
  /\ found' = IF byName'[n] = NoEntry THEN NoSignal ELSE entries'[byName'[n]]
  /\ answer' = Done
  /\ UNCHANGED <<model, dirty, cycle, time, tracing, vcd, traceFile, dumps>>

-----------------------------------------------------------------------------
(* The waveform. *)

SetTraceFile ==
  /\ IF vcd = "open" THEN answer' = Refused /\ UNCHANGED traceFile
                     ELSE answer' = Done /\ traceFile' = TRUE
  /\ UNCHANGED <<model, dirty, cycle, time, entries, byName, found, tracing, vcd, dumps>>

\* trace(true): the file is opened once; it may not open.
TraceOn ==
  /\ \/ /\ vcd = "open" \/ traceFile
        /\ vcd' = "open" /\ tracing' = TRUE /\ answer' = Done
     \/ /\ vcd # "open"
        /\ answer' = Refused /\ UNCHANGED <<vcd, tracing>>
  /\ UNCHANGED <<model, dirty, cycle, time, entries, byName, found, traceFile, dumps>>

\* trace(false)
TraceOff ==
  /\ tracing' = FALSE /\ answer' = Done
  /\ UNCHANGED <<model, dirty, cycle, time, entries, byName, found, vcd, traceFile, dumps>>

\* Construction: one eval with all inputs low, every port registered.
EngineInit ==
  /\ \E r \in RegsInits :
       model = Eval([data |-> [n \in Signals |-> 0], regs |-> r, last |-> 0])
  /\ dirty = FALSE
  /\ cycle = 0 /\ time = 0
  /\ entries = PortOrder
  /\ byName = [n \in Range(PortOrder) |-> CHOOSE i \in DOMAIN PortOrder : PortOrder[i] = n]
  /\ tracing = FALSE /\ vcd = "none" /\ traceFile = FALSE
  /\ dumps = <<>>
  /\ answer = Done /\ found = NoSignal

\* Any caller. VideoBoard says which calls the board and the inspector make.
EngineNext ==
  \/ \E k \in Amounts : Step(k) \/ \E ids \in WatchLists : StepCapture(k, ids)
  \/ \E n \in Range(PortOrder), v \in PokeValues : Poke(n, v) \/ PeekAndPoke(n, v)
  \/ \E id \in 1..Len(entries) + 1 : Peek(id)
  \/ \E n \in Names : Lookup(n)
  \/ SetTraceFile \/ TraceOn \/ TraceOff

EngineSpec == EngineInit /\ [][EngineNext]_engineVars

-----------------------------------------------------------------------------
\* The engine keeps SimEngine.h's contract: whatever the order of pokes, reads,
\* steps of any size and traces, a read returns the settled value of the signal
\* asked for, an edge sees every poke before it, capturing is stepping and
\* reading, time stands still otherwise, and reads never show in the waveform.
EngineImplements == Contract!Spec

-----------------------------------------------------------------------------
(* Why it does: an inductive invariant. *)

\* The clock shows, and was last seen, high, except before the first cycle; and
\* a model that is not dirty is settled.
ModelKept ==
  /\ model = [data |-> model.data, regs |-> model.regs, last |-> model.last]
  /\ model.data = [n \in Signals |-> model.data[n]]
  /\ model.data[Clock] = IF cycle = 0 THEN 0 ELSE 1
  /\ model.last = model.data[Clock]
  /\ ~dirty => \A n \in Signals \ (Inputs \cup {Clock}) :
                 model.data[n] = Value(n, model.regs, InputsOf(model.data))

\* There is one counter of time; a cycle is ten of its units.
TimeKept ==
  /\ cycle \in Nat /\ time = 10 * cycle
  /\ dirty \in BOOLEAN /\ tracing \in BOOLEAN /\ traceFile \in BOOLEAN
  /\ vcd \in {"none", "open"}
  /\ tracing => vcd = "open"
  /\ vcd = "open" => traceFile
  /\ \E D : dumps \in Seq(D)

\* An id is the signal it was given out for, and what was not found does not exist.
NamesKept ==
  /\ entries \in Seq(Signals)
  /\ Range(PortOrder) \subseteq DOMAIN byName
  /\ \A n \in DOMAIN byName :
       IF byName[n] = NoEntry THEN n \notin Signals
       ELSE byName[n] \in DOMAIN entries /\ entries[byName[n]] = n

EngineInv == ModelKept /\ TimeKept /\ NamesKept
=============================================================================
