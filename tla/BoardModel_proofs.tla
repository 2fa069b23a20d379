-------------------------- MODULE BoardModel_proofs --------------------------
(***************************************************************************)
(* Proofs about the board's loop, for every design, grid, bit length and   *)
(* every use of tick(); and, as long as nobody steps the engine behind it  *)
(* and ticks have at least one cycle, that the log and the design's state  *)
(* are a function of the schedule of calls alone.                          *)
(***************************************************************************)
EXTENDS BoardReference, SequenceTheorems, FiniteSetTheorems, TLAPS

\* What is proved of the driver under its own caller.
RxP == INSTANCE UartRxDriver_proofs

\* The design's registers, as a recursion.
DesignStep(state, k) == DesignCycle(state, InputsIn(k - 1))
Design == INSTANCE Recursion WITH Base <- DesignInit, Step <- DesignStep

-----------------------------------------------------------------------------
(* The observation grid. *)

\* Quotient and remainder.
LEMMA Quotient ==
  ASSUME NEW n \in Nat, NEW c \in Nat \ {0}
  PROVE  n \div c \in Nat /\ (n \div c) * c \in Nat
<1>1. n \div c \in Nat
  OBVIOUS
<1>2. \A d \in Nat : d * c \in Nat
  OBVIOUS
<1> QED BY <1>1, <1>2

LEMMA Remainder ==
  ASSUME NEW n \in Nat, NEW c \in Nat \ {0}
  PROVE  n % c \in 0..(c - 1)
OBVIOUS

LEMMA Division ==
  ASSUME NEW n \in Nat, NEW c \in Nat \ {0}
  PROVE  n = (n \div c) * c + (n % c)
OBVIOUS

\* They are the only ones.
LEMMA DivisionIs ==
  ASSUME NEW n \in Nat, NEW c \in Nat \ {0}, NEW q \in Nat, NEW r \in 0..(c - 1), n = q * c + r
  PROVE  n \div c = q /\ n % c = r
OBVIOUS

LEMMA ChunkDivides ==
  ASSUME NEW n \in Nat
  PROVE  /\ n \div Chunk \in Nat /\ n % Chunk \in 0..(Chunk - 1)
         /\ (n \div Chunk) * Chunk \in Nat
         /\ n = (n \div Chunk) * Chunk + (n % Chunk)
BY BoardAssumption, Quotient, Remainder, Division

\* The next crossing is ahead, and at most a chunk away.
LEMMA GridAhead ==
  ASSUME now \in Nat
  PROVE  NextGrid \in Nat /\ NextGrid > now /\ NextGrid = LastGrid(now) + Chunk
<1>1. Chunk \in Nat /\ Chunk > 0
  BY BoardAssumption
<1>2. PICK d \in Nat : d = now \div Chunk
  BY ChunkDivides
<1>3. d * Chunk \in Nat /\ (d + 1) * Chunk = d * Chunk + Chunk
  BY <1>1
<1>4. now % Chunk \in 0..(Chunk - 1) /\ now = d * Chunk + (now % Chunk)
  BY <1>2, ChunkDivides
<1>5. NextGrid = (d + 1) * Chunk /\ LastGrid(now) = d * Chunk
  BY <1>2 DEF NextGrid, LastGrid
<1>6. PICK p \in Nat : p = d * Chunk
  BY <1>3
<1> QED BY <1>1, <1>3, <1>4, <1>5, <1>6

\* The least of three numbers.
LEMMA LeastIsMin ==
  ASSUME NEW S, NEW m \in S, \A y \in S : m <= y
  PROVE  Min(S) \in S /\ \A y \in S : Min(S) <= y
BY Zenon DEF Min

LEMMA MinOfThree ==
  ASSUME NEW a \in Int, NEW b \in Int, NEW c \in Int
  PROVE  /\ Min({a, b, c}) \in {a, b, c}
         /\ Min({a, b, c}) <= a /\ Min({a, b, c}) <= b /\ Min({a, b, c}) <= c
<1>1. \E m \in {a, b, c} : \A y \in {a, b, c} : m <= y
  OBVIOUS
<1> QED BY <1>1, LeastIsMin

-----------------------------------------------------------------------------
(* tick()'s loop, whatever callers do to the clock. *)

\* The driver's fields, also when its edges are late.
RxTyped ==
  /\ queue \in Seq(Bytes) /\ shifting \in BOOLEAN
  /\ shifting <=> (queue # <<>>)
  /\ frameStart \in Nat /\ lineFree \in Nat /\ edgeIndex \in Nat

LEMMA EdgeIsInt ==
  ASSUME RxTyped
  PROVE  Rx!EdgeCycle \in Nat /\ Rx!EdgeCycle = frameStart + edgeIndex * Bit
<1>1. Bit \in Nat
  BY BoardAssumption
<1>2. edgeIndex * Bit \in Nat
  BY <1>1 DEF RxTyped
<1> QED BY <1>2 DEF RxTyped, Rx!EdgeCycle

\* send() and advance() keep them.
LEMMA SendTyped ==
  ASSUME RxTyped, now \in Nat, NEW b \in Bytes, Rx!Send(b)
  PROVE  RxTyped'
<1>1. queue' \in Seq(Bytes) /\ queue' # <<>>
  <2>1. queue \in Seq(Bytes) /\ queue' = Append(queue, b)
    BY DEF RxTyped, Rx!Send
  <2> QED BY <2>1, AppendProperties
<1>2. frameStart' \in Nat /\ edgeIndex' \in Nat
  BY DEF RxTyped, Rx!Send, Rx!IdleStart, Rx!Later
<1> QED BY <1>1, <1>2 DEF RxTyped, Rx!Send

LEMMA AdvanceTyped ==
  ASSUME RxTyped, shifting, Rx!AdvanceEdge
  PROVE  RxTyped'
<1>1. Rx!Frame \in Nat
  <2>1. \A d, b \in Nat : (d + 2) * b \in Nat
    OBVIOUS
  <2> QED BY <2>1, BoardAssumption DEF Rx!Frame
<1>2. CASE edgeIndex = Rx!StopEdge
  <2>1. queue \in Seq(Bytes) /\ queue # <<>> /\ Rx!FinishFrame
    BY <1>2 DEF RxTyped, Rx!AdvanceEdge
  <2>2. Tail(queue) \in Seq(Bytes)
    BY <2>1, HeadTailProperties
  <2>3. queue' = Tail(queue) /\ shifting' = (queue' # <<>>)
    BY <2>1 DEF Rx!FinishFrame
  <2>4. frameStart' \in Nat /\ lineFree' \in Nat /\ edgeIndex' \in Nat
    BY <1>1, <2>1 DEF RxTyped, Rx!FinishFrame
  <2> QED BY <2>2, <2>3, <2>4 DEF RxTyped
<1>3. CASE edgeIndex # Rx!StopEdge
  BY <1>3 DEF RxTyped, Rx!AdvanceEdge
<1> QED BY <1>2, <1>3

\* The end of a segment: the nearest of the grid, the caller's end and the edge.
LEMMA TargetBetween ==
  ASSUME RxTyped, TickInv, pc = "step"
  PROVE  /\ Target \in Nat /\ now < Target /\ Target <= end /\ Target <= NextGrid
         /\ shifting => Target <= Rx!EdgeCycle
<1>1. /\ NextGrid \in Nat /\ NextGrid > now /\ end \in Nat /\ end > now /\ now \in Nat
      /\ Rx!EdgeCycle \in Nat /\ (shifting => Rx!EdgeCycle > now)
  <2>1. now \in Nat /\ end \in Nat /\ end > now /\ ~Rx!EdgeDueBy(now)
    BY BoardAssumption DEF TickInv
  <2> QED BY <2>1, GridAhead, EdgeIsInt DEF Rx!EdgeDueBy
<1>2. CASE shifting
  <2>1. Target = Min({NextGrid, end, Rx!EdgeCycle})
    <3>1. {NextGrid, end, Rx!EdgeCycle} = {NextGrid, end} \cup {Rx!EdgeCycle}
      OBVIOUS
    <3> QED BY <1>2, <3>1 DEF Target
  <2>2. /\ Target \in {NextGrid, end, Rx!EdgeCycle}
        /\ Target <= NextGrid /\ Target <= end /\ Target <= Rx!EdgeCycle
    <3>1. NextGrid \in Int /\ end \in Int /\ Rx!EdgeCycle \in Int
      BY <1>1
    <3> QED BY <2>1, <3>1, MinOfThree, Zenon
  <2> QED BY <1>1, <1>2, <2>2
<1>3. CASE ~shifting
  <2>1. Target = Min({NextGrid, end, end})
    <3>1. {NextGrid, end, end} = {NextGrid, end} \cup {}
      OBVIOUS
    <3> QED BY <1>3, <3>1 DEF Target
  <2>2. Target \in {NextGrid, end, end} /\ Target <= NextGrid /\ Target <= end
    <3>1. NextGrid \in Int /\ end \in Int
      BY <1>1
    <3> QED BY <2>1, <3>1, MinOfThree, Zenon
  <2> QED BY <1>1, <1>3, <2>2
<1> QED BY <1>2, <1>3

\* A segment ends at its target.
LEMMA SegmentMoves ==
  ASSUME RxTyped, TickInv, Segment
  PROVE  /\ now' = Target /\ now' \in Nat /\ now < now' /\ now' <= end
         /\ UNCHANGED <<rxVars, end, held, calls, direct>> /\ pc' = "edges"
<1>1. Target \in Nat /\ now < Target /\ Target <= end /\ now \in Nat
  BY TargetBetween, BoardAssumption DEF Segment, TickInv
<1>2. now' = now + (Target - now)
  BY DEF Segment, EngineStep, Rx!Hold
<1> QED BY <1>1, <1>2 DEF Segment

LoopInv == RxTyped /\ TickInv

LEMMA InitLoop == Init => LoopInv
<1> SUFFICES ASSUME Init PROVE LoopInv
  OBVIOUS
<1>1. queue \in Seq(Bytes)
  BY EmptySeq DEF Init, Rx!RxInit
<1>2. 0 \in 0..MaxCycle
  BY BoardAssumption
<1>3. RxTyped
  BY <1>1 DEF Init, Rx!RxInit, RxTyped
<1>4. TickInv
  BY <1>2 DEF Init, TickInv
<1> QED BY <1>3, <1>4 DEF LoopInv

LEMMA NextLoop == LoopInv /\ [Next]_vars => LoopInv'
<1> SUFFICES ASSUME LoopInv, [Next]_vars PROVE LoopInv'
  OBVIOUS
<1> USE DEF LoopInv
<1>0. now \in Nat /\ end \in Nat /\ MaxCycle \in Nat /\ direct \in Nat
  BY BoardAssumption DEF TickInv
<1>1. ASSUME NEW n \in TickSizes, Tick(n) PROVE LoopInv'
  <2>1. n \in Nat
    BY BoardAssumption
  <2>2. TickInv'
    BY <1>0, <1>1, <2>1 DEF Tick, TickInv
  <2> QED BY <1>1, <2>2 DEF Tick, rxVars, RxTyped
<1>2. CASE ApplyEdge
  <2>1. RxTyped'
    BY <1>2, AdvanceTyped DEF ApplyEdge, EdgeDue, Rx!EdgeDueBy
  <2>2. TickInv'
    BY <1>2 DEF ApplyEdge, TickInv
  <2> QED BY <2>1, <2>2
<1>3. CASE EdgesApplied
  <2>1. TickInv'
    <3>1. pc' = "step" => ~Rx!EdgeDueBy(now)'
      BY <1>3 DEF EdgesApplied, EdgeDue, rxVars, Rx!EdgeDueBy, Rx!EdgeCycle
    <3> QED BY <1>0, <1>3, <3>1 DEF EdgesApplied, TickInv
  <2> QED BY <1>3, <2>1 DEF EdgesApplied, rxVars, RxTyped
<1>4. CASE Segment
  <2>1. /\ now' \in Nat /\ now' <= end /\ pc' = "edges" /\ end' = end /\ direct' = direct
        /\ UNCHANGED rxVars
    BY <1>4, SegmentMoves
  <2>2. TickInv'
    BY <1>0, <2>1 DEF TickInv
  <2> QED BY <2>1, <2>2 DEF rxVars, RxTyped
<1>5. ASSUME NEW b \in Bytes, SendUart(b) PROVE LoopInv'
  <2>1. RxTyped'
    BY <1>0, <1>5, SendTyped DEF SendUart
  <2>2. TickInv'
    BY <1>5 DEF SendUart, TickInv
  <2> QED BY <2>1, <2>2
<1>6. ASSUME NEW i \in Inputs, SetInput(i) PROVE LoopInv'
  BY <1>6 DEF SetInput, rxVars, RxTyped, TickInv
<1>7. ASSUME NEW n \in TickSizes, StepEngine(n) PROVE LoopInv'
  <2>1. n \in Nat
    BY BoardAssumption
  <2>2. now' = now + n /\ now' <= MaxCycle /\ pc = "idle" /\ direct' = direct + 1
    BY <1>7 DEF StepEngine, EngineStep, Rx!Hold
  <2>3. TickInv'
    BY <1>0, <1>7, <2>1, <2>2 DEF StepEngine, TickInv
  <2> QED BY <1>7, <2>3 DEF StepEngine, rxVars, RxTyped
<1>8. CASE UNCHANGED vars
  BY <1>8 DEF vars, rxVars, RxTyped, TickInv, Rx!EdgeDueBy, Rx!EdgeCycle
<1> QED BY <1>1, <1>2, <1>3, <1>4, <1>5, <1>6, <1>7, <1>8 DEF Next

LEMMA LoopHolds == Spec => []LoopInv
BY InitLoop, NextLoop, PTL DEF Spec

\* tick()'s unsigned target - now() never wraps: before every segment the target
\* is ahead of the clock, whatever was stepped behind tick()'s back.
THEOREM SegmentsAdvance == Spec => []SegmentAdvances
<1>1. LoopInv => SegmentAdvances
  BY TargetBetween DEF LoopInv, SegmentAdvances
<1> QED BY <1>1, LoopHolds, PTL

-----------------------------------------------------------------------------
(* tick() keeps the driver's contract. *)

\* The assumptions of the driver are the board's.
LEMMA DriverAssumption ==
  /\ Bit \in Nat \ {0} /\ DataBits \in Nat \ {0}
  /\ Bytes \subseteq [1..DataBits -> BOOLEAN]
  /\ MaxCycle \in Nat /\ MaxSends \in Nat
BY BoardAssumption

\* Both instances of the driver are one.
LEMMA SameNext == [Rx!Next]_(Rx!vars) <=> [RxP!Next]_(RxP!vars)
BY Zenon DEF Rx!Next, RxP!Next, Rx!vars, RxP!vars, Rx!driver, RxP!driver,
   Rx!SendByte, RxP!SendByte, Rx!ConsumeEdge, RxP!ConsumeEdge, Rx!Elapse, RxP!Elapse,
   Rx!Send, RxP!Send, Rx!IdleStart, RxP!IdleStart, Rx!Later, RxP!Later,
   Rx!PromisedStart, RxP!PromisedStart, Rx!Frame, RxP!Frame, Rx!EdgeCycle, RxP!EdgeCycle,
   Rx!AdvanceEdge, RxP!AdvanceEdge, Rx!EdgeLevel, RxP!EdgeLevel, Rx!StopEdge, RxP!StopEdge,
   Rx!FinishFrame, RxP!FinishFrame, Rx!EdgeDueBy, RxP!EdgeDueBy, Rx!Hold, RxP!Hold
LEMMA SameInit == Rx!Init <=> RxP!Init
BY Zenon DEF Rx!Init, RxP!Init, Rx!RxInit, RxP!RxInit

\* As long as nobody steps the engine past tick(), the driver is as proved.
DriverInv == direct = 0 => RxP!IInv /\ RxP!LineInv

\* Then no edge is ever late.
LEMMA EdgeNotLate ==
  ASSUME RxP!IInv, shifting
  PROVE  now <= Rx!EdgeCycle
BY DEF RxP!IInv, RxP!RxInv, RxP!EdgeOnTime, RxP!EdgeCycle, Rx!EdgeCycle

\* An edge that is due is consumed at its own cycle.
LEMMA ApplyConsumes ==
  ASSUME LoopInv, RxP!IInv, ApplyEdge
  PROVE  Rx!ConsumeEdge
<1>1. shifting /\ Rx!EdgeCycle <= now
  BY DEF ApplyEdge, EdgeDue, Rx!EdgeDueBy
<1>2. now <= Rx!EdgeCycle
  BY <1>1, EdgeNotLate
<1>3. Rx!EdgeCycle = now
  <2>1. Rx!EdgeCycle \in Nat /\ now \in Nat
    BY EdgeIsInt DEF LoopInv, TickInv
  <2> QED BY <1>1, <1>2, <2>1
<1> QED BY <1>1, <1>3 DEF ApplyEdge, Rx!ConsumeEdge

\* A segment lets time pass up to the next edge and no further.
LEMMA SegmentElapses ==
  ASSUME LoopInv, Segment
  PROVE  /\ Rx!Elapse
         /\ \E n \in 1..MaxCycle : /\ now' = now + n /\ now + n = Target
                                   /\ ~Rx!EdgeDueBy(now) /\ ~Rx!EdgeDueBy(now + n - 1)
                                   /\ Rx!Hold(n)
<1>0. /\ pc = "step" /\ now \in Nat /\ end \in Nat /\ end <= MaxCycle /\ MaxCycle \in Nat
      /\ ~Rx!EdgeDueBy(now)
  BY BoardAssumption DEF Segment, LoopInv, TickInv
<1>1. /\ Target \in Nat /\ now < Target /\ Target <= end
      /\ shifting => Target <= Rx!EdgeCycle
  BY <1>0, TargetBetween DEF LoopInv
<1> DEFINE n == Target - now
<1>2. n \in 1..MaxCycle /\ now + n = Target /\ now + n <= MaxCycle
  BY <1>0, <1>1
<1>3. Rx!Hold(n) /\ UNCHANGED rxVars
  BY DEF Segment, EngineStep
<1>4. ~Rx!EdgeDueBy(now + n - 1)
  <2>1. Rx!EdgeCycle \in Nat
    BY EdgeIsInt DEF LoopInv
  <2> QED BY <1>0, <1>1, <2>1 DEF Rx!EdgeDueBy
<1>5. now' = now + n
  BY <1>3 DEF Rx!Hold
<1> HIDE DEF n
<1> QED BY <1>0, <1>2, <1>3, <1>4, <1>5 DEF Rx!Elapse, rxVars, Rx!driver

\* Every step of the board is a step of the driver under its own caller, or
\* leaves the driver alone.
LEMMA StepKeepsContract ==
  LoopInv /\ DriverInv /\ [Next]_vars /\ direct' = 0 => [Rx!Next]_(Rx!vars)
<1> SUFFICES ASSUME LoopInv, DriverInv, [Next]_vars, direct' = 0
             PROVE  [Rx!Next]_(Rx!vars)
  OBVIOUS
<1>1. ASSUME NEW n \in TickSizes, Tick(n) PROVE UNCHANGED Rx!vars
  BY <1>1 DEF Tick, rxVars, Rx!vars, Rx!driver
<1>2. CASE ApplyEdge
  <2>1. direct = 0 /\ UNCHANGED now
    BY <1>2 DEF ApplyEdge
  <2>2. Rx!ConsumeEdge
    BY <1>2, <2>1, ApplyConsumes DEF DriverInv
  <2> QED BY <2>2 DEF Rx!Next
<1>3. CASE EdgesApplied
  BY <1>3 DEF EdgesApplied, rxVars, Rx!vars, Rx!driver
<1>4. CASE Segment
  BY <1>4, SegmentElapses DEF Rx!Next
<1>5. ASSUME NEW b \in Bytes, SendUart(b) PROVE Rx!Next
  BY <1>5 DEF SendUart, Rx!Next, Rx!SendByte
<1>6. ASSUME NEW i \in Inputs, SetInput(i) PROVE UNCHANGED Rx!vars
  BY <1>6 DEF SetInput, rxVars, Rx!vars, Rx!driver
<1>7. ASSUME NEW n \in TickSizes, StepEngine(n) PROVE FALSE
  BY <1>7 DEF StepEngine, LoopInv, TickInv
<1>8. CASE UNCHANGED vars
  BY <1>8 DEF vars, rxVars, Rx!vars, Rx!driver
<1> QED BY <1>1, <1>2, <1>3, <1>4, <1>5, <1>6, <1>7, <1>8 DEF Next

\* So the driver's invariants are the board's.
LEMMA NextDriver == LoopInv /\ DriverInv /\ [Next]_vars => DriverInv'
<1> SUFFICES ASSUME LoopInv, DriverInv, [Next]_vars, direct' = 0
             PROVE  RxP!IInv' /\ RxP!LineInv'
  BY DEF DriverInv
<1>1. [RxP!Next]_(RxP!vars)
  BY StepKeepsContract, SameNext
<1>2. direct = 0
  <2>1. direct' = direct \/ direct' = direct + 1
    BY DEF Next, Tick, ApplyEdge, EdgesApplied, Segment, SendUart, SetInput, StepEngine, vars
  <2> QED BY <2>1 DEF LoopInv, TickInv
<1>3. RxP!IInv /\ RxP!LineInv
  BY <1>2 DEF DriverInv
<1> QED BY <1>1, <1>3, DriverAssumption, RxP!NextIInv, RxP!NextLineInv

LEMMA InitDriver == Init => DriverInv
<1>1. Init => RxP!Init
  BY DEF Init, RxP!Init, Rx!RxInit, RxP!RxInit
<1> QED BY <1>1, DriverAssumption, RxP!InitIInv, RxP!InitLineInv DEF DriverInv

LEMMA DriverHolds == Spec => [](LoopInv /\ DriverInv)
BY InitLoop, NextLoop, InitDriver, NextDriver, PTL DEF Spec

\* tick(), whatever its arguments, is a caller that lets no edge pass and applies
\* each at its own cycle: the board implements the driver's specification for as
\* long as nobody steps the engine behind it.
THEOREM BoardImplementsDriver == Spec => ImplementsDriver
<1>1. Init => Rx!Init
  BY DEF Init, Rx!Init
<1>2. LoopInv /\ DriverInv /\ [Next]_vars => [direct' = 0 => [Rx!Next]_(Rx!vars)]_vars
  BY StepKeepsContract
<1> QED BY <1>1, <1>2, DriverHolds, PTL DEF Spec, ImplementsDriver

\* In particular the start bit of every byte is driven, and logged, at the cycle
\* that sendUart() returned for it.
THEOREM BoardStampsAreExact == Spec => [](direct = 0 => Rx!StampExact)
<1>1. DriverInv => (direct = 0 => Rx!StampExact)
  BY DEF DriverInv, RxP!IInv, RxP!RxInv, RxP!StampExact, Rx!StampExact
<1> QED BY <1>1, DriverHolds, PTL

-----------------------------------------------------------------------------
(* The order of the log. *)

\* Digits and LEDs are numbered from one.
LEMMA Numbered ==
  /\ \E n \in Nat : Digits = 1..n
  /\ \E n \in Nat : Leds = 1..n
<1>1. Cardinality(Digits) \in Nat /\ Cardinality(Leds) \in Nat
  BY BoardAssumption, FS_CardinalityType
<1> QED BY <1>1, BoardAssumption

LEMMA SameFlatten == \A ss : Design!FlattenSeq(ss) = FlattenSeq(ss)
BY DEF Design!FlattenSeq, FlattenSeq

\* A family of lines numbered from one, one after the other.
LEMMA FlattenFamily ==
  ASSUME NEW T, NEW n \in Nat, NEW f, f = [i \in 1..n |-> f[i]],
         \A i \in 1..n : f[i] \in Seq(T)
  PROVE  Len(f) = n /\ FlattenSeq(f) \in Seq(T)
<1>1. Len(f) = n
  OBVIOUS
<1>2. n = 0 => f = <<>>
  OBVIOUS
<1>3. Len(f) \in Nat /\ (Len(f) = 0 => f = <<>>) /\ \A i \in 1..Len(f) : f[i] \in Seq(T)
  BY <1>1, <1>2
<1> QED BY <1>1, <1>3, SameFlatten, Design!FlattenType

\* One line, or none.
LEMMA ChangeType ==
  ASSUME NEW T, NEW c, NEW changed, NEW what, Event(c, what) \in T
  PROVE  Change(changed, c, what) \in Seq(T)
<1>1. <<Event(c, what)>> \in Seq(T)
  BY DEF Event
<1> QED BY <1>1, EmptySeq DEF Change

\* The lines that the crossing reached by this step may have.
SampleLines ==
  {Event(now', <<"SSEG", i, Seg!Char(Shown[i], now')>>) : i \in Digits}
    \cup {Event(now', <<"DP", i, Seg!Point(Shown[i], now')>>) : i \in Digits}
    \cup {Event(now', <<"LED", i, Pins.led[i]>>) : i \in Leds}
    \cup {Event(now', <<"TX", Decoded.state.shift>>), Event(now', <<"TX framing error">>)}

\* All of them are outputs.
LEMMA SampleLinesAreOutputs ==
  \A e \in SampleLines : e.at = now' /\ e.what[1] \notin {"RX", "IN"}
<1>1. \A c, w : Event(c, w).at = c /\ Event(c, w).what = w
  BY DEF Event
<1>2. /\ \A i, x : <<"SSEG", i, x>>[1] = "SSEG" /\ <<"DP", i, x>>[1] = "DP"
      /\ \A i, x : <<"LED", i, x>>[1] = "LED" /\ <<"TX", x>>[1] = "TX"
      /\ <<"TX framing error">>[1] = "TX framing error"
  OBVIOUS
<1>3. {"SSEG", "DP", "LED", "TX", "TX framing error"} \cap {"RX", "IN"} = {}
  OBVIOUS
<1> SUFFICES ASSUME NEW e \in SampleLines
             PROVE  e.at = now' /\ e.what[1] \in {"SSEG", "DP", "LED", "TX", "TX framing error"}
  BY <1>3
<1>4. \E w : /\ e = Event(now', w)
             /\ w[1] \in {"SSEG", "DP", "LED", "TX", "TX framing error"}
  <2>1. CASE \E i \in Digits : e = Event(now', <<"SSEG", i, Seg!Char(Shown[i], now')>>)
    BY <1>2, <2>1, Zenon
  <2>2. CASE \E i \in Digits : e = Event(now', <<"DP", i, Seg!Point(Shown[i], now')>>)
    BY <1>2, <2>2, Zenon
  <2>3. CASE \E i \in Leds : e = Event(now', <<"LED", i, Pins.led[i]>>)
    BY <1>2, <2>3, Zenon
  <2>4. CASE e = Event(now', <<"TX", Decoded.state.shift>>)
    BY <1>2, <2>4, Zenon
  <2>5. CASE e = Event(now', <<"TX framing error">>)
    BY <1>2, <2>5, Zenon
  <2> QED BY <2>1, <2>2, <2>3, <2>4, <2>5, Zenon DEF SampleLines
<1>5. PICK w : /\ e = Event(now', w)
               /\ w[1] \in {"SSEG", "DP", "LED", "TX", "TX framing error"}
  BY <1>4
<1>6. e.at = now' /\ e.what = w
  BY <1>1, <1>5
<1> QED BY <1>5, <1>6

\* Concatenation with its definition out of sight: long concatenations are
\* rearranged by these facts alone.
Cat(s, t) == s \o t

LEMMA CatType == \A T : \A s, t \in Seq(T) : Cat(s, t) \in Seq(T)
BY ConcatProperties DEF Cat

LEMMA CatAssociative ==
  \A T : \A s, t, u \in Seq(T) : Cat(Cat(s, t), u) = Cat(s, Cat(t, u))
BY ConcatAssociative DEF Cat

LEMMA CatEmpty == \A T : \A s \in Seq(T) : Cat(s, <<>>) = s /\ Cat(<<>>, s) = s
BY ConcatEmptySeq DEF Cat

\* Concatenation within a set of lines.
LEMMA ConcatType ==
  ASSUME NEW T, NEW s \in Seq(T), NEW t \in Seq(T)
  PROVE  s \o t \in Seq(T)
BY ConcatProperties

LEMMA DigitEventsType ==
  ASSUME NEW i \in Digits
  PROVE  DigitEvents(i) \in Seq(SampleLines)
<1> DEFINE char == Seg!Char(Shown[i], now')
<1> DEFINE dp == Seg!Point(Shown[i], now')
<1>1. /\ Event(now', <<"SSEG", i, char>>) \in SampleLines
      /\ Event(now', <<"DP", i, dp>>) \in SampleLines
  BY DEF SampleLines
<1>2. DigitEvents(i) = Change(char # prevChar[i], now', <<"SSEG", i, char>>)
                         \o Change(dp # prevDp[i], now', <<"DP", i, dp>>)
  BY DEF DigitEvents
<1> HIDE DEF char, dp
<1>3. /\ Change(char # prevChar[i], now', <<"SSEG", i, char>>) \in Seq(SampleLines)
      /\ Change(dp # prevDp[i], now', <<"DP", i, dp>>) \in Seq(SampleLines)
  BY <1>1, ChangeType
<1> QED BY <1>2, <1>3, ConcatType, Zenon

LEMMA LedEventsType ==
  ASSUME NEW i \in Leds
  PROVE  LedEvents(i) \in Seq(SampleLines)
<1>1. Event(now', <<"LED", i, Pins.led[i]>>) \in SampleLines
  BY DEF SampleLines
<1> QED BY <1>1, ChangeType DEF LedEvents

LEMMA TxEventsType == TxEvents \in Seq(SampleLines)
<1>1. /\ Event(now', <<"TX", Decoded.state.shift>>) \in SampleLines
      /\ Event(now', <<"TX framing error">>) \in SampleLines
  BY DEF SampleLines
<1>2. CASE Decoded.what = "byte"
  BY <1>1, <1>2, ChangeType DEF TxEvents
<1>3. CASE Decoded.what # "byte"
  BY <1>1, <1>3, ChangeType DEF TxEvents
<1> QED BY <1>2, <1>3

\* What a crossing appends.
NewLines ==
  FlattenSeq([i \in Digits |-> DigitEvents(i)])
    \o FlattenSeq([i \in Leds |-> LedEvents(i)]) \o TxEvents

LEMMA NewLinesType ==
  /\ FlattenSeq([i \in Digits |-> DigitEvents(i)]) \in Seq(SampleLines)
  /\ FlattenSeq([i \in Leds |-> LedEvents(i)]) \in Seq(SampleLines)
  /\ NewLines \in Seq(SampleLines)
<1>1. FlattenSeq([i \in Digits |-> DigitEvents(i)]) \in Seq(SampleLines)
  <2> DEFINE f == [i \in Digits |-> DigitEvents(i)]
  <2>1. PICK n \in Nat : Digits = 1..n
    BY Numbered
  <2>2. f = [i \in 1..n |-> f[i]]
    BY <2>1
  <2>3. \A i \in 1..n : f[i] \in Seq(SampleLines)
    BY <2>1, DigitEventsType
  <2> HIDE DEF f
  <2>4. FlattenSeq(f) \in Seq(SampleLines)
    BY <2>2, <2>3, FlattenFamily
  <2> QED BY <2>4 DEF f
<1>2. FlattenSeq([i \in Leds |-> LedEvents(i)]) \in Seq(SampleLines)
  <2> DEFINE f == [i \in Leds |-> LedEvents(i)]
  <2>1. PICK n \in Nat : Leds = 1..n
    BY Numbered
  <2>2. f = [i \in 1..n |-> f[i]]
    BY <2>1
  <2>3. \A i \in 1..n : f[i] \in Seq(SampleLines)
    BY <2>1, LedEventsType
  <2> HIDE DEF f
  <2>4. FlattenSeq(f) \in Seq(SampleLines)
    BY <2>2, <2>3, FlattenFamily
  <2> QED BY <2>4 DEF f
<1>3. NewLines \in Seq(SampleLines)
  BY <1>1, <1>2, TxEventsType, ConcatProperties DEF NewLines
<1> QED BY <1>1, <1>2, <1>3

\* It appends them after all that is there.
LEMMA SampleAppends ==
  ASSUME Sample, NEW S, log \in Seq(S)
  PROVE  log' = log \o NewLines
<1> DEFINE d == FlattenSeq([i \in Digits |-> DigitEvents(i)])
<1> DEFINE l == FlattenSeq([i \in Leds |-> LedEvents(i)])
<1>1. log' = ((log \o d) \o l) \o TxEvents /\ NewLines = (d \o l) \o TxEvents
  BY Zenon DEF Sample, NewLines
<1>2. d \in Seq(SampleLines) /\ l \in Seq(SampleLines) /\ TxEvents \in Seq(SampleLines)
  BY NewLinesType, TxEventsType
<1> DEFINE T == S \cup SampleLines
<1> HIDE DEF d, l
<1>3. log \in Seq(T) /\ d \in Seq(T) /\ l \in Seq(T) /\ TxEvents \in Seq(T)
  BY <1>2, SeqMonotonic
<1> HIDE DEF T
<1> DEFINE t == TxEvents
<1>4. t \in Seq(T) /\ log' = ((log \o d) \o l) \o t /\ NewLines = (d \o l) \o t
  BY <1>1, <1>3
<1> HIDE DEF t
<1>5. Cat(Cat(Cat(log, d), l), t) = Cat(log, Cat(Cat(d, l), t))
  <2>1. Cat(d, l) \in Seq(T)
    BY <1>3, CatType
  <2> QED BY <1>3, <1>4, <2>1, CatAssociative
<1> QED BY <1>4, <1>5 DEF Cat

\* The log is a sequence of lines that are not ahead of the clock, in order.
LogShape ==
  /\ \E S : log \in Seq(S)
  /\ \A i \in 1..Len(log) : log[i].at \in Nat /\ log[i].at <= now
  /\ LogOrdered

\* Lines of one stamp, added at the end: outputs of a new cycle, or inputs.
LEMMA LinesAppended ==
  ASSUME LogShape, NEW T, NEW new \in Seq(T), log' = log \o new,
         now \in Nat, now' \in Nat, now <= now', \A e \in T : e.at = now',
         \/ now < now' /\ \A e \in T : e.what[1] \notin {"RX", "IN"}
         \/ \A e \in T : e.what[1] \in {"RX", "IN"}
  PROVE  LogShape'
<1>1. PICK S : log \in Seq(S)
  BY DEF LogShape
<1> DEFINE U == S \cup T
<1>2. log \in Seq(U) /\ new \in Seq(U)
  BY <1>1, SeqMonotonic
<1> HIDE DEF U
<1>3. /\ log' \in Seq(U) /\ Len(log') = Len(log) + Len(new)
      /\ Len(log) \in Nat /\ Len(new) \in Nat
      /\ \A i \in 1..(Len(log) + Len(new)) :
           log'[i] = IF i <= Len(log) THEN log[i] ELSE new[i - Len(log)]
  BY <1>2, ConcatProperties, LenProperties
<1>4. ASSUME NEW i \in 1..Len(log'), i > Len(log)
      PROVE  /\ log'[i].at = now'
             /\ \/ now < now' /\ log'[i].what[1] \notin {"RX", "IN"}
                \/ log'[i].what[1] \in {"RX", "IN"}
  <2>1. i - Len(log) \in 1..Len(new)
    BY <1>3, <1>4
  <2>2. new[i - Len(log)] \in T
    BY <2>1, ElementOfSeq
  <2>3. log'[i] = new[i - Len(log)]
    BY <1>3, <1>4
  <2> QED BY <2>2, <2>3
<1>5. ASSUME NEW i \in 1..Len(log'), i <= Len(log)
      PROVE  i \in 1..Len(log) /\ log'[i] = log[i] /\ log'[i].at \in Nat /\ log'[i].at <= now
  BY <1>3, <1>5 DEF LogShape
<1>6. ASSUME NEW i \in 1..Len(log') PROVE log'[i].at \in Nat /\ log'[i].at <= now'
  <2>1. CASE i <= Len(log)
    BY <2>1, <1>5
  <2>2. CASE i > Len(log)
    BY <2>2, <1>4
  <2> QED BY <1>3, <2>1, <2>2
<1>7. ASSUME NEW i \in 1..(Len(log') - 1)
      PROVE  \/ log'[i].at < log'[i + 1].at
             \/ /\ log'[i].at = log'[i + 1].at
                /\ log'[i].what[1] \in {"RX", "IN"} => log'[i + 1].what[1] \in {"RX", "IN"}
  <2>0. i \in 1..Len(log') /\ i + 1 \in 1..Len(log')
    BY <1>3
  <2>1. CASE i + 1 <= Len(log)
    <3>1. i \in 1..(Len(log) - 1) /\ i <= Len(log)
      BY <1>3, <2>1
    <3>2. log'[i] = log[i] /\ log'[i + 1] = log[i + 1]
      BY <1>5, <2>0, <2>1, <3>1
    <3> QED BY <3>1, <3>2 DEF LogShape, LogOrdered
  <2>2. CASE i = Len(log)
    <3>1. log'[i].at \in Nat /\ log'[i].at <= now
      BY <1>5, <2>0, <2>2
    <3>2. /\ log'[i + 1].at = now'
          /\ \/ now < now'
             \/ log'[i + 1].what[1] \in {"RX", "IN"}
      BY <1>3, <1>4, <2>0, <2>2
    <3> QED BY <3>1, <3>2
  <2>3. CASE i > Len(log)
    <3>1. /\ log'[i].at = now' /\ log'[i + 1].at = now'
          /\ log'[i].what[1] \in {"RX", "IN"} => log'[i + 1].what[1] \in {"RX", "IN"}
      <4>1. i + 1 > Len(log)
        BY <1>3, <2>3
      <4>2. CASE now < now' /\ \A e \in T : e.what[1] \notin {"RX", "IN"}
        <5>1. new[i - Len(log)] \in T
          <6>1. i - Len(log) \in 1..Len(new)
            BY <1>3, <2>3
          <6> QED BY <6>1, ElementOfSeq
        <5>2. log'[i] = new[i - Len(log)]
          BY <1>3, <2>3
        <5> QED BY <1>4, <2>0, <2>3, <4>1, <4>2, <5>1, <5>2
      <4>3. CASE \A e \in T : e.what[1] \in {"RX", "IN"}
        <5>1. new[(i + 1) - Len(log)] \in T
          <6>1. (i + 1) - Len(log) \in 1..Len(new)
            BY <1>3, <2>3
          <6> QED BY <6>1, ElementOfSeq
        <5>2. log'[i + 1] = new[(i + 1) - Len(log)]
          BY <1>3, <2>3
        <5> QED BY <1>4, <2>0, <2>3, <4>1, <4>3, <5>1, <5>2
      <4> QED BY <4>2, <4>3
    <3> QED BY <3>1
  <2> QED BY <1>3, <2>1, <2>2, <2>3
<1>8. LogOrdered'
  BY <1>7 DEF LogOrdered
<1> QED BY <1>3, <1>6, <1>8 DEF LogShape

\* One input line.
LEMMA InputAppended ==
  ASSUME LogShape, NEW w, w[1] \in {"RX", "IN"}, log' = Append(log, Event(now, w)),
         now \in Nat, now' = now
  PROVE  LogShape'
<1>1. PICK S : log \in Seq(S)
  BY DEF LogShape
<1> DEFINE e == Event(now, w)
<1>2. e.at = now' /\ e.what = w
  BY DEF Event
<1>3. log \in Seq(S \cup {e}) /\ log' = Append(log, e)
  BY <1>1, SeqMonotonic
<1> HIDE DEF e
<1>4. log' = log \o <<e>> /\ <<e>> \in Seq({e})
  BY <1>3, AppendIsConcat
<1> DEFINE T == {e}
<1> DEFINE new == <<e>>
<1>5. /\ \A x \in T : x.at = now'
      /\ \A x \in T : x.what[1] \in {"RX", "IN"}
  BY <1>2
<1>6. new \in Seq(T) /\ log' = log \o new /\ now <= now' /\ now' \in Nat
  BY <1>4
<1> HIDE DEF T, new
<1> QED BY <1>5, <1>6, LinesAppended

\* A log that stays, while time does not go back.
LEMMA LogStays ==
  ASSUME LogShape, log' = log, now \in Nat, now' \in Nat, now <= now'
  PROVE  LogShape'
<1>1. \A i \in 1..Len(log) : log[i].at \in Nat /\ log[i].at <= now'
  BY DEF LogShape
<1> QED BY <1>1 DEF LogShape, LogOrdered

LEMMA NextLog == LoopInv /\ LogShape /\ [Next]_vars => LogShape'
<1> SUFFICES ASSUME LoopInv, LogShape, [Next]_vars PROVE LogShape'
  OBVIOUS
<1>0. now \in Nat
  BY DEF LoopInv, TickInv
<1>1. ASSUME NEW n \in TickSizes, Tick(n) PROVE LogShape'
  BY <1>0, <1>1, LogStays DEF Tick
<1>2. CASE ApplyEdge
  <2>1. now' = now
    BY <1>2 DEF ApplyEdge
  <2>2. CASE edgeIndex = 0
    <3>1. log' = Append(log, Event(now, <<"RX", Head(queue)>>))
      BY <1>2, <2>2 DEF ApplyEdge
    <3>2. <<"RX", Head(queue)>>[1] \in {"RX", "IN"}
      OBVIOUS
    <3> QED BY <1>0, <2>1, <3>1, <3>2, InputAppended
  <2>3. CASE edgeIndex # 0
    BY <1>0, <1>2, <2>1, <2>3, LogStays DEF ApplyEdge
  <2> QED BY <2>2, <2>3
<1>3. CASE EdgesApplied
  BY <1>0, <1>3, LogStays DEF EdgesApplied
<1>4. CASE Segment
  <2>1. now' \in Nat /\ now < now'
    BY <1>4, SegmentMoves DEF LoopInv
  <2>2. CASE Sample
    <3>1. PICK S : log \in Seq(S)
      BY DEF LogShape
    <3>2. log' = log \o NewLines
      BY <2>2, <3>1, SampleAppends
    <3>3. NewLines \in Seq(SampleLines)
      BY NewLinesType
    <3> QED BY <1>0, <2>1, <3>2, <3>3, SampleLinesAreOutputs, LinesAppended
  <2>3. CASE UNCHANGED log
    BY <1>0, <2>1, <2>3, LogStays
  <2> QED BY <1>4, <2>2, <2>3 DEF Segment
<1>5. ASSUME NEW b \in Bytes, SendUart(b) PROVE LogShape'
  BY <1>0, <1>5, LogStays DEF SendUart
<1>6. ASSUME NEW i \in Inputs, SetInput(i) PROVE LogShape'
  <2>1. PICK on \in BOOLEAN : log' = Append(log, Event(now, <<"IN", i, on>>))
    BY <1>6 DEF SetInput
  <2>2. <<"IN", i, on>>[1] \in {"RX", "IN"} /\ now' = now
    BY <1>6 DEF SetInput
  <2> QED BY <1>0, <2>1, <2>2, InputAppended
<1>7. ASSUME NEW n \in TickSizes, StepEngine(n) PROVE LogShape'
  <2>1. n \in Nat /\ now' = now + n /\ log' = log
    BY <1>7, BoardAssumption DEF StepEngine, EngineStep, Rx!Hold
  <2> QED BY <1>0, <2>1, LogStays
<1>8. CASE UNCHANGED vars
  BY <1>0, <1>8, LogStays DEF vars
<1> QED BY <1>1, <1>2, <1>3, <1>4, <1>5, <1>6, <1>7, <1>8 DEF Next

LEMMA InitLog == Init => LogShape
<1> SUFFICES ASSUME Init PROVE LogShape
  OBVIOUS
<1>1. log = <<>> /\ log \in Seq({}) /\ Len(log) = 0
  BY EmptySeq DEF Init
<1> QED BY <1>1 DEF LogShape, LogOrdered

LEMMA LogHolds == Spec => [](LoopInv /\ LogShape)
BY InitLoop, NextLoop, InitLog, NextLog, PTL DEF Spec

\* Lines never go back in time, and at one stamp outputs precede inputs, however
\* ticks, sends, pokes and steps of the engine are mixed: the tiebreak that the
\* log's header line states.
THEOREM LogIsOrdered == Spec => []LogOrdered
<1>1. LogShape => LogOrdered
  BY DEF LogShape
<1> QED BY <1>1, LogHolds, PTL

-----------------------------------------------------------------------------
(* The equations of the recursive definitions. *)

DesignEquations ==
  /\ DesignAt(0) = DesignInit
  /\ \A c \in Nat : DesignAt(c + 1) = DesignCycle(DesignAt(c), InputsIn(c))

LEMMA DesignAtStep == DesignEquations
<1>1. ASSUME NEW c PROVE DesignAt(c) = Design!Iterate(c)
  BY Zenon DEF DesignAt, Design!Iterate, DesignStep
<1>2. ASSUME NEW c \in Nat PROVE DesignAt(c + 1) = DesignCycle(DesignAt(c), InputsIn(c))
  <2>1. Design!Iterate(c + 1) = DesignCycle(Design!Iterate(c), InputsIn((c + 1) - 1))
    BY Design!IterateStep DEF DesignStep
  <2>2. (c + 1) - 1 = c
    OBVIOUS
  <2> QED BY <1>1, <2>1, <2>2
<1>3. DesignAt(0) = DesignInit
  BY <1>1, Design!IterateStep
<1> QED BY <1>2, <1>3 DEF DesignEquations

TxStep(result, k) == Tx!TxSample(result.state, k * Chunk, PinsAt(k * Chunk).tx)
Crossed == INSTANCE Recursion WITH Base <- Tx!TxResult(Tx!TxIdle, "none"), Step <- TxStep

TxEquations ==
  /\ TxAt(0) = Tx!TxResult(Tx!TxIdle, "none")
  /\ \A n \in Nat : TxAt(n + 1) = TxStep(TxAt(n), n + 1)

LEMMA TxAtStep == TxEquations
<1>1. ASSUME NEW c PROVE TxAt(c) = Crossed!Iterate(c)
  BY Zenon DEF TxAt, Crossed!Iterate, TxStep
<1>2. ASSUME NEW c \in Nat PROVE TxAt(c + 1) = TxStep(TxAt(c), c + 1)
  <2>1. Crossed!Iterate(c + 1) = TxStep(Crossed!Iterate(c), c + 1)
    BY Crossed!IterateStep
  <2> QED BY <1>1, <2>1
<1>3. TxAt(0) = Tx!TxResult(Tx!TxIdle, "none")
  BY <1>1, Crossed!IterateStep
<1> QED BY <1>2, <1>3 DEF TxEquations

AfterStep(state, k) == DesignCycle(state, DesignInputs)
After == INSTANCE Recursion WITH Base <- design, Step <- AfterStep

LEMMA DesignAfterStep ==
  /\ DesignAfter(0) = design
  /\ \A n \in Nat : DesignAfter(n + 1) = DesignCycle(DesignAfter(n), DesignInputs)
<1>1. ASSUME NEW c PROVE DesignAfter(c) = After!Iterate(c)
  BY Zenon DEF DesignAfter, After!Iterate, AfterStep
<1>2. ASSUME NEW c \in Nat PROVE DesignAfter(c + 1) = DesignCycle(DesignAfter(c), DesignInputs)
  <2>1. After!Iterate(c + 1) = DesignCycle(After!Iterate(c), DesignInputs)
    BY After!IterateStep DEF AfterStep
  <2> QED BY <1>1, <2>1
<1>3. DesignAfter(0) = design
  BY <1>1, After!IterateStep
<1> QED BY <1>2, <1>3

-----------------------------------------------------------------------------
(* Sequences of lines. *)

IsLines(s) == Design!IsSequence(s)

LEMMA LinesOver ==
  ASSUME NEW s, NEW t, NEW u, IsLines(s), IsLines(t), IsLines(u)
  PROVE  \E T : s \in Seq(T) /\ t \in Seq(T) /\ u \in Seq(T)
<1>1. PICK S1 : s \in Seq(S1)
  BY DEF IsLines, Design!IsSequence
<1>2. PICK S2 : t \in Seq(S2)
  BY DEF IsLines, Design!IsSequence
<1>3. PICK S3 : u \in Seq(S3)
  BY DEF IsLines, Design!IsSequence
<1> DEFINE T == (S1 \cup S2) \cup S3
<1>4. S1 \subseteq T /\ S2 \subseteq T /\ S3 \subseteq T
  OBVIOUS
<1> HIDE DEF T
<1>5. s \in Seq(T) /\ t \in Seq(T) /\ u \in Seq(T)
  BY <1>1, <1>2, <1>3, <1>4, SeqMonotonic
<1> QED BY <1>5

LEMMA NoLines == IsLines(<<>>)
BY EmptySeq DEF IsLines, Design!IsSequence

LEMMA CatIsLines ==
  ASSUME NEW s, NEW t, IsLines(s), IsLines(t)
  PROVE  IsLines(Cat(s, t))
<1>1. PICK T : s \in Seq(T) /\ t \in Seq(T)
  BY LinesOver
<1> QED BY <1>1, CatType DEF IsLines, Design!IsSequence

LEMMA CatOrder ==
  ASSUME NEW s, NEW t, NEW u, IsLines(s), IsLines(t), IsLines(u)
  PROVE  Cat(Cat(s, t), u) = Cat(s, Cat(t, u))
<1>1. PICK T : s \in Seq(T) /\ t \in Seq(T) /\ u \in Seq(T)
  BY LinesOver
<1> QED BY <1>1, CatAssociative

LEMMA CatNone ==
  ASSUME NEW s, IsLines(s)
  PROVE  Cat(s, <<>>) = s /\ Cat(<<>>, s) = s
BY CatEmpty DEF IsLines, Design!IsSequence

LEMMA ChangeIsLines == \A changed, c, what : IsLines(Change(changed, c, what))
<1> SUFFICES ASSUME NEW changed, NEW c, NEW what PROVE IsLines(Change(changed, c, what))
  OBVIOUS
<1>1. Event(c, what) \in {Event(c, what)}
  OBVIOUS
<1>2. Change(changed, c, what) \in Seq({Event(c, what)})
  BY <1>1, ChangeType
<1> QED BY <1>2 DEF IsLines, Design!IsSequence

\* The facts about families of sequences, of the library's FlattenSeq.
Family(f, n) == Design!Family(f, n)

LEMMA FlattenIsLines ==
  ASSUME NEW n, NEW f, Family(f, n), \A k \in 1..n : IsLines(f[k])
  PROVE  IsLines(FlattenSeq(f))
BY Design!FlattenIsSequence, SameFlatten DEF Family, IsLines

LEMMA FlattenGrows ==
  ASSUME NEW n, NEW f, NEW g, Family(f, n), Family(g, n + 1),
         \A k \in 1..n : g[k] = f[k], \A k \in 1..(n + 1) : IsLines(g[k])
  PROVE  FlattenSeq(g) = Cat(FlattenSeq(f), g[n + 1])
BY Design!FlattenGrows, SameFlatten DEF Family, IsLines, Cat

LEMMA FlattenStays ==
  ASSUME NEW n, NEW f, NEW g, Family(f, n), Family(g, n + 1),
         \A k \in 1..n : g[k] = f[k], \A k \in 1..n : IsLines(f[k]), g[n + 1] = <<>>
  PROVE  FlattenSeq(g) = FlattenSeq(f)
BY Design!FlattenStays, SameFlatten DEF Family, IsLines

LEMMA FlattenTail ==
  ASSUME NEW n, NEW f, Family(f, n), NEW m \in Nat, m <= n, NEW g, Family(g, m),
         \A k \in 1..m : g[k] = f[k], \A k \in 1..m : IsLines(g[k]),
         \A k \in (m + 1)..n : f[k] = <<>>
  PROVE  FlattenSeq(f) = FlattenSeq(g)
BY Design!FlattenTail, SameFlatten DEF Family, IsLines

LEMMA FlattenEmpty ==
  ASSUME NEW n, NEW f, Family(f, n), \A k \in 1..n : f[k] = <<>>
  PROVE  FlattenSeq(f) = <<>>
BY Design!FlattenEmpty, SameFlatten DEF Family

LEMMA FlattenOne ==
  ASSUME NEW n, NEW f, Family(f, n), NEW j \in 1..n, IsLines(f[j]),
         \A k \in 1..n : k # j => f[k] = <<>>
  PROVE  FlattenSeq(f) = f[j]
BY Design!FlattenOne, SameFlatten DEF Family, IsLines

\* Families that agree are equal.
LEMMA SameFamily ==
  ASSUME NEW n, NEW f, NEW g, Family(f, n), Family(g, n), \A k \in 1..n : f[k] = g[k]
  PROVE  f = g
BY Zenon DEF Family, Design!Family

-----------------------------------------------------------------------------
(* The grid around the clock. *)

LEMMA GridCell ==
  ASSUME now \in Nat
  PROVE  /\ LastGrid(now) \in Nat /\ LastGrid(now) <= now /\ now < LastGrid(now) + Chunk
         /\ NextGrid = LastGrid(now) + Chunk /\ NextGrid \in Nat /\ Chunk \in Nat /\ Chunk > 0
         /\ LastGrid(now) % Chunk = 0 /\ NextGrid % Chunk = 0
         /\ LastGrid(now) \div Chunk = now \div Chunk
         /\ NextGrid \div Chunk = now \div Chunk + 1
         /\ NextGrid = (now \div Chunk + 1) * Chunk
         /\ \A c \in Nat : LastGrid(now) <= c /\ c < NextGrid => c \div Chunk = now \div Chunk
         /\ \A c \in Nat : LastGrid(now) < c /\ c < NextGrid => c % Chunk # 0
<1>1. Chunk \in Nat /\ Chunk > 0 /\ Chunk \in Nat \ {0} /\ 0 \in 0..(Chunk - 1)
  BY BoardAssumption
<1>2. PICK d \in Nat : d = now \div Chunk
  BY ChunkDivides
<1>3. PICK p \in Nat : p = d * Chunk
  BY <1>1
<1>4. d + 1 \in Nat /\ (d + 1) * Chunk = p + Chunk
  BY <1>1, <1>3
<1>5. NextGrid = p + Chunk /\ LastGrid(now) = p
  BY <1>2, <1>3, <1>4 DEF NextGrid, LastGrid
<1>6. p <= now /\ now < p + Chunk
  <2>1. now % Chunk \in 0..(Chunk - 1) /\ now = p + (now % Chunk)
    BY <1>2, <1>3, ChunkDivides
  <2> QED BY <1>1, <2>1
<1>7. ASSUME NEW c \in Nat, p <= c, c < p + Chunk
      PROVE  c \div Chunk = d /\ c % Chunk = c - p
  <2> DEFINE r == c - p
  <2>1. r \in 0..(Chunk - 1) /\ c = d * Chunk + r
    BY <1>1, <1>3, <1>7
  <2> HIDE DEF r
  <2>2. c \div Chunk = d /\ c % Chunk = r
    BY <1>1, <2>1, DivisionIs
  <2> QED BY <2>2 DEF r
<1>8. p \div Chunk = d /\ p % Chunk = 0
  BY <1>1, <1>7
<1>9. (p + Chunk) \div Chunk = d + 1 /\ (p + Chunk) % Chunk = 0
  <2>1. p + Chunk = (d + 1) * Chunk + 0 /\ p + Chunk \in Nat
    BY <1>1, <1>4
  <2> DEFINE n == p + Chunk
  <2> DEFINE q == d + 1
  <2>2. n = q * Chunk + 0 /\ n \in Nat /\ q \in Nat
    BY <1>4, <2>1
  <2> HIDE DEF n, q
  <2>3. n \div Chunk = q /\ n % Chunk = 0
    BY <1>1, <2>2, DivisionIs
  <2> QED BY <2>3 DEF n, q
<1>10. \A c \in Nat : p < c /\ c < p + Chunk => c % Chunk # 0
  BY <1>7
<1> QED BY <1>1, <1>2, <1>4, <1>5, <1>6, <1>7, <1>8, <1>9, <1>10

\* The crossings up to the next one.
LEMMA CrossingsGrow ==
  ASSUME now \in Nat
  PROVE  Crossings(NextGrid) = Crossings(LastGrid(now)) \cup {NextGrid}
<1>1. /\ LastGrid(now) \in Nat /\ NextGrid = LastGrid(now) + Chunk /\ Chunk \in Nat /\ Chunk > 0
      /\ NextGrid % Chunk = 0
      /\ \A c \in Nat : LastGrid(now) < c /\ c < NextGrid => c % Chunk # 0
  BY GridCell
<1> HIDE DEF LastGrid, NextGrid
<1>2. ASSUME NEW g \in 1..NextGrid, g % Chunk = 0, g # NextGrid PROVE g \in 1..LastGrid(now)
  BY <1>1, <1>2
<1>3. 1..LastGrid(now) \subseteq 1..NextGrid /\ NextGrid \in 1..NextGrid
  BY <1>1
<1> QED BY <1>1, <1>2, <1>3, Zenon DEF Crossings

-----------------------------------------------------------------------------
(* The greatest of a set of cycles. *)

LEMMA MaxIs ==
  ASSUME NEW S, S \subseteq Int, NEW m \in S, \A y \in S : y <= m
  PROVE  Max(S) = m
<1>1. \A y \in S : m >= y
  OBVIOUS
<1>2. Max(S) \in S /\ \A y \in S : Max(S) >= y
  BY <1>1, Zenon DEF Max
<1>3. \A x \in Int : x <= m /\ x >= m => x = m
  OBVIOUS
<1>4. Max(S) \in Int /\ Max(S) <= m /\ Max(S) >= m /\ m \in Int
  BY <1>2, Zenon
<1> QED BY <1>3, <1>4, Zenon

LEMMA MaxExists ==
  ASSUME NEW n \in Nat, NEW S, S \subseteq 0..n, S # {}
  PROVE  Max(S) \in S /\ \A y \in S : y <= Max(S)
<1> DEFINE D == {k \in Nat : \A R \in SUBSET (0..k) : R # {} => \E m \in R : \A y \in R : y <= m}
<1>1. 0 \in D
  <2> SUFFICES ASSUME NEW R \in SUBSET (0..0), R # {}
               PROVE  \E m \in R : \A y \in R : y <= m
    OBVIOUS
  <2>1. \A y \in 0..0 : y = 0
    OBVIOUS
  <2>2. 0 \in R /\ \A y \in R : y = 0
    BY <2>1, Zenon
  <2> QED BY <2>2
<1>2. ASSUME NEW k \in Nat, k \in D PROVE k + 1 \in D
  <2> SUFFICES ASSUME NEW R \in SUBSET (0..(k + 1)), R # {}
               PROVE  \E m \in R : \A y \in R : y <= m
    OBVIOUS
  <2>1. CASE k + 1 \in R
    BY <2>1
  <2>2. CASE k + 1 \notin R
    <3>1. R \in SUBSET (0..k)
      BY <2>2
    <3> QED BY <1>2, <3>1
  <2> QED BY <2>1, <2>2
<1>3. n \in D
  <2> HIDE DEF D
  <2> QED BY <1>1, <1>2, Design!Induction
<1>4. PICK m \in S : \A y \in S : y <= m
  BY <1>3
<1>5. Max(S) = m
  <2>1. S \subseteq Int
    OBVIOUS
  <2> QED BY <1>4, <2>1, MaxIs
<1> QED BY <1>4, <1>5

-----------------------------------------------------------------------------
(* What a step leaves settled: when the inputs of the cycles before n stay, *)
(* so does everything that the reference computes for the cycles up to n.  *)

Settled(n) == \A c \in Nat : c < n => InputsIn(c)' = InputsIn(c)

LEMMA DesignSettled ==
  ASSUME NEW n \in Nat, Settled(n)
  PROVE  \A c \in Nat : c <= n => DesignAt(c)' = DesignAt(c)
<1> DEFINE S == {c \in Nat : c <= n => DesignAt(c)' = DesignAt(c)}
<1>0. DesignEquations /\ DesignEquations'
  BY DesignAtStep, PTL
<1>1. 0 \in S
  BY <1>0 DEF DesignEquations
<1>2. ASSUME NEW c \in Nat, c \in S PROVE c + 1 \in S
  <2> SUFFICES ASSUME c + 1 <= n PROVE DesignAt(c + 1)' = DesignAt(c + 1)
    OBVIOUS
  <2>1. DesignAt(c + 1) = DesignCycle(DesignAt(c), InputsIn(c))
    BY <1>0 DEF DesignEquations
  <2>2. DesignAt(c + 1)' = DesignCycle(DesignAt(c)', InputsIn(c)')
    BY <1>0 DEF DesignEquations
  <2>3. DesignAt(c)' = DesignAt(c) /\ InputsIn(c)' = InputsIn(c)
    BY <1>2 DEF Settled
  <2> QED BY <2>1, <2>2, <2>3
<1> HIDE DEF S
<1>3. \A c \in Nat : c \in S
  BY <1>1, <1>2, Design!Induction
<1> QED BY <1>3 DEF S

LEMMA PinsSettled ==
  ASSUME NEW n \in Nat, Settled(n), NEW c \in Nat, 0 < c, c <= n
  PROVE  PinsAt(c)' = PinsAt(c)
<1>1. DesignAt(c)' = DesignAt(c)
  BY DesignSettled
<1>2. InputsIn(c - 1)' = InputsIn(c - 1)
  BY DEF Settled
<1> QED BY <1>1, <1>2 DEF PinsAt

\* The crossing that a digit's content at a cycle comes from.
LEMMA LitIn ==
  ASSUME NEW c \in Nat, NEW i
  PROVE  /\ Lit(i, c) \subseteq 1..c /\ Strobes(i, c) \subseteq Lit(i, c)
         /\ Lit(i, c) # {} => /\ Max(Lit(i, c)) \in Lit(i, c)
                              /\ \A g \in Lit(i, c) : g <= Max(Lit(i, c))
         /\ Strobes(i, c) # {} => /\ Max(Strobes(i, c)) \in Strobes(i, c)
                                  /\ \A g \in Strobes(i, c) : g <= Max(Strobes(i, c))
<1>1. Lit(i, c) \subseteq 1..c /\ Strobes(i, c) \subseteq Lit(i, c)
  BY DEF Lit, Strobes, Crossings
<1>2. Lit(i, c) \subseteq 0..c /\ Strobes(i, c) \subseteq 0..c
  BY <1>1
<1> QED BY <1>1, <1>2, MaxExists

LEMMA DisplaySettled ==
  ASSUME NEW n \in Nat, Settled(n), NEW c \in Nat, c <= n, NEW i
  PROVE  /\ DigitAt(i, c)' = DigitAt(i, c) /\ LedAt(i, c)' = LedAt(i, c)
         /\ CharAt(i, c)' = CharAt(i, c) /\ PointAt(i, c)' = PointAt(i, c)
<1>1. \A g \in 1..c : PinsAt(g)' = PinsAt(g)
  <2>1. ASSUME NEW g \in 1..c PROVE PinsAt(g)' = PinsAt(g)
    <3>1. g \in Nat /\ 0 < g /\ g <= n
      OBVIOUS
    <3> QED BY <3>1, PinsSettled
  <2> QED BY <2>1
<1>2. Crossings(c)' = Crossings(c) /\ Crossings(c) \subseteq 1..c
  BY DEF Crossings
<1>3. Lit(i, c)' = Lit(i, c) /\ Strobes(i, c)' = Strobes(i, c)
  BY <1>1, <1>2 DEF Lit, Strobes
<1>4. Lit(i, c) # {} => Max(Lit(i, c)) \in 1..c
  BY LitIn
<1>5. Strobes(i, c) # {} => Max(Strobes(i, c)) \in 1..c
  BY LitIn
<1>6. DigitAt(i, c)' = DigitAt(i, c)
  BY <1>1, <1>3, <1>4 DEF DigitAt
<1>7. CharAt(i, c)' = CharAt(i, c) /\ PointAt(i, c)' = PointAt(i, c)
  BY <1>1, <1>3, <1>5 DEF CharAt, PointAt
<1>8. LedAt(i, c)' = LedAt(i, c)
  <2>1. CASE c = 0
    BY <2>1 DEF LedAt
  <2>2. CASE c # 0
    <3>1. PinsAt(c)' = PinsAt(c)
      BY <1>1, <2>2
    <3> QED BY <2>2, <3>1 DEF LedAt
  <2> QED BY <2>1, <2>2
<1> QED BY <1>6, <1>7, <1>8

LEMMA TxSettled ==
  ASSUME NEW n \in Nat, Settled(n)
  PROVE  \A k \in Nat : k * Chunk <= n => TxAt(k)' = TxAt(k)
<1> DEFINE S == {k \in Nat : k * Chunk <= n => TxAt(k)' = TxAt(k)}
<1>0. Chunk \in Nat /\ Chunk > 0
  BY BoardAssumption
<1>e. TxEquations /\ TxEquations'
  BY TxAtStep, PTL
<1>1. 0 \in S
  BY <1>e DEF TxEquations, Tx!TxResult, Tx!TxIdle
<1>2. ASSUME NEW k \in Nat, k \in S PROVE k + 1 \in S
  <2> SUFFICES ASSUME (k + 1) * Chunk <= n PROVE TxAt(k + 1)' = TxAt(k + 1)
    OBVIOUS
  <2>1. PICK p \in Nat : p = k * Chunk
    BY <1>0
  <2>2. (k + 1) * Chunk = p + Chunk /\ p <= n
    BY <1>0, <2>1
  <2>3. TxAt(k + 1) = Tx!TxSample(TxAt(k).state, (k + 1) * Chunk, PinsAt((k + 1) * Chunk).tx)
    BY <1>e DEF TxEquations, TxStep
  <2>4. TxAt(k + 1)' = Tx!TxSample(TxAt(k)'.state, (k + 1) * Chunk, PinsAt((k + 1) * Chunk)'.tx)
    <3>1. (TxAt(k + 1) = TxStep(TxAt(k), k + 1))'
      BY <1>e DEF TxEquations
    <3> QED BY <3>1 DEF TxStep, Tx!TxSample, Tx!TxResult, Tx!TxCandidate, Tx!TxIdle, Tx!TxTakeBit, Tx!MidStart, Tx!BitCentre
  <2>5. TxAt(k)' = TxAt(k)
    BY <1>2, <2>1, <2>2
  <2>6. PinsAt((k + 1) * Chunk)' = PinsAt((k + 1) * Chunk)
    <3> DEFINE g == (k + 1) * Chunk
    <3>1. g \in Nat /\ 0 < g /\ g <= n
      BY <1>0, <2>2
    <3> HIDE DEF g
    <3>2. PinsAt(g)' = PinsAt(g)
      BY <3>1, PinsSettled
    <3> QED BY <3>2 DEF g
  <2> QED BY <2>3, <2>4, <2>5, <2>6
<1> HIDE DEF S
<1>3. \A k \in Nat : k \in S
  BY <1>1, <1>2, Design!Induction
<1> QED BY <1>3 DEF S

-----------------------------------------------------------------------------
(* The lines of a cycle. *)

\* The recorded calls.
CallsTyped ==
  /\ handed \in Seq(Nat)
  /\ pokes \in Seq([at: Nat, input: Inputs, on: BOOLEAN])
  /\ slots \in Seq([byte: Bytes, start: Nat])

\* The parts of CrossingLines, StartLines and PokeLines.
DigitLines(c) ==
  [i \in Digits |->
     Change(CharAt(i, c) # CharAt(i, c - Chunk), c, <<"SSEG", i, CharAt(i, c)>>)
     \o Change(PointAt(i, c) # PointAt(i, c - Chunk), c, <<"DP", i, PointAt(i, c)>>)]
LedLines(c) ==
  [i \in Leds |-> Change(LedAt(i, c) # LedAt(i, c - Chunk), c, <<"LED", i, LedAt(i, c)>>)]
TxLine(c, tx) ==
  Change(HasUartTx /\ tx.what # "none", c,
         IF tx.what = "byte" THEN <<"TX", tx.state.shift>> ELSE <<"TX framing error">>)
StartLine(k, c, fresh) ==
  Change(slots[k].start = c /\ ((handed[k] = c) <=> fresh), c, <<"RX", slots[k].byte>>)
PokeLine(k, c) ==
  Change(pokes[k].at = c, c, <<"IN", pokes[k].input, pokes[k].on>>)

LEMMA LinesParts ==
  ASSUME NEW c, NEW fresh
  PROVE  /\ CrossingLines(c) = Cat(Cat(FlattenSeq(DigitLines(c)), FlattenSeq(LedLines(c))),
                                   TxLine(c, TxAt(c \div Chunk)))
         /\ StartLines(c, fresh) = FlattenSeq([k \in DOMAIN slots |-> StartLine(k, c, fresh)])
         /\ PokeLines(c) = FlattenSeq([k \in DOMAIN pokes |-> PokeLine(k, c)])
<1>1. CrossingLines(c) = Cat(Cat(FlattenSeq(DigitLines(c)), FlattenSeq(LedLines(c))),
                             TxLine(c, TxAt(c \div Chunk)))
  BY Zenon DEF CrossingLines, DigitLines, LedLines, TxLine, Cat
<1>2. StartLines(c, fresh) = FlattenSeq([k \in DOMAIN slots |-> StartLine(k, c, fresh)])
  BY Zenon DEF StartLines, StartLine
<1>3. PokeLines(c) = FlattenSeq([k \in DOMAIN pokes |-> PokeLine(k, c)])
  BY Zenon DEF PokeLines, PokeLine
<1> QED BY <1>1, <1>2, <1>3

\* A family over the indices of a sequence, or over digits or LEDs.
LEMMA FamilyOver ==
  ASSUME NEW n \in Nat, NEW D, D = 1..n, NEW f, f = [k \in D |-> f[k]]
  PROVE  Family(f, n)
BY DEF Family, Design!Family

LEMMA DisplayFamilies ==
  ASSUME NEW c
  PROVE  /\ \E n \in Nat : Digits = 1..n /\ Family(DigitLines(c), n)
         /\ \E n \in Nat : Leds = 1..n /\ Family(LedLines(c), n)
<1>1. /\ DigitLines(c) = [i \in Digits |-> DigitLines(c)[i]]
      /\ LedLines(c) = [i \in Leds |-> LedLines(c)[i]]
  BY DEF DigitLines, LedLines
<1>2. PICK n \in Nat : Digits = 1..n
  BY Numbered
<1>3. PICK m \in Nat : Leds = 1..m
  BY Numbered
<1>4. Family(DigitLines(c), n) /\ Family(LedLines(c), m)
  BY <1>1, <1>2, <1>3, FamilyOver
<1> QED BY <1>2, <1>3, <1>4

LEMMA CrossingIsLines ==
  ASSUME NEW c
  PROVE  IsLines(CrossingLines(c))
<1>1. IsLines(FlattenSeq(DigitLines(c)))
  <2>1. PICK n \in Nat : Digits = 1..n /\ Family(DigitLines(c), n)
    BY DisplayFamilies
  <2>2. ASSUME NEW i \in 1..n PROVE IsLines(DigitLines(c)[i])
    <3> DEFINE s == Change(CharAt(i, c) # CharAt(i, c - Chunk), c, <<"SSEG", i, CharAt(i, c)>>)
    <3> DEFINE t == Change(PointAt(i, c) # PointAt(i, c - Chunk), c, <<"DP", i, PointAt(i, c)>>)
    <3>1. IsLines(s) /\ IsLines(t)
      BY ChangeIsLines
    <3>2. DigitLines(c)[i] = Cat(s, t)
      BY <2>1, Zenon DEF DigitLines, Cat
    <3> HIDE DEF s, t
    <3> QED BY <3>1, <3>2, CatIsLines
  <2> QED BY <2>1, <2>2, FlattenIsLines
<1>2. IsLines(FlattenSeq(LedLines(c)))
  <2>1. PICK n \in Nat : Leds = 1..n /\ Family(LedLines(c), n)
    BY DisplayFamilies
  <2>2. ASSUME NEW i \in 1..n PROVE IsLines(LedLines(c)[i])
    BY <2>1, ChangeIsLines DEF LedLines
  <2> QED BY <2>1, <2>2, FlattenIsLines
<1>3. IsLines(TxLine(c, TxAt(c \div Chunk)))
  BY ChangeIsLines DEF TxLine
<1> QED BY <1>1, <1>2, <1>3, CatIsLines, LinesParts

LEMMA CallFamilies ==
  ASSUME CallsTyped, NEW c, NEW fresh
  PROVE  /\ DOMAIN slots = 1..Len(slots) /\ Len(slots) \in Nat
         /\ DOMAIN pokes = 1..Len(pokes) /\ Len(pokes) \in Nat
         /\ Family([k \in DOMAIN slots |-> StartLine(k, c, fresh)], Len(slots))
         /\ Family([k \in DOMAIN pokes |-> PokeLine(k, c)], Len(pokes))
<1>1. DOMAIN slots = 1..Len(slots) /\ Len(slots) \in Nat
  BY LenProperties DEF CallsTyped
<1>2. DOMAIN pokes = 1..Len(pokes) /\ Len(pokes) \in Nat
  BY LenProperties DEF CallsTyped
<1> DEFINE f == [k \in DOMAIN slots |-> StartLine(k, c, fresh)]
<1> DEFINE g == [k \in DOMAIN pokes |-> PokeLine(k, c)]
<1>3. f = [k \in DOMAIN slots |-> f[k]] /\ g = [k \in DOMAIN pokes |-> g[k]]
  OBVIOUS
<1>4. Family(f, Len(slots)) /\ Family(g, Len(pokes))
  <2> HIDE DEF f, g
  <2> QED BY <1>1, <1>2, <1>3, FamilyOver
<1> QED BY <1>1, <1>2, <1>4

LEMMA CallsAreLines ==
  ASSUME CallsTyped, NEW c, NEW fresh
  PROVE  IsLines(StartLines(c, fresh)) /\ IsLines(PokeLines(c))
<1> DEFINE f == [k \in DOMAIN slots |-> StartLine(k, c, fresh)]
<1> DEFINE g == [k \in DOMAIN pokes |-> PokeLine(k, c)]
<1>1. \A k \in 1..Len(slots) : IsLines(f[k])
  BY CallFamilies, ChangeIsLines DEF StartLine
<1>2. \A k \in 1..Len(pokes) : IsLines(g[k])
  BY CallFamilies, ChangeIsLines DEF PokeLine
<1>3. Family(f, Len(slots)) /\ Family(g, Len(pokes))
  BY CallFamilies
<1>4. StartLines(c, fresh) = FlattenSeq(f) /\ PokeLines(c) = FlattenSeq(g)
  BY LinesParts
<1> HIDE DEF f, g
<1> QED BY <1>1, <1>2, <1>3, <1>4, FlattenIsLines

\* The lines of crossings only come at crossings.
Outputs(c) == IF c > 0 /\ c % Chunk = 0 THEN CrossingLines(c) ELSE <<>>

LEMMA OutputsAreLines == ASSUME NEW c PROVE IsLines(Outputs(c))
BY CrossingIsLines, NoLines DEF Outputs

LEMMA LinesOfParts ==
  ASSUME CallsTyped, NEW c
  PROVE  /\ LinesOf(c) = Cat(Cat(Cat(Outputs(c), StartLines(c, FALSE)), PokeLines(c)),
                             IF Rx!EdgeDueBy(c) THEN <<>> ELSE StartLines(c, TRUE))
         /\ IsLines(LinesOf(c))
<1>1. LinesOf(c) = Cat(Cat(Cat(Outputs(c), StartLines(c, FALSE)), PokeLines(c)),
                       IF Rx!EdgeDueBy(c) THEN <<>> ELSE StartLines(c, TRUE))
  BY Zenon DEF LinesOf, Outputs, Cat
<1>2. IsLines(IF Rx!EdgeDueBy(c) THEN <<>> ELSE StartLines(c, TRUE))
  BY CallsAreLines, NoLines
<1>3. /\ IsLines(Outputs(c)) /\ IsLines(StartLines(c, FALSE)) /\ IsLines(PokeLines(c))
  BY OutputsAreLines, CallsAreLines
<1> QED BY <1>1, <1>2, <1>3, CatIsLines

\* All lines of the cycles before n.
Before(n) == FlattenSeq([k \in 1..n |-> LinesOf(k - 1)])

LEMMA BeforeGrows ==
  ASSUME CallsTyped
  PROVE  /\ Before(0) = <<>>
         /\ \A n \in Nat : IsLines(Before(n)) /\ Before(n + 1) = Cat(Before(n), LinesOf(n))
<1> DEFINE F(n) == [k \in 1..n |-> LinesOf(k - 1)]
<1>1. ASSUME NEW n \in Nat PROVE Family(F(n), n)
  BY DEF Family, Design!Family
<1>2. ASSUME NEW n \in Nat, NEW k \in 1..n PROVE IsLines(F(n)[k])
  BY LinesOfParts
<1>3. ASSUME NEW n \in Nat PROVE \A k \in 1..n : F(n + 1)[k] = F(n)[k]
  OBVIOUS
<1>4. ASSUME NEW n \in Nat PROVE F(n + 1)[n + 1] = LinesOf(n)
  <2>1. (n + 1) - 1 = n /\ n + 1 \in 1..(n + 1)
    OBVIOUS
  <2> QED BY <2>1
<1>5. ASSUME NEW n \in Nat PROVE Before(n) = FlattenSeq(F(n))
  BY DEF Before
<1> HIDE DEF F
<1>6. ASSUME NEW n \in Nat PROVE IsLines(Before(n))
  BY <1>1, <1>2, <1>5, FlattenIsLines
<1>7. ASSUME NEW n \in Nat PROVE Before(n + 1) = Cat(Before(n), LinesOf(n))
  <2>1. n + 1 \in Nat
    OBVIOUS
  <2>2. Family(F(n), n) /\ Family(F(n + 1), n + 1)
    BY <1>1, <2>1
  <2>3. \A k \in 1..(n + 1) : IsLines(F(n + 1)[k])
    BY <1>2, <2>1
  <2>4. FlattenSeq(F(n + 1)) = Cat(FlattenSeq(F(n)), F(n + 1)[n + 1])
    BY <1>3, <2>2, <2>3, FlattenGrows
  <2> QED BY <1>4, <1>5, <2>1, <2>4
<1>8. Before(0) = <<>>
  <2>1. Family(F(0), 0) /\ \A k \in 1..0 : F(0)[k] = <<>>
    BY <1>1
  <2> QED BY <1>5, <2>1, FlattenEmpty
<1> QED BY <1>6, <1>7, <1>8

\* Cycles without lines add nothing.
LEMMA BeforeStays ==
  ASSUME CallsTyped, NEW n \in Nat, NEW m \in Nat, m <= n,
         \A c \in Nat : m <= c /\ c < n => LinesOf(c) = <<>>
  PROVE  Before(n) = Before(m)
<1> DEFINE S == {d \in Nat : m + d <= n => Before(m + d) = Before(m)}
<1>1. 0 \in S
  OBVIOUS
<1>2. ASSUME NEW d \in Nat, d \in S PROVE d + 1 \in S
  <2> SUFFICES ASSUME m + (d + 1) <= n PROVE Before(m + (d + 1)) = Before(m)
    OBVIOUS
  <2>1. m + d \in Nat /\ m + (d + 1) = (m + d) + 1 /\ m <= m + d /\ m + d < n
    OBVIOUS
  <2>2. LinesOf(m + d) = <<>>
    BY <2>1
  <2>3. Before((m + d) + 1) = Cat(Before(m + d), <<>>)
    BY <2>1, <2>2, BeforeGrows
  <2>4. Before((m + d) + 1) = Before(m + d)
    BY <2>1, <2>3, BeforeGrows, CatNone
  <2> QED BY <1>2, <2>1, <2>4
<1>3. n - m \in S
  <2> HIDE DEF S
  <2> QED BY <1>1, <1>2, Design!Induction
<1>4. m + (n - m) = n
  OBVIOUS
<1> QED BY <1>3, <1>4

\* The lines of the cycles before n, and the outputs of cycle n.
LEMMA MultipleAhead ==
  ASSUME NEW c \in Nat, 0 < c, c % Chunk = 0
  PROVE  c - Chunk \in Nat /\ c \div Chunk \in Nat /\ (c \div Chunk) * Chunk = c
<1>1. Chunk \in Nat \ {0} /\ 0 \in Nat
  BY BoardAssumption
<1>2. ~(c < Chunk)
  <2> SUFFICES ASSUME c < Chunk PROVE FALSE
    OBVIOUS
  <2>1. c \in 0..(Chunk - 1) /\ c = 0 * Chunk + c
    BY <1>1
  <2>2. c % Chunk = c
    BY <1>1, <2>1, DivisionIs
  <2> QED BY <2>2
<1>3. c \div Chunk \in Nat /\ c = (c \div Chunk) * Chunk + 0
  BY ChunkDivides
<1>4. (c \div Chunk) * Chunk \in Nat
  BY ChunkDivides
<1> QED BY <1>1, <1>2, <1>3, <1>4

LEMMA OutputsSettled ==
  ASSUME NEW n \in Nat, Settled(n), NEW c \in Nat, c <= n
  PROVE  Outputs(c)' = Outputs(c)
<1>1. CASE ~(c > 0 /\ c % Chunk = 0)
  BY <1>1 DEF Outputs
<1>2. CASE c > 0 /\ c % Chunk = 0
  <2>1. c - Chunk \in Nat /\ c - Chunk <= n /\ (c \div Chunk) \in Nat /\ (c \div Chunk) * Chunk <= n
    BY <1>2, MultipleAhead, BoardAssumption
  <2>2. \A i : /\ LedAt(i, c)' = LedAt(i, c) /\ LedAt(i, c - Chunk)' = LedAt(i, c - Chunk)
               /\ CharAt(i, c)' = CharAt(i, c) /\ CharAt(i, c - Chunk)' = CharAt(i, c - Chunk)
               /\ PointAt(i, c)' = PointAt(i, c) /\ PointAt(i, c - Chunk)' = PointAt(i, c - Chunk)
    BY <2>1, DisplaySettled
  <2>3. TxAt(c \div Chunk)' = TxAt(c \div Chunk)
    BY <2>1, TxSettled
  <2>4. CrossingLines(c)' = CrossingLines(c)
    BY <2>2, <2>3, Zenon DEF CrossingLines, Change, Event
  <2> QED BY <1>2, <2>4 DEF Outputs
<1> QED BY <1>1, <1>2

\* Recorded calls of other cycles add nothing to this one.
CallLinesSettled(c) ==
  /\ StartLines(c, FALSE)' = StartLines(c, FALSE)
  /\ StartLines(c, TRUE)' = StartLines(c, TRUE)
  /\ PokeLines(c)' = PokeLines(c)

LEMMA SameCalls ==
  ASSUME slots' = slots, handed' = handed, pokes' = pokes
  PROVE  \A c : CallLinesSettled(c)
BY Zenon DEF CallLinesSettled, StartLines, PokeLines, Change, Event

LEMMA LinesSettled ==
  ASSUME NEW n \in Nat, Settled(n), NEW c \in Nat, c <= n, CallLinesSettled(c),
         Rx!EdgeDueBy(c)' = Rx!EdgeDueBy(c)
  PROVE  LinesOf(c)' = LinesOf(c)
<1>1. Outputs(c)' = Outputs(c)
  BY OutputsSettled
<1>2. PICK o, s, p, t : /\ o = Outputs(c) /\ s = StartLines(c, FALSE) /\ p = PokeLines(c)
                        /\ t = IF Rx!EdgeDueBy(c) THEN <<>> ELSE StartLines(c, TRUE)
  OBVIOUS
<1>3. LinesOf(c) = Cat(Cat(Cat(o, s), p), t)
  BY <1>2, Zenon DEF LinesOf, Outputs, Cat
<1>4. /\ Outputs(c)' = o /\ StartLines(c, FALSE)' = s /\ PokeLines(c)' = p
      /\ (IF Rx!EdgeDueBy(c)' THEN <<>> ELSE StartLines(c, TRUE)') = t
  BY <1>1, <1>2 DEF CallLinesSettled
<1>5. LinesOf(c)' = Cat(Cat(Cat(o, s), p), t)
  <2>1. LinesOf(c)' = ((Outputs(c)' \o StartLines(c, FALSE)') \o PokeLines(c)')
                        \o (IF Rx!EdgeDueBy(c)' THEN <<>> ELSE StartLines(c, TRUE)')
    BY Zenon DEF LinesOf, Outputs
  <2> QED BY <1>4, <2>1, Zenon DEF Cat
<1> QED BY <1>3, <1>5

LEMMA BeforeSettled ==
  ASSUME NEW n \in Nat, \A c \in Nat : c < n => LinesOf(c)' = LinesOf(c)
  PROVE  Before(n)' = Before(n)
<1>1. ASSUME NEW k \in 1..n PROVE LinesOf(k - 1)' = LinesOf(k - 1)
  <2>1. k - 1 \in Nat /\ k - 1 < n
    OBVIOUS
  <2> QED BY <2>1
<1> QED BY <1>1, Zenon DEF Before

-----------------------------------------------------------------------------
(* Where frames start. *)

\* The fields of the driver, while its caller keeps the contract.
LEMMA DriverFacts ==
  ASSUME RxP!IInv, RxP!LineInv
  PROVE  /\ slots \in Seq([byte: Bytes, start: Nat]) /\ Len(slots) \in Nat
         /\ DOMAIN slots = 1..Len(slots) /\ queue \in Seq(Bytes) /\ Len(queue) \in Nat
         /\ Rx!Sent \in Nat /\ Rx!Sent = Len(slots) - Len(queue) /\ Rx!Sent <= Len(slots)
         /\ frameStart \in Nat /\ lineFree \in Nat /\ now \in Nat /\ edgeIndex \in Nat
         /\ Bit \in Nat /\ Bit > 0 /\ RxP!Frame \in Nat /\ RxP!Frame > Bit
         /\ RxP!EdgeCycle = Rx!EdgeCycle /\ RxP!Sent = Rx!Sent
<1>1. RxP!TypeOK /\ RxP!QueueIsPending
  BY DEF RxP!IInv, RxP!RxInv
<1>2. /\ slots \in Seq([byte: Bytes, start: Nat]) /\ Len(slots) \in Nat
      /\ DOMAIN slots = 1..Len(slots) /\ queue \in Seq(Bytes) /\ Len(queue) \in Nat
  BY <1>1, LenProperties DEF RxP!TypeOK
<1>3. frameStart \in Nat /\ lineFree \in Nat /\ now \in Nat /\ edgeIndex \in Nat
  BY <1>1, DriverAssumption DEF RxP!TypeOK
<1>4. /\ Bit \in Nat /\ Bit > 0 /\ RxP!Frame \in Nat /\ RxP!Frame > Bit
  <2>1. Bit \in Nat /\ Bit > 0 /\ DataBits \in Nat
    BY DriverAssumption
  <2>2. RxP!Frame = DataBits * Bit + Bit + Bit
    BY <2>1 DEF RxP!Frame
  <2>3. DataBits * Bit \in Nat
    BY <2>1
  <2> QED BY <2>1, <2>2, <2>3
<1>5. Rx!Sent \in Nat /\ Rx!Sent = Len(slots) - Len(queue) /\ Rx!Sent <= Len(slots)
  BY <1>1, <1>2 DEF Rx!Sent, RxP!QueueIsPending
<1>6. RxP!EdgeCycle = Rx!EdgeCycle /\ RxP!Sent = Rx!Sent
  BY DEF RxP!EdgeCycle, Rx!EdgeCycle, RxP!Sent, Rx!Sent
<1> QED BY <1>2, <1>3, <1>4, <1>5, <1>6

\* The edge in flight and the frame it belongs to.
LEMMA EdgeFacts ==
  ASSUME RxP!IInv, RxP!LineInv, shifting
  PROVE  /\ Rx!EdgeCycle \in Nat /\ now <= Rx!EdgeCycle /\ frameStart <= Rx!EdgeCycle
         /\ Rx!EdgeCycle < frameStart + RxP!Frame
         /\ edgeIndex = 0 => Rx!EdgeCycle = frameStart
         /\ edgeIndex > 0 => frameStart <= now /\ frameStart < Rx!EdgeCycle
         /\ Rx!Sent + 1 \in 1..Len(slots)
         /\ slots[Rx!Sent + 1] = [byte |-> Head(queue), start |-> frameStart]
<1>0. /\ RxP!TypeOK /\ RxP!QueueIsPending /\ RxP!EdgeOnTime
  BY DEF RxP!IInv, RxP!RxInv
<1>1. /\ queue \in Seq(Bytes) /\ Len(queue) \in Nat /\ Len(slots) \in Nat
      /\ Rx!Sent \in Nat /\ Rx!Sent = Len(slots) - Len(queue)
      /\ frameStart \in Nat /\ now \in Nat /\ edgeIndex \in Nat
      /\ Bit \in Nat /\ Bit > 0 /\ RxP!Frame \in Nat
      /\ RxP!EdgeCycle = Rx!EdgeCycle /\ RxP!Sent = Rx!Sent
  BY DriverFacts
<1>2. /\ edgeIndex * Bit \in Nat /\ Rx!EdgeCycle = frameStart + edgeIndex * Bit
      /\ Rx!EdgeCycle + Bit <= frameStart + RxP!Frame /\ now <= Rx!EdgeCycle
  BY <1>1, DriverAssumption, RxP!EdgeBeforeEnd
<1>3. edgeIndex = 0 => edgeIndex * Bit = 0
  BY <1>1
<1>4. ASSUME edgeIndex > 0 PROVE frameStart <= now /\ frameStart < Rx!EdgeCycle
  <2>1. Rx!EdgeCycle - Bit <= now
    BY <1>0, <1>1, <1>4 DEF RxP!EdgeOnTime
  <2>2. PICK e \in Nat : edgeIndex = e + 1
    <3>1. edgeIndex - 1 \in Nat /\ edgeIndex = (edgeIndex - 1) + 1
      BY <1>1, <1>4
    <3> QED BY <3>1
  <2>3. edgeIndex * Bit = e * Bit + Bit /\ e * Bit \in Nat
    BY <1>1, <2>2
  <2> QED BY <1>1, <1>2, <2>1, <2>3
<1>5. queue # <<>> /\ Len(queue) > 0
  <2>1. queue # <<>>
    BY <1>0 DEF RxP!QueueIsPending
  <2> QED BY <1>1, <2>1, EmptySeq
<1>6. 1 \in 1..Len(queue) /\ Rx!Sent + 1 \in 1..Len(slots) /\ Head(queue) = queue[1]
  BY <1>1, <1>5
<1>7. RxP!PromisedStart(frameStart, 1) = frameStart
  <2>1. (1 - 1) * RxP!Frame = 0
    BY <1>1
  <2> QED BY <1>1, <2>1 DEF RxP!PromisedStart
<1>8. slots[Rx!Sent + 1] = [byte |-> Head(queue), start |-> frameStart]
  <2>1. slots[RxP!Sent + 1] = [byte |-> queue[1], start |-> RxP!PromisedStart(frameStart, 1)]
    BY <1>0, <1>6 DEF RxP!QueueIsPending
  <2> QED BY <1>1, <1>6, <1>7, <2>1
<1>9. now <= Rx!EdgeCycle /\ frameStart <= Rx!EdgeCycle
  BY <1>1, <1>2
<1>10. Rx!EdgeCycle < frameStart + RxP!Frame /\ Rx!EdgeCycle \in Nat
  BY <1>1, <1>2
<1>11. edgeIndex = 0 => Rx!EdgeCycle = frameStart
  BY <1>1, <1>2, <1>3
<1> QED BY <1>4, <1>6, <1>8, <1>9, <1>10, <1>11

\* Frames that are complete began before now; the one in flight begins at
\* frameStart, and those after it when it is over.
LEMMA FrameStarts ==
  ASSUME RxP!IInv, RxP!LineInv, NEW k \in 1..Len(slots)
  PROVE  /\ slots[k].start \in Nat
         /\ k <= Rx!Sent => slots[k].start < now
         /\ k > Rx!Sent => shifting
         /\ k = Rx!Sent + 1 => slots[k].start = frameStart
         /\ k > Rx!Sent + 1 => slots[k].start >= frameStart + RxP!Frame
<1>1. /\ slots \in Seq([byte: Bytes, start: Nat]) /\ Len(slots) \in Nat
      /\ queue \in Seq(Bytes) /\ Len(queue) \in Nat
      /\ Rx!Sent \in Nat /\ Rx!Sent = Len(slots) - Len(queue) /\ Rx!Sent <= Len(slots)
      /\ frameStart \in Nat /\ now \in Nat /\ lineFree \in Nat
      /\ Bit \in Nat /\ Bit > 0 /\ RxP!Frame \in Nat /\ RxP!Frame > Bit
      /\ RxP!Sent = Rx!Sent
  BY DriverFacts
<1>2. slots[k].start \in Nat
  <2>1. slots[k] \in [byte: Bytes, start: Nat]
    BY <1>1, ElementOfSeq
  <2> QED BY <2>1
<1>3. \A i, j \in 1..Len(slots) : i < j => slots[i].start + RxP!Frame <= slots[j].start
  BY DEF RxP!LineInv, RxP!FramesApart
<1>4. ASSUME k <= Rx!Sent PROVE slots[k].start < now
  <2>0. PICK s : s = Rx!Sent
    OBVIOUS
  <2>1. s \in 1..Len(slots) /\ s > 0 /\ k <= s /\ s \in Nat /\ k \in Nat
    BY <1>1, <1>4, <2>0
  <2>2. lineFree = slots[s].start + RxP!Frame /\ lineFree <= now + Bit
    BY <1>1, <2>0, <2>1 DEF RxP!IInv, RxP!RxInv, RxP!LineOwned, RxP!LineInv, RxP!StopBitLasts
  <2>3. slots[s].start \in Nat
    <3>1. slots[s] \in [byte: Bytes, start: Nat]
      BY <1>1, <2>1, ElementOfSeq
    <3> QED BY <3>1
  <2>4. slots[k].start <= slots[s].start
    <3>1. CASE k = s
      BY <2>3, <3>1
    <3>2. CASE k < s
      <4>1. slots[k].start + RxP!Frame <= slots[s].start /\ RxP!Frame \in Nat
        BY <1>1, <1>3, <2>1, <3>2
      <4> QED BY <1>2, <2>3, <4>1
    <3> QED BY <2>1, <3>1, <3>2
  <2>5. RxP!Frame \in Nat /\ RxP!Frame > Bit /\ Bit \in Nat /\ now \in Nat
    BY <1>1
  <2> QED BY <1>2, <2>2, <2>3, <2>4, <2>5
<1>5. ASSUME k > Rx!Sent PROVE shifting
  <2>1. Len(queue) # 0
    BY <1>1, <1>5
  <2>2. queue # <<>>
    BY <1>1, <2>1, EmptySeq
  <2> QED BY <2>2 DEF RxP!IInv, RxP!RxInv, RxP!QueueIsPending
<1>6. ASSUME k > Rx!Sent
      PROVE  Rx!Sent + 1 \in 1..Len(slots) /\ slots[Rx!Sent + 1].start = frameStart
  BY <1>5, <1>6, EdgeFacts
<1>7. k > Rx!Sent + 1 => k > Rx!Sent /\ Rx!Sent + 1 < k
  BY <1>1
<1>8. k = Rx!Sent + 1 => k > Rx!Sent
  BY <1>1
<1>9. ASSUME k > Rx!Sent + 1 PROVE slots[k].start >= frameStart + RxP!Frame
  BY <1>1, <1>2, <1>3, <1>6, <1>7, <1>9
<1> QED BY <1>2, <1>4, <1>5, <1>6, <1>8, <1>9

\* A start to come is due by its cycle: its own edge, or one before it, is next.
LEMMA StartIsDue ==
  ASSUME RxP!IInv, RxP!LineInv, NEW k \in 1..Len(slots), slots[k].start > now
  PROVE  Rx!EdgeDueBy(slots[k].start)
<1>1. /\ slots[k].start \in Nat /\ now \in Nat /\ Rx!Sent \in Nat /\ edgeIndex \in Nat
      /\ frameStart \in Nat /\ RxP!Frame \in Nat
  BY DriverFacts, FrameStarts
<1>2. k > Rx!Sent /\ shifting
  BY <1>1, FrameStarts
<1>3. CASE k = Rx!Sent + 1
  <2>1. slots[k].start = frameStart
    BY <1>3, FrameStarts
  <2>2. edgeIndex = 0
    BY <1>1, <1>2, <2>1, EdgeFacts
  <2> QED BY <1>1, <1>2, <2>1, <2>2, EdgeFacts DEF Rx!EdgeDueBy
<1>4. CASE k > Rx!Sent + 1
  <2>1. slots[k].start >= frameStart + RxP!Frame
    BY <1>4, FrameStarts
  <2>2. Rx!EdgeCycle \in Nat /\ Rx!EdgeCycle < frameStart + RxP!Frame
    BY <1>2, EdgeFacts
  <2> QED BY <1>1, <1>2, <2>1, <2>2 DEF Rx!EdgeDueBy
<1> QED BY <1>1, <1>2, <1>3, <1>4

\* At most one frame starts now, the one in flight.
LEMMA StartNow ==
  ASSUME RxP!IInv, RxP!LineInv, NEW k \in 1..Len(slots), slots[k].start = now
  PROVE  shifting /\ k = Rx!Sent + 1 /\ frameStart = now
<1>1. /\ slots[k].start \in Nat /\ now \in Nat /\ Rx!Sent \in Nat
      /\ frameStart \in Nat /\ RxP!Frame \in Nat
  BY DriverFacts, FrameStarts
<1>2. k > Rx!Sent /\ shifting
  BY <1>1, FrameStarts
<1>3. ~(k > Rx!Sent + 1)
  <2> SUFFICES ASSUME k > Rx!Sent + 1 PROVE FALSE
    OBVIOUS
  <2>1. slots[k].start >= frameStart + RxP!Frame
    BY FrameStarts
  <2>2. Rx!EdgeCycle \in Nat /\ Rx!EdgeCycle < frameStart + RxP!Frame /\ now <= Rx!EdgeCycle
    BY <1>2, EdgeFacts
  <2> QED BY <1>1, <2>1, <2>2
<1>4. k = Rx!Sent + 1
  BY <1>1, <1>2, <1>3
<1> QED BY <1>2, <1>4, FrameStarts

-----------------------------------------------------------------------------
(* The invariant at a cycle. *)

ScheduleAt(c) ==
  CallsTyped /\ CallsInv(c) /\ DueInv(c) /\ SampledInv(c) /\ LogInv(c)

LEMMA SameLevel == \A c : Rx!Line!Level(c) = RxP!Line!Level(c)
BY DEF Rx!Line!Level, RxP!Line!Level, Rx!Line!Symbol, RxP!Line!Symbol

\* No edge is overdue.
LEMMA NotDueBefore ==
  RxP!IInv /\ RxP!LineInv => \A d \in Nat : d < now => ~Rx!EdgeDueBy(d)
<1> SUFFICES ASSUME RxP!IInv, RxP!LineInv, NEW d \in Nat, d < now PROVE ~Rx!EdgeDueBy(d)
  OBVIOUS
<1> SUFFICES ASSUME shifting, Rx!EdgeCycle <= d PROVE FALSE
  BY DEF Rx!EdgeDueBy
<1>1. Rx!EdgeCycle \in Nat /\ now <= Rx!EdgeCycle /\ now \in Nat
  BY EdgeFacts, DriverFacts
<1> QED BY <1>1

LEMMA GridBehind ==
  ASSUME NEW c \in Nat
  PROVE  /\ LastGrid(c) \in Nat /\ LastGrid(c) <= c
         /\ c \div Chunk \in Nat /\ (c \div Chunk) * Chunk <= c
<1>1. /\ c \div Chunk \in Nat /\ c % Chunk \in 0..(Chunk - 1)
      /\ (c \div Chunk) * Chunk \in Nat
      /\ c = (c \div Chunk) * Chunk + (c % Chunk)
  BY ChunkDivides
<1>2. Chunk \in Nat
  BY BoardAssumption
<1>3. PICK p \in Nat : p = (c \div Chunk) * Chunk
  BY <1>1
<1>4. p <= c
  BY <1>1, <1>2, <1>3
<1> QED BY <1>1, <1>3, <1>4 DEF LastGrid

\* What was sampled stays that of the last crossing.
LEMMA SampledStays ==
  ASSUME NEW c \in Nat, SampledInv(c), Settled(c),
         UNCHANGED <<design, display, prevLed, prevChar, prevDp, uartTx>>
  PROVE  SampledInv(c)'
<1>1. LastGrid(c) \in Nat /\ LastGrid(c) <= c /\ c \div Chunk \in Nat /\ (c \div Chunk) * Chunk <= c
  BY GridBehind
<1>2. \A i : /\ DigitAt(i, LastGrid(c))' = DigitAt(i, LastGrid(c))
             /\ LedAt(i, LastGrid(c))' = LedAt(i, LastGrid(c))
             /\ CharAt(i, LastGrid(c))' = CharAt(i, LastGrid(c))
             /\ PointAt(i, LastGrid(c))' = PointAt(i, LastGrid(c))
  BY <1>1, DisplaySettled
<1>3. TxAt(c \div Chunk)' = TxAt(c \div Chunk)
  BY <1>1, TxSettled
<1>4. DesignAt(c)' = DesignAt(c)
  BY DesignSettled
<1>5. design' = design /\ display' = display /\ prevLed' = prevLed /\ prevChar' = prevChar
      /\ prevDp' = prevDp /\ uartTx' = uartTx
  OBVIOUS
<1>6. /\ [i \in Digits |-> DigitAt(i, LastGrid(c))]' = [i \in Digits |-> DigitAt(i, LastGrid(c))]
      /\ [i \in Digits |-> CharAt(i, LastGrid(c))]' = [i \in Digits |-> CharAt(i, LastGrid(c))]
      /\ [i \in Digits |-> PointAt(i, LastGrid(c))]' = [i \in Digits |-> PointAt(i, LastGrid(c))]
      /\ [i \in Leds |-> LedAt(i, LastGrid(c))]' = [i \in Leds |-> LedAt(i, LastGrid(c))]
  BY <1>2
<1> QED BY <1>3, <1>4, <1>5, <1>6 DEF SampledInv

\* The lines of the cycles before c stay.
LEMMA PastStays ==
  ASSUME NEW c \in Nat, Settled(c), \A d \in Nat : d < c => CallLinesSettled(d),
         now = c, now' = c, RxP!IInv, RxP!LineInv, RxP!IInv', RxP!LineInv'
  PROVE  Before(c)' = Before(c) /\ Outputs(c)' = Outputs(c)
<1>1. (RxP!IInv /\ RxP!LineInv => \A d \in Nat : d < now => ~Rx!EdgeDueBy(d))'
  BY NotDueBefore, PTL
<1>2. ASSUME NEW d \in Nat, d < c PROVE ~Rx!EdgeDueBy(d) /\ ~Rx!EdgeDueBy(d)'
  BY <1>1, <1>2, NotDueBefore
<1>3. ASSUME NEW d \in Nat, d < c PROVE LinesOf(d)' = LinesOf(d)
  <2>1. Rx!EdgeDueBy(d)' = Rx!EdgeDueBy(d)
    BY <1>2, <1>3 DEF Rx!EdgeDueBy
  <2> QED BY <1>3, <2>1, LinesSettled
<1> QED BY <1>3, BeforeSettled, OutputsSettled

\* The lines of c that are out, from their parts.
StartsOut(c, fresh) == IF Rx!EdgeDueBy(c) THEN <<>> ELSE StartLines(c, fresh)

LEMMA LinesOutForm ==
  ASSUME NEW c
  PROVE  /\ LinesOut(c) = ((Outputs(c) \o StartsOut(c, FALSE)) \o PokeLines(c))
                            \o StartsOut(c, TRUE)
         /\ LinesOut(c)' = ((Outputs(c)' \o StartsOut(c, FALSE)') \o PokeLines(c)')
                             \o StartsOut(c, TRUE)'
BY Zenon DEF LinesOut, Outputs, StartsOut

\* The log, from the lines of the past and those that are out.
LEMMA LogForm ==
  ASSUME NEW c
  PROVE  /\ LogInv(c) <=> log = Before(c) \o LinesOut(c)
         /\ LogInv(c)' <=> log' = Before(c)' \o LinesOut(c)'
BY Zenon DEF LogInv, Before

\* The calls of the schedule stay.
LEMMA InputsSettled ==
  ASSUME slots' = slots, pokes' = pokes, NEW n
  PROVE  Settled(n)
<1>1. \A c : HeldIn(c)' = HeldIn(c)
  BY DEF HeldIn
<1>2. \A c : Rx!Line!Level(c)' = Rx!Line!Level(c)
  BY DEF Rx!Line!Level, Rx!Line!Symbol
<1> QED BY <1>1, <1>2 DEF Settled, InputsIn

\* A step that changes nothing of the schedule.
LEMMA QuietStep ==
  ASSUME NEW c \in Nat, ScheduleAt(c), UNCHANGED <<rxVars, now, held, design, seen, log, calls>>
  PROVE  CallsTyped' /\ CallsInv(c)' /\ SampledInv(c)' /\ LogInv(c)'
<1>1. /\ slots' = slots /\ pokes' = pokes /\ handed' = handed /\ held' = held /\ log' = log
      /\ shifting' = shifting /\ Rx!EdgeCycle' = Rx!EdgeCycle
      /\ UNCHANGED <<design, display, prevLed, prevChar, prevDp, uartTx>>
  BY DEF rxVars, seen, calls, Rx!EdgeCycle
<1>2. Settled(c) /\ \A d : CallLinesSettled(d)
  BY <1>1, InputsSettled, SameCalls
<1>3. \A d : Rx!EdgeDueBy(d)' = Rx!EdgeDueBy(d)
  BY <1>1 DEF Rx!EdgeDueBy
<1>4. Before(c)' = Before(c) /\ Outputs(c)' = Outputs(c)
  <2>1. \A d \in Nat : d < c => LinesOf(d)' = LinesOf(d)
    BY <1>1, <1>2, <1>3, InputsSettled, LinesSettled
  <2> QED BY <1>2, <2>1, BeforeSettled, OutputsSettled
<1>5. LogInv(c)'
  <2>1. PICK b, o, s, p, t : /\ b = Before(c) /\ o = Outputs(c) /\ p = PokeLines(c)
                             /\ s = StartsOut(c, FALSE) /\ t = StartsOut(c, TRUE)
    OBVIOUS
  <2>2. PICK l : l = LinesOut(c)
    OBVIOUS
  <2>3. l = ((o \o s) \o p) \o t
    BY <2>1, <2>2, LinesOutForm, Zenon
  <2>4. Before(c)' = b /\ Outputs(c)' = o /\ PokeLines(c)' = p
        /\ StartsOut(c, FALSE)' = s /\ StartsOut(c, TRUE)' = t
    BY <1>2, <1>3, <1>4, <2>1 DEF CallLinesSettled, StartsOut
  <2>5. LinesOut(c)' = l
    BY <2>3, <2>4, LinesOutForm, Zenon
  <2>6. log = b \o l
    BY <2>1, <2>2, LogForm, Zenon DEF ScheduleAt
  <2> QED BY <1>1, <2>4, <2>5, <2>6, LogForm, Zenon
<1>6. CallsInv(c)'
  BY <1>1 DEF ScheduleAt, CallsInv, CallsBefore, HeldIn
<1>7. SampledInv(c)'
  BY <1>1, <1>2, SampledStays DEF ScheduleAt
<1>8. CallsTyped'
  BY <1>1 DEF ScheduleAt, CallsTyped
<1> QED BY <1>5, <1>6, <1>7, <1>8

-----------------------------------------------------------------------------
(* Applying an edge. *)

\* The start lines of a cycle in which no frame, or one, starts.
LEMMA StartsNone ==
  ASSUME CallsTyped, NEW c, NEW fresh, \A k \in 1..Len(slots) : slots[k].start # c
  PROVE  StartLines(c, fresh) = <<>>
<1> DEFINE f == [k \in DOMAIN slots |-> StartLine(k, c, fresh)]
<1>1. Family(f, Len(slots)) /\ DOMAIN slots = 1..Len(slots)
  BY CallFamilies
<1>2. \A k \in 1..Len(slots) : f[k] = <<>>
  BY <1>1 DEF StartLine, Change
<1>3. StartLines(c, fresh) = FlattenSeq(f)
  BY LinesParts
<1> HIDE DEF f
<1> QED BY <1>1, <1>2, <1>3, FlattenEmpty

LEMMA StartsOne ==
  ASSUME CallsTyped, NEW c, NEW fresh, NEW m \in 1..Len(slots), slots[m].start = c,
         \A k \in 1..Len(slots) : k # m => slots[k].start # c
  PROVE  StartLines(c, fresh) = StartLine(m, c, fresh)
<1> DEFINE f == [k \in DOMAIN slots |-> StartLine(k, c, fresh)]
<1>1. Family(f, Len(slots)) /\ DOMAIN slots = 1..Len(slots)
  BY CallFamilies
<1>2. \A k \in 1..Len(slots) : k # m => f[k] = <<>>
  BY <1>1 DEF StartLine, Change
<1>3. f[m] = StartLine(m, c, fresh)
  BY <1>1
<1>4. IsLines(StartLine(m, c, fresh))
  BY ChangeIsLines DEF StartLine
<1>5. StartLines(c, fresh) = FlattenSeq(f)
  BY LinesParts
<1> HIDE DEF f
<1> QED BY <1>1, <1>2, <1>3, <1>4, <1>5, FlattenOne

LEMMA PokesNone ==
  ASSUME CallsTyped, NEW c, \A k \in 1..Len(pokes) : pokes[k].at # c
  PROVE  PokeLines(c) = <<>>
<1> DEFINE f == [k \in DOMAIN pokes |-> PokeLine(k, c)]
<1>1. Family(f, Len(pokes)) /\ DOMAIN pokes = 1..Len(pokes)
  BY CallFamilies
<1>2. \A k \in 1..Len(pokes) : f[k] = <<>>
  BY <1>1 DEF PokeLine, Change
<1>3. PokeLines(c) = FlattenSeq(f)
  BY LinesParts
<1> HIDE DEF f
<1> QED BY <1>1, <1>2, <1>3, FlattenEmpty

\* The edge after the one consumed now is to come.
LEMMA NextEdgeAhead ==
  ASSUME RxP!IInv, RxP!LineInv, shifting, Rx!EdgeCycle = now, Rx!AdvanceEdge, now' = now
  PROVE  ~Rx!EdgeDueBy(now)'
<1>1. /\ now \in Nat /\ frameStart \in Nat /\ edgeIndex \in Nat /\ Bit \in Nat /\ Bit > 0
      /\ RxP!Frame \in Nat
  BY DriverFacts
<1>2. Rx!EdgeCycle < frameStart + RxP!Frame
  BY EdgeFacts
<1>3. RxP!Frame = Rx!Frame
  BY DEF RxP!Frame, Rx!Frame
<1> SUFFICES ASSUME shifting' PROVE Rx!EdgeCycle' \in Nat /\ Rx!EdgeCycle' > now
  BY <1>1 DEF Rx!EdgeDueBy
<1>4. CASE edgeIndex = Rx!StopEdge
  <2>1. frameStart' = frameStart + RxP!Frame /\ edgeIndex' = 0
    BY <1>3, <1>4 DEF Rx!AdvanceEdge, Rx!FinishFrame
  <2>2. edgeIndex' * Bit = 0
    BY <1>1, <2>1
  <2> QED BY <1>1, <1>2, <2>1, <2>2 DEF Rx!EdgeCycle
<1>5. CASE edgeIndex # Rx!StopEdge
  <2>1. frameStart' = frameStart /\ edgeIndex' = edgeIndex + 1
    BY <1>5 DEF Rx!AdvanceEdge
  <2>2. edgeIndex' * Bit = edgeIndex * Bit + Bit /\ edgeIndex * Bit \in Nat
    BY <1>1, <2>1
  <2>3. frameStart + edgeIndex * Bit = now
    BY DEF Rx!EdgeCycle
  <2> QED BY <1>1, <2>1, <2>2, <2>3 DEF Rx!EdgeCycle
<1> QED BY <1>4, <1>5

\* Lines that are out, and lines added to them.
LEMMA CatPokes ==
  ASSUME NEW b, NEW o, NEW p, IsLines(b), IsLines(o), IsLines(p)
  PROVE  Cat(b, Cat(Cat(Cat(o, <<>>), p), <<>>)) = Cat(b, Cat(o, p))
<1>1. IsLines(Cat(o, p))
  BY CatIsLines
<1>2. Cat(o, <<>>) = o /\ Cat(Cat(o, p), <<>>) = Cat(o, p)
  BY <1>1, CatNone
<1> QED BY <1>2, Zenon

LEMMA CatEarlyStart ==
  ASSUME NEW b, NEW o, NEW r, IsLines(b), IsLines(o), IsLines(r)
  PROVE  Cat(Cat(b, o), r) = Cat(b, Cat(Cat(Cat(o, r), <<>>), <<>>))
<1>1. IsLines(Cat(o, r))
  BY CatIsLines
<1>2. Cat(Cat(o, r), <<>>) = Cat(o, r)
  BY <1>1, CatNone
<1>3. Cat(Cat(b, o), r) = Cat(b, Cat(o, r))
  BY CatOrder
<1> QED BY <1>2, <1>3, Zenon

LEMMA CatLateStart ==
  ASSUME NEW b, NEW o, NEW p, NEW r, IsLines(b), IsLines(o), IsLines(p), IsLines(r)
  PROVE  Cat(Cat(b, Cat(o, p)), r) = Cat(b, Cat(Cat(Cat(o, <<>>), p), r))
<1>1. IsLines(Cat(o, p))
  BY CatIsLines
<1>2. Cat(o, <<>>) = o
  BY CatNone
<1>3. Cat(Cat(b, Cat(o, p)), r) = Cat(b, Cat(Cat(o, p), r))
  BY <1>1, CatOrder
<1> QED BY <1>2, <1>3, Zenon

LEMMA ApplyStep ==
  ASSUME NEW c \in Nat, now = c, ScheduleAt(c), ApplyEdge,
         RxP!IInv, RxP!LineInv, RxP!IInv', RxP!LineInv'
  PROVE  now' = c /\ ScheduleAt(c)'
<1>1. /\ now' = c /\ slots' = slots /\ handed' = handed /\ pokes' = pokes /\ held' = held
      /\ UNCHANGED <<design, display, prevLed, prevChar, prevDp, uartTx>>
      /\ pc = "edges" /\ pc' = "edges" /\ end' = end
      /\ shifting /\ Rx!EdgeDueBy(c) /\ Rx!AdvanceEdge
      /\ log' = IF edgeIndex = 0 THEN Append(log, Event(c, <<"RX", Head(queue)>>)) ELSE log
  BY DEF ApplyEdge, EdgeDue, Rx!AdvanceEdge, seen, calls, Rx!EdgeDueBy
<1>2. /\ Rx!EdgeCycle = c /\ Rx!Sent + 1 \in 1..Len(slots)
      /\ slots[Rx!Sent + 1] = [byte |-> Head(queue), start |-> frameStart]
      /\ (edgeIndex = 0) <=> (frameStart = c)
  <2>1. Rx!EdgeCycle \in Nat /\ Rx!EdgeCycle <= c /\ c <= Rx!EdgeCycle
    BY <1>1, EdgeFacts DEF Rx!EdgeDueBy
  <2>2. frameStart \in Nat /\ edgeIndex \in Nat
    BY DriverFacts
  <2>3. Rx!EdgeCycle = c
    BY <2>1
  <2> QED BY <1>1, <2>2, <2>3, EdgeFacts
<1>3. ~Rx!EdgeDueBy(c)'
  BY <1>1, <1>2, NextEdgeAhead
<1>4. Settled(c) /\ \A d : CallLinesSettled(d)
  BY <1>1, InputsSettled, SameCalls
<1>5. Before(c)' = Before(c) /\ Outputs(c)' = Outputs(c)
  BY <1>1, <1>4, PastStays
<1>6. PICK b, o, p, s, t : /\ b = Before(c) /\ o = Outputs(c) /\ p = PokeLines(c)
                           /\ s = StartLines(c, FALSE) /\ t = StartLines(c, TRUE)
  OBVIOUS
<1>7. IsLines(b) /\ IsLines(o) /\ IsLines(p)
  BY <1>6, BeforeGrows, OutputsAreLines, CallsAreLines DEF ScheduleAt
<1>8. log = b \o (o \o p)
  <2>1. StartsOut(c, FALSE) = <<>> /\ StartsOut(c, TRUE) = <<>>
    BY <1>1 DEF StartsOut
  <2>2. log = b \o (((o \o <<>>) \o p) \o <<>>)
    BY <1>6, <2>1, LogForm, LinesOutForm, Zenon DEF ScheduleAt
  <2>3. Cat(b, Cat(Cat(Cat(o, <<>>), p), <<>>)) = Cat(b, Cat(o, p))
    BY <1>7, CatPokes
  <2> QED BY <2>2, <2>3, Zenon DEF Cat
<1>9. LogInv(c)' <=> log' = b \o (((o \o s) \o p) \o t)
  <2>1. StartsOut(c, FALSE)' = s /\ StartsOut(c, TRUE)' = t /\ PokeLines(c)' = p
    BY <1>3, <1>4, <1>6 DEF StartsOut, CallLinesSettled
  <2>2. LinesOut(c)' = ((o \o s) \o p) \o t
    BY <1>5, <1>6, <2>1, LinesOutForm, Zenon
  <2> QED BY <1>5, <1>6, <2>2, LogForm, Zenon
<1>10. LogInv(c)'
  <2> DEFINE m == Rx!Sent + 1
  <2>0. \A k \in 1..Len(slots) : slots[k].start = c => k = m /\ edgeIndex = 0
    BY <1>2, StartNow
  <2>1. CASE edgeIndex # 0
    <3>1. s = <<>> /\ t = <<>>
      BY <1>6, <2>0, <2>1, StartsNone DEF ScheduleAt
    <3>2. log' = b \o (((o \o <<>>) \o p) \o <<>>)
      <4>1. Cat(b, Cat(Cat(Cat(o, <<>>), p), <<>>)) = Cat(b, Cat(o, p))
        BY <1>7, CatPokes
      <4> QED BY <1>1, <1>8, <2>1, <4>1, Zenon DEF Cat
    <3> QED BY <1>9, <3>1, <3>2, Zenon
  <2>2. CASE edgeIndex = 0
    <3>1. m \in 1..Len(slots) /\ slots[m].start = c /\ slots[m].byte = Head(queue)
      BY <1>2, <2>2
    <3>2. PICK e : e = Event(c, <<"RX", Head(queue)>>)
      OBVIOUS
    <3> DEFINE r == <<e>>
    <3>3. /\ s = IF (handed[m] = c) <=> FALSE THEN r ELSE <<>>
          /\ t = IF (handed[m] = c) <=> TRUE THEN r ELSE <<>>
      <4>1. CallsTyped /\ \A k \in 1..Len(slots) : k # m => slots[k].start # c
        BY <2>0 DEF ScheduleAt
      <4> HIDE DEF m
      <4>2. s = StartLine(m, c, FALSE) /\ t = StartLine(m, c, TRUE)
        BY <1>6, <3>1, <4>1, StartsOne
      <4> QED BY <3>1, <3>2, <4>2 DEF StartLine, Change
    <3>4. IsLines(r)
      <4>1. r \in Seq({e})
        OBVIOUS
      <4> QED BY <4>1 DEF IsLines, Design!IsSequence
    <3>5. log' = (b \o (o \o p)) \o r
      <4>1. IsLines(Cat(b, Cat(o, p)))
        BY <1>7, CatIsLines
      <4>2. IsLines(log)
        BY <1>8, <4>1 DEF Cat
      <4>3. PICK T : log \in Seq(T)
        BY <4>2 DEF IsLines, Design!IsSequence
      <4>4. log \in Seq(T \cup {e}) /\ log' = Append(log, e)
        BY <1>1, <2>2, <3>2, <4>3, SeqMonotonic
      <4>5. log' = log \o r
        BY <4>4, AppendIsConcat
      <4> QED BY <1>8, <4>5
    <3> HIDE DEF r
    <3>6. CASE handed[m] = c
      <4>1. s = <<>> /\ t = r
        BY <3>3, <3>6
      <4>2. Cat(Cat(b, Cat(o, p)), r) = Cat(b, Cat(Cat(Cat(o, <<>>), p), r))
        BY <1>7, <3>4, CatLateStart
      <4>3. log' = b \o (((o \o <<>>) \o p) \o r)
        BY <3>5, <4>2, Zenon DEF Cat
      <4> QED BY <1>9, <4>1, <4>3, Zenon
    <3>7. CASE handed[m] # c
      <4>1. s = r /\ t = <<>>
        BY <3>3, <3>7
      <4>2. CallsBefore(c)
        BY <1>1, <3>7 DEF ScheduleAt, DueInv
      <4>3. p = <<>>
        <5>1. \A k \in 1..Len(pokes) : pokes[k].at # c
          <6>1. ASSUME NEW k \in 1..Len(pokes) PROVE pokes[k].at # c
            <7>1. k \in DOMAIN pokes /\ pokes[k] \in [at: Nat, input: Inputs, on: BOOLEAN]
              BY ElementOfSeq, LenProperties DEF ScheduleAt, CallsTyped
            <7>2. pokes[k].at \in Nat /\ pokes[k].at < c
              BY <4>2, <7>1 DEF CallsBefore
            <7> QED BY <7>2
          <6> QED BY <6>1
        <5> QED BY <1>6, <5>1, PokesNone DEF ScheduleAt
      <4>4. b \o (o \o p) = b \o o
        <5>1. Cat(o, <<>>) = o
          BY <1>7, CatNone
        <5> QED BY <4>3, <5>1, Zenon DEF Cat
      <4>5. log' = (b \o o) \o r
        BY <3>5, <4>4, Zenon
      <4>6. (b \o o) \o r = b \o (((o \o r) \o <<>>) \o <<>>)
        <5>1. Cat(Cat(b, o), r) = Cat(b, Cat(Cat(Cat(o, r), <<>>), <<>>))
          BY <1>7, <3>4, CatEarlyStart
        <5> QED BY <5>1, Zenon DEF Cat
      <4> QED BY <1>9, <4>1, <4>3, <4>5, <4>6, Zenon
    <3> QED BY <3>6, <3>7
  <2> QED BY <2>1, <2>2
<1>11. CallsInv(c)'
  BY <1>1 DEF ScheduleAt, CallsInv, CallsBefore, HeldIn
<1>12. DueInv(c)'
  BY <1>1, <1>3 DEF ScheduleAt, DueInv, CallsBefore
<1>13. SampledInv(c)'
  BY <1>1, <1>4, SampledStays DEF ScheduleAt
<1>14. CallsTyped'
  BY <1>1 DEF ScheduleAt, CallsTyped
<1> QED BY <1>1, <1>10, <1>11, <1>12, <1>13, <1>14 DEF ScheduleAt

-----------------------------------------------------------------------------
(* tick() is called, and its loop tests its condition. *)

LEMMA TickStep ==
  ASSUME NEW c \in Nat, now = c, ScheduleAt(c), NEW n \in Nat, n # 0, Tick(n)
  PROVE  now' = c /\ ScheduleAt(c)'
<1>1. /\ now' = c /\ pc = "idle" /\ pc' = "edges" /\ end' = c + n
      /\ UNCHANGED <<rxVars, now, held, design, seen, log, calls>>
  BY DEF Tick
<1>2. CallsTyped' /\ CallsInv(c)' /\ SampledInv(c)' /\ LogInv(c)'
  BY <1>1, QuietStep
<1>3. /\ Rx!EdgeDueBy(c)' = Rx!EdgeDueBy(c) /\ edgeIndex' = edgeIndex
      /\ handed' = handed /\ (Rx!Sent)' = Rx!Sent
  BY <1>1 DEF rxVars, calls, Rx!EdgeDueBy, Rx!EdgeCycle, Rx!Sent
<1>4. DueInv(c)'
  <2>1. end' # c
    BY <1>1
  <2>2. Rx!EdgeDueBy(c) => edgeIndex = 0 /\ handed[Rx!Sent + 1] = c
    BY <1>1 DEF ScheduleAt, DueInv
  <2> QED BY <1>1, <1>3, <2>1, <2>2 DEF DueInv
<1> QED BY <1>1, <1>2, <1>4 DEF ScheduleAt

LEMMA LoopStep ==
  ASSUME NEW c \in Nat, now = c, ScheduleAt(c), TickInv, EdgesApplied
  PROVE  now' = c /\ ScheduleAt(c)'
<1>1. /\ now' = c /\ pc = "edges" /\ ~Rx!EdgeDueBy(c)
      /\ UNCHANGED <<rxVars, now, held, design, seen, log, calls>>
  BY DEF EdgesApplied, EdgeDue
<1>2. CallsTyped' /\ CallsInv(c)' /\ SampledInv(c)' /\ LogInv(c)'
  BY <1>1, QuietStep
<1>3. ~Rx!EdgeDueBy(c)'
  BY <1>1 DEF rxVars, Rx!EdgeDueBy, Rx!EdgeCycle
<1>4. handed' = handed /\ slots' = slots /\ DOMAIN slots = DOMAIN handed
  BY <1>1, LenProperties DEF rxVars, calls, ScheduleAt, CallsInv, CallsTyped
<1>5. DueInv(c)'
  <2>1. CASE c < end
    <3>1. pc' = "step" /\ end' # c
      BY <2>1 DEF EdgesApplied
    <3> QED BY <1>3, <3>1 DEF DueInv
  <2>2. CASE ~(c < end)
    <3>1. pc' = "idle"
      BY <2>2 DEF EdgesApplied
    <3>2. end = c
      BY <1>1, <2>2, BoardAssumption DEF TickInv
    <3>3. CallsBefore(c)
      BY <1>1, <3>2 DEF ScheduleAt, DueInv
    <3>4. ASSUME NEW k \in DOMAIN slots PROVE handed[k] # c
      <4>1. k \in DOMAIN handed /\ handed[k] < c
        BY <1>4, <3>3 DEF CallsBefore
      <4> QED BY <4>1
    <3> QED BY <1>3, <1>4, <3>1, <3>4 DEF DueInv
  <2> QED BY <2>1, <2>2
<1> QED BY <1>1, <1>2, <1>5 DEF ScheduleAt

-----------------------------------------------------------------------------
(* A byte is handed over. *)

LEMMA FrameInFlight ==
  RxP!IInv /\ RxP!LineInv /\ shifting => slots[Rx!Sent + 1].start = frameStart
BY EdgeFacts

\* The byte takes the next free slot: later than now when the driver is busy,
\* and the only frame of the driver when it was idle.
LEMMA SendFacts ==
  ASSUME RxP!IInv, RxP!LineInv, RxP!IInv', RxP!LineInv', NEW b \in Bytes, Rx!Send(b)
  PROVE  \E start \in Nat :
           /\ slots' = Append(slots, [byte |-> b, start |-> start]) /\ start >= now
           /\ shifting => /\ start > now /\ Rx!EdgeCycle' = Rx!EdgeCycle
                          /\ edgeIndex' = edgeIndex /\ Rx!Sent' = Rx!Sent
           /\ ~shifting => edgeIndex' = 0 /\ Rx!EdgeCycle' = start /\ Rx!Sent' = Len(slots)
           /\ shifting'
<1>1. RxP!Send(b)
  BY Zenon DEF Rx!Send, RxP!Send, Rx!IdleStart, RxP!IdleStart, Rx!Later, RxP!Later,
     Rx!PromisedStart, RxP!PromisedStart, Rx!Frame, RxP!Frame
<1>2. /\ slots \in Seq([byte: Bytes, start: Nat]) /\ Len(slots) \in Nat
      /\ queue \in Seq(Bytes) /\ Len(queue) \in Nat
      /\ Rx!Sent \in Nat /\ Rx!Sent = Len(slots) - Len(queue)
      /\ frameStart \in Nat /\ now \in Nat /\ RxP!Frame \in Nat /\ Bit \in Nat
  BY DriverFacts
<1>3. PICK start : start = RxP!Line!NextStart
  OBVIOUS
<1>4. /\ slots' = Append(slots, [byte |-> b, start |-> start]) /\ start \in Nat
      /\ slots # <<>> => slots[Len(slots)].start + RxP!Frame <= start
  BY <1>1, <1>3, DriverAssumption, RxP!SendSubmits
<1>5. start >= now
  <2>1. Len(wave) = now
    BY DEF RxP!IInv, RxP!RxInv
  <2>2. start = now \/ start > now
    BY <1>2, <1>3, <1>4, <2>1 DEF RxP!Line!NextStart
  <2> QED BY <1>2, <1>4, <2>2
<1>6. /\ Len(slots') = Len(slots) + 1 /\ slots'[Len(slots) + 1] = [byte |-> b, start |-> start]
  BY <1>2, <1>4, AppendProperties
<1>7. Len(queue') = Len(queue) + 1 /\ shifting'
  BY <1>2, AppendProperties DEF Rx!Send
<1>8. Rx!Sent' = Rx!Sent
  BY <1>2, <1>6, <1>7 DEF Rx!Sent
<1>9. CASE shifting
  <2>1. frameStart' = frameStart /\ edgeIndex' = edgeIndex
    BY <1>9 DEF Rx!Send
  <2>2. Rx!EdgeCycle' = Rx!EdgeCycle
    BY <2>1 DEF Rx!EdgeCycle
  <2>3. /\ Rx!Sent + 1 \in 1..Len(slots) /\ now <= Rx!EdgeCycle
        /\ Rx!EdgeCycle < frameStart + RxP!Frame /\ Rx!EdgeCycle \in Nat
    BY <1>9, EdgeFacts
  <2>4. slots # <<>> /\ Len(slots) \in 1..Len(slots) /\ Len(slots) >= Rx!Sent + 1
    BY <1>2, <2>3
  <2>5. slots[Len(slots)].start \in Nat /\ slots[Len(slots)].start >= frameStart
    <3>1. PICK n : n = Len(slots)
      OBVIOUS
    <3>2. n \in 1..Len(slots) /\ (n = Rx!Sent + 1 \/ n > Rx!Sent + 1)
      BY <1>2, <2>4, <3>1
    <3>3. slots[n].start \in Nat
          /\ (slots[n].start = frameStart \/ slots[n].start >= frameStart + RxP!Frame)
      BY <3>2, FrameStarts
    <3> QED BY <1>2, <3>1, <3>3
  <2>6. start > now
    BY <1>2, <1>4, <2>3, <2>4, <2>5
  <2> QED BY <1>4, <1>5, <1>7, <1>8, <1>9, <2>1, <2>2, <2>6
<1>10. CASE ~shifting
  <2>1. queue = <<>>
    BY <1>10 DEF RxP!IInv, RxP!RxInv, RxP!QueueIsPending
  <2>2. Rx!Sent = Len(slots)
    <3>1. Len(queue) = 0
      BY <2>1
    <3> QED BY <1>2, <3>1
  <2>3. (RxP!IInv /\ RxP!LineInv /\ shifting => slots[Rx!Sent + 1].start = frameStart)'
    BY FrameInFlight, PTL
  <2>4. frameStart' = start
    BY <1>6, <1>7, <1>8, <2>2, <2>3
  <2>5. edgeIndex' = 0
    BY <1>10 DEF Rx!Send
  <2>6. Rx!EdgeCycle' = start
    BY <1>2, <1>4, <2>4, <2>5 DEF Rx!EdgeCycle
  <2> QED BY <1>4, <1>5, <1>7, <1>8, <1>10, <2>2, <2>5, <2>6
<1> QED BY <1>9, <1>10

\* A byte that starts in another cycle adds nothing to this one.
LEMMA StartsStay ==
  ASSUME CallsTyped, Len(handed) = Len(slots), NEW e, slots' = Append(slots, e),
         NEW h \in Nat, handed' = Append(handed, h), NEW d, e.start # d, NEW fresh
  PROVE  StartLines(d, fresh)' = StartLines(d, fresh)
<1> DEFINE f == [k \in DOMAIN slots |-> StartLine(k, d, fresh)]
<1> DEFINE g == [k \in DOMAIN slots' |->
                   Change(slots'[k].start = d /\ ((handed'[k] = d) <=> fresh), d,
                          <<"RX", slots'[k].byte>>)]
<1>1. /\ Len(slots) \in Nat /\ DOMAIN slots = 1..Len(slots) /\ DOMAIN slots' = 1..(Len(slots) + 1)
      /\ slots'[Len(slots) + 1] = e
      /\ \A k \in 1..Len(slots) : slots'[k] = slots[k] /\ handed'[k] = handed[k]
  <2>1. slots \in Seq([byte: Bytes, start: Nat]) /\ handed \in Seq(Nat)
    BY DEF CallsTyped
  <2>2. PICK T : slots \in Seq(T) /\ e \in T
    <3> DEFINE T == [byte: Bytes, start: Nat] \cup {e}
    <3>1. slots \in Seq(T) /\ e \in T
      BY <2>1, SeqMonotonic
    <3> HIDE DEF T
    <3> QED BY <3>1
  <2>3. /\ slots' \in Seq(T) /\ Len(slots') = Len(slots) + 1 /\ slots'[Len(slots) + 1] = e
        /\ \A k \in 1..Len(slots) : slots'[k] = slots[k]
    BY <2>2, AppendProperties
  <2>4. \A k \in 1..Len(slots) : handed'[k] = handed[k]
    BY <2>1, AppendProperties
  <2> QED BY <2>2, <2>3, <2>4, LenProperties
<1>2. Family(f, Len(slots)) /\ \A k \in 1..Len(slots) : IsLines(f[k])
  BY CallFamilies, ChangeIsLines DEF StartLine
<1>3. Family(g, Len(slots) + 1)
  <2>1. g = [k \in DOMAIN slots' |-> g[k]]
    OBVIOUS
  <2> HIDE DEF g
  <2> QED BY <1>1, <2>1, FamilyOver
<1>4. \A k \in 1..Len(slots) : g[k] = f[k]
  BY <1>1 DEF StartLine
<1>5. g[Len(slots) + 1] = <<>>
  BY <1>1 DEF Change
<1>6. StartLines(d, fresh) = FlattenSeq(f) /\ StartLines(d, fresh)' = FlattenSeq(g)
  BY Zenon DEF StartLines, StartLine, Change, Event
<1> HIDE DEF f, g
<1> QED BY <1>1, <1>2, <1>3, <1>4, <1>5, <1>6, FlattenStays

\* A frame says nothing of the cycles before it.
LEMMA LevelStays ==
  ASSUME CallsTyped, NEW b \in Bytes, NEW start \in Nat,
         slots' = Append(slots, [byte |-> b, start |-> start]), NEW d \in Nat, d < start
  PROVE  Rx!Line!Level(d)' = Rx!Line!Level(d)
<1>1. /\ slots \in Seq([byte: Bytes, start: Nat]) /\ Len(slots) \in Nat
      /\ DOMAIN slots = 1..Len(slots) /\ DOMAIN slots' = 1..(Len(slots) + 1)
      /\ slots'[Len(slots) + 1] = [byte |-> b, start |-> start]
      /\ \A k \in 1..Len(slots) : slots'[k] = slots[k]
  <2>1. slots \in Seq([byte: Bytes, start: Nat]) /\ [byte |-> b, start |-> start] \in [byte: Bytes, start: Nat]
    BY DEF CallsTyped
  <2>2. /\ slots' \in Seq([byte: Bytes, start: Nat]) /\ Len(slots') = Len(slots) + 1
        /\ slots'[Len(slots) + 1] = [byte |-> b, start |-> start]
        /\ \A k \in 1..Len(slots) : slots'[k] = slots[k]
    BY <2>1, AppendProperties
  <2> QED BY <2>1, <2>2, LenProperties
<1> DEFINE n == Len(slots)
<1> DEFINE Prescribed(s, k) ==
             \A j \in 0..(DataBits + 1) :
               s[k].start + j * Bit <= d /\ d < s[k].start + (j + 1) * Bit
                 => Rx!Line!Symbol(s[k].byte, j)
<1>2. Rx!Line!Level(d) <=> \A k \in 1..n : Prescribed(slots, k)
  BY <1>1 DEF Rx!Line!Level
<1>3. Rx!Line!Level(d)' <=> \A k \in 1..(n + 1) : Prescribed(slots', k)
  BY <1>1 DEF Rx!Line!Level, Rx!Line!Symbol
<1>4. \A k \in 1..n : Prescribed(slots', k) <=> Prescribed(slots, k)
  BY <1>1
<1>5. Prescribed(slots', n + 1)
  <2>1. ASSUME NEW j \in 0..(DataBits + 1) PROVE ~(start + j * Bit <= d)
    <3>1. Bit \in Nat /\ j \in Nat
      BY BoardAssumption
    <3>2. j * Bit \in Nat
      BY <3>1
    <3> QED BY <3>2
  <2>2. slots'[n + 1].start = start
    BY <1>1
  <2> QED BY <2>1, <2>2
<1>6. 1..(n + 1) = (1..n) \cup {n + 1}
  BY <1>1
<1>7. Rx!Line!Level(d) \in BOOLEAN /\ Rx!Line!Level(d)' \in BOOLEAN
  BY DEF Rx!Line!Level
<1> HIDE DEF Prescribed, n
<1> QED BY <1>2, <1>3, <1>4, <1>5, <1>6, <1>7

LEMMA SendStep ==
  ASSUME NEW c \in Nat, now = c, ScheduleAt(c), NEW b \in Bytes, SendUart(b),
         RxP!IInv, RxP!LineInv, RxP!IInv', RxP!LineInv'
  PROVE  now' = c /\ ScheduleAt(c)'
<1>1. /\ now' = c /\ pc = "idle" /\ pc' = "idle" /\ Rx!Send(b)
      /\ handed' = Append(handed, c) /\ pokes' = pokes /\ held' = held /\ log' = log
      /\ UNCHANGED <<design, display, prevLed, prevChar, prevDp, uartTx>>
  BY DEF SendUart, seen
<1>2. PICK start \in Nat :
        /\ slots' = Append(slots, [byte |-> b, start |-> start]) /\ start >= c
        /\ shifting => /\ start > c /\ Rx!EdgeCycle' = Rx!EdgeCycle
                       /\ edgeIndex' = edgeIndex /\ Rx!Sent' = Rx!Sent
        /\ ~shifting => edgeIndex' = 0 /\ Rx!EdgeCycle' = start /\ Rx!Sent' = Len(slots)
        /\ shifting'
  BY <1>1, SendFacts
<1>3. /\ handed \in Seq(Nat) /\ Len(handed) = Len(slots) /\ Len(slots) \in Nat
      /\ slots \in Seq([byte: Bytes, start: Nat]) /\ DOMAIN slots = 1..Len(slots)
      /\ DOMAIN handed = 1..Len(slots)
  BY LenProperties DEF ScheduleAt, CallsTyped, CallsInv
<1>4. /\ slots' \in Seq([byte: Bytes, start: Nat]) /\ DOMAIN slots' = 1..(Len(slots) + 1)
      /\ Len(slots') = Len(slots) + 1
      /\ slots'[Len(slots) + 1] = [byte |-> b, start |-> start]
      /\ \A k \in 1..Len(slots) : slots'[k] = slots[k]
  <2>1. [byte |-> b, start |-> start] \in [byte: Bytes, start: Nat]
    OBVIOUS
  <2> QED BY <1>2, <1>3, <2>1, AppendProperties, LenProperties
<1>5. /\ handed' \in Seq(Nat) /\ DOMAIN handed' = 1..(Len(slots) + 1)
      /\ Len(handed') = Len(slots) + 1 /\ handed'[Len(slots) + 1] = c
      /\ \A k \in 1..Len(slots) : handed'[k] = handed[k]
  BY <1>1, <1>3, AppendProperties, LenProperties
<1>6. Settled(c)
  <2>1. ASSUME NEW d \in Nat, d < c PROVE Rx!Line!Level(d)' = Rx!Line!Level(d)
    BY <1>2, <2>1, LevelStays DEF ScheduleAt
  <2>2. \A d : HeldIn(d)' = HeldIn(d)
    BY <1>1 DEF HeldIn
  <2> QED BY <2>1, <2>2 DEF Settled, InputsIn
<1>7. ASSUME NEW d, d # start PROVE CallLinesSettled(d)
  <2>1. CallsTyped
    BY DEF ScheduleAt
  <2> DEFINE e == [byte |-> b, start |-> start]
  <2>0. slots' = Append(slots, e) /\ e.start # d /\ handed' = Append(handed, c)
    BY <1>1, <1>2, <1>7
  <2> HIDE DEF e
  <2>2. StartLines(d, FALSE)' = StartLines(d, FALSE)
    BY <1>3, <2>0, <2>1, StartsStay
  <2>3. StartLines(d, TRUE)' = StartLines(d, TRUE)
    BY <1>3, <2>0, <2>1, StartsStay
  <2>4. PokeLines(d)' = PokeLines(d)
    BY <1>1, Zenon DEF PokeLines, Change, Event
  <2> QED BY <2>2, <2>3, <2>4 DEF CallLinesSettled
<1>8. PokeLines(c)' = PokeLines(c)
  BY <1>1, Zenon DEF PokeLines, Change, Event
<1>9. Before(c)' = Before(c) /\ Outputs(c)' = Outputs(c)
  <2>1. \A d \in Nat : d < c => CallLinesSettled(d)
    BY <1>2, <1>7
  <2> QED BY <1>1, <1>6, <2>1, PastStays
<1>10. /\ StartsOut(c, FALSE)' = StartsOut(c, FALSE) /\ StartsOut(c, TRUE)' = StartsOut(c, TRUE)
  <2>1. CASE shifting
    <3>1. Rx!EdgeDueBy(c)' = Rx!EdgeDueBy(c) /\ CallLinesSettled(c)
      BY <1>2, <1>7, <2>1 DEF Rx!EdgeDueBy
    <3> QED BY <3>1 DEF StartsOut, CallLinesSettled
  <2>2. CASE ~shifting
    <3>1. StartLines(c, FALSE) = <<>> /\ StartLines(c, TRUE) = <<>>
      <4>1. \A k \in 1..Len(slots) : slots[k].start # c
        BY <2>2, StartNow
      <4> QED BY <4>1, StartsNone DEF ScheduleAt
    <3>2. StartsOut(c, FALSE) = <<>> /\ StartsOut(c, TRUE) = <<>>
      BY <3>1 DEF StartsOut
    <3>3. CASE start = c
      <4>1. Rx!EdgeDueBy(c)'
        BY <1>2, <2>2, <3>3 DEF Rx!EdgeDueBy
      <4> QED BY <3>2, <4>1 DEF StartsOut
    <3>4. CASE start # c
      <4>1. ~Rx!EdgeDueBy(c)' /\ CallLinesSettled(c)
        BY <1>2, <1>7, <2>2, <3>4 DEF Rx!EdgeDueBy
      <4> QED BY <3>1, <3>2, <4>1 DEF StartsOut, CallLinesSettled
    <3> QED BY <3>3, <3>4
  <2> QED BY <2>1, <2>2
<1>11. LogInv(c)'
  <2>1. PICK k, o, s, p, t : /\ k = Before(c) /\ o = Outputs(c) /\ p = PokeLines(c)
                             /\ s = StartsOut(c, FALSE) /\ t = StartsOut(c, TRUE)
    OBVIOUS
  <2>2. PICK l : l = LinesOut(c)
    OBVIOUS
  <2>3. l = ((o \o s) \o p) \o t
    BY <2>1, <2>2, LinesOutForm, Zenon
  <2>4. Before(c)' = k /\ Outputs(c)' = o /\ PokeLines(c)' = p
        /\ StartsOut(c, FALSE)' = s /\ StartsOut(c, TRUE)' = t
    BY <1>8, <1>9, <1>10, <2>1
  <2>5. LinesOut(c)' = l
    BY <2>3, <2>4, LinesOutForm, Zenon
  <2>6. log = k \o l
    BY <2>1, <2>2, LogForm, Zenon DEF ScheduleAt
  <2> QED BY <1>1, <2>4, <2>5, <2>6, LogForm, Zenon
<1>12. CallsInv(c)'
  <2>1. held' = HeldIn(c)'
    BY <1>1 DEF ScheduleAt, CallsInv, HeldIn
  <2>2. ASSUME NEW k \in DOMAIN handed' PROVE handed'[k] < c + 1
    <3>1. CASE k \in 1..Len(slots)
      <4>1. handed[k] < c + 1
        BY <1>3, <3>1 DEF ScheduleAt, CallsInv, CallsBefore
      <4> QED BY <1>5, <3>1, <4>1
    <3>2. CASE k \notin 1..Len(slots)
      <4>1. k = Len(slots) + 1
        BY <1>3, <1>5, <2>2, <3>2
      <4> QED BY <1>5, <4>1
    <3> QED BY <3>1, <3>2
  <2>3. \A k \in DOMAIN pokes' : pokes'[k].at < c + 1
    BY <1>1 DEF ScheduleAt, CallsInv, CallsBefore
  <2> QED BY <1>4, <1>5, <2>1, <2>2, <2>3 DEF CallsInv, CallsBefore
<1>13. DueInv(c)'
  <2>1. Rx!EdgeDueBy(c)' => edgeIndex' = 0 /\ handed'[Rx!Sent' + 1] = c
    <3>1. CASE shifting
      <4>1. Rx!EdgeDueBy(c)' => Rx!EdgeDueBy(c)
        BY <1>2, <3>1 DEF Rx!EdgeDueBy
      <4>2. Rx!EdgeDueBy(c) => edgeIndex = 0 /\ handed[Rx!Sent + 1] = c
        BY <1>1 DEF ScheduleAt, DueInv
      <4>3. Rx!Sent + 1 \in 1..Len(slots)
        BY <3>1, EdgeFacts
      <4> QED BY <1>2, <1>5, <3>1, <4>1, <4>2, <4>3
    <3>2. CASE ~shifting
      BY <1>2, <1>5, <3>2
    <3> QED BY <3>1, <3>2
  <2>2. ASSUME NEW k \in DOMAIN slots', slots'[k].start = c, handed'[k] = c
        PROVE  Rx!EdgeDueBy(c)'
    <3>1. CASE k \in 1..Len(slots)
      <4>1. Rx!EdgeDueBy(c)
        BY <1>1, <1>3, <1>4, <1>5, <2>2, <3>1 DEF ScheduleAt, DueInv
      <4> QED BY <1>2, <4>1 DEF Rx!EdgeDueBy
    <3>2. CASE k \notin 1..Len(slots)
      <4>1. k = Len(slots) + 1
        BY <1>3, <1>4, <3>2
      <4>2. start = c
        BY <1>4, <2>2, <4>1
      <4> QED BY <1>2, <4>2 DEF Rx!EdgeDueBy
    <3> QED BY <3>1, <3>2
  <2> QED BY <1>1, <2>1, <2>2 DEF DueInv
<1>14. SampledInv(c)'
  BY <1>1, <1>6, SampledStays DEF ScheduleAt
<1>15. CallsTyped'
  BY <1>1, <1>4, <1>5 DEF ScheduleAt, CallsTyped
<1> QED BY <1>1, <1>11, <1>12, <1>13, <1>14, <1>15 DEF ScheduleAt

-----------------------------------------------------------------------------
(* A switch or a button changes. *)

\* No start bit is both of this cycle and handed over in it, or none is not.
LEMMA StartsHandedOver ==
  ASSUME CallsTyped, NEW c
  PROVE  /\ (\A k \in 1..Len(slots) : slots[k].start = c => handed[k] # c)
              => StartLines(c, TRUE) = <<>>
         /\ (\A k \in 1..Len(slots) : slots[k].start = c => handed[k] = c)
              => StartLines(c, FALSE) = <<>>
<1> DEFINE f == [k \in DOMAIN slots |-> StartLine(k, c, FALSE)]
<1> DEFINE t == [k \in DOMAIN slots |-> StartLine(k, c, TRUE)]
<1>1. Family(f, Len(slots)) /\ Family(t, Len(slots)) /\ DOMAIN slots = 1..Len(slots)
  BY CallFamilies
<1>2. ASSUME \A k \in 1..Len(slots) : slots[k].start = c => handed[k] # c
      PROVE  \A k \in 1..Len(slots) : t[k] = <<>>
  BY <1>1, <1>2 DEF StartLine, Change
<1>3. ASSUME \A k \in 1..Len(slots) : slots[k].start = c => handed[k] = c
      PROVE  \A k \in 1..Len(slots) : f[k] = <<>>
  BY <1>1, <1>3 DEF StartLine, Change
<1>4. StartLines(c, FALSE) = FlattenSeq(f) /\ StartLines(c, TRUE) = FlattenSeq(t)
  BY LinesParts
<1> HIDE DEF f, t
<1> QED BY <1>1, <1>2, <1>3, <1>4, FlattenEmpty

\* A transition is the last line of the callers' in its cycle, and no line of
\* another.
LEMMA PokesGrow ==
  ASSUME CallsTyped, NEW c \in Nat, NEW i \in Inputs, NEW on \in BOOLEAN,
         pokes' = Append(pokes, [at |-> c, input |-> i, on |-> on])
  PROVE  /\ pokes' \in Seq([at: Nat, input: Inputs, on: BOOLEAN])
         /\ Len(pokes) \in Nat /\ DOMAIN pokes = 1..Len(pokes)
         /\ DOMAIN pokes' = 1..(Len(pokes) + 1)
         /\ pokes'[Len(pokes) + 1] = [at |-> c, input |-> i, on |-> on]
         /\ \A k \in 1..Len(pokes) : pokes'[k] = pokes[k]
<1>1. /\ pokes \in Seq([at: Nat, input: Inputs, on: BOOLEAN])
      /\ [at |-> c, input |-> i, on |-> on] \in [at: Nat, input: Inputs, on: BOOLEAN]
  BY DEF CallsTyped
<1>2. /\ pokes' \in Seq([at: Nat, input: Inputs, on: BOOLEAN]) /\ Len(pokes') = Len(pokes) + 1
      /\ pokes'[Len(pokes) + 1] = [at |-> c, input |-> i, on |-> on]
      /\ \A k \in 1..Len(pokes) : pokes'[k] = pokes[k]
  BY <1>1, AppendProperties
<1> QED BY <1>1, <1>2, LenProperties

LEMMA PokeLinesGrow ==
  ASSUME CallsTyped, NEW c \in Nat, NEW i \in Inputs, NEW on \in BOOLEAN,
         pokes' = Append(pokes, [at |-> c, input |-> i, on |-> on]), NEW d
  PROVE  /\ d # c => PokeLines(d)' = PokeLines(d)
         /\ d = c => PokeLines(d)' = Cat(PokeLines(d), <<Event(c, <<"IN", i, on>>)>>)
<1> DEFINE f == [k \in DOMAIN pokes |-> PokeLine(k, d)]
<1> DEFINE g == [k \in DOMAIN pokes' |->
                   Change(pokes'[k].at = d, d, <<"IN", pokes'[k].input, pokes'[k].on>>)]
<1>1. /\ Len(pokes) \in Nat /\ DOMAIN pokes = 1..Len(pokes)
      /\ DOMAIN pokes' = 1..(Len(pokes) + 1)
      /\ pokes'[Len(pokes) + 1] = [at |-> c, input |-> i, on |-> on]
      /\ \A k \in 1..Len(pokes) : pokes'[k] = pokes[k]
  BY PokesGrow
<1>2. Family(f, Len(pokes)) /\ \A k \in 1..Len(pokes) : IsLines(f[k])
  BY CallFamilies, ChangeIsLines DEF PokeLine
<1>3. Family(g, Len(pokes) + 1)
  <2>1. g = [k \in DOMAIN pokes' |-> g[k]]
    OBVIOUS
  <2> HIDE DEF g
  <2> QED BY <1>1, <2>1, FamilyOver
<1>4. \A k \in 1..Len(pokes) : g[k] = f[k]
  BY <1>1 DEF PokeLine
<1>5. /\ g[Len(pokes) + 1] = Change(d = c, d, <<"IN", i, on>>)
  <2>1. /\ pokes'[Len(pokes) + 1].at = c /\ pokes'[Len(pokes) + 1].input = i
        /\ pokes'[Len(pokes) + 1].on = on /\ Len(pokes) + 1 \in DOMAIN pokes'
    BY <1>1
  <2> QED BY <2>1 DEF Change, Event
<1>6. PokeLines(d) = FlattenSeq(f) /\ PokeLines(d)' = FlattenSeq(g)
  BY Zenon DEF PokeLines, PokeLine, Change, Event
<1> HIDE DEF f, g
<1>7. ASSUME d # c PROVE PokeLines(d)' = PokeLines(d)
  <2>1. g[Len(pokes) + 1] = <<>>
    BY <1>5, <1>7 DEF Change
  <2> QED BY <1>2, <1>3, <1>4, <1>6, <2>1, FlattenStays
<1>8. ASSUME d = c PROVE PokeLines(d)' = Cat(PokeLines(d), <<Event(c, <<"IN", i, on>>)>>)
  <2>1. g[Len(pokes) + 1] = <<Event(c, <<"IN", i, on>>)>>
    BY <1>5, <1>8 DEF Change
  <2>2. IsLines(g[Len(pokes) + 1])
    BY <1>5, ChangeIsLines
  <2>3. \A k \in 1..(Len(pokes) + 1) : IsLines(g[k])
    BY <1>1, <1>2, <1>4, <2>2
  <2> QED BY <1>2, <1>3, <1>4, <1>6, <2>1, <2>3, FlattenGrows
<1> QED BY <1>7, <1>8

\* It is what the inputs are from its cycle on.
LEMMA HeldGrows ==
  ASSUME CallsTyped, NEW c \in Nat, NEW i \in Inputs, NEW on \in BOOLEAN,
         pokes' = Append(pokes, [at |-> c, input |-> i, on |-> on])
  PROVE  /\ \A d \in Nat : d < c => HeldIn(d)' = HeldIn(d)
         /\ HeldIn(c)' = [HeldIn(c) EXCEPT ![i] = on]
<1> DEFINE of(s, j, d) == {k \in DOMAIN s : s[k].input = j /\ s[k].at <= d}
<1> DEFINE n == Len(pokes) + 1
<1>1. /\ Len(pokes) \in Nat /\ DOMAIN pokes = 1..Len(pokes)
      /\ DOMAIN pokes' = 1..n
      /\ pokes'[n] = [at |-> c, input |-> i, on |-> on]
      /\ \A k \in 1..Len(pokes) : pokes'[k] = pokes[k]
  BY PokesGrow
<1>2. 1..n = (1..Len(pokes)) \cup {n} /\ n \notin 1..Len(pokes) /\ n \in Nat
  BY <1>1
<1>3. pokes'[n].at = c /\ pokes'[n].input = i /\ pokes'[n].on = on
  BY <1>1
<1> HIDE DEF n
<1>4. ASSUME NEW j, NEW d \in Nat, j # i \/ d < c PROVE of(pokes', j, d) = of(pokes, j, d)
  BY <1>1, <1>2, <1>3, <1>4
<1>5. of(pokes', i, c) = of(pokes, i, c) \cup {n}
  BY <1>1, <1>2, <1>3
<1>6. ASSUME NEW j, NEW d \in Nat PROVE of(pokes, j, d) \subseteq 1..Len(pokes)
  BY <1>1
<1>7. ASSUME NEW j, NEW d \in Nat, of(pokes, j, d) # {}
      PROVE  Max(of(pokes, j, d)) \in 1..Len(pokes)
  <2> DEFINE S == of(pokes, j, d)
  <2>1. S \subseteq 0..Len(pokes) /\ S # {}
    BY <1>1, <1>6, <1>7
  <2>2. Max(S) \in S
    <3> HIDE DEF S
    <3> QED BY <1>1, <2>1, MaxExists
  <2> QED BY <1>6, <2>2
<1>8. Max(of(pokes', i, c)) = n
  <2> DEFINE S == of(pokes', i, c)
  <2>1. S \subseteq Int /\ n \in S /\ \A y \in S : y <= n
    BY <1>1, <1>2, <1>5, <1>6
  <2> HIDE DEF S
  <2>2. Max(S) = n
    BY <2>1, MaxIs
  <2> QED BY <2>2 DEF S
<1> DEFINE On(s, j, d) == of(s, j, d) # {} /\ s[Max(of(s, j, d))].on
<1>9. ASSUME NEW d
      PROVE  /\ HeldIn(d) = [j \in Inputs |-> On(pokes, j, d)]
             /\ HeldIn(d)' = [j \in Inputs |-> On(pokes', j, d)]
  BY Zenon DEF HeldIn
<1> HIDE DEF of
<1>10. ASSUME NEW d \in Nat, NEW j, j # i \/ d < c PROVE On(pokes', j, d) = On(pokes, j, d)
  <2>1. CASE of(pokes, j, d) = {}
    BY <1>4, <1>10, <2>1
  <2>2. CASE of(pokes, j, d) # {}
    BY <1>1, <1>4, <1>7, <1>10, <2>2
  <2> QED BY <2>1, <2>2
<1>11. On(pokes', i, c) = on
  BY <1>3, <1>5, <1>8
<1> HIDE DEF On
<1>12. ASSUME NEW d \in Nat, d < c PROVE HeldIn(d)' = HeldIn(d)
  <2>1. \A j \in Inputs : On(pokes', j, d) = On(pokes, j, d)
    BY <1>10, <1>12
  <2>2. HeldIn(d) = [j \in Inputs |-> On(pokes, j, d)]
        /\ HeldIn(d)' = [j \in Inputs |-> On(pokes', j, d)]
    BY <1>9
  <2> QED BY <2>1, <2>2
<1>13. HeldIn(c)' = [HeldIn(c) EXCEPT ![i] = on]
  <2>1. \A j \in Inputs : On(pokes', j, c) = IF j = i THEN on ELSE On(pokes, j, c)
    BY <1>10, <1>11
  <2>2. HeldIn(c) = [j \in Inputs |-> On(pokes, j, c)]
        /\ HeldIn(c)' = [j \in Inputs |-> On(pokes', j, c)]
    BY <1>9
  <2> QED BY <2>1, <2>2
<1> QED BY <1>12, <1>13

LEMMA CatPoke ==
  ASSUME NEW b, NEW o, NEW s, NEW p, NEW r,
         IsLines(b), IsLines(o), IsLines(s), IsLines(p), IsLines(r)
  PROVE  Cat(Cat(b, Cat(Cat(Cat(o, s), p), <<>>)), r)
           = Cat(b, Cat(Cat(Cat(o, s), Cat(p, r)), <<>>))
<1>1. /\ IsLines(Cat(o, s)) /\ IsLines(Cat(p, r))
  BY CatIsLines
<1>2. /\ IsLines(Cat(Cat(o, s), p)) /\ IsLines(Cat(Cat(o, s), Cat(p, r)))
  BY <1>1, CatIsLines
<1>3. /\ Cat(Cat(Cat(o, s), p), <<>>) = Cat(Cat(o, s), p)
      /\ Cat(Cat(Cat(o, s), Cat(p, r)), <<>>) = Cat(Cat(o, s), Cat(p, r))
  BY <1>2, CatNone
<1>4. Cat(Cat(b, Cat(Cat(o, s), p)), r) = Cat(b, Cat(Cat(Cat(o, s), p), r))
  BY <1>2, CatOrder
<1>5. Cat(Cat(Cat(o, s), p), r) = Cat(Cat(o, s), Cat(p, r))
  BY <1>1, CatOrder
<1> QED BY <1>3, <1>4, <1>5, Zenon

\* A line added to lines that are out.
LEMMA OneLine == \A e : IsLines(<<e>>)
<1> SUFFICES ASSUME NEW e PROVE IsLines(<<e>>)
  OBVIOUS
<1>1. <<e>> \in Seq({e})
  OBVIOUS
<1> QED BY <1>1 DEF IsLines, Design!IsSequence

LEMMA AppendIsCat == ASSUME NEW s, NEW e, IsLines(s) PROVE Append(s, e) = s \o <<e>>
<1>1. PICK T : s \in Seq(T)
  BY DEF IsLines, Design!IsSequence
<1>2. s \in Seq(T \cup {e}) /\ e \in T \cup {e}
  BY <1>1, SeqMonotonic
<1> QED BY <1>2, AppendIsConcat

LEMMA InputStep ==
  ASSUME NEW c \in Nat, now = c, ScheduleAt(c), NEW i \in Inputs, SetInput(i),
         RxP!IInv, RxP!LineInv, RxP!IInv', RxP!LineInv'
  PROVE  now' = c /\ ScheduleAt(c)'
<1>1. PICK on \in BOOLEAN :
        /\ held' = [held EXCEPT ![i] = on]
        /\ log' = Append(log, Event(c, <<"IN", i, on>>))
        /\ pokes' = Append(pokes, [at |-> c, input |-> i, on |-> on])
  BY DEF SetInput
<1>2. /\ now' = c /\ pc = "idle" /\ pc' = "idle"
      /\ UNCHANGED <<design, display, prevLed, prevChar, prevDp, uartTx>>
      /\ slots' = slots /\ handed' = handed /\ shifting' = shifting /\ edgeIndex' = edgeIndex
      /\ Rx!EdgeCycle' = Rx!EdgeCycle /\ Rx!Sent' = Rx!Sent
  BY DEF SetInput, rxVars, seen, Rx!EdgeCycle, Rx!Sent
<1>3. CallsTyped
  BY DEF ScheduleAt
<1>4. /\ pokes' \in Seq([at: Nat, input: Inputs, on: BOOLEAN])
      /\ Len(pokes) \in Nat /\ DOMAIN pokes = 1..Len(pokes)
      /\ DOMAIN pokes' = 1..(Len(pokes) + 1)
      /\ pokes'[Len(pokes) + 1] = [at |-> c, input |-> i, on |-> on]
      /\ \A k \in 1..Len(pokes) : pokes'[k] = pokes[k]
  BY <1>1, <1>3, PokesGrow
<1>5. /\ \A d \in Nat : d < c => HeldIn(d)' = HeldIn(d)
      /\ HeldIn(c)' = [HeldIn(c) EXCEPT ![i] = on]
  BY <1>1, <1>3, HeldGrows
<1>6. Settled(c)
  <2>1. \A d : Rx!Line!Level(d)' = Rx!Line!Level(d)
    BY <1>2 DEF Rx!Line!Level, Rx!Line!Symbol
  <2> QED BY <1>5, <2>1 DEF Settled, InputsIn
<1>7. \A d : /\ StartLines(d, FALSE)' = StartLines(d, FALSE)
             /\ StartLines(d, TRUE)' = StartLines(d, TRUE)
  BY <1>2, Zenon DEF StartLines, Change, Event
<1>8. ASSUME NEW d, d # c PROVE CallLinesSettled(d)
  <2>1. PokeLines(d)' = PokeLines(d)
    BY <1>1, <1>3, <1>8, PokeLinesGrow
  <2> QED BY <1>7, <2>1 DEF CallLinesSettled
<1>9. \A d : Rx!EdgeDueBy(d)' = Rx!EdgeDueBy(d)
  BY <1>2 DEF Rx!EdgeDueBy
<1>10. Before(c)' = Before(c) /\ Outputs(c)' = Outputs(c)
  <2>1. \A d \in Nat : d < c => CallLinesSettled(d)
    BY <1>8
  <2> QED BY <1>2, <1>6, <2>1, PastStays
<1>11. StartsOut(c, TRUE) = <<>>
  <2>1. CASE Rx!EdgeDueBy(c)
    BY <2>1 DEF StartsOut
  <2>2. CASE ~Rx!EdgeDueBy(c)
    <3>1. DOMAIN slots = 1..Len(slots)
      BY <1>3, CallFamilies
    <3>2. \A k \in 1..Len(slots) : slots[k].start = c => handed[k] # c
      BY <1>2, <2>2, <3>1 DEF ScheduleAt, DueInv
    <3>3. StartLines(c, TRUE) = <<>>
      BY <1>3, <3>2, StartsHandedOver
    <3> QED BY <2>2, <3>3 DEF StartsOut
  <2> QED BY <2>1, <2>2
<1>12. LogInv(c)'
  <2>1. PICK e : e = Event(c, <<"IN", i, on>>)
    OBVIOUS
  <2> DEFINE r == <<e>>
  <2>2. PICK b, o, s, p : /\ b = Before(c) /\ o = Outputs(c) /\ p = PokeLines(c)
                          /\ s = StartsOut(c, FALSE)
    OBVIOUS
  <2>3. IsLines(b) /\ IsLines(o) /\ IsLines(s) /\ IsLines(p) /\ IsLines(r)
    BY <1>3, <2>2, BeforeGrows, OutputsAreLines, CallsAreLines, NoLines, OneLine DEF StartsOut
  <2>4. log = b \o (((o \o s) \o p) \o <<>>)
    BY <1>11, <2>2, LogForm, LinesOutForm, Zenon DEF ScheduleAt
  <2>5. IsLines(log)
    <3>1. IsLines(Cat(b, Cat(Cat(Cat(o, s), p), <<>>)))
      BY <2>3, NoLines, CatIsLines
    <3> QED BY <2>4, <3>1, Zenon DEF Cat
  <2>6. log' = log \o r
    BY <1>1, <2>1, <2>5, AppendIsCat
  <2>7. PokeLines(c)' = p \o r
    <3>1. PokeLines(c)' = Cat(PokeLines(c), r)
      BY <1>1, <1>3, <2>1, PokeLinesGrow
    <3> QED BY <2>2, <3>1 DEF Cat
  <2> HIDE DEF r
  <2>8. log' = b \o (((o \o s) \o (p \o r)) \o <<>>)
    <3>1. Cat(Cat(b, Cat(Cat(Cat(o, s), p), <<>>)), r)
            = Cat(b, Cat(Cat(Cat(o, s), Cat(p, r)), <<>>))
      BY <2>3, CatPoke
    <3> QED BY <2>4, <2>6, <3>1, Zenon DEF Cat
  <2>9. StartsOut(c, FALSE)' = s /\ StartsOut(c, TRUE)' = <<>>
    BY <1>7, <1>9, <1>11, <2>2 DEF StartsOut
  <2>10. Before(c)' = b /\ Outputs(c)' = o
    BY <1>10, <2>2
  <2> QED BY <2>7, <2>8, <2>9, <2>10, LogForm, LinesOutForm, Zenon
<1>13. CallsInv(c)'
  <2>1. held' = HeldIn(c)'
    BY <1>1, <1>5 DEF ScheduleAt, CallsInv
  <2>2. ASSUME NEW k \in DOMAIN pokes' PROVE pokes'[k].at < c + 1
    <3>1. CASE k \in 1..Len(pokes)
      <4>1. pokes[k].at < c + 1
        BY <1>4, <3>1 DEF ScheduleAt, CallsInv, CallsBefore
      <4> QED BY <1>4, <3>1, <4>1
    <3>2. CASE k \notin 1..Len(pokes)
      <4>1. k = Len(pokes) + 1
        BY <1>4, <2>2, <3>2
      <4> QED BY <1>4, <4>1
    <3> QED BY <3>1, <3>2
  <2> QED BY <1>2, <2>1, <2>2 DEF ScheduleAt, CallsInv, CallsBefore
<1>14. DueInv(c)'
  BY <1>2, <1>9 DEF ScheduleAt, DueInv
<1>15. SampledInv(c)'
  BY <1>2, <1>6, SampledStays DEF ScheduleAt
<1>16. CallsTyped'
  BY <1>2, <1>4 DEF ScheduleAt, CallsTyped
<1> QED BY <1>2, <1>12, <1>13, <1>14, <1>15, <1>16 DEF ScheduleAt

-----------------------------------------------------------------------------
(* A segment. *)

\* A segment from cycle c to cycle d: no edge falls on the way.
Reaches(c, d) ==
  /\ now = c /\ now' = d /\ c < d /\ d <= NextGrid /\ Segment
  /\ \A x \in Nat : x < d => ~Rx!EdgeDueBy(x)
  /\ design' = DesignAfter(d - c)
  /\ pc' = "edges" /\ UNCHANGED <<slots, handed, pokes, held, line, shifting>>
  /\ Rx!EdgeCycle' = Rx!EdgeCycle

LEMMA SegmentReaches ==
  ASSUME NEW c \in Nat, now = c, LoopInv, Segment
  PROVE  \E d \in Nat : Reaches(c, d)
<1>1. PICK n \in 1..MaxCycle : /\ now' = now + n /\ now + n = Target
                               /\ ~Rx!EdgeDueBy(now) /\ ~Rx!EdgeDueBy(now + n - 1)
  BY SegmentElapses
<1>2. PICK d \in Nat : d = c + n /\ now' = d /\ c < d /\ Target = d /\ Target - now = d - c
                       /\ d - 1 = now + n - 1
  BY <1>1, BoardAssumption
<1>3. d <= NextGrid
  BY <1>2, TargetBetween DEF LoopInv, Segment
<1>4. design' = DesignAfter(d - c)
  <2>1. design' = DesignAfter(Target - now)
    BY DEF Segment, EngineStep
  <2> QED BY <1>2, <2>1
<1>5. ASSUME NEW x \in Nat, x < d PROVE ~Rx!EdgeDueBy(x)
  <2>1. ~Rx!EdgeDueBy(d - 1) /\ Rx!EdgeCycle \in Nat
    BY <1>1, <1>2, EdgeIsInt DEF LoopInv
  <2> QED BY <1>5, <2>1 DEF Rx!EdgeDueBy
<1>6. /\ pc' = "edges" /\ UNCHANGED <<slots, handed, pokes, held, line, shifting>>
      /\ Rx!EdgeCycle' = Rx!EdgeCycle
  BY DEF Segment, rxVars, calls, Rx!EdgeCycle
<1> QED BY <1>2, <1>3, <1>4, <1>5, <1>6 DEF Reaches

\* In its cycles the design sees the inputs that it holds.
LEMMA SegmentInputs ==
  ASSUME NEW c \in Nat, NEW d \in Nat, Reaches(c, d), ScheduleAt(c), RxP!IInv, RxP!LineInv,
         NEW x \in Nat, c <= x, x < d
  PROVE  InputsIn(x) = DesignInputs
<1>1. Rx!Line!Level(x) = line
  <2>1. now <= x /\ ~Rx!EdgeDueBy(x)
    BY DEF Reaches
  <2>2. ~RxP!EdgeDueBy(x)
    BY <2>1 DEF Rx!EdgeDueBy, RxP!EdgeDueBy, Rx!EdgeCycle, RxP!EdgeCycle
  <2>3. RxP!Line!Level(x) = line
    BY <2>1, <2>2, DriverAssumption, RxP!LevelIsLine
  <2> QED BY <2>3, SameLevel
<1>2. HeldIn(x) = held
  <2>1. \A k \in DOMAIN pokes : pokes[k].at \in Nat /\ pokes[k].at <= c
    <3>1. ASSUME NEW k \in DOMAIN pokes PROVE pokes[k].at \in Nat /\ pokes[k].at <= c
      <4>1. pokes[k] \in [at: Nat, input: Inputs, on: BOOLEAN]
        BY ElementOfSeq, LenProperties DEF ScheduleAt, CallsTyped
      <4>2. pokes[k].at < c + 1
        BY DEF ScheduleAt, CallsInv, CallsBefore
      <4> QED BY <4>1, <4>2
    <3> QED BY <3>1
  <2>2. \A i : {k \in DOMAIN pokes : pokes[k].input = i /\ pokes[k].at <= x}
                 = {k \in DOMAIN pokes : pokes[k].input = i /\ pokes[k].at <= c}
    BY <2>1
  <2>3. HeldIn(x) = HeldIn(c)
    BY <2>2, Zenon DEF HeldIn
  <2> QED BY <2>3 DEF ScheduleAt, CallsInv
<1> QED BY <1>1, <1>2 DEF InputsIn, DesignInputs

\* So it reaches the state of the schedule.
LEMMA SegmentDesign ==
  ASSUME NEW c \in Nat, NEW d \in Nat, Reaches(c, d), ScheduleAt(c), RxP!IInv, RxP!LineInv
  PROVE  design' = DesignAt(d)
<1> DEFINE S == {k \in Nat : c + k <= d => DesignAfter(k) = DesignAt(c + k)}
<1>1. 0 \in S
  BY DesignAfterStep DEF ScheduleAt, SampledInv
<1>2. ASSUME NEW k \in Nat, k \in S PROVE k + 1 \in S
  <2> SUFFICES ASSUME c + (k + 1) <= d PROVE DesignAfter(k + 1) = DesignAt(c + (k + 1))
    OBVIOUS
  <2>1. c + k \in Nat /\ c <= c + k /\ c + k < d /\ c + (k + 1) = (c + k) + 1
    OBVIOUS
  <2>2. DesignAfter(k + 1) = DesignCycle(DesignAfter(k), DesignInputs)
    BY DesignAfterStep
  <2>3. DesignAt((c + k) + 1) = DesignCycle(DesignAt(c + k), InputsIn(c + k))
    BY <2>1, DesignAtStep DEF DesignEquations
  <2>4. InputsIn(c + k) = DesignInputs
    BY <2>1, SegmentInputs
  <2> QED BY <1>2, <2>1, <2>2, <2>3, <2>4
<1>3. d - c \in S
  <2>1. d - c \in Nat
    BY DEF Reaches
  <2> HIDE DEF S
  <2> QED BY <1>1, <1>2, <2>1, Design!Induction
<1>4. c + (d - c) = d
  OBVIOUS
<1> QED BY <1>3, <1>4 DEF Reaches

\* No call is of a cycle on the way, nor of the one it reaches.
LEMMA SegmentCalls ==
  ASSUME NEW c \in Nat, NEW d \in Nat, Reaches(c, d), ScheduleAt(c), RxP!IInv, RxP!LineInv,
         NEW x \in Nat, c < x, x <= d
  PROVE  /\ PokeLines(x) = <<>> /\ CallsBefore(x)
         /\ ~Rx!EdgeDueBy(x) => StartLines(x, FALSE) = <<>> /\ StartLines(x, TRUE) = <<>>
<1>1. \A k \in DOMAIN handed : handed[k] < x
  <2>1. ASSUME NEW k \in DOMAIN handed PROVE handed[k] < x
    <3>1. handed[k] < c + 1 /\ handed[k] \in Nat
      BY ElementOfSeq, LenProperties DEF ScheduleAt, CallsTyped, CallsInv, CallsBefore
    <3> QED BY <3>1
  <2> QED BY <2>1
<1>2. \A k \in DOMAIN pokes : pokes[k].at \in Nat /\ pokes[k].at < x
  <2>1. ASSUME NEW k \in DOMAIN pokes PROVE pokes[k].at \in Nat /\ pokes[k].at < x
    <3>1. pokes[k] \in [at: Nat, input: Inputs, on: BOOLEAN]
      BY ElementOfSeq, LenProperties DEF ScheduleAt, CallsTyped
    <3>2. pokes[k].at < c + 1
      BY DEF ScheduleAt, CallsInv, CallsBefore
    <3> QED BY <3>1, <3>2
  <2> QED BY <2>1
<1>3. PokeLines(x) = <<>>
  <2>1. DOMAIN pokes = 1..Len(pokes)
    BY LenProperties DEF ScheduleAt, CallsTyped
  <2>2. \A k \in 1..Len(pokes) : pokes[k].at # x
    BY <1>2, <2>1
  <2> QED BY <2>2, PokesNone DEF ScheduleAt
<1>4. ASSUME ~Rx!EdgeDueBy(x) PROVE StartLines(x, FALSE) = <<>> /\ StartLines(x, TRUE) = <<>>
  <2>1. ASSUME NEW k \in 1..Len(slots), slots[k].start = x PROVE FALSE
    <3>1. slots[k].start > now
      BY <2>1 DEF Reaches
    <3> QED BY <1>4, <2>1, <3>1, StartIsDue
  <2>2. \A k \in 1..Len(slots) : slots[k].start # x
    BY <2>1
  <2> QED BY <2>2, StartsNone DEF ScheduleAt
<1> QED BY <1>1, <1>2, <1>3, <1>4 DEF CallsBefore

LEMMA CatNothing ==
  ASSUME NEW o, IsLines(o)
  PROVE  Cat(Cat(Cat(o, <<>>), <<>>), <<>>) = o
<1>1. Cat(o, <<>>) = o
  BY CatNone
<1> QED BY <1>1, Zenon

\* The log is complete up to the cycle that is reached.
LEMMA SegmentPast ==
  ASSUME NEW c \in Nat, NEW d \in Nat, Reaches(c, d), ScheduleAt(c), RxP!IInv, RxP!LineInv
  PROVE  log = Before(d) /\ IsLines(log)
<1>0. CallsTyped
  BY DEF ScheduleAt
<1>1. ASSUME NEW x \in Nat, c < x, x < d PROVE LinesOf(x) = <<>>
  <2>1. Outputs(x) = <<>>
    <3>1. now \in Nat /\ now = c /\ d <= NextGrid
      BY DEF Reaches
    <3>2. /\ LastGrid(now) <= c /\ NextGrid \in Nat /\ LastGrid(now) \in Nat
          /\ LastGrid(now) < x /\ x < NextGrid => x % Chunk # 0
      BY <3>1, GridCell
    <3>3. x % Chunk # 0
      BY <1>1, <3>1, <3>2
    <3> QED BY <3>3 DEF Outputs
  <2>2. ~Rx!EdgeDueBy(x) /\ x <= d
    BY <1>1 DEF Reaches
  <2>3. StartLines(x, FALSE) = <<>> /\ StartLines(x, TRUE) = <<>> /\ PokeLines(x) = <<>>
    BY <1>1, <2>2, SegmentCalls
  <2>4. LinesOf(x) = Cat(Cat(Cat(<<>>, <<>>), <<>>), <<>>)
    BY <1>0, <2>1, <2>2, <2>3, LinesOfParts
  <2> QED BY <2>4, NoLines, CatNothing
<1>2. LinesOf(c) = LinesOut(c)
  <2>1. ~Rx!EdgeDueBy(c)
    BY DEF Reaches
  <2> QED BY <2>1, Zenon DEF LinesOf, LinesOut
<1>3. Before(c + 1) = Cat(Before(c), LinesOf(c))
  BY <1>0, BeforeGrows
<1>4. log = Before(c + 1)
  <2>1. log = Before(c) \o LinesOut(c)
    BY LogForm, Zenon DEF ScheduleAt
  <2> QED BY <1>2, <1>3, <2>1, Zenon DEF Cat
<1>5. Before(d) = Before(c + 1)
  <2>1. c + 1 <= d /\ c + 1 \in Nat
    BY DEF Reaches
  <2>2. \A x \in Nat : c + 1 <= x /\ x < d => LinesOf(x) = <<>>
    BY <1>1
  <2> QED BY <1>0, <2>1, <2>2, BeforeStays
<1> QED BY <1>0, <1>4, <1>5, BeforeGrows

\* What the reference computes stays.
LEMMA SegmentSettled ==
  ASSUME NEW c \in Nat, NEW d \in Nat, Reaches(c, d)
  PROVE  /\ \A n : Settled(n)
         /\ \A x : CallLinesSettled(x) /\ Rx!EdgeDueBy(x)' = Rx!EdgeDueBy(x)
         /\ Before(d)' = Before(d) /\ Outputs(d)' = Outputs(d)
<1>1. \A n : Settled(n)
  BY InputsSettled DEF Reaches
<1>2. \A x : CallLinesSettled(x)
  BY SameCalls DEF Reaches
<1>3. \A x : Rx!EdgeDueBy(x)' = Rx!EdgeDueBy(x)
  BY DEF Reaches, Rx!EdgeDueBy
<1>4. \A x \in Nat : x < d => LinesOf(x)' = LinesOf(x)
  <2>1. ASSUME NEW x \in Nat, x < d PROVE LinesOf(x)' = LinesOf(x)
    BY <1>1, <1>2, <1>3, <2>1, LinesSettled
  <2> QED BY <2>1
<1> QED BY <1>1, <1>2, <1>3, <1>4, BeforeSettled, OutputsSettled

\* The lines of the cycle it reaches are its outputs.
LEMMA SegmentOut ==
  ASSUME NEW c \in Nat, NEW d \in Nat, Reaches(c, d), ScheduleAt(c), RxP!IInv, RxP!LineInv,
         log' = Cat(log, Outputs(d))
  PROVE  LogInv(d)'
<1>1. PICK o : o = Outputs(d)
  OBVIOUS
<1>2. PICK b : b = Before(d)
  OBVIOUS
<1>3. /\ Before(d)' = b /\ Outputs(d)' = o /\ IsLines(o)
      /\ Rx!EdgeDueBy(d)' = Rx!EdgeDueBy(d) /\ CallLinesSettled(d)
  BY <1>1, <1>2, SegmentSettled, OutputsAreLines
<1>4. /\ PokeLines(d) = <<>>
      /\ ~Rx!EdgeDueBy(d) => StartLines(d, FALSE) = <<>> /\ StartLines(d, TRUE) = <<>>
  <2>1. c < d /\ d <= d
    BY DEF Reaches
  <2> QED BY <2>1, SegmentCalls
<1>5. PokeLines(d)' = <<>> /\ StartsOut(d, FALSE)' = <<>> /\ StartsOut(d, TRUE)' = <<>>
  BY <1>3, <1>4 DEF StartsOut, CallLinesSettled
<1>6. LinesOut(d)' = ((o \o <<>>) \o <<>>) \o <<>>
  BY <1>3, <1>5, LinesOutForm, Zenon
<1>7. LinesOut(d)' = o
  <2>1. Cat(Cat(Cat(o, <<>>), <<>>), <<>>) = o
    BY <1>3, CatNothing
  <2> QED BY <1>6, <2>1, Zenon DEF Cat
<1>8. log' = b \o o
  <2>1. log = b
    BY <1>2, SegmentPast
  <2> QED BY <1>1, <2>1, Zenon DEF Cat
<1> QED BY <1>3, <1>7, <1>8, LogForm, Zenon

-----------------------------------------------------------------------------
(* A segment that reaches a crossing. *)

LEMMA CrossingPins ==
  ASSUME NEW c \in Nat, NEW d \in Nat, Reaches(c, d), ScheduleAt(c), RxP!IInv, RxP!LineInv
  PROVE  Pins = PinsAt(d)
<1>1. d - 1 \in Nat /\ c <= d - 1 /\ d - 1 < d
  BY DEF Reaches
<1>2. InputsIn(d - 1) = DesignInputs
  BY <1>1, SegmentInputs
<1>3. design' = DesignAt(d)
  BY SegmentDesign
<1> QED BY <1>2, <1>3 DEF Pins, PinsAt

\* What the eye reports is what the last strobe in the window left.
LEMMA EyeReports ==
  ASSUME NEW d \in Nat, NEW i
  PROVE  /\ Seg!Char(DigitAt(i, d), d) = CharAt(i, d)
         /\ Seg!Point(DigitAt(i, d), d) = PointAt(i, d)
<1>1. Persist \in Nat
  BY BoardAssumption
<1>2. Strobes(i, d) = {g \in Lit(i, d) : d - g <= Persist}
  BY DEF Strobes, Lit
<1>3. CASE Lit(i, d) = {}
  <2>1. Strobes(i, d) = {}
    BY <1>2, <1>3
  <2>2. DigitAt(i, d) = Seg!NeverLit
    BY <1>3 DEF DigitAt
  <2> QED BY <2>1, <2>2
       DEF Seg!NeverLit, Seg!Char, Seg!Segments, Seg!Point, Seg!Visible, CharAt, PointAt
<1>4. CASE Lit(i, d) # {}
  <2>1. PICK last : last = Max(Lit(i, d))
    OBVIOUS
  <2>2. /\ last \in Lit(i, d) /\ \A g \in Lit(i, d) : g <= last
        /\ Lit(i, d) \subseteq 1..d /\ last \in 1..d
    BY <1>4, <2>1, LitIn
  <2>3. DigitAt(i, d) = [lit |-> TRUE, lastLit |-> last, seg |-> PinsAt(last).seg,
                         dp |-> PinsAt(last).dp]
    BY <1>4, <2>1 DEF DigitAt
  <2>4. CASE d - last <= Persist
    <3>1. last \in Strobes(i, d) /\ Strobes(i, d) \subseteq Int
          /\ \A g \in Strobes(i, d) : g <= last
      BY <1>2, <2>2, <2>4
    <3>2. Max(Strobes(i, d)) = last /\ Strobes(i, d) # {}
      BY <3>1, MaxIs
    <3> QED BY <2>3, <2>4, <3>2
         DEF Seg!Char, Seg!Segments, Seg!Point, Seg!Visible, CharAt, PointAt
  <2>5. CASE ~(d - last <= Persist)
    <3>1. Strobes(i, d) = {}
      BY <1>1, <1>2, <2>2, <2>5
    <3> QED BY <2>3, <2>5, <3>1
         DEF Seg!Char, Seg!Segments, Seg!Point, Seg!Visible, CharAt, PointAt
  <2> QED BY <2>4, <2>5
<1> QED BY <1>3, <1>4

LEMMA CrossingShown ==
  ASSUME NEW c \in Nat, NEW d \in Nat, Reaches(c, d), ScheduleAt(c), RxP!IInv, RxP!LineInv,
         d = NextGrid
  PROVE  Shown = [i \in Digits |-> DigitAt(i, d)]
<1>1. /\ now \in Nat /\ now = c /\ now' = d /\ LastGrid(c) \in Nat /\ LastGrid(c) < d
  BY GridCell DEF Reaches
<1>2. Crossings(d) = Crossings(LastGrid(c)) \cup {d}
  BY <1>1, CrossingsGrow
<1>3. Pins = PinsAt(d)
  BY CrossingPins
<1>4. display = [i \in Digits |-> DigitAt(i, LastGrid(c))]
  BY DEF ScheduleAt, SampledInv
<1>5. ASSUME NEW i \in Digits, i \in PinsAt(d).an
      PROVE  DigitAt(i, d) = [lit |-> TRUE, lastLit |-> d, seg |-> PinsAt(d).seg,
                              dp |-> PinsAt(d).dp]
  <2>1. d \in Lit(i, d)
    BY <1>2, <1>5 DEF Lit
  <2>2. Lit(i, d) \subseteq Int /\ \A g \in Lit(i, d) : g <= d
    <3>1. Lit(i, d) \subseteq 1..d
      BY LitIn
    <3> QED BY <3>1
  <2>3. Max(Lit(i, d)) = d /\ Lit(i, d) # {}
    BY <2>1, <2>2, MaxIs
  <2> QED BY <2>3 DEF DigitAt
<1>6. ASSUME NEW i \in Digits, i \notin PinsAt(d).an
      PROVE  DigitAt(i, d) = DigitAt(i, LastGrid(c))
  <2>1. Lit(i, d) = Lit(i, LastGrid(c))
    BY <1>2, <1>6 DEF Lit
  <2> QED BY <2>1 DEF DigitAt
<1>7. Shown = [i \in Digits |-> IF i \in PinsAt(d).an
                                THEN [lit |-> TRUE, lastLit |-> d, seg |-> PinsAt(d).seg,
                                      dp |-> PinsAt(d).dp]
                                ELSE DigitAt(i, LastGrid(c))]
  BY <1>1, <1>3, <1>4 DEF Shown, Seg!SegSample
<1>8. \A i \in Digits : DigitAt(i, d) = IF i \in PinsAt(d).an
                                        THEN [lit |-> TRUE, lastLit |-> d, seg |-> PinsAt(d).seg,
                                              dp |-> PinsAt(d).dp]
                                        ELSE DigitAt(i, LastGrid(c))
  BY <1>5, <1>6
<1> QED BY <1>7, <1>8, Zenon

LEMMA CrossingTx ==
  ASSUME NEW c \in Nat, NEW d \in Nat, Reaches(c, d), ScheduleAt(c), RxP!IInv, RxP!LineInv,
         d = NextGrid, HasUartTx
  PROVE  Decoded = TxAt(d \div Chunk)
<1>1. now \in Nat /\ now = c /\ now' = d
  BY DEF Reaches
<1>2. /\ d \div Chunk = c \div Chunk + 1 /\ d = (c \div Chunk + 1) * Chunk
      /\ c \div Chunk \in Nat
  BY <1>1, GridCell, ChunkDivides
<1>3. PICK q \in Nat : q = c \div Chunk
  BY <1>2
<1>4. TxAt(q + 1) = Tx!TxSample(TxAt(q).state, (q + 1) * Chunk, PinsAt((q + 1) * Chunk).tx)
  BY TxAtStep DEF TxEquations, TxStep
<1>5. TxAt(d \div Chunk) = Tx!TxSample(TxAt(q).state, d, PinsAt(d).tx)
  BY <1>2, <1>3, <1>4
<1>6. uartTx = TxAt(q).state
  BY <1>3 DEF ScheduleAt, SampledInv
<1>7. Pins = PinsAt(d)
  BY CrossingPins
<1> QED BY <1>1, <1>5, <1>6, <1>7 DEF Decoded

LEMMA CrossingNew ==
  ASSUME NEW c \in Nat, NEW d \in Nat, Reaches(c, d), ScheduleAt(c), RxP!IInv, RxP!LineInv,
         d = NextGrid
  PROVE  NewLines = Outputs(d)
<1>1. /\ now \in Nat /\ now = c /\ now' = d /\ d - Chunk = LastGrid(c) /\ d > 0 /\ d % Chunk = 0
  BY GridCell DEF Reaches
<1>2. /\ prevChar = [i \in Digits |-> CharAt(i, LastGrid(c))]
      /\ prevDp = [i \in Digits |-> PointAt(i, LastGrid(c))]
      /\ prevLed = [i \in Leds |-> LedAt(i, LastGrid(c))]
  BY DEF ScheduleAt, SampledInv
<1>3. Shown = [i \in Digits |-> DigitAt(i, d)]
  BY CrossingShown
<1>4. ASSUME NEW i \in Digits PROVE DigitEvents(i) = DigitLines(d)[i]
  <2>1. PICK char, dp, char0, dp0 : /\ char = CharAt(i, d) /\ dp = PointAt(i, d)
                                    /\ char0 = CharAt(i, LastGrid(c)) /\ dp0 = PointAt(i, LastGrid(c))
    OBVIOUS
  <2>2. Shown[i] = DigitAt(i, d)
    BY <1>3
  <2>3. Seg!Char(Shown[i], now') = char /\ Seg!Point(Shown[i], now') = dp
    BY <1>1, <2>1, <2>2, EyeReports
  <2>4. prevChar[i] = char0 /\ prevDp[i] = dp0
    BY <1>2, <2>1
  <2>5. DigitEvents(i) = Change(char # char0, d, <<"SSEG", i, char>>)
                           \o Change(dp # dp0, d, <<"DP", i, dp>>)
    BY <1>1, <2>3, <2>4, Zenon DEF DigitEvents
  <2>6. DigitLines(d)[i] = Change(char # char0, d, <<"SSEG", i, char>>)
                             \o Change(dp # dp0, d, <<"DP", i, dp>>)
    <3>1. DigitLines(d)[i] =
            Change(CharAt(i, d) # CharAt(i, d - Chunk), d, <<"SSEG", i, CharAt(i, d)>>)
            \o Change(PointAt(i, d) # PointAt(i, d - Chunk), d, <<"DP", i, PointAt(i, d)>>)
      BY Zenon DEF DigitLines
    <3> QED BY <1>1, <2>1, <3>1, Zenon
  <2> QED BY <2>5, <2>6
<1>5. ASSUME NEW i \in Leds PROVE LedEvents(i) = LedLines(d)[i]
  <2>0. Pins = PinsAt(d) /\ d # 0
    BY <1>1, CrossingPins
  <2>1. LedAt(i, d) = Pins.led[i]
    BY <2>0 DEF LedAt
  <2>2. prevLed[i] = LedAt(i, d - Chunk)
    BY <1>1, <1>2
  <2>3. LedLines(d)[i] = Change(LedAt(i, d) # LedAt(i, d - Chunk), d, <<"LED", i, LedAt(i, d)>>)
    BY Zenon DEF LedLines
  <2> QED BY <1>1, <2>1, <2>2, <2>3, Zenon DEF LedEvents
<1>6. TxEvents = TxLine(d, TxAt(d \div Chunk))
  <2>1. CASE HasUartTx
    <3>1. Decoded = TxAt(d \div Chunk)
      BY <2>1, CrossingTx
    <3> QED BY <1>1, <3>1, Zenon DEF TxEvents, TxLine
  <2>2. CASE ~HasUartTx
    BY <2>2, Zenon DEF TxEvents, TxLine, Change
  <2> QED BY <2>1, <2>2
<1>7. [i \in Digits |-> DigitEvents(i)] = DigitLines(d)
  <2>1. DigitLines(d) = [i \in Digits |-> DigitLines(d)[i]]
    BY DEF DigitLines
  <2> QED BY <1>4, <2>1, Zenon
<1>8. [i \in Leds |-> LedEvents(i)] = LedLines(d)
  <2>1. LedLines(d) = [i \in Leds |-> LedLines(d)[i]]
    BY DEF LedLines
  <2> QED BY <1>5, <2>1, Zenon
<1>9. NewLines = Cat(Cat(FlattenSeq(DigitLines(d)), FlattenSeq(LedLines(d))),
                     TxLine(d, TxAt(d \div Chunk)))
  BY <1>6, <1>7, <1>8, Zenon DEF NewLines, Cat
<1>10. NewLines = CrossingLines(d)
  BY <1>9, LinesParts
<1> QED BY <1>1, <1>10 DEF Outputs

\* What a crossing samples is that of its cycle.
LEMMA CrossingSampled ==
  ASSUME NEW c \in Nat, NEW d \in Nat, Reaches(c, d), ScheduleAt(c), RxP!IInv, RxP!LineInv,
         d = NextGrid
  PROVE  SampledInv(d)'
<1>1. /\ now \in Nat /\ now = c /\ now' = d /\ d > 0 /\ LastGrid(d) = d
      /\ d \div Chunk \in Nat
  <2>1. /\ now \in Nat /\ now = c /\ now' = d /\ d > 0 /\ d = (c \div Chunk + 1) * Chunk
        /\ d \div Chunk = c \div Chunk + 1
    BY GridCell DEF Reaches
  <2> QED BY <2>1, ChunkDivides DEF LastGrid
<1>2. Sample
  BY <1>1 DEF Reaches, Segment
<1>3. /\ prevChar = [i \in Digits |-> CharAt(i, LastGrid(c))]
      /\ prevDp = [i \in Digits |-> PointAt(i, LastGrid(c))]
      /\ prevLed = [i \in Leds |-> LedAt(i, LastGrid(c))]
  BY DEF ScheduleAt, SampledInv
<1>4. Shown = [i \in Digits |-> DigitAt(i, d)]
  BY CrossingShown
<1>5. \A n : Settled(n)
  BY SegmentSettled
<1>6. \A i : /\ DigitAt(i, d)' = DigitAt(i, d) /\ LedAt(i, d)' = LedAt(i, d)
             /\ CharAt(i, d)' = CharAt(i, d) /\ PointAt(i, d)' = PointAt(i, d)
  BY <1>5, DisplaySettled
<1>7. display' = [i \in Digits |-> DigitAt(i, d)]
  BY <1>2, <1>4 DEF Sample
<1>8. prevChar' = [i \in Digits |-> CharAt(i, d)]
  <2>1. prevChar' = [i \in Digits |-> Seg!Char(Shown[i], d)]
    BY <1>1, <1>2, <1>3 DEF Sample
  <2>2. \A i \in Digits : Seg!Char(Shown[i], d) = CharAt(i, d)
    BY <1>4, EyeReports
  <2> QED BY <2>1, <2>2, Zenon
<1>9. prevDp' = [i \in Digits |-> PointAt(i, d)]
  <2>1. prevDp' = [i \in Digits |-> Seg!Point(Shown[i], d)]
    BY <1>1, <1>2, <1>3 DEF Sample
  <2>2. \A i \in Digits : Seg!Point(Shown[i], d) = PointAt(i, d)
    BY <1>4, EyeReports
  <2> QED BY <2>1, <2>2, Zenon
<1>10. prevLed' = [i \in Leds |-> LedAt(i, d)]
  <2>1. prevLed' = [i \in Leds |-> Pins.led[i]]
    BY <1>2, <1>3 DEF Sample
  <2>2. Pins = PinsAt(d) /\ d # 0
    BY <1>1, CrossingPins
  <2>3. \A i \in Leds : Pins.led[i] = LedAt(i, d)
    BY <2>2 DEF LedAt
  <2> QED BY <2>1, <2>3, Zenon
<1>11. ASSUME HasUartTx PROVE uartTx' = TxAt(d \div Chunk)'.state
  <2>1. uartTx' = TxAt(d \div Chunk).state
    BY <1>2, <1>11, CrossingTx DEF Sample
  <2>2. TxAt(d \div Chunk)' = TxAt(d \div Chunk)
    <3>1. (d \div Chunk) * Chunk \in Nat
      BY ChunkDivides
    <3> QED BY <1>1, <1>5, <3>1, TxSettled
  <2> QED BY <2>1, <2>2
<1>12. design' = DesignAt(d)'
  BY <1>5, SegmentDesign, DesignSettled
<1>13. /\ [i \in Digits |-> DigitAt(i, d)]' = [i \in Digits |-> DigitAt(i, d)]
       /\ [i \in Digits |-> CharAt(i, d)]' = [i \in Digits |-> CharAt(i, d)]
       /\ [i \in Digits |-> PointAt(i, d)]' = [i \in Digits |-> PointAt(i, d)]
       /\ [i \in Leds |-> LedAt(i, d)]' = [i \in Leds |-> LedAt(i, d)]
  BY <1>6
<1> HIDE DEF LastGrid
<1> QED BY <1>1, <1>7, <1>8, <1>9, <1>10, <1>11, <1>12, <1>13 DEF SampledInv

\* A segment that ends short of the next crossing samples nothing.
LEMMA NothingSampled ==
  ASSUME NEW c \in Nat, NEW d \in Nat, Reaches(c, d), ScheduleAt(c), RxP!IInv, RxP!LineInv,
         d # NextGrid
  PROVE  SampledInv(d)' /\ Outputs(d) = <<>> /\ log' = log
<1>1. /\ now \in Nat /\ now = c /\ now' = d /\ NextGrid \in Nat /\ d < NextGrid
      /\ LastGrid(c) <= c /\ LastGrid(c) < d /\ LastGrid(c) \in Nat
      /\ d \div Chunk = c \div Chunk /\ d % Chunk # 0
  <2>1. /\ now \in Nat /\ now = c /\ now' = d /\ NextGrid \in Nat /\ d < NextGrid
        /\ LastGrid(now) <= now /\ LastGrid(now) \in Nat /\ c < d
    BY GridCell DEF Reaches
  <2> QED BY <2>1, GridCell
<1>2. /\ UNCHANGED <<display, prevLed, prevChar, prevDp, uartTx>> /\ log' = log
  BY <1>1 DEF Reaches, Segment, seen
<1>3. Outputs(d) = <<>>
  BY <1>1 DEF Outputs
<1>4. LastGrid(d) = LastGrid(c)
  BY <1>1 DEF LastGrid
<1>5. \A n : Settled(n)
  BY SegmentSettled
<1>6. PICK g \in Nat : g = LastGrid(c)
  BY <1>1
<1>7. \A i : /\ DigitAt(i, g)' = DigitAt(i, g) /\ LedAt(i, g)' = LedAt(i, g)
             /\ CharAt(i, g)' = CharAt(i, g) /\ PointAt(i, g)' = PointAt(i, g)
  BY <1>5, DisplaySettled
<1>8. PICK q \in Nat : q = c \div Chunk
  BY ChunkDivides
<1>9. TxAt(q)' = TxAt(q)
  <2>1. q * Chunk \in Nat
    BY <1>8, ChunkDivides
  <2> QED BY <1>5, <2>1, TxSettled
<1>10. design' = DesignAt(d)'
  BY <1>5, SegmentDesign, DesignSettled
<1>11. /\ [i \in Digits |-> DigitAt(i, g)]' = [i \in Digits |-> DigitAt(i, g)]
       /\ [i \in Digits |-> CharAt(i, g)]' = [i \in Digits |-> CharAt(i, g)]
       /\ [i \in Digits |-> PointAt(i, g)]' = [i \in Digits |-> PointAt(i, g)]
       /\ [i \in Leds |-> LedAt(i, g)]' = [i \in Leds |-> LedAt(i, g)]
  BY <1>7
<1>12. /\ display = [i \in Digits |-> DigitAt(i, g)]
       /\ prevChar = [i \in Digits |-> CharAt(i, g)]
       /\ prevDp = [i \in Digits |-> PointAt(i, g)]
       /\ prevLed = [i \in Leds |-> LedAt(i, g)]
       /\ HasUartTx => uartTx = TxAt(q).state
  BY <1>6, <1>8 DEF ScheduleAt, SampledInv
<1>13. LastGrid(d) = g /\ d \div Chunk = q
  BY <1>1, <1>4, <1>6, <1>8
<1> HIDE DEF LastGrid
<1>14. SampledInv(d)'
  BY <1>2, <1>9, <1>10, <1>11, <1>12, <1>13 DEF SampledInv
<1> QED BY <1>2, <1>3, <1>14

LEMMA SegmentStep ==
  ASSUME NEW c \in Nat, NEW d \in Nat, Reaches(c, d), ScheduleAt(c), RxP!IInv, RxP!LineInv
  PROVE  ScheduleAt(d)'
<1>1. c < d /\ d <= d
  BY DEF Reaches
<1>2. CallsBefore(d) /\ IsLines(log)
  BY <1>1, SegmentCalls, SegmentPast
<1>3. SampledInv(d)' /\ log' = Cat(log, Outputs(d))
  <2>1. CASE d = NextGrid
    <3>1. log' = log \o NewLines
      <4>1. Sample
        BY <2>1 DEF Reaches, Segment
      <4>2. PICK S : log \in Seq(S)
        BY <1>2 DEF IsLines, Design!IsSequence
      <4> QED BY <4>1, <4>2, SampleAppends
    <3>2. NewLines = Outputs(d)
      BY <2>1, CrossingNew
    <3> QED BY <2>1, <3>1, <3>2, CrossingSampled DEF Cat
  <2>2. CASE d # NextGrid
    <3>1. Cat(log, <<>>) = log
      BY <1>2, CatNone
    <3> QED BY <2>2, <3>1, NothingSampled
  <2> QED BY <2>1, <2>2
<1>4. LogInv(d)'
  BY <1>3, SegmentOut
<1>5. handed' = handed /\ pokes' = pokes /\ slots' = slots /\ held' = held /\ pc' = "edges"
  BY DEF Reaches
<1>6. CallsBefore(d)'
  BY <1>2, <1>5 DEF CallsBefore
<1>7. DueInv(d)'
  BY <1>5, <1>6 DEF DueInv
<1>8. CallsInv(d)'
  <2>1. \A k \in DOMAIN handed : handed[k] < d + 1
    <3>1. ASSUME NEW k \in DOMAIN handed PROVE handed[k] < d + 1
      <4>1. handed[k] \in Nat /\ handed[k] < d
        BY <1>2, ElementOfSeq, LenProperties DEF ScheduleAt, CallsTyped, CallsBefore
      <4> QED BY <4>1
    <3> QED BY <3>1
  <2>2. \A k \in DOMAIN pokes : pokes[k].at < d + 1
    <3>1. ASSUME NEW k \in DOMAIN pokes PROVE pokes[k].at < d + 1
      <4>1. pokes[k] \in [at: Nat, input: Inputs, on: BOOLEAN]
        BY ElementOfSeq, LenProperties DEF ScheduleAt, CallsTyped
      <4>2. pokes[k].at < d /\ pokes[k].at \in Nat
        BY <1>2, <4>1 DEF CallsBefore
      <4> QED BY <4>2
    <3> QED BY <3>1
  <2>3. held' = HeldIn(d)'
    <3>1. HeldIn(d)' = HeldIn(d)
      BY <1>5 DEF HeldIn
    <3>2. HeldIn(d) = HeldIn(c)
      <4>1. \A k \in DOMAIN pokes : pokes[k].at <= d /\ pokes[k].at <= c
        <5>1. ASSUME NEW k \in DOMAIN pokes PROVE pokes[k].at <= d /\ pokes[k].at <= c
          <6>1. pokes[k] \in [at: Nat, input: Inputs, on: BOOLEAN]
            BY ElementOfSeq, LenProperties DEF ScheduleAt, CallsTyped
          <6>2. pokes[k].at < c + 1 /\ pokes[k].at \in Nat
            BY <6>1 DEF ScheduleAt, CallsInv, CallsBefore
          <6> QED BY <1>1, <6>2
        <5> QED BY <5>1
      <4>2. \A i : {k \in DOMAIN pokes : pokes[k].input = i /\ pokes[k].at <= d}
                     = {k \in DOMAIN pokes : pokes[k].input = i /\ pokes[k].at <= c}
        BY <4>1
      <4> QED BY <4>2, Zenon DEF HeldIn
    <3> QED BY <1>5, <3>1, <3>2 DEF ScheduleAt, CallsInv
  <2> QED BY <1>5, <2>1, <2>2, <2>3 DEF ScheduleAt, CallsInv, CallsBefore
<1>9. CallsTyped'
  BY <1>5 DEF ScheduleAt, CallsTyped
<1> QED BY <1>3, <1>4, <1>7, <1>8, <1>9 DEF ScheduleAt

-----------------------------------------------------------------------------
(* The invariant, and the contract. *)

Scheduled == direct = 0 => \E c \in Nat : c = now /\ ScheduleAt(c)

LEMMA InitScheduled == Init => Scheduled
<1> SUFFICES ASSUME Init PROVE now = 0 /\ ScheduleAt(0)
  BY DEF Scheduled
<1>1. /\ now = 0 /\ slots = <<>> /\ handed = <<>> /\ pokes = <<>> /\ log = <<>>
      /\ shifting = FALSE /\ pc = "idle" /\ held = [i \in Inputs |-> FALSE]
      /\ design = DesignInit /\ display = [i \in Digits |-> Seg!NeverLit]
      /\ prevLed = [i \in Leds |-> FALSE] /\ prevChar = [i \in Digits |-> Decode(Dark)]
      /\ prevDp = [i \in Digits |-> FALSE] /\ uartTx = Tx!TxIdle
  BY DEF Init, Rx!RxInit
<1>2. CallsTyped
  BY <1>1, EmptySeq DEF CallsTyped
<1>3. DOMAIN slots = {} /\ DOMAIN handed = {} /\ DOMAIN pokes = {} /\ Len(slots) = Len(handed)
  BY <1>1
<1>4. ~Rx!EdgeDueBy(0)
  BY <1>1 DEF Rx!EdgeDueBy
<1>5. CallsInv(0)
  <2>1. HeldIn(0) = [i \in Inputs |-> FALSE]
    BY <1>3 DEF HeldIn
  <2> QED BY <1>1, <1>3, <2>1 DEF CallsInv, CallsBefore
<1>6. DueInv(0)
  BY <1>1, <1>3, <1>4 DEF DueInv
<1>7. SampledInv(0)
  <2>1. 0 \div Chunk = 0 /\ LastGrid(0) = 0
    <3>1. Chunk \in Nat \ {0} /\ 0 \in Nat /\ 0 \in 0..(Chunk - 1) /\ 0 = 0 * Chunk + 0
      BY BoardAssumption
    <3>2. 0 \div Chunk = 0
      BY <3>1, DivisionIs
    <3> QED BY <3>1, <3>2 DEF LastGrid
  <2>2. Crossings(0) = {}
    BY DEF Crossings
  <2>3. \A i : Lit(i, 0) = {} /\ Strobes(i, 0) = {}
    BY <2>2 DEF Lit, Strobes
  <2>4. \A i : /\ DigitAt(i, 0) = Seg!NeverLit /\ CharAt(i, 0) = Decode(Dark)
               /\ PointAt(i, 0) = FALSE /\ LedAt(i, 0) = FALSE
    BY <2>3 DEF DigitAt, CharAt, PointAt, LedAt
  <2>5. DesignAt(0) = DesignInit
    BY DesignAtStep DEF DesignEquations
  <2>6. TxAt(0).state = Tx!TxIdle
    BY TxAtStep DEF TxEquations, Tx!TxResult
  <2> HIDE DEF LastGrid
  <2> QED BY <1>1, <2>1, <2>4, <2>5, <2>6 DEF SampledInv
<1>8. LogInv(0)
  <2>1. Before(0) = <<>> /\ Outputs(0) = <<>>
    BY <1>2, BeforeGrows DEF Outputs
  <2>2. StartLines(0, FALSE) = <<>> /\ StartLines(0, TRUE) = <<>> /\ PokeLines(0) = <<>>
    <3>1. \A k \in 1..Len(slots) : slots[k].start # 0
      BY <1>1
    <3>2. \A k \in 1..Len(pokes) : pokes[k].at # 0
      BY <1>1
    <3> QED BY <1>2, <3>1, <3>2, StartsNone, PokesNone
  <2>3. StartsOut(0, FALSE) = <<>> /\ StartsOut(0, TRUE) = <<>>
    BY <2>2 DEF StartsOut
  <2>4. LinesOut(0) = ((<<>> \o <<>>) \o <<>>) \o <<>>
    BY <2>1, <2>2, <2>3, LinesOutForm, Zenon
  <2>5. Cat(Cat(Cat(<<>>, <<>>), <<>>), <<>>) = <<>> /\ Cat(<<>>, <<>>) = <<>>
    BY NoLines, CatNothing, CatNone
  <2>6. log = Before(0) \o LinesOut(0)
    BY <1>1, <2>1, <2>4, <2>5, Zenon DEF Cat
  <2> QED BY <2>6, LogForm, Zenon
<1> QED BY <1>1, <1>2, <1>5, <1>6, <1>7, <1>8 DEF ScheduleAt

LEMMA NextScheduled ==
  ASSUME 0 \notin TickSizes
  PROVE  Scheduled /\ LoopInv /\ DriverInv /\ LoopInv' /\ DriverInv' /\ [Next]_vars => Scheduled'
<1> SUFFICES ASSUME Scheduled, LoopInv, DriverInv, DriverInv', [Next]_vars, direct' = 0
             PROVE  \E d \in Nat : d = now' /\ ScheduleAt(d)'
  BY DEF Scheduled
<1>1. direct = 0
  <2>1. direct' = direct \/ direct' = direct + 1
    BY DEF Next, Tick, ApplyEdge, EdgesApplied, Segment, SendUart, SetInput, StepEngine, vars
  <2> QED BY <2>1 DEF LoopInv, TickInv
<1>2. RxP!IInv /\ RxP!LineInv /\ RxP!IInv' /\ RxP!LineInv'
  BY <1>1 DEF DriverInv
<1>3. PICK c \in Nat : now = c /\ ScheduleAt(c)
  BY <1>1 DEF Scheduled
<1>4. ASSUME NEW n \in TickSizes, Tick(n) PROVE now' = c /\ ScheduleAt(c)'
  <2>1. n \in Nat /\ n # 0
    BY BoardAssumption
  <2> QED BY <1>3, <1>4, <2>1, TickStep
<1>5. CASE ApplyEdge
  BY <1>2, <1>3, <1>5, ApplyStep
<1>6. CASE EdgesApplied
  BY <1>3, <1>6, LoopStep DEF LoopInv
<1>7. CASE Segment
  <2>1. PICK d \in Nat : Reaches(c, d)
    BY <1>3, <1>7, SegmentReaches
  <2>2. ScheduleAt(d)'
    BY <1>2, <1>3, <2>1, SegmentStep
  <2> QED BY <2>1, <2>2 DEF Reaches
<1>8. ASSUME NEW b \in Bytes, SendUart(b) PROVE now' = c /\ ScheduleAt(c)'
  BY <1>2, <1>3, <1>8, SendStep
<1>9. ASSUME NEW i \in Inputs, SetInput(i) PROVE now' = c /\ ScheduleAt(c)'
  BY <1>2, <1>3, <1>9, InputStep
<1>10. ASSUME NEW n \in TickSizes, StepEngine(n) PROVE FALSE
  BY <1>1, <1>10 DEF StepEngine
<1>11. CASE UNCHANGED vars
  <2>1. now' = c /\ UNCHANGED <<rxVars, now, held, design, seen, log, calls>>
        /\ pc' = pc /\ end' = end /\ Rx!EdgeCycle' = Rx!EdgeCycle /\ Rx!Sent' = Rx!Sent
        /\ shifting' = shifting /\ slots' = slots /\ handed' = handed /\ pokes' = pokes
        /\ edgeIndex' = edgeIndex
    BY <1>3, <1>11 DEF vars, rxVars, calls, Rx!EdgeCycle, Rx!Sent
  <2>2. CallsTyped' /\ CallsInv(c)' /\ SampledInv(c)' /\ LogInv(c)'
    BY <1>3, <2>1, QuietStep
  <2>3. DueInv(c)'
    BY <1>3, <2>1 DEF ScheduleAt, DueInv, CallsBefore, Rx!EdgeDueBy
  <2> QED BY <2>1, <2>2, <2>3 DEF ScheduleAt
<1> QED BY <1>4, <1>5, <1>6, <1>7, <1>8, <1>9, <1>10, <1>11 DEF Next

\* Between ticks no start bit of an earlier call is due.
LEMMA IdleLines ==
  ASSUME NEW c \in Nat, now = c, ScheduleAt(c), pc = "idle", RxP!IInv, RxP!LineInv
  PROVE  LinesOut(c) = LinesOf(c)
<1>1. CASE ~Rx!EdgeDueBy(c)
  BY <1>1, Zenon DEF LinesOf, LinesOut
<1>2. CASE Rx!EdgeDueBy(c)
  <2>1. \A k \in 1..Len(slots) : slots[k].start = c => handed[k] = c
    <3>1. handed[Rx!Sent + 1] = c
      BY <1>2 DEF ScheduleAt, DueInv
    <3> QED BY <3>1, StartNow
  <2>2. StartLines(c, FALSE) = <<>>
    BY <2>1, StartsHandedOver DEF ScheduleAt
  <2> QED BY <1>2, <2>2, Zenon DEF LinesOf, LinesOut
<1> QED BY <1>1, <1>2

LEMMA ScheduledImplies ==
  Scheduled /\ LoopInv /\ DriverInv => PartitionIndependent /\ ScheduleInv
<1> SUFFICES ASSUME Scheduled, DriverInv, direct = 0
             PROVE  PartitionIndependent /\ ScheduleInv
  BY Zenon DEF PartitionIndependent, ScheduleInv
<1>1. PICK c \in Nat : now = c /\ ScheduleAt(c)
  BY DEF Scheduled
<1>2. RxP!IInv /\ RxP!LineInv
  BY DEF DriverInv
<1>3. ScheduleInv
  BY <1>1 DEF ScheduleInv, ScheduleAt
<1>4. ASSUME pc = "idle" PROVE log = ExpectedLog /\ design = DesignAt(now)
  <2>1. ExpectedLog = Before(c + 1)
    BY <1>1, Zenon DEF ExpectedLog, Before
  <2>2. Before(c + 1) = Cat(Before(c), LinesOf(c))
    BY <1>1, BeforeGrows DEF ScheduleAt
  <2>3. LinesOut(c) = LinesOf(c)
    BY <1>1, <1>2, <1>4, IdleLines
  <2>4. log = Before(c) \o LinesOut(c)
    BY <1>1, LogForm, Zenon DEF ScheduleAt
  <2>5. log = ExpectedLog
    BY <2>1, <2>2, <2>3, <2>4, Zenon DEF Cat
  <2> QED BY <1>1, <2>5 DEF ScheduleAt, SampledInv
<1> QED BY <1>3, <1>4 DEF PartitionIndependent

LEMMA ScheduleHolds ==
  ASSUME 0 \notin TickSizes
  PROVE  Spec => [](Scheduled /\ LoopInv /\ DriverInv)
<1>1. Init => Scheduled /\ LoopInv /\ DriverInv
  BY InitScheduled, InitLoop, InitDriver
<1>2. Scheduled /\ LoopInv /\ DriverInv /\ [Next]_vars => (Scheduled /\ LoopInv /\ DriverInv)'
  BY NextScheduled, NextLoop, NextDriver
<1> QED BY <1>1, <1>2, PTL DEF Spec

\* The board's frozen contract (docs/simulator_invariants.md): however the
\* callers cut time into ticks of a cycle or more, the log and the design's
\* state between two ticks are those of the schedule of calls, computed cycle
\* by cycle; and so is everything else tick() keeps, at each of its steps.
THEOREM PartitionIndependence ==
  ASSUME 0 \notin TickSizes
  PROVE  Spec => []PartitionIndependent
BY ScheduleHolds, ScheduledImplies, PTL

\* The invariant behind it: in every step of tick() the inputs, the design, the
\* display, the LEDs and the decoder are the schedule's, and the log is short of
\* nothing but a start bit that is due.
THEOREM ScheduleIsKept ==
  ASSUME 0 \notin TickSizes
  PROVE  Spec => []ScheduleInv
BY ScheduleHolds, ScheduledImplies, PTL
=============================================================================
