------------------------ MODULE UartRxDriver_proofs ------------------------
(***************************************************************************)
(* Proofs about the UART_RX driver for every bit length, frame length and  *)
(* payload set. RxInv is inductive relative to TypeOK.                     *)
(***************************************************************************)
EXTENDS UartRxDriver, SequenceTheorems, TLAPS

-----------------------------------------------------------------------------
(* Arithmetic of bit edges. *)

\* A bit and a frame last a positive number of cycles.
LEMMA FrameIsNat == Bit \in Nat /\ Bit > 0 /\ Frame \in Nat /\ Frame > 0
<1>1. Bit \in Nat /\ Bit > 0 /\ DataBits \in Nat /\ DataBits > 0
  BY RxAssumption
<1>2. Frame = DataBits * Bit + 2 * Bit
  BY <1>1 DEF Frame
<1>3. DataBits * Bit \in Nat
  BY <1>1
<1> QED BY <1>1, <1>2, <1>3

\* Products with a bit count stay natural, and the next edge is one bit later.
LEMMA EdgeStep ==
  ASSUME NEW e \in Nat
  PROVE  e * Bit \in Nat /\ (e + 1) * Bit = e * Bit + Bit
<1>1. Bit \in Nat
  BY FrameIsNat
<1> QED BY <1>1

\* Promises are one frame apart.
LEMMA PromiseStep ==
  ASSUME NEW start \in Nat, NEW i \in Nat \ {0}
  PROVE  /\ PromisedStart(start, i) \in Nat
         /\ PromisedStart(start, i + 1) = PromisedStart(start, i) + Frame
         /\ PromisedStart(start + Frame, i) = PromisedStart(start, i + 1)
         /\ PromisedStart(start, 1) = start
<1>1. Frame \in Nat
  BY FrameIsNat
<1>2. i - 1 \in Nat /\ (i - 1) * Frame \in Nat /\ i * Frame = (i - 1) * Frame + Frame
  BY <1>1
<1> QED BY <1>1, <1>2 DEF PromisedStart

-----------------------------------------------------------------------------
(* The inductive step, one lemma per action. *)

\* The driver's invariant together with the types it needs.
IInv == TypeOK /\ RxInv

\* The idle driver at cycle 0 owes nothing.
LEMMA InitIInv == Init => IInv
<1> SUFFICES ASSUME Init PROVE IInv
  OBVIOUS
<1> USE DEF Init, RxInit
<1>1. TypeOK
  <2>1. queue \in Seq(Bytes) /\ wave \in Seq(BOOLEAN)
    BY EmptySeq
  <2>2. /\ slots \in Seq([byte: Bytes, start: Nat])
        /\ driven \in Seq([byte: Bytes, start: Nat])
    BY EmptySeq
  <2>3. edgeIndex \in 0..(DataBits + 2)
    BY RxAssumption
  <2> QED BY <2>1, <2>2, <2>3 DEF TypeOK
<1>2. QueueIsPending /\ LineOwned /\ EdgeOnTime /\ DrivenIsStarted
  BY EmptySeq DEF QueueIsPending, LineOwned, EdgeOnTime, DrivenIsStarted, Started, Sent
<1>3. LineIsSymbol /\ StampExact /\ FramesDisjoint /\ Len(wave) = now
  BY EmptySeq DEF LineIsSymbol, Started, StampExact, FramesDisjoint
<1> QED BY <1>1, <1>2, <1>3 DEF IInv, RxInv

\* Accepting a byte keeps the invariant: its promise is one frame after the
\* byte queued before it, or the first cycle at which the line is free.
LEMMA SendIInv ==
  ASSUME IInv, NEW b \in Bytes, Send(b), UNCHANGED now
  PROVE  IInv'
<1> USE DEF IInv, RxInv
<1>a. Frame \in Nat /\ Bit \in Nat /\ Frame > 0
  BY FrameIsNat
<1>b. /\ queue \in Seq(Bytes) /\ Len(queue) \in Nat
      /\ slots \in Seq([byte: Bytes, start: Nat]) /\ Len(slots) \in Nat
      /\ shifting \in BOOLEAN /\ frameStart \in Nat /\ lineFree \in Nat /\ now \in Nat
      /\ Len(queue) <= Len(slots) /\ Sent \in Nat
  BY LenProperties DEF TypeOK, QueueIsPending, Sent
<1>c. /\ queue' \in Seq(Bytes) /\ queue' # <<>> /\ Len(queue') = Len(queue) + 1
      /\ \A i \in 1..Len(queue) : queue'[i] = queue[i]
      /\ queue'[Len(queue) + 1] = b
  BY <1>b, AppendProperties DEF Send
<1>d. frameStart' \in Nat /\ IdleStart \in Nat /\ IdleStart >= lineFree /\ IdleStart >= now
  BY <1>b DEF Send, IdleStart, Later
<1> DEFINE new == [byte |-> b, start |-> PromisedStart(frameStart', Len(queue'))]
<1>e. new \in [byte: Bytes, start: Nat]
  BY <1>b, <1>c, <1>d, PromiseStep
<1>f. /\ slots' \in Seq([byte: Bytes, start: Nat])
      /\ Len(slots') = Len(slots) + 1
      /\ \A i \in 1..Len(slots) : slots'[i] = slots[i]
      /\ slots'[Len(slots) + 1] = new
  BY <1>b, <1>e, AppendProperties DEF Send
<1>g. Sent' = Sent
  BY <1>b, <1>c, <1>f DEF Sent
<1>1. TypeOK'
  BY <1>c, <1>d, <1>f, RxAssumption DEF TypeOK, Send
<1>2. QueueIsPending'
  <2>1. shifting' <=> (queue' # <<>>)
    BY <1>c DEF Send
  <2>2. Len(queue') <= Len(slots')
    BY <1>b, <1>c, <1>f
  <2>3. ASSUME NEW i \in 1..Len(queue')
        PROVE  slots'[Sent' + i]
                 = [byte |-> queue'[i], start |-> PromisedStart(frameStart', i)]
    <3>1. CASE i = Len(queue) + 1
      BY <3>1, <1>b, <1>c, <1>f, <1>g DEF Sent
    <3>2. CASE i # Len(queue) + 1
      <4>1. i \in 1..Len(queue) /\ Sent + i \in 1..Len(slots)
        BY <3>2, <1>b, <1>c DEF Sent
      <4>2. queue # <<>>
        BY <4>1, <1>b, EmptySeq
      <4>3. frameStart' = frameStart
        BY <4>2 DEF QueueIsPending, Send
      <4> QED BY <4>1, <4>3, <1>c, <1>f, <1>g DEF QueueIsPending
    <3> QED BY <3>1, <3>2
  <2> QED BY <2>1, <2>2, <2>3 DEF QueueIsPending
<1>3. LineOwned'
  <2>1. Sent > 0 => slots'[Sent] = slots[Sent]
    <3>1. Sent > 0 => Sent \in 1..Len(slots)
      BY <1>b DEF Sent
    <3> QED BY <3>1, <1>f
  <2>2. lineFree' = lineFree /\ frameStart' >= lineFree
    BY <1>b, <1>d DEF Send, LineOwned
  <2> QED BY <2>1, <2>2, <1>g, <1>b, <1>d DEF LineOwned
<1>4. EdgeOnTime'
  <2>1. CASE shifting
    BY <2>1 DEF EdgeOnTime, EdgeCycle, Send
  <2>2. CASE ~shifting
    BY <2>2, <1>a, <1>d, RxAssumption DEF EdgeOnTime, EdgeCycle, Send, StopEdge
  <2> QED BY <2>1, <2>2
<1>5. DrivenIsStarted' /\ LineIsSymbol'
  <2>1. Started' <=> Started
    BY <1>b DEF Started, Send
  <2>2. Started => Head(queue') = Head(queue)
    BY <1>b, <1>c, EmptySeq DEF Started, QueueIsPending
  <2> QED BY <2>1, <2>2, <1>g DEF DrivenIsStarted, LineIsSymbol, Send, Line!Symbol, Started
<1>6. StampExact'
  BY <1>b, <1>f DEF StampExact, Send, TypeOK
<1>7. FramesDisjoint'
  <2> SUFFICES slots = <<>> \/ slots[Len(slots)].start + Frame <= new.start
    <3> SUFFICES ASSUME NEW i \in 1..(Len(slots') - 1)
                 PROVE  slots'[i].start + Frame <= slots'[i + 1].start
      BY DEF FramesDisjoint
    <3>1. CASE i = Len(slots)
      <4>1. slots # <<>> /\ slots'[i] = slots[Len(slots)] /\ slots'[i + 1] = new
        BY <3>1, <1>b, <1>f, EmptySeq
      <4> QED BY <4>1
    <3>2. CASE i # Len(slots)
      <4>1. i \in 1..(Len(slots) - 1) /\ i \in 1..Len(slots) /\ i + 1 \in 1..Len(slots)
        BY <3>2, <1>b, <1>f
      <4>2. slots'[i] = slots[i] /\ slots'[i + 1] = slots[i + 1]
        BY <4>1, <1>f
      <4> QED BY <4>1, <4>2 DEF FramesDisjoint
    <3> QED BY <3>1, <3>2
  <2>1. CASE shifting
    <3>1. Len(queue) \in Nat \ {0} /\ Sent + Len(queue) = Len(slots)
      BY <2>1, <1>b, EmptySeq DEF QueueIsPending, Sent
    <3>2. slots[Len(slots)].start = PromisedStart(frameStart, Len(queue))
      <4>1. Len(queue) \in 1..Len(queue) /\ slots[Sent + Len(queue)] = slots[Len(slots)]
        BY <3>1
      <4>2. slots[Sent + Len(queue)]
              = [byte |-> queue[Len(queue)], start |-> PromisedStart(frameStart, Len(queue))]
        BY <4>1, Zenon DEF QueueIsPending
      <4> QED BY <4>1, <4>2
    <3>3. new.start = PromisedStart(frameStart, Len(queue) + 1)
      BY <2>1, <1>c DEF Send
    <3>4. PromisedStart(frameStart, Len(queue) + 1) = PromisedStart(frameStart, Len(queue)) + Frame
      BY <3>1, <1>b, PromiseStep
    <3>5. PromisedStart(frameStart, Len(queue)) \in Nat
      BY <3>1, <1>b, PromiseStep
    <3> QED BY <3>2, <3>3, <3>4, <3>5, <1>a
  <2>2. CASE ~shifting
    <3>1. Len(queue) = 0 /\ Sent = Len(slots)
      BY <2>2, <1>b, EmptySeq DEF QueueIsPending, Sent
    <3>2. new.start = IdleStart
      BY <2>2, <3>1, <1>c, <1>d, PromiseStep DEF Send
    <3> QED BY <3>1, <3>2, <1>a, <1>b, <1>d, EmptySeq DEF LineOwned
  <2> QED BY <2>1, <2>2
<1> QED BY <1>1, <1>2, <1>3, <1>4, <1>5, <1>6, <1>7 DEF Send

\* Consuming an edge inside a frame only moves to the next bit.
LEMMA MidFrameIInv ==
  ASSUME IInv, ConsumeEdge, edgeIndex # StopEdge
  PROVE  IInv'
<1> USE DEF IInv, RxInv
<1>a. Bit \in Nat /\ Bit > 0 /\ DataBits \in Nat
  BY FrameIsNat, RxAssumption
<1>b. /\ queue \in Seq(Bytes) /\ Len(queue) \in Nat \ {0}
      /\ driven \in Seq([byte: Bytes, start: Nat]) /\ Len(driven) \in Nat
      /\ slots \in Seq([byte: Bytes, start: Nat]) /\ Len(slots) \in Nat
      /\ edgeIndex \in 0..DataBits /\ frameStart \in Nat /\ now \in Nat
      /\ Len(queue) <= Len(slots) /\ Sent \in Nat /\ Sent + 1 \in 1..Len(slots)
  <2>1. queue # <<>> /\ Len(queue) <= Len(slots)
    BY DEF ConsumeEdge, QueueIsPending
  <2>2. Len(queue) \in Nat \ {0} /\ Len(slots) \in Nat /\ Len(driven) \in Nat
    BY <2>1, EmptySeq, LenProperties DEF TypeOK
  <2>3. edgeIndex \in 0..DataBits
    BY <1>a DEF ConsumeEdge, EdgeOnTime, StopEdge, TypeOK
  <2> QED BY <2>1, <2>2, <2>3 DEF TypeOK, Sent
<1>c. Head(queue) \in Bytes /\ Head(queue) = queue[1] /\ Head(queue) \in [1..DataBits -> BOOLEAN]
  BY <1>b, HeadTailProperties, EmptySeq, RxAssumption
<1>d. /\ edgeIndex' = edgeIndex + 1 /\ shifting /\ shifting' = shifting
      /\ UNCHANGED <<queue, frameStart, lineFree, slots, wave, now>>
      /\ EdgeCycle = now
  BY DEF ConsumeEdge, AdvanceEdge
<1>e. Sent' = Sent /\ Started'
  BY <1>b, <1>d DEF Sent, Started
<1>f. /\ edgeIndex * Bit \in Nat /\ (edgeIndex + 1) * Bit = edgeIndex * Bit + Bit
  BY <1>b, EdgeStep
<1> DEFINE start == [byte |-> Head(queue), start |-> now]
<1>g. start \in [byte: Bytes, start: Nat] /\ (edgeIndex = 0 => start = slots[Sent + 1])
  <2>1. start \in [byte: Bytes, start: Nat]
    BY <1>b, <1>c
  <2>2. slots[Sent + 1] = [byte |-> queue[1], start |-> PromisedStart(frameStart, 1)]
    BY <1>b DEF QueueIsPending
  <2>3. edgeIndex = 0 => now = frameStart
    BY <1>a, <1>b, <1>d DEF EdgeCycle
  <2> QED BY <2>1, <2>2, <2>3, <1>b, <1>c, PromiseStep
<1>h. /\ driven' \in Seq([byte: Bytes, start: Nat])
      /\ Len(driven') = Sent + 1
      /\ \A i \in 1..Len(driven') : driven'[i] = slots[i]
  <2>1. CASE edgeIndex = 0
    <3>1. driven' = Append(driven, start) /\ Len(driven) = Sent
      BY <2>1, <1>b DEF ConsumeEdge, AdvanceEdge, DrivenIsStarted, Started
    <3>2. /\ driven' \in Seq([byte: Bytes, start: Nat]) /\ Len(driven') = Len(driven) + 1
          /\ \A i \in 1..Len(driven) : driven'[i] = driven[i]
          /\ driven'[Len(driven) + 1] = start
      BY <3>1, <1>b, <1>g, AppendProperties
    <3>3. ASSUME NEW i \in 1..Len(driven') PROVE driven'[i] = slots[i]
      <4>1. CASE i = Len(driven) + 1
        BY <4>1, <3>1, <3>2, <1>g, <2>1
      <4>2. CASE i # Len(driven) + 1
        <5>1. i \in 1..Len(driven)
          BY <4>2, <3>2, <1>b
        <5> QED BY <5>1, <3>2 DEF StampExact
      <4> QED BY <4>1, <4>2
    <3> QED BY <3>1, <3>2, <3>3
  <2>2. CASE edgeIndex # 0
    BY <2>2, <1>b, <1>d DEF ConsumeEdge, AdvanceEdge, DrivenIsStarted, Started, StampExact
  <2> QED BY <2>1, <2>2
<1>i. line' = Line!Symbol(Head(queue), edgeIndex) /\ line' \in BOOLEAN
  <2>1. line' = IF edgeIndex = 0 THEN FALSE ELSE Head(queue)[edgeIndex]
    BY <1>a, <1>b DEF ConsumeEdge, AdvanceEdge, EdgeLevel
  <2>2. edgeIndex # 0 => Head(queue)[edgeIndex] \in BOOLEAN
    BY <1>a, <1>b, <1>c
  <2>3. Line!Symbol(Head(queue), edgeIndex)
          = IF edgeIndex = 0 THEN FALSE ELSE Head(queue)[edgeIndex]
    BY <1>a, <1>b DEF Line!Symbol
  <2> QED BY <2>1, <2>2, <2>3
<1>1. TypeOK'
  <2>1. edgeIndex' \in 0..(DataBits + 2)
    BY <1>a, <1>b, <1>d
  <2> QED BY <2>1, <1>d, <1>h, <1>i DEF TypeOK
<1>2. QueueIsPending' /\ LineOwned'
  BY <1>d, <1>e DEF QueueIsPending, LineOwned
<1>3. EdgeOnTime'
  <2>1. EdgeCycle' = now + Bit
    <3>1. EdgeCycle' = frameStart + (edgeIndex + 1) * Bit
      BY <1>d DEF EdgeCycle
    <3>2. now = frameStart + edgeIndex * Bit
      BY <1>d DEF EdgeCycle
    <3> QED BY <3>1, <3>2, <1>a, <1>b, <1>f
  <2> QED BY <2>1, <1>a, <1>b, <1>d DEF EdgeOnTime, StopEdge
<1>4. DrivenIsStarted' /\ StampExact'
  BY <1>b, <1>d, <1>e, <1>h DEF DrivenIsStarted, StampExact
<1>5. LineIsSymbol'
  BY <1>b, <1>d, <1>e, <1>i DEF LineIsSymbol
<1>6. FramesDisjoint' /\ Len(wave') = now'
  BY <1>d DEF FramesDisjoint
<1> QED BY <1>1, <1>2, <1>3, <1>4, <1>5, <1>6

\* Consuming the stop edge retires the front byte: the frame after it starts
\* one frame later, which is what was promised when it was queued.
LEMMA StopEdgeIInv ==
  ASSUME IInv, ConsumeEdge, edgeIndex = StopEdge
  PROVE  IInv'
<1> USE DEF IInv, RxInv
<1>a. Bit \in Nat /\ Bit > 0 /\ DataBits \in Nat \ {0} /\ Frame \in Nat
  BY FrameIsNat, RxAssumption
<1>b. /\ queue \in Seq(Bytes) /\ queue # <<>> /\ Len(queue) \in Nat \ {0}
      /\ slots \in Seq([byte: Bytes, start: Nat]) /\ Len(slots) \in Nat
      /\ frameStart \in Nat /\ now \in Nat
      /\ Len(queue) <= Len(slots) /\ Sent \in Nat /\ Sent + 1 \in 1..Len(slots)
  <2>1. queue # <<>> /\ Len(queue) <= Len(slots)
    BY DEF ConsumeEdge, QueueIsPending
  <2>2. Len(queue) \in Nat \ {0} /\ Len(slots) \in Nat
    BY <2>1, EmptySeq, LenProperties DEF TypeOK
  <2> QED BY <2>1, <2>2 DEF TypeOK, Sent
<1>c. /\ Tail(queue) \in Seq(Bytes) /\ Len(Tail(queue)) = Len(queue) - 1
      /\ \A i \in 1..Len(Tail(queue)) : Tail(queue)[i] = queue[i + 1]
  BY <1>b, HeadTailProperties
<1>d. /\ queue' = Tail(queue) /\ lineFree' = frameStart + Frame
      /\ shifting' = (Tail(queue) # <<>>)
      /\ frameStart' = IF Tail(queue) # <<>> THEN frameStart + Frame ELSE frameStart
      /\ edgeIndex' = IF Tail(queue) # <<>> THEN 0 ELSE edgeIndex + 1
      /\ UNCHANGED <<slots, wave, now, driven>> /\ line' = TRUE
      /\ shifting /\ EdgeCycle = now
  <2>1. edgeIndex # 0 /\ ~(edgeIndex <= DataBits)
    BY <1>a DEF StopEdge
  <2> QED BY <2>1 DEF ConsumeEdge, AdvanceEdge, FinishFrame, EdgeLevel
<1>e. Sent' = Sent + 1 /\ ~Started' /\ Started
  <2>1. Sent' = Len(slots) - Len(Tail(queue))
    BY <1>d DEF Sent
  <2>2. Sent' = Sent + 1
    BY <2>1, <1>b, <1>c DEF Sent
  <2>3. ~Started'
    <3>1. CASE Tail(queue) # <<>>
      <4>1. edgeIndex' = 0
        BY <3>1, <1>d
      <4> QED BY <4>1 DEF Started
    <3>2. CASE Tail(queue) = <<>>
      BY <3>2, <1>d, Zenon DEF Started
    <3> QED BY <3>1, <3>2
  <2>4. Started
    BY <1>a, <1>d DEF Started, StopEdge
  <2> QED BY <2>2, <2>3, <2>4
<1>f. Len(driven) = Sent + 1
  BY <1>e DEF DrivenIsStarted
<1>1. TypeOK'
  <2>1. edgeIndex' \in 0..(DataBits + 2)
    BY <1>a, <1>d DEF StopEdge
  <2>2. frameStart' \in Nat /\ lineFree' \in Nat
    BY <1>a, <1>b, <1>d
  <2>3. queue' \in Seq(Bytes) /\ shifting' \in BOOLEAN /\ line' \in BOOLEAN
    BY <1>c, <1>d
  <2> QED BY <2>1, <2>2, <2>3, <1>d DEF TypeOK
<1>2. QueueIsPending'
  <2>1. shifting' <=> (queue' # <<>>)
    BY <1>d
  <2>2. Len(queue') <= Len(slots')
    BY <1>b, <1>c, <1>d
  <2>3. ASSUME NEW i \in 1..Len(queue')
        PROVE  slots'[Sent' + i]
                 = [byte |-> queue'[i], start |-> PromisedStart(frameStart', i)]
    <3>1. i \in 1..Len(Tail(queue)) /\ i + 1 \in 1..Len(queue) /\ i \in Nat \ {0}
      BY <1>b, <1>c, <1>d
    <3>2. frameStart' = frameStart + Frame
      <4>1. Tail(queue) = <<>> => 1..Len(Tail(queue)) = {}
        BY EmptySeq
      <4>2. Tail(queue) # <<>>
        BY <4>1, <3>1
      <4> QED BY <4>2, <1>d
    <3>3. Sent' + i = Sent + (i + 1)
      BY <3>1, <1>b, <1>e
    <3>4. slots[Sent + (i + 1)]
            = [byte |-> queue[i + 1], start |-> PromisedStart(frameStart, i + 1)]
      BY <3>1, Zenon DEF QueueIsPending
    <3>5. PromisedStart(frameStart', i) = PromisedStart(frameStart, i + 1)
      BY <3>1, <3>2, <1>b, PromiseStep
    <3> QED BY <3>1, <3>3, <3>4, <3>5, <1>c, <1>d
  <2> QED BY <2>1, <2>2, <2>3 DEF QueueIsPending
<1>3. LineOwned'
  <2>1. slots[Sent + 1] = [byte |-> queue[1], start |-> frameStart]
    BY <1>b, PromiseStep DEF QueueIsPending
  <2>2. lineFree' = slots'[Sent'].start + Frame /\ Sent' > 0
    <3>1. slots'[Sent'] = slots[Sent + 1] /\ Sent' > 0
      BY <1>b, <1>d, <1>e
    <3> QED BY <3>1, <2>1, <1>d
  <2>3. shifting' => lineFree' <= frameStart'
    <3>1. shifting' => lineFree' = frameStart'
      BY <1>d
    <3>2. lineFree' \in Nat
      BY <1>a, <1>b, <1>d
    <3> QED BY <3>1, <3>2
  <2> QED BY <2>2, <2>3 DEF LineOwned
<1>4. EdgeOnTime'
  <2>1. CASE Tail(queue) # <<>>
    <3>1. now + Bit = frameStart + Frame
      <4>1. DataBits * Bit \in Nat /\ (DataBits + 1) * Bit = DataBits * Bit + Bit
        BY <1>a, EdgeStep
      <4>2. Frame = (DataBits + 1) * Bit + Bit
        <5>1. DataBits + 2 = (DataBits + 1) + 1 /\ DataBits + 1 \in Nat
          BY <1>a
        <5> QED BY <5>1, EdgeStep DEF Frame
      <4> QED BY <4>1, <4>2, <1>a, <1>b, <1>d DEF EdgeCycle, StopEdge
    <3>2. EdgeCycle' = frameStart + Frame
      BY <2>1, <1>a, <1>b, <1>d DEF EdgeCycle
    <3> QED BY <3>1, <3>2, <2>1, <1>a, <1>b, <1>d DEF EdgeOnTime, StopEdge
  <2>2. CASE Tail(queue) = <<>>
    BY <2>2, <1>d DEF EdgeOnTime
  <2> QED BY <2>1, <2>2
<1>5. DrivenIsStarted' /\ StampExact'
  BY <1>b, <1>d, <1>e, <1>f DEF DrivenIsStarted, StampExact
<1>6. LineIsSymbol' /\ FramesDisjoint' /\ Len(wave') = now'
  BY <1>d, <1>e DEF LineIsSymbol, FramesDisjoint
<1> QED BY <1>1, <1>2, <1>3, <1>4, <1>5, <1>6

\* n cycles of a constant pin extend the waveform by n equal levels.
LEMMA HoldWave ==
  ASSUME TypeOK, NEW n \in Nat, Hold(n)
  PROVE  /\ wave' \in Seq(BOOLEAN)
         /\ Len(wave') = Len(wave) + n
         /\ \A i \in 1..Len(wave) : wave'[i] = wave[i]
         /\ \A i \in (Len(wave) + 1)..(Len(wave) + n) : wave'[i] = line
<1> DEFINE held == [i \in 1..n |-> line]
<1>1. held \in Seq(BOOLEAN) /\ Len(held) = n
  BY DEF TypeOK
<1>2. wave \in Seq(BOOLEAN) /\ Len(wave) \in Nat
  BY LenProperties DEF TypeOK
<1>3. /\ wave \o held \in Seq(BOOLEAN) /\ Len(wave \o held) = Len(wave) + n
      /\ \A i \in 1..(Len(wave) + n) :
           (wave \o held)[i] = IF i <= Len(wave) THEN wave[i] ELSE held[i - Len(wave)]
  BY <1>1, <1>2, ConcatProperties
<1>4. \A i \in (Len(wave) + 1)..(Len(wave) + n) : held[i - Len(wave)] = line
  BY <1>2
<1>5. wave' = wave \o held
  BY DEF Hold
<1> HIDE DEF held
<1> QED BY <1>2, <1>3, <1>4, <1>5

\* Time passes without overtaking an edge.
LEMMA ElapseIInv ==
  ASSUME IInv, Elapse
  PROVE  IInv'
<1> USE DEF IInv, RxInv
<1>1. PICK n \in 1..MaxCycle :
        /\ ~EdgeDueBy(now + n - 1)
        /\ Hold(n)
        /\ UNCHANGED <<driver, line, slots, driven>>
  BY DEF Elapse
<1>2. n \in Nat /\ n > 0 /\ now \in Nat /\ Bit \in Nat
  BY RxAssumption DEF TypeOK
<1>3. wave' \in Seq(BOOLEAN) /\ Len(wave') = Len(wave) + n /\ now' = now + n
  BY <1>1, <1>2, HoldWave DEF Hold
<1>4. TypeOK'
  BY <1>1, <1>2, <1>3 DEF TypeOK, driver
<1>5. EdgeOnTime'
  <2>1. shifting => EdgeCycle \in Int
    BY <1>2, EdgeStep DEF TypeOK, EdgeOnTime, EdgeCycle
  <2> QED BY <2>1, <1>1, <1>2, <1>3 DEF EdgeOnTime, EdgeDueBy, EdgeCycle, driver
<1>6. QueueIsPending' /\ LineOwned' /\ DrivenIsStarted' /\ LineIsSymbol'
  BY <1>1 DEF QueueIsPending, LineOwned, DrivenIsStarted, LineIsSymbol, Started, Sent, driver
<1>7. StampExact' /\ FramesDisjoint'
  BY <1>1 DEF StampExact, FramesDisjoint
<1> QED BY <1>3, <1>4, <1>5, <1>6, <1>7

\* The invariant survives every step of the driver and of its caller.
LEMMA NextIInv == IInv /\ [Next]_vars => IInv'
<1> SUFFICES ASSUME IInv, [Next]_vars PROVE IInv'
  OBVIOUS
<1>1. CASE SendByte
  BY <1>1, SendIInv DEF SendByte
<1>2. CASE ConsumeEdge
  BY <1>2, MidFrameIInv, StopEdgeIInv
<1>3. CASE Elapse
  BY <1>3, ElapseIInv
<1>4. CASE UNCHANGED vars
  BY <1>4 DEF vars, driver, IInv, TypeOK, RxInv, QueueIsPending, LineOwned, EdgeOnTime,
     DrivenIsStarted, LineIsSymbol, StampExact, FramesDisjoint, Sent, Started, EdgeCycle
<1> QED BY <1>1, <1>2, <1>3, <1>4 DEF Next

-----------------------------------------------------------------------------
(* The waveform: the driver implements SerialLine. *)

LEMMA BitOrder ==
  ASSUME NEW i \in Nat, NEW j \in Nat, i <= j
  PROVE  i * Bit \in Nat /\ j * Bit \in Nat /\ i * Bit <= j * Bit
<1>1. Bit \in Nat  BY FrameIsNat
<1>2. PICK d \in Nat : j = i + d
  <2>1. j - i \in Nat /\ j = i + (j - i)  OBVIOUS
  <2> QED BY <2>1
<1>3. (i + d) * Bit = i * Bit + d * Bit  BY <1>1
<1>4. i * Bit \in Nat /\ d * Bit \in Nat  BY <1>1
<1> QED BY <1>2, <1>3, <1>4

\* The stop bit is the last of a frame's.
LEMMA StopBit ==
  /\ (DataBits + 1) * Bit \in Nat /\ Frame = (DataBits + 1) * Bit + Bit
  /\ Line!Frame = Frame
<1>1. DataBits + 1 \in Nat /\ DataBits + 2 = (DataBits + 1) + 1  BY RxAssumption
<1> QED BY <1>1, EdgeStep DEF Frame, Line!Frame

\* An edge of the frame in flight is never later than its stop bit.
LEMMA EdgeBeforeEnd ==
  ASSUME IInv, shifting
  PROVE  /\ edgeIndex \in Nat /\ edgeIndex * Bit \in Nat /\ frameStart \in Nat
         /\ EdgeCycle = frameStart + edgeIndex * Bit
         /\ EdgeCycle + Bit <= frameStart + Frame
         /\ now <= EdgeCycle
<1>1. edgeIndex \in Nat /\ edgeIndex <= DataBits + 1 /\ frameStart \in Nat /\ now <= EdgeCycle
  BY RxAssumption DEF IInv, TypeOK, RxInv, EdgeOnTime, StopEdge
<1>2. DataBits + 1 \in Nat  BY RxAssumption
<1>3. edgeIndex * Bit \in Nat /\ edgeIndex * Bit <= (DataBits + 1) * Bit
  BY <1>1, <1>2, BitOrder
<1> QED BY <1>1, <1>3, StopBit, FrameIsNat DEF EdgeCycle

LEMMA LastSlot ==
  ASSUME NEW S, NEW s \in Seq(S), s # <<>>
  PROVE  Len(s) \in Nat \ {0} /\ Len(s) \in 1..Len(s) /\ s[Len(s)] \in S
<1>1. Len(s) \in Nat \ {0}  BY EmptySeq, LenProperties
<1> QED BY <1>1, ElementOfSeq

\* send() gives a byte the line's next slot.
LEMMA SendSubmits ==
  ASSUME IInv, NEW b \in Bytes, Send(b)
  PROVE  /\ Line!Submit(b)
         /\ slots' = Append(slots, [byte |-> b, start |-> Line!NextStart])
         /\ Line!NextStart \in Nat
         /\ slots # <<>> => slots[Len(slots)].start + Frame <= Line!NextStart
<1>0. TypeOK /\ QueueIsPending /\ LineOwned /\ Len(wave) = now  BY DEF IInv, RxInv
<1>1. /\ Frame \in Nat /\ Bit \in Nat /\ Frame > 0
      /\ queue \in Seq(Bytes) /\ Len(queue) \in Nat
      /\ slots \in Seq([byte: Bytes, start: Nat]) /\ Len(slots) \in Nat
      /\ frameStart \in Nat /\ lineFree \in Nat /\ now \in Nat /\ Len(wave) = now
      /\ Sent + Len(queue) = Len(slots) /\ Len(queue) <= Len(slots) /\ Sent \in Nat
  BY <1>0, FrameIsNat, LenProperties DEF TypeOK, QueueIsPending, Sent
<1>2. Len(queue') = Len(queue) + 1  BY <1>1, AppendProperties DEF Send
<1> DEFINE free == slots[Len(slots)].start + Frame
           start == PromisedStart(frameStart', Len(queue'))
<1>3. ASSUME slots # <<>>
      PROVE  Len(slots) \in Nat \ {0} /\ Len(slots) \in 1..Len(slots) /\ slots[Len(slots)].start \in Nat
  <2>1. slots[Len(slots)] \in [byte: Bytes, start: Nat]  BY <1>1, <1>3, LastSlot
  <2> QED BY <1>1, <1>3, <2>1, LastSlot
<1>4. Line!NextStart = IF slots = <<>> THEN now ELSE IF free > now THEN free ELSE now
  BY <1>1, StopBit DEF Line!NextStart
<1>5. slots # <<>> => free \in Nat  BY <1>1, <1>3
<1>6. start = Line!NextStart
  <2>1. CASE shifting
    <3>1. Len(queue) \in Nat \ {0} /\ slots # <<>>
      BY <2>1, <1>0, <1>1, EmptySeq DEF QueueIsPending
    <3>2. slots[Len(slots)].start = PromisedStart(frameStart, Len(queue))
      <4>1. Len(queue) \in 1..Len(queue)  BY <3>1
      <4>2. slots[Sent + Len(queue)]
              = [byte |-> queue[Len(queue)], start |-> PromisedStart(frameStart, Len(queue))]
        BY <1>0, <4>1, Zenon DEF QueueIsPending
      <4>3. Sent + Len(queue) = Len(slots)  BY <1>1
      <4> QED BY <4>2, <4>3
    <3>3. start = PromisedStart(frameStart, Len(queue) + 1)  BY <2>1, <1>2 DEF Send
    <3>4. /\ PromisedStart(frameStart, Len(queue)) \in Nat
          /\ PromisedStart(frameStart, Len(queue) + 1) = PromisedStart(frameStart, Len(queue)) + Frame
      BY <3>1, <1>1, PromiseStep
    <3>5. start = free  BY <3>2, <3>3, <3>4
    <3>6. frameStart <= slots[Len(slots)].start
      <4>1. Len(queue) - 1 \in Nat /\ Frame \in Nat /\ frameStart \in Nat  BY <3>1, <1>1
      <4>2. \A m, n \in Nat : m * n \in Nat  OBVIOUS
      <4>3. (Len(queue) - 1) * Frame \in Nat  BY <4>1, <4>2
      <4>4. slots[Len(slots)].start = frameStart + (Len(queue) - 1) * Frame  BY <3>2 DEF PromisedStart
      <4> HIDE DEF free, start
      <4> QED BY <4>1, <4>3, <4>4
    <3>7. free > now
      <4>1. now + Bit <= frameStart + Frame /\ Bit > 0 /\ Bit \in Nat
        BY <2>1, <1>1, EdgeBeforeEnd, FrameIsNat
      <4>2. slots[Len(slots)].start \in Nat /\ frameStart \in Nat /\ now \in Nat /\ Frame \in Nat
        BY <3>1, <1>1, <1>3
      <4> QED BY <3>6, <4>1, <4>2
    <3> QED BY <3>1, <3>5, <3>7, <1>4
  <2>2. CASE ~shifting
    <3>1. Len(queue) = 0 /\ Sent = Len(slots)  BY <2>2, <1>0, <1>1, EmptySeq DEF QueueIsPending
    <3>2. start = IdleStart
      <4>1. IdleStart \in Nat  BY <1>1 DEF IdleStart, Later
      <4>2. frameStart' = IdleStart  BY <2>2 DEF Send
      <4>3. PromisedStart(IdleStart, 1) = IdleStart  BY <4>1, PromiseStep
      <4> QED BY <3>1, <4>2, <4>3, <1>2
    <3>3. slots = <<>> => lineFree = 0  BY <3>1, <1>0, EmptySeq DEF LineOwned
    <3>4. slots # <<>> => lineFree = free  BY <3>1, <1>0, <1>3 DEF LineOwned
    <3> QED BY <3>2, <3>3, <3>4, <1>1, <1>4, <1>5 DEF IdleStart, Later
  <2> QED BY <2>1, <2>2
<1>7. slots' = Append(slots, [byte |-> b, start |-> Line!NextStart]) /\ UNCHANGED wave
  BY <1>6 DEF Send
<1>8. Line!NextStart \in Nat /\ (slots # <<>> => free <= Line!NextStart)  BY <1>1, <1>4, <1>5
<1> QED BY <1>7, <1>8 DEF Line!Submit

\* Frames stay apart, and the line is busy for the tail of one stop bit at most.
LEMMA NextLineInv == IInv /\ LineInv /\ [Next]_vars => LineInv'
<1> SUFFICES ASSUME IInv, LineInv, [Next]_vars PROVE LineInv'
  OBVIOUS
<1>1. /\ Frame \in Nat /\ Bit \in Nat /\ now \in Nat /\ lineFree \in Nat
      /\ slots \in Seq([byte: Bytes, start: Nat]) /\ Len(slots) \in Nat
  BY FrameIsNat, LenProperties DEF IInv, TypeOK
<1>2. CASE SendByte
  <2>1. PICK b \in Bytes : Send(b) /\ UNCHANGED now  BY <1>2 DEF SendByte
  <2> DEFINE new == [byte |-> b, start |-> Line!NextStart]
  <2>2. /\ slots' = Append(slots, new) /\ new \in [byte: Bytes, start: Nat]
        /\ slots # <<>> => slots[Len(slots)].start + Frame <= new.start
    BY <2>1, SendSubmits
  <2> HIDE DEF new
  <2>3. /\ Len(slots') = Len(slots) + 1 /\ slots'[Len(slots) + 1] = new
        /\ \A i \in 1..Len(slots) : slots'[i] = slots[i]
    BY <1>1, <2>2, AppendProperties
  <2>4. ASSUME NEW i \in 1..Len(slots'), NEW j \in 1..Len(slots'), i < j
        PROVE  slots'[i].start + Frame <= slots'[j].start
    <3>1. i \in 1..Len(slots) /\ slots'[i] = slots[i] /\ slots # <<>>
      BY <1>1, <2>3, <2>4, EmptySeq
    <3>2. CASE j = Len(slots) + 1
      <4>1. slots[i] \in [byte: Bytes, start: Nat] /\ slots[Len(slots)] \in [byte: Bytes, start: Nat]
        BY <1>1, <3>1, LastSlot, ElementOfSeq
      <4>2. /\ slots[i].start \in Nat /\ slots[Len(slots)].start \in Nat /\ new.start \in Nat
            /\ Len(slots) \in 1..Len(slots)
        BY <1>1, <2>2, <3>1, <4>1, LastSlot
      <4>3. slots[i].start <= slots[Len(slots)].start
        BY <1>1, <3>1, <4>2 DEF LineInv, FramesApart
      <4>4. slots[Len(slots)].start + Frame <= new.start  BY <2>2, <3>1
      <4>5. slots'[i] = slots[i] /\ slots'[j] = new  BY <2>3, <3>1, <3>2
      <4> QED BY <1>1, <4>2, <4>3, <4>4, <4>5
    <3>3. CASE j # Len(slots) + 1
      <4>1. j \in 1..Len(slots)  BY <1>1, <2>3, <3>3
      <4> QED BY <2>3, <2>4, <3>1, <4>1 DEF LineInv, FramesApart
    <3> QED BY <3>2, <3>3
  <2>5. Sent' = Sent
    <3>1. Len(queue') = Len(queue) + 1 /\ Len(queue) \in Nat
      BY <2>1, AppendProperties, LenProperties DEF Send, IInv, TypeOK
    <3> QED BY <1>1, <2>3, <3>1 DEF Sent
  <2>6. StopBitLasts'  BY <2>1, <2>5 DEF LineInv, StopBitLasts, Send
  <2> QED BY <2>4, <2>6 DEF LineInv, FramesApart
<1>3. CASE ConsumeEdge
  <2>1. UNCHANGED <<slots, now>>  BY <1>3 DEF ConsumeEdge, AdvanceEdge
  <2>2. FramesApart'  BY <2>1 DEF LineInv, FramesApart
  <2>3. CASE edgeIndex = StopEdge
    <3>1. lineFree' = frameStart + Frame /\ EdgeCycle = now /\ shifting
      BY <1>3, <2>3 DEF ConsumeEdge, AdvanceEdge, FinishFrame
    <3>2. now = frameStart + (DataBits + 1) * Bit /\ frameStart \in Nat
      BY <2>3, <3>1 DEF EdgeCycle, StopEdge, IInv, TypeOK
    <3>3. lineFree' <= now + Bit  BY <1>1, <3>1, <3>2, StopBit
    <3> QED BY <2>1, <2>2, <3>3 DEF LineInv, StopBitLasts
  <2>4. CASE edgeIndex # StopEdge
    <3>1. UNCHANGED <<queue, lineFree>>  BY <1>3, <2>4 DEF ConsumeEdge, AdvanceEdge
    <3> QED BY <2>1, <2>2, <3>1 DEF LineInv, StopBitLasts, Sent
  <2> QED BY <2>3, <2>4
<1>4. CASE Elapse
  <2>1. PICK n \in 1..MaxCycle : Hold(n) /\ UNCHANGED <<driver, slots>>  BY <1>4 DEF Elapse
  <2>2. now' >= now /\ now' \in Nat /\ UNCHANGED <<queue, lineFree, slots>>
    BY <1>1, <2>1, RxAssumption DEF Hold, driver
  <2>3. FramesApart' /\ Sent' = Sent  BY <2>2 DEF LineInv, FramesApart, Sent
  <2>4. StopBitLasts'
    <3>1. \A a, b, c, d \in Nat : a <= b + c /\ b <= d => a <= d + c  OBVIOUS
    <3>2. lineFree <= now + Bit => lineFree <= now' + Bit  BY <1>1, <2>2, <3>1
    <3>3. lineFree' = lineFree  BY <2>2
    <3> QED BY <2>3, <3>2, <3>3 DEF LineInv, StopBitLasts
  <2> QED BY <2>3, <2>4 DEF LineInv
<1>5. CASE UNCHANGED vars
  BY <1>5 DEF vars, driver, LineInv, FramesApart, StopBitLasts, Sent
<1> QED BY <1>2, <1>3, <1>4, <1>5 DEF Next

LEMMA InitLineInv == Init => LineInv
BY EmptySeq DEF Init, RxInit, LineInv, FramesApart, StopBitLasts, Sent

\* Cycle c is in the j-th bit of the k-th frame.
Covers(k, j, c) ==
  slots[k].start + j * Bit <= c /\ c < slots[k].start + (j + 1) * Bit

\* A bit of an accepted frame that covers a cycle to come, up to the next edge,
\* is the one the pin shows.
LEMMA Covered ==
  ASSUME IInv, LineInv, NEW c \in Nat, now <= c, ~EdgeDueBy(c),
         NEW k \in 1..Len(slots), NEW j \in 0..(DataBits + 1),
         Covers(k, j, c)
  PROVE  Line!Symbol(slots[k].byte, j) = line
<1> DEFINE S == slots[k].start
<1>0. TypeOK /\ QueueIsPending /\ LineOwned /\ EdgeOnTime /\ LineIsSymbol  BY DEF IInv, RxInv
<1>1. /\ Frame \in Nat /\ Bit \in Nat /\ Bit > 0 /\ DataBits \in Nat
      /\ Len(queue) \in Nat /\ Len(slots) \in Nat /\ Sent \in Nat /\ Sent <= Len(slots)
      /\ frameStart \in Nat /\ lineFree \in Nat /\ now \in Nat
  BY <1>0, FrameIsNat, RxAssumption, LenProperties DEF TypeOK, QueueIsPending, Sent
<1>2. \A i \in 1..Len(slots) : slots[i].start \in Nat
  <2>1. \A i \in 1..Len(slots) : slots[i] \in [byte: Bytes, start: Nat]
    BY <1>0, ElementOfSeq DEF TypeOK
  <2> QED BY <2>1
<1>3. S \in Nat  BY <1>2
<1>4. j \in Nat /\ j + 1 \in Nat /\ j <= DataBits + 1 /\ DataBits + 1 \in Nat  BY <1>1
<1>5. PICK bits : bits = j * Bit  OBVIOUS
<1>6. /\ bits \in Nat /\ (j + 1) * Bit = bits + Bit /\ bits + Bit <= Frame
      /\ j <= DataBits => bits + Bit + Bit <= Frame
  <2>1. bits \in Nat /\ (j + 1) * Bit = bits + Bit  BY <1>4, <1>5, EdgeStep
  <2>2. PICK stop : stop = (DataBits + 1) * Bit  OBVIOUS
  <2>3. stop \in Nat /\ Frame = stop + Bit  BY <2>2, StopBit
  <2>4. bits <= stop  BY <1>4, <1>5, <2>2, BitOrder
  <2>5. j <= DataBits => bits + Bit <= stop
    <3>1. j <= DataBits => (j + 1) * Bit <= (DataBits + 1) * Bit  BY <1>1, <1>4, BitOrder
    <3> QED BY <2>1, <2>2, <3>1
  <2> QED BY <1>1, <2>1, <2>3, <2>4, <2>5
<1>7. S + bits <= c /\ c < S + (bits + Bit)  BY <1>5, <1>6 DEF Covers
<1>8. S <= c /\ c < S + Frame  BY <1>1, <1>3, <1>6, <1>7
<1>9. CASE k < Sent
  <2>1. Sent \in 1..Len(slots)  BY <1>1, <1>9
  <2>2. S + Frame <= slots[Sent].start  BY <1>9, <2>1 DEF LineInv, FramesApart
  <2>3. slots[Sent].start + Frame <= now + Bit  BY <1>0, <1>1, <2>1 DEF LineInv, StopBitLasts, LineOwned
  <2>4. PICK last : last = slots[Sent].start  OBVIOUS
  <2>5. Bit <= Frame /\ last \in Nat  BY <1>1, <1>2, <1>6, <2>1, <2>4
  <2>6. last <= now  BY <1>1, <2>3, <2>4, <2>5
  <2> HIDE DEF S
  <2> QED BY <1>1, <1>3, <1>8, <2>2, <2>4, <2>5, <2>6
<1>10. CASE k = Sent
  <2>1. S + Frame = lineFree /\ lineFree <= now + Bit
    BY <1>0, <1>1, <1>10 DEF LineInv, StopBitLasts, LineOwned
  <2>2. j = DataBits + 1
    <3>1. ASSUME j <= DataBits PROVE FALSE  BY <1>1, <1>3, <1>6, <1>7, <2>1, <3>1
    <3> QED BY <1>1, <1>4, <3>1
  <2>3. ~Started
    <3>1. ASSUME Started PROVE FALSE
      <4>1. shifting /\ edgeIndex > 0  BY <3>1 DEF Started
      <4>2. lineFree <= frameStart  BY <1>0, <4>1 DEF LineOwned
      <4>3. EdgeCycle - Bit <= now  BY <1>0, <4>1 DEF EdgeOnTime
      <4>4. edgeIndex \in Nat /\ edgeIndex * Bit \in Nat /\ EdgeCycle = frameStart + edgeIndex * Bit
        BY <4>1, EdgeBeforeEnd
      <4>5. 1 * Bit <= edgeIndex * Bit /\ 1 * Bit = Bit  BY <1>1, <4>1, <4>4, BitOrder
      <4>6. frameStart <= now
        <5>1. PICK edge : edge = edgeIndex * Bit  OBVIOUS
        <5> QED BY <1>1, <4>3, <4>4, <4>5, <5>1
      <4>7. c < lineFree  BY <1>8, <2>1
      <4> HIDE DEF S
      <4> QED BY <1>1, <4>2, <4>6, <4>7
    <3> QED BY <3>1
  <2>4. line = TRUE  BY <1>0, <2>3 DEF LineIsSymbol
  <2>5. j # 0 /\ ~(j <= DataBits)  BY <1>1, <2>2
  <2> QED BY <2>4, <2>5 DEF Line!Symbol
<1>11. CASE k > Sent
  <2> DEFINE i == k - Sent
  <2>1. /\ i \in 1..Len(queue) /\ i \in Nat \ {0} /\ k = Sent + i
    BY <1>1, <1>11 DEF Sent
  <2>2. slots[k] = [byte |-> queue[i], start |-> PromisedStart(frameStart, i)]
    <3>1. slots[Sent + i] = [byte |-> queue[i], start |-> PromisedStart(frameStart, i)]
      BY <1>0, <2>1, Zenon DEF QueueIsPending
    <3> QED BY <2>1, <3>1
  <2>3. shifting  BY <1>0, <1>1, <2>1, EmptySeq DEF QueueIsPending
  <2>4. c < EdgeCycle  BY <1>1, <2>3, EdgeBeforeEnd DEF EdgeDueBy
  <2>5. /\ edgeIndex \in Nat /\ edgeIndex * Bit \in Nat /\ EdgeCycle = frameStart + edgeIndex * Bit
        /\ EdgeCycle + Bit <= frameStart + Frame
    BY <2>3, EdgeBeforeEnd
  <2>6. c < frameStart + Frame  BY <1>1, <2>4, <2>5
  <2>7. i = 1 /\ S = frameStart
    <3>1. ASSUME i > 1 PROVE S >= frameStart + Frame
      <4>1. i - 2 \in Nat /\ i - 1 = (i - 2) + 1  BY <2>1, <3>1
      <4>2. \A m, n \in Nat : m * n \in Nat /\ (m + 1) * n = m * n + n  OBVIOUS
      <4>3. PICK before : before = (i - 2) * Frame  OBVIOUS
      <4>4. before \in Nat /\ (i - 1) * Frame = before + Frame  BY <1>1, <4>1, <4>2, <4>3
      <4>5. S = frameStart + (before + Frame)  BY <2>2, <4>4 DEF PromisedStart
      <4> HIDE DEF S, i
      <4> QED BY <1>1, <4>4, <4>5
    <3>2. i = 1  BY <1>1, <1>3, <1>8, <2>1, <2>6, <3>1
    <3> QED BY <1>1, <2>2, <3>2, PromiseStep
  <2>8. j < edgeIndex
    <3>1. ASSUME edgeIndex <= j PROVE FALSE
      <4>1. PICK edge : edge = edgeIndex * Bit  OBVIOUS
      <4>2. edge <= bits /\ edge \in Nat  BY <1>4, <1>5, <2>5, <3>1, <4>1, BitOrder
      <4>3. c < frameStart + edge /\ frameStart + bits <= c  BY <1>7, <2>4, <2>5, <2>7, <4>1
      <4> QED BY <1>1, <1>6, <4>2, <4>3
    <3> QED BY <1>4, <2>5, <3>1
  <2>9. edgeIndex <= j + 1
    <3>1. ASSUME j + 1 < edgeIndex PROVE FALSE
      <4>1. j + 1 \in Nat /\ edgeIndex - 1 \in Nat /\ j + 1 <= edgeIndex - 1 /\ edgeIndex > 0
        BY <1>4, <2>5, <3>1
      <4>2. PICK edge : edge = (edgeIndex - 1) * Bit  OBVIOUS
      <4>3. bits + Bit <= edge  BY <1>6, <4>1, <4>2, BitOrder
      <4>4. edgeIndex * Bit = edge + Bit /\ edge \in Nat
        <5>1. edgeIndex = (edgeIndex - 1) + 1  BY <2>5
        <5> QED BY <4>1, <4>2, <5>1, EdgeStep
      <4>5. EdgeCycle - Bit <= now  BY <1>0, <2>3, <4>1 DEF EdgeOnTime
      <4>6. EdgeCycle = frameStart + (edge + Bit)  BY <2>5, <4>4
      <4>7. frameStart + edge <= now  BY <1>1, <4>4, <4>5, <4>6
      <4>8. c < frameStart + (bits + Bit)  BY <1>7, <2>7
      <4> QED BY <1>1, <1>6, <4>3, <4>4, <4>7, <4>8
    <3> QED BY <1>4, <2>5, <3>1
  <2>10. j = edgeIndex - 1 /\ edgeIndex > 0  BY <1>4, <2>5, <2>8, <2>9
  <2>11. Started /\ slots[k].byte = Head(queue)
    <3>1. queue # <<>>  BY <1>0, <2>3 DEF QueueIsPending
    <3>2. Head(queue) = queue[1]  BY <1>0, <3>1, HeadTailProperties DEF TypeOK
    <3> QED BY <2>2, <2>3, <2>7, <2>10, <3>2 DEF Started
  <2> QED BY <1>0, <2>10, <2>11 DEF LineIsSymbol
<1> QED BY <1>1, <1>9, <1>10, <1>11

\* Once its start edge is driven, the front byte's last bit driven is under way.
LEMMA StartedCovers ==
  ASSUME IInv, NEW c \in Nat, now <= c, ~EdgeDueBy(c), Started
  PROVE  /\ Sent + 1 \in 1..Len(slots) /\ edgeIndex - 1 \in 0..(DataBits + 1)
         /\ Covers(Sent + 1, edgeIndex - 1, c)
         /\ line = Line!Symbol(slots[Sent + 1].byte, edgeIndex - 1)
<1>0. TypeOK /\ QueueIsPending /\ EdgeOnTime /\ LineIsSymbol  BY DEF IInv, RxInv
<1>1. shifting /\ edgeIndex > 0  BY DEF Started
<1>2. queue # <<>> /\ queue \in Seq(Bytes)  BY <1>0, <1>1 DEF QueueIsPending, TypeOK
<1>3. Len(queue) \in Nat \ {0} /\ Len(slots) \in Nat /\ Len(queue) <= Len(slots)
  BY <1>0, <1>2, EmptySeq, LenProperties DEF QueueIsPending, TypeOK
<1>4. Sent + 1 \in 1..Len(slots)  BY <1>3 DEF Sent
<1>5. slots[Sent + 1] = [byte |-> Head(queue), start |-> frameStart]
  <2>1. slots[Sent + 1] = [byte |-> queue[1], start |-> PromisedStart(frameStart, 1)]
    BY <1>0, <1>3 DEF QueueIsPending
  <2>2. Head(queue) = queue[1]  BY <1>2, HeadTailProperties
  <2>3. PromisedStart(frameStart, 1) = frameStart  BY <1>0, PromiseStep DEF TypeOK
  <2> QED BY <2>1, <2>2, <2>3
<1>6. /\ edgeIndex \in Nat /\ frameStart \in Nat /\ now \in Nat /\ Bit \in Nat
      /\ edgeIndex <= DataBits + 1 /\ DataBits \in Nat
  BY <1>0, <1>1, FrameIsNat, RxAssumption DEF TypeOK, EdgeOnTime, StopEdge
<1>7. edgeIndex - 1 \in 0..(DataBits + 1)  BY <1>1, <1>6
<1>8. PICK edge : edge = (edgeIndex - 1) * Bit  OBVIOUS
<1>9. edge \in Nat /\ edgeIndex * Bit = edge + Bit
  <2>1. edgeIndex - 1 \in Nat /\ edgeIndex = (edgeIndex - 1) + 1  BY <1>1, <1>6
  <2> QED BY <1>8, <2>1, EdgeStep
<1>10. EdgeCycle = frameStart + (edge + Bit)  BY <1>9 DEF EdgeCycle
<1>11. EdgeCycle - Bit <= now /\ c < EdgeCycle
  <2>1. EdgeCycle \in Nat  BY <1>6, <1>9, <1>10
  <2> QED BY <1>0, <1>1, <2>1 DEF EdgeOnTime, EdgeDueBy
<1>12. frameStart + edge <= c /\ c < frameStart + (edge + Bit)
  BY <1>6, <1>9, <1>10, <1>11
<1>13. Covers(Sent + 1, edgeIndex - 1, c)
  <2>1. (edgeIndex - 1) + 1 = edgeIndex  BY <1>6
  <2> QED BY <1>5, <1>8, <1>9, <1>12, <2>1 DEF Covers
<1>14. line = Line!Symbol(slots[Sent + 1].byte, edgeIndex - 1)
  BY <1>0, <1>5 DEF LineIsSymbol
<1> QED BY <1>4, <1>7, <1>13, <1>14

\* Until the next edge, the pin has the level the accepted slots prescribe.
LEMMA LevelIsLine ==
  ASSUME IInv, LineInv, NEW c \in Nat, now <= c, ~EdgeDueBy(c)
  PROVE  Line!Level(c) = line
<1>1. line \in BOOLEAN /\ DOMAIN slots = 1..Len(slots)
  BY LenProperties DEF IInv, TypeOK
<1>2. Line!Level(c) <=> \A k \in 1..Len(slots) : \A j \in 0..(DataBits + 1) :
                          Covers(k, j, c) => Line!Symbol(slots[k].byte, j)
  BY <1>1 DEF Line!Level, Covers
<1>3. Line!Level(c) \in BOOLEAN  BY DEF Line!Level
<1>4. CASE line = TRUE
  <2>1. \A k \in 1..Len(slots) : \A j \in 0..(DataBits + 1) :
          Covers(k, j, c) => Line!Symbol(slots[k].byte, j) = TRUE
    BY <1>4, Covered
  <2> QED BY <1>2, <1>3, <1>4, <2>1
<1>5. CASE line = FALSE
  <2>1. Started  BY <1>5 DEF IInv, RxInv, LineIsSymbol
  <2>2. /\ Sent + 1 \in 1..Len(slots) /\ edgeIndex - 1 \in 0..(DataBits + 1)
        /\ Covers(Sent + 1, edgeIndex - 1, c)
        /\ Line!Symbol(slots[Sent + 1].byte, edgeIndex - 1) = FALSE
    BY <1>5, <2>1, StartedCovers
  <2>3. ~Line!Level(c)  BY <1>2, <2>2
  <2> QED BY <1>3, <1>5, <2>3
<1> QED BY <1>1, <1>4, <1>5

\* While time passes up to the next edge the design sees the prescribed levels.
LEMMA ElapseElapses ==
  ASSUME IInv, LineInv, Elapse
  PROVE  Line!Elapse
<1>1. PICK n \in 1..MaxCycle :
        ~EdgeDueBy(now + n - 1) /\ Hold(n) /\ UNCHANGED <<driver, line, slots, driven>>
  BY DEF Elapse
<1>2. n \in Nat /\ n > 0 /\ now \in Nat /\ TypeOK /\ Len(wave) = now
  BY RxAssumption DEF IInv, TypeOK, RxInv
<1>3. /\ wave' \in Seq(BOOLEAN) /\ Len(wave') = Len(wave) + n
      /\ \A i \in 1..Len(wave) : wave'[i] = wave[i]
      /\ \A i \in (Len(wave) + 1)..(Len(wave) + n) : wave'[i] = line
  BY <1>1, <1>2, HoldWave
<1>4. ASSUME NEW i \in 1..Len(wave')
      PROVE  wave'[i] = IF i <= Len(wave) THEN wave[i] ELSE Line!Level(i - 1)
  <2>1. CASE i <= Len(wave)  BY <1>2, <1>3, <2>1
  <2>2. CASE ~(i <= Len(wave))
    <3>1. i - 1 \in Nat /\ now <= i - 1 /\ i - 1 <= now + n - 1 /\ i \in (Len(wave) + 1)..(Len(wave) + n)
      BY <1>2, <1>3, <2>2
    <3>2. ~EdgeDueBy(i - 1)
      <4>1. shifting => EdgeCycle \in Nat  BY EdgeBeforeEnd
      <4> QED BY <1>1, <1>2, <3>1, <4>1 DEF EdgeDueBy
    <3>3. Line!Level(i - 1) = line  BY <3>1, <3>2, LevelIsLine
    <3> QED BY <1>3, <2>2, <3>1, <3>3
  <2> QED BY <2>1, <2>2
<1>5. wave' = [i \in 1..Len(wave') |-> IF i <= Len(wave) THEN wave[i] ELSE Line!Level(i - 1)]
  <2>1. wave' = [i \in 1..Len(wave') |-> wave'[i]]  BY <1>3, LenProperties
  <2> QED BY <1>4, <2>1
<1>6. Len(wave') > Len(wave) /\ UNCHANGED slots  BY <1>1, <1>2, <1>3
<1> QED BY <1>5, <1>6 DEF Line!Elapse

\* Every step of the driver is one of the line's, or changes nothing it shows.
LEMMA StepSimulates == IInv /\ LineInv /\ [Next]_vars => [Line!Next]_(Line!lineVars)
<1> SUFFICES ASSUME IInv, LineInv, [Next]_vars PROVE [Line!Next]_(Line!lineVars)
  OBVIOUS
<1>1. CASE SendByte
  <2>1. PICK b \in Bytes : Send(b)  BY <1>1 DEF SendByte
  <2>2. Line!Submit(b)  BY <2>1, SendSubmits
  <2> QED BY <2>2 DEF Line!Next
<1>2. CASE ConsumeEdge
  BY <1>2 DEF ConsumeEdge, AdvanceEdge, Line!lineVars
<1>3. CASE Elapse  BY <1>3, ElapseElapses DEF Line!Next
<1>4. CASE UNCHANGED vars  BY <1>4 DEF vars, Line!lineVars
<1> QED BY <1>1, <1>2, <1>3, <1>4 DEF Next

-----------------------------------------------------------------------------
(* The results. *)

\* Every reachable state satisfies the inductive invariant.
LEMMA InvariantHolds == Spec => []IInv
BY InitIInv, NextIInv, PTL DEF Spec

\* The driver's fields, the pin and the histories stay within their types: the
\* deque is never popped empty and the edge index never leaves the frame.
THEOREM TypeCorrect == Spec => []TypeOK
BY InvariantHolds, PTL DEF IInv

\* For every bit length, frame length and payload set, each start edge is
\* driven at the cycle send() returned for that byte, in call order.
THEOREM StampsAreExact == Spec => []StampExact
BY InvariantHolds, PTL DEF IInv, RxInv

\* No send, however timed, truncates the stop bit of the frame before it.
THEOREM FramesNeverOverlap == Spec => []FramesDisjoint
BY InvariantHolds, PTL DEF IInv, RxInv

\* The pin shows the design exactly the waveform of the promised slots, in every
\* cycle: the bit-edge state machine implements the serial line.
THEOREM DriverImplementsLine == Spec => ImplementsLine
<1>1. Init => Line!Init  BY DEF Init, RxInit, Line!Init
<1>2. Init => LineInv  BY InitLineInv
<1>3. IInv /\ LineInv /\ [Next]_vars => LineInv'  BY NextLineInv
<1>4. IInv /\ LineInv /\ [Next]_vars => [Line!Next]_(Line!lineVars)  BY StepSimulates
<1> QED BY InvariantHolds, <1>1, <1>2, <1>3, <1>4, PTL DEF Spec, ImplementsLine, Line!Spec
=============================================================================
