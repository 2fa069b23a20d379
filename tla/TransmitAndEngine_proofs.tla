------------------------ MODULE TransmitAndEngine_proofs ------------------------
(***************************************************************************)
(* Proofs about two components that look at the design from outside.       *)
(* UartTxLine: for every bit length, grid and divisor that satisfy         *)
(* TxLineAssumption, and for every phase, gap and glitch, the grid sampler *)
(* loses no frame and invents none.                                        *)
(* VerilatorEngine: its storage, dirt, evaluations and tables of names are *)
(* never seen; it keeps the contract of SimEngine.h.                       *)
(***************************************************************************)
EXTENDS UartTxLine, VerilatorEngine, SequenceTheorems, TLAPS

-----------------------------------------------------------------------------
(* Arithmetic of bits. *)

\* The bound that Uart.h:18 names, four chunks per bit, is enough for a design
\* that divides like the decoder.
THEOREM FourChunksPerBit ==
  ASSUME Bit \in Nat, DataBits \in Nat, Chunk \in Nat \ {0}, 4 * Chunk <= Bit
  PROVE  Sampled(Bit) /\ Half > 0 /\ Half + Chunk <= Bit
<1>1. Half \in Nat /\ 2 * Half <= Bit /\ Bit <= 2 * Half + 1
  BY DEF Half
<1>2. (DataBits + 2) * Bit = (DataBits + 1) * Bit + Bit /\ (DataBits + 1) * Bit \in Nat
  OBVIOUS
<1> QED BY <1>1, <1>2 DEF Sampled

LEMMA Sizes ==
  /\ Bit \in Nat /\ DataBits \in Nat /\ DataBits > 0 /\ Chunk \in Nat /\ Chunk > 0
  /\ Half \in Nat /\ Half > 0 /\ 2 * Half <= Bit /\ Bit <= 2 * Half + 1 /\ Half + Chunk <= Bit
BY TxLineAssumption DEF Half

\* The centre of bit j of a frame (0 is the start bit), looked at up to two chunks
\* late, lies in bit j of the design.
LEMMA InBit ==
  ASSUME NEW t \in TxBits, NEW j \in 0..DataBits + 1
  PROVE  /\ t \in Nat /\ t > 0 /\ j * t \in Nat /\ j * Bit \in Nat
         /\ (j + 1) * t = j * t + t /\ (j + 1) * Bit = j * Bit + Bit
         /\ j * t <= j * Bit + Half
         /\ j * Bit + Half + 2 * (Chunk - 1) < (j + 1) * t
<1>1. t \in Nat /\ Sampled(t)
  BY TxLineAssumption
<1>2. t > 0
  BY <1>1, Sizes DEF Sampled
<1> DEFINE last == DataBits + 1
<1>3. last \in Nat /\ j \in Nat /\ j <= last /\ (last + 1) * t = last * t + t
  BY <1>1, Sizes
<1>4. j * t \in Nat /\ j * Bit \in Nat /\ (j + 1) * t = j * t + t /\ (j + 1) * Bit = j * Bit + Bit
  BY <1>1, <1>3, Sizes
<1>5. /\ last * Bit + Half + 2 * (Chunk - 1) < last * t + t
      /\ last * t <= last * Bit + Half /\ Half + 2 * (Chunk - 1) < t
  BY <1>1, <1>3, Sizes DEF Sampled
<1>6. CASE t <= Bit
  <2>1. j * (Bit - t) <= last * (Bit - t) /\ j * (Bit - t) >= 0
    BY <1>1, <1>3, <1>6, Sizes
  <2>2. j * (Bit - t) = j * Bit - j * t /\ last * (Bit - t) = last * Bit - last * t
    BY <1>1, <1>3, Sizes
  <2>3. last * Bit \in Nat /\ last * t \in Nat
    BY <1>1, <1>3, Sizes
  <2> HIDE DEF last
  <2> QED BY <1>1, <1>2, <1>4, <1>5, <2>1, <2>2, <2>3, Sizes
<1>7. CASE t > Bit
  <2>1. j * (t - Bit) <= last * (t - Bit) /\ j * (t - Bit) >= 0
    BY <1>1, <1>3, <1>7, Sizes
  <2>2. j * (t - Bit) = j * t - j * Bit /\ last * (t - Bit) = last * t - last * Bit
    BY <1>1, <1>3, Sizes
  <2>3. last * Bit \in Nat /\ last * t \in Nat
    BY <1>1, <1>3, Sizes
  <2> HIDE DEF last
  <2> QED BY <1>1, <1>2, <1>4, <1>5, <2>1, <2>2, <2>3, Sizes
<1> QED BY <1>1, <1>6, <1>7, Sizes

\* A quotient is known from the two multiples it lies between.
LEMMA DivIs ==
  ASSUME NEW t \in Nat, t > 0, NEW j \in Nat, NEW n \in Nat, j * t <= n, n < (j + 1) * t
  PROVE  n \div t = j
<1> DEFINE q == n \div t
<1>1. n = t * q + (n % t) /\ 0 <= n % t /\ n % t < t /\ q \in Int
  OBVIOUS
<1>2. q \in Int /\ q * t <= n /\ n < (q + 1) * t
  BY <1>1
<1> HIDE DEF q
<1>3. ASSUME NEW k \in Int, NEW l \in Int, k * t <= n, n < (k + 1) * t, l * t <= n,
             n < (l + 1) * t, k < l
      PROVE  FALSE
  <2>1. (k + 1) * t <= l * t
    BY <1>3
  <2> QED BY <1>3, <2>1
<1>4. ~(q < j) /\ ~(j < q)
  BY <1>2, <1>3
<1> QED BY <1>2, <1>4 DEF q

\* A candidate that began in time is confirmed in the start bit.
LEMMA StartBitTime ==
  ASSUME NEW t \in TxBits, NEW s \in Nat, NEW start \in Nat, NEW last \in Nat,
         NEW c, c = last + Chunk, start - s \in 0..Chunk - 1, last < start + Half
  PROVE  c - s < t /\ c < start + Bit + Half
<1>1. t \in Nat /\ Half + 2 * (Chunk - 1) < t
  BY TxLineAssumption DEF Sampled
<1> QED BY <1>1, Sizes

\* Bit j of the frame is looked at while it lasts, and before the next one is due.
LEMMA BitTime ==
  ASSUME NEW t \in TxBits, NEW s \in Nat, NEW start \in Nat, NEW last \in Nat,
         NEW j \in 1..DataBits + 1, NEW centre, centre = start + Half + j * Bit,
         NEW c, c = last + Chunk, start - s \in 0..Chunk - 1, last < centre, ~(c < centre)
  PROVE  j * t <= c - s /\ c - s < (j + 1) * t /\ c < centre + Bit
<1>1. /\ t \in Nat /\ j * t \in Nat /\ j * Bit \in Nat
      /\ j * t <= j * Bit + Half /\ j * Bit + Half + 2 * (Chunk - 1) < (j + 1) * t
      /\ (j + 1) * t \in Nat
  <2>1. j \in 0..DataBits + 1
    BY Sizes
  <2>2. (j + 1) * t = j * t + t
    BY <2>1, InBit
  <2> QED BY <2>1, <2>2, InBit
<1> QED BY <1>1, Sizes

\* The stop bit is looked at before the frame ends, and half a bit later it is over.
LEMMA StopBitTime ==
  ASSUME NEW s \in Nat, NEW start \in Nat, NEW last \in Nat, txBit \in TxBits,
         NEW centre, centre = start + Half + (DataBits + 1) * Bit,
         NEW c, c = last + Chunk, start - s \in 0..Chunk - 1, last < centre, ~(c < centre)
  PROVE  /\ (DataBits + 1) * txBit <= c - s /\ c < FrameEnd(s)
         /\ FrameEnd(s) <= c + Chunk + Half
<1>1. /\ txBit \in Nat /\ (DataBits + 1) * Bit \in Nat /\ (DataBits + 2) * txBit \in Nat
      /\ (DataBits + 2) * Bit = (DataBits + 1) * Bit + Bit
  BY Sizes, TxLineAssumption
<1>2. (DataBits + 2) * txBit < (DataBits + 2) * Bit + Chunk
  BY TxLineAssumption DEF Sampled
<1>3. (DataBits + 1) * txBit <= c - s /\ c - s < (DataBits + 2) * txBit
  <2>1. DataBits + 1 \in 1..DataBits + 1 /\ DataBits + 1 + 1 = DataBits + 2
    BY Sizes
  <2> QED BY <2>1, BitTime
<1> QED BY <1>1, <1>2, <1>3, Sizes DEF FrameEnd

-----------------------------------------------------------------------------
(* What the decoder sees. *)

LEMMA LevelIs ==
  ASSUME NEW s, NEW b, NEW stop, NEW c, NEW k, k = (c - s) \div txBit
  PROVE  /\ k = 0 => ~LevelOf(FrameAt(s, b, stop), c)
         /\ (k # 0 /\ k <= DataBits) => (LevelOf(FrameAt(s, b, stop), c) <=> b[k])
         /\ (k # 0 /\ ~(k <= DataBits)) =>
              (LevelOf(FrameAt(s, b, stop), c) <=> (k > DataBits + 1 \/ stop))
BY DEF LevelOf, FrameAt

LEMMA LevelIsBoolean ==
  ASSUME NEW s, NEW b \in Bytes, NEW stop \in BOOLEAN, NEW c, c - s \in Nat, txBit \in Nat, txBit > 0
  PROVE  LevelOf(FrameAt(s, b, stop), c) \in BOOLEAN
<1> DEFINE k == (c - s) \div txBit
<1>1. k \in Nat
  OBVIOUS
<1>2. LevelOf(FrameAt(s, b, stop), c) = IF k = 0 THEN FALSE
                                        ELSE IF k <= DataBits THEN b[k] ELSE k > DataBits + 1 \/ stop
  BY DEF LevelOf, FrameAt
<1>3. b \in [1..DataBits -> BOOLEAN]
  BY TxLineAssumption
<1>4. (k # 0 /\ k <= DataBits) => k \in 1..DataBits
  BY <1>1, Sizes
<1> HIDE DEF k
<1>5. (k # 0 /\ k <= DataBits) => b[k] \in BOOLEAN
  BY <1>3, <1>4
<1> QED BY <1>2, <1>5

LEMMA DivisorIsNat == txBit \in TxBits => txBit \in Nat /\ txBit > 0 /\ DataBits \in Nat
BY Sizes, InBit, 0 \in 0..DataBits + 1

\* The start bit is low.
LEMMA LowInStart ==
  ASSUME NEW s \in Nat, NEW b \in Bytes, NEW stop \in BOOLEAN, NEW c \in Nat, s <= c,
         txBit \in TxBits, c - s < txBit
  PROVE  ~LevelOf(FrameAt(s, b, stop), c)
<1>1. 0 * txBit = 0 /\ (0 + 1) * txBit = txBit /\ txBit \in Nat /\ txBit > 0
  BY DivisorIsNat
<1>2. (c - s) \div txBit = 0
  <2>1. c - s \in Nat /\ 0 * txBit <= c - s /\ c - s < (0 + 1) * txBit
    BY <1>1
  <2> QED BY <1>1, <2>1, DivIs
<1> QED BY <1>2, LevelIs

\* The data bits follow, each for as long.
LEMMA DataLevel ==
  ASSUME NEW s \in Nat, NEW b \in Bytes, NEW stop \in BOOLEAN, NEW c \in Nat, s <= c,
         txBit \in TxBits, NEW j \in 1..DataBits, j * txBit <= c - s, c - s < (j + 1) * txBit
  PROVE  LevelOf(FrameAt(s, b, stop), c) <=> b[j]
<1>1. txBit \in Nat /\ txBit > 0 /\ DataBits \in Nat /\ j \in Nat /\ c - s \in Nat
  BY DivisorIsNat
<1>2. (c - s) \div txBit = j
  BY <1>1, DivIs
<1>3. j # 0 /\ j <= DataBits
  BY <1>1
<1> QED BY <1>2, <1>3, LevelIs

\* Then comes the stop bit.
LEMMA StopLevel ==
  ASSUME NEW s \in Nat, NEW b \in Bytes, NEW stop \in BOOLEAN, NEW c \in Nat, s <= c,
         txBit \in TxBits, (DataBits + 1) * txBit <= c - s, c < FrameEnd(s)
  PROVE  LevelOf(FrameAt(s, b, stop), c) <=> stop
<1> DEFINE j == DataBits + 1
<1>1. txBit \in Nat /\ txBit > 0 /\ DataBits \in Nat /\ j \in Nat /\ c - s \in Nat
  BY DivisorIsNat
<1>2. c - s < (j + 1) * txBit
  BY <1>1 DEF FrameEnd
<1>3. j # 0 /\ ~(j <= DataBits) /\ ~(j > DataBits + 1)
  BY <1>1
<1> HIDE DEF j
<1>4. (c - s) \div txBit = j
  <2>1. j * txBit <= c - s
    BY DEF j
  <2> QED BY <1>1, <1>2, <2>1, DivIs
<1> QED BY <1>3, <1>4, LevelIs

\* After the frame the line is high; a high stop bit is so already.
LEMMA HighAfter ==
  ASSUME NEW s \in Nat, NEW b \in Bytes, NEW stop \in BOOLEAN, NEW c \in Nat, s <= c,
         txBit \in TxBits, (DataBits + 1) * txBit <= c - s, stop \/ FrameEnd(s) <= c
  PROVE  LevelOf(FrameAt(s, b, stop), c)
<1> DEFINE k == (c - s) \div txBit
<1>1. txBit \in Nat /\ txBit > 0 /\ DataBits \in Nat /\ c - s \in Nat
  BY DivisorIsNat
<1>2. c - s = txBit * k + ((c - s) % txBit) /\ (c - s) % txBit < txBit /\ k \in Int
  BY <1>1
<1> HIDE DEF k
<1>3. CASE FrameEnd(s) <= c
  <2>1. (DataBits + 2) * txBit <= c - s
    BY <1>1, <1>3 DEF FrameEnd
  <2>2. ASSUME k <= DataBits + 1 PROVE FALSE
    <3>1. k * txBit <= (DataBits + 1) * txBit /\ k * txBit = txBit * k /\ k * txBit \in Int
      BY <1>1, <1>2, <2>2
    <3>2. (DataBits + 2) * txBit = (DataBits + 1) * txBit + txBit /\ (DataBits + 1) * txBit \in Int
      BY <1>1
    <3> QED BY <1>1, <1>2, <2>1, <3>1, <3>2
  <2>3. k # 0 /\ ~(k <= DataBits) /\ k > DataBits + 1
    BY <1>1, <1>2, <2>2
  <2> QED BY <2>3, LevelIs DEF k
<1>4. CASE c < FrameEnd(s)
  <2>1. LevelOf(FrameAt(s, b, stop), c) <=> stop
    BY <1>4, StopLevel
  <2>2. FrameEnd(s) \in Int
    BY <1>1 DEF FrameEnd
  <2> QED BY <1>4, <2>1, <2>2
<1>5. FrameEnd(s) \in Int
  BY <1>1 DEF FrameEnd
<1> QED BY <1>3, <1>4, <1>5

\* Noise is low while it lasts.
LEMMA GlitchLevel ==
  ASSUME NEW s \in Nat, NEW g \in GlitchLengths, NEW c, NEW p, p = GlitchAt(s, g)
  PROVE  LevelOf(p, c) = (c - s >= g)
BY DEF LevelOf, GlitchAt

\* A decoder's state.
States == [receiving: BOOLEAN, validated: BOOLEAN, start: Nat, index: 0..DataBits,
           shift: [1..DataBits -> BOOLEAN]]

\* When a decoder looks next.
Look(t) == IF t.validated THEN Tx!BitCentre(t) ELSE Tx!MidStart(t)

\* A decoder that is in the middle of the frame of byte b that began at s, and
\* looked last before c.
Follows(t, s, b, c) ==
  /\ t.receiving /\ c < Look(t) /\ t.start - s \in 0..Chunk - 1
  /\ ~t.validated => t.index = 0
  /\ \A i \in 1..t.index : t.shift[i] = b[i]

LEMMA LookType == ASSUME NEW t \in States PROVE Tx!MidStart(t) \in Nat /\ Tx!BitCentre(t) \in Nat
<1>1. t.index * Bit \in Nat
  BY Sizes DEF States
<1> QED BY <1>1, Sizes DEF Tx!MidStart, Tx!BitCentre, States, Half

\* The decoder has taken a sample r at c: it stays with the frame, or it has seen
\* the stop bit while that lasts.
FrameGoesOn(t, s, b, stop, c, r) ==
  /\ r.state \in States
  /\ \/ r.what = "none" /\ Follows(r.state, s, b, c)
     \/ /\ r.what = IF stop THEN "byte" ELSE "framing"
        /\ r.state.shift = b /\ ~r.state.receiving
        /\ (DataBits + 1) * txBit <= c - s /\ c < FrameEnd(s)
        /\ FrameEnd(s) <= c + Chunk + Half

LEMMA SameBits ==
  \A f, g \in [1..DataBits -> BOOLEAN] : (\A i \in 1..DataBits : f[i] = g[i]) => f = g
<1>1. ASSUME NEW S, NEW T, NEW f \in [S -> T], NEW g \in [S -> T], \A i \in S : f[i] = g[i]
      PROVE  f = g
  BY <1>1
<1> QED BY <1>1, Zenon

\* One sample in the middle of a frame.
LEMMA FrameSample ==
  ASSUME NEW t \in States, NEW s \in Nat, NEW b \in Bytes, NEW stop \in BOOLEAN,
         NEW last \in Nat, NEW c, NEW p, NEW r
  PROVE  (/\ txBit \in TxBits /\ Follows(t, s, b, last)
          /\ c = last + Chunk /\ s <= c
          /\ p = FrameAt(s, b, stop) /\ r = Tx!TxSample(t, c, LevelOf(p, c)))
         => FrameGoesOn(t, s, b, stop, c, r)
<1>0. SUFFICES ASSUME txBit \in TxBits, Follows(t, s, b, last), c = last + Chunk, s <= c,
                      p = FrameAt(s, b, stop), r = Tx!TxSample(t, c, LevelOf(p, c))
               PROVE  FrameGoesOn(t, s, b, stop, c, r)
  OBVIOUS
<1> DEFINE level == LevelOf(p, c)
<1>1. c \in Nat /\ s <= c /\ txBit \in TxBits /\ c = last + Chunk
  BY <1>0, Sizes
<1>p. p = FrameAt(s, b, stop) /\ c \in Nat /\ s <= c /\ txBit \in TxBits
  BY <1>0, <1>1
<1>2. t.start \in Nat /\ t.index \in 0..DataBits
  BY DEF States
<1>3. t.start - s \in 0..Chunk - 1 /\ last < Look(t) /\ t.receiving = TRUE
  BY <1>0 DEF Follows, States
<1>4. b \in [1..DataBits -> BOOLEAN] /\ t.shift \in [1..DataBits -> BOOLEAN]
  BY TxLineAssumption DEF States
<1>5. CASE c < Look(t)
  <2>1. r = Tx!TxResult(t, "none")
    BY <1>0, <1>3, <1>5 DEF Look, Tx!TxSample, Tx!TxTakeBit
  <2> QED BY <1>0, <1>5, <2>1 DEF Tx!TxResult, Follows, FrameGoesOn
<1>6. CASE ~(c < Look(t)) /\ ~t.validated
  <2> DEFINE u == [t EXCEPT !.validated = TRUE]
  <2>1. last < t.start + Half /\ t.index = 0
    BY <1>0, <1>3, <1>6 DEF Look, Follows, Tx!MidStart, Half
  <2>2. c - s < txBit /\ c < t.start + Bit + Half
    BY <1>1, <1>2, <1>3, <2>1, StartBitTime
  <2>3. ~level
    BY <1>p, <2>2, LowInStart
  <2>4. /\ u \in States /\ u.index = 0 /\ u.start = t.start /\ u.validated = TRUE
        /\ u.receiving = TRUE /\ u.shift = t.shift
    BY <1>3, <2>1 DEF States
  <2>5. c < Tx!BitCentre(u)
    <3>1. Tx!BitCentre(u) = t.start + Bit + Half + 0 * Bit
      BY <2>4 DEF Tx!BitCentre, Half
    <3>2. 0 * Bit = 0 /\ t.start + Bit + Half \in Nat
      BY <1>2, Sizes
    <3> QED BY <2>2, <3>1, <3>2
  <2>6. r = Tx!TxResult(u, "none")
    <3>1. r = Tx!TxTakeBit(u, c, level)
      BY <1>0, <1>3, <1>6, <2>3 DEF Look, Tx!TxSample
    <3> QED BY <2>5, <3>1 DEF Tx!TxTakeBit
  <2>7. Follows(u, s, b, c)
    <3>1. \A i \in 1..u.index : u.shift[i] = b[i]
      BY <2>4
    <3> HIDE DEF u
    <3> QED BY <1>3, <2>4, <2>5, <3>1 DEF Follows, Look
  <2> HIDE DEF u
  <2> QED BY <2>4, <2>6, <2>7 DEF Tx!TxResult, FrameGoesOn
<1>7. CASE ~(c < Look(t)) /\ t.validated
  <2> DEFINE j == t.index + 1
             centre == Tx!BitCentre(t)
  <2>1. r = Tx!TxTakeBit(t, c, level) /\ last < centre /\ ~(c < centre)
    BY <1>0, <1>3, <1>7 DEF Look, Tx!TxSample
  <2>2. j \in 1..DataBits + 1 /\ centre = t.start + Half + j * Bit /\ centre \in Nat
    <3>1. centre = t.start + Bit + Half + t.index * Bit
      BY DEF Tx!BitCentre, Half
    <3>2. j * Bit = t.index * Bit + Bit /\ t.index * Bit \in Nat
      BY <1>2, Sizes
    <3> HIDE DEF centre
    <3> QED BY <1>2, <3>1, <3>2, Sizes
  <2>3. j * txBit <= c - s /\ c - s < (j + 1) * txBit /\ c < centre + Bit
    <3> HIDE DEF j, centre
    <3> QED BY <1>1, <1>2, <1>3, <2>1, <2>2, BitTime
  <2>4. CASE t.index < DataBits
    <3> DEFINE u == [t EXCEPT !.shift[t.index + 1] = level, !.index = @ + 1]
    <3>1. j \in 1..DataBits /\ j \in 0..DataBits
      BY <1>2, <2>4, Sizes
    <3>2. level <=> b[j]
      <4> HIDE DEF j, level
      <4> QED BY <1>p, <2>3, <3>1, DataLevel DEF level
    <3>3. level \in BOOLEAN
      BY <1>p, <1>1, LevelIsBoolean, DivisorIsNat
    <3>4. r = Tx!TxResult(u, "none")
      BY <1>7, <2>1, <2>4 DEF Tx!TxTakeBit, Look
    <3>5. /\ u \in States /\ u.index = j /\ u.start = t.start /\ u.validated = t.validated
          /\ u.receiving = t.receiving /\ u.shift = [t.shift EXCEPT ![j] = level]
      <4> HIDE DEF level
      <4> QED BY <3>1, <3>3 DEF States
    <3>6. c < Tx!BitCentre(u)
      <4>1. Tx!BitCentre(u) = t.start + Bit + Half + j * Bit
        BY <3>5 DEF Tx!BitCentre, Half
      <4>2. j * Bit \in Nat
        BY <3>1, Sizes
      <4>3. Tx!BitCentre(u) = centre + Bit
        <5> HIDE DEF j, u, centre
        <5> QED BY <1>2, <2>2, <4>1, <4>2, Sizes
      <4> HIDE DEF u, centre
      <4> QED BY <2>3, <4>3
    <3>7. ASSUME NEW i \in 1..j PROVE u.shift[i] = b[i]
      <4> HIDE DEF level, u
      <4>1. CASE i = j
        BY <1>4, <3>1, <3>2, <3>5, <4>1
      <4>2. CASE i # j
        <5>1. i \in 1..t.index /\ i \in 1..DataBits
          BY <1>2, <3>1, <4>2, Sizes
        <5>2. t.shift[i] = b[i]
          BY <1>0, <5>1, Zenon DEF Follows
        <5>3. u.shift[i] = t.shift[i]
          BY <1>4, <3>5, <4>2, <5>1
        <5> QED BY <5>2, <5>3
      <4> QED BY <4>1, <4>2
    <3>8. Follows(u, s, b, c)
      <4>1. \A i \in 1..u.index : u.shift[i] = b[i]
        BY <3>5, <3>7, Zenon
      <4> HIDE DEF u
      <4> QED BY <1>3, <1>7, <3>5, <3>6, <4>1 DEF Follows, Look
    <3> HIDE DEF u
    <3> QED BY <3>4, <3>5, <3>8 DEF Tx!TxResult, FrameGoesOn
  <2>5. CASE ~(t.index < DataBits)
    <3> DEFINE u == [t EXCEPT !.receiving = FALSE]
    <3>1. t.index = DataBits /\ j = DataBits + 1
      BY <1>2, <2>5, Sizes
    <3>2. /\ (DataBits + 1) * txBit <= c - s /\ c < FrameEnd(s)
          /\ FrameEnd(s) <= c + Chunk + Half
      <4>1. centre = t.start + Half + (DataBits + 1) * Bit
        BY <2>2, <3>1
      <4> HIDE DEF j, centre
      <4> QED BY <1>1, <1>2, <1>3, <2>1, <4>1, StopBitTime
    <3>3. level <=> stop
      BY <1>p, <3>2, StopLevel
    <3>4. r = Tx!TxResult(u, IF stop THEN "byte" ELSE "framing")
      BY <1>7, <2>1, <2>5, <3>3 DEF Tx!TxTakeBit, Look
    <3>5. u \in States /\ u.shift = t.shift /\ u.receiving = FALSE
      BY DEF States
    <3>6. t.shift = b
      <4>1. \A i \in 1..DataBits : t.shift[i] = b[i]
        BY <1>0, <3>1, Zenon DEF Follows
      <4> QED BY <1>4, <4>1, SameBits, Zenon
    <3> HIDE DEF u
    <3> QED BY <3>2, <3>4, <3>5, <3>6 DEF Tx!TxResult, FrameGoesOn
  <2> QED BY <2>4, <2>5
<1> QED BY <1>5, <1>6, <1>7

-----------------------------------------------------------------------------
(* The pulses. *)

LEMMA PulseIs ==
  ASSUME LineTyped
  PROVE  /\ pulse.kind \in {"quiet", "frame", "glitch"}
         /\ pulse.kind = "frame" =>
              \E s \in Nat, b \in Bytes, stop \in BOOLEAN : pulse = FrameAt(s, b, stop)
         /\ pulse.kind = "glitch" =>
              \E s \in Nat, g \in GlitchLengths : pulse = GlitchAt(s, g)
BY DEF LineTyped, Quiet, FrameAt, GlitchAt

LEMMA FrameFields ==
  ASSUME NEW s, NEW b, NEW stop
  PROVE  /\ FrameAt(s, b, stop).kind = "frame" /\ FrameAt(s, b, stop).start = s
         /\ FrameAt(s, b, stop).byte = b /\ FrameAt(s, b, stop).stop = stop
         /\ FrameAt(s, b, stop).free = FrameEnd(s) + IF stop THEN 0 ELSE Bit
BY DEF FrameAt

LEMMA GlitchFields ==
  ASSUME NEW s \in Nat, NEW g
  PROVE  /\ GlitchAt(s, g).kind = "glitch" /\ GlitchAt(s, g).start = s
         /\ GlitchAt(s, g).length = g /\ GlitchAt(s, g).free = s + Half + 2 * Chunk
BY Sizes DEF GlitchAt, Settle

\* A crossing shows the line to the decoder once.
LEMMA CrossIs ==
  ASSUME LineTyped, NEW p, Cross(p)
  PROVE  LET r == Tx!TxSample(uartTx, now + Chunk, LevelOf(p, now + Chunk))
         IN  /\ now' = now + Chunk /\ now' \in Nat /\ pulse' = p /\ uartTx' = r.state
             /\ txBit' = txBit
             /\ reported' = IF r.what = "none" THEN reported
                            ELSE Append(reported, [what |-> r.what, byte |-> r.state.shift,
                                                   at |-> now'])
BY Sizes DEF Cross, LineTyped

LEMMA CrossTo ==
  ASSUME LineTyped, NEW p, Cross(p), NEW t, NEW w,
         Tx!TxSample(uartTx, now + Chunk, LevelOf(p, now + Chunk)) = Tx!TxResult(t, w)
  PROVE  /\ uartTx' = t
         /\ w = "none" => reported' = reported
         /\ w # "none" => reported' = Append(reported, [what |-> w, byte |-> t.shift, at |-> now'])
<1> DEFINE r == Tx!TxSample(uartTx, now + Chunk, LevelOf(p, now + Chunk))
<1>1. r.state = t /\ r.what = w
  BY DEF Tx!TxResult
<1>2. /\ uartTx' = r.state
      /\ reported' = IF r.what = "none" THEN reported
                     ELSE Append(reported, [what |-> r.what, byte |-> r.state.shift, at |-> now'])
  BY CrossIs
<1> HIDE DEF r
<1> QED BY <1>1, <1>2

\* A decoder that waits does not look; one that is idle begins at a low level.
LEMMA Waits ==
  ASSUME NEW t \in States, NEW c, NEW level, t.receiving, c < Look(t)
  PROVE  Tx!TxSample(t, c, level) = Tx!TxResult(t, "none")
BY DEF Tx!TxSample, Tx!TxTakeBit, Look

LEMMA Listens ==
  ASSUME NEW t \in States, NEW c \in Nat, NEW level, ~t.receiving
  PROVE  /\ level => Tx!TxSample(t, c, level) = Tx!TxResult(t, "none")
         /\ ~level => Tx!TxSample(t, c, level) = Tx!TxResult(Tx!TxCandidate(c), "none")
BY DEF Tx!TxSample

LEMMA Drops ==
  ASSUME NEW t \in States, NEW c, NEW level, t.receiving, ~t.validated, ~(c < Look(t)), level
  PROVE  Tx!TxSample(t, c, level) = Tx!TxResult([t EXCEPT !.receiving = FALSE], "none")
BY DEF Tx!TxSample, Look

LEMMA CandidateIs ==
  ASSUME NEW c \in Nat
  PROVE  LET t == Tx!TxCandidate(c)
         IN  /\ t \in States /\ t.receiving /\ ~t.validated /\ t.index = 0 /\ t.start = c
             /\ Tx!MidStart(t) = c + Half /\ c < Tx!MidStart(t)
<1> DEFINE none == [i \in 1..DataBits |-> FALSE]
<1>1. none \in [1..DataBits -> BOOLEAN] /\ 0 \in 0..DataBits
  BY Sizes
<1>2. Tx!TxIdle = [receiving |-> FALSE, validated |-> FALSE, start |-> 0, index |-> 0,
                   shift |-> none]
  BY DEF Tx!TxIdle
<1> HIDE DEF none
<1>3. Tx!TxIdle \in States /\ ~Tx!TxIdle.validated /\ Tx!TxIdle.index = 0
  BY <1>1, <1>2 DEF States
<1> DEFINE u == [Tx!TxIdle EXCEPT !.receiving = TRUE]
<1>4. u \in States /\ u.receiving /\ ~u.validated /\ u.index = 0
  BY <1>3 DEF States
<1>5. Tx!TxCandidate(c) = [u EXCEPT !.start = c]
  BY DEF Tx!TxCandidate
<1> HIDE DEF u
<1>6. /\ Tx!TxCandidate(c) \in States /\ Tx!TxCandidate(c).receiving
      /\ ~Tx!TxCandidate(c).validated /\ Tx!TxCandidate(c).index = 0
      /\ Tx!TxCandidate(c).start = c
  BY <1>4, <1>5 DEF States
<1> QED BY <1>6, Sizes DEF Tx!MidStart, Half

-----------------------------------------------------------------------------
(* When the next pulse may begin. *)

\* A frame that is being received lasts beyond the next crossing.
LEMMA EndsLater ==
  ASSUME LineTyped, Receiving, NEW f \in Nat, pulse.start = f
  PROVE  now + Chunk < FrameEnd(f)
<1>1. now \in Nat /\ uartTx \in States /\ txBit \in TxBits
  BY DEF LineTyped, States
<1>2. /\ uartTx.start - f \in 0..Chunk - 1 /\ now < Look(uartTx)
      /\ uartTx.start \in Nat /\ uartTx.index \in 0..DataBits
  BY <1>1 DEF Receiving, SeenInTime, Waiting, Look, States
<1>3. Look(uartTx) <= uartTx.start + Half + (DataBits + 1) * Bit
  <2>1. /\ uartTx.index * Bit <= DataBits * Bit /\ uartTx.index * Bit \in Nat
        /\ DataBits * Bit \in Nat /\ (DataBits + 1) * Bit = DataBits * Bit + Bit
    BY <1>2, Sizes
  <2> QED BY <1>2, <2>1, Sizes DEF Look, Tx!MidStart, Tx!BitCentre, Half
<1>4. (DataBits + 1) * Bit + Half + 2 * (Chunk - 1) < (DataBits + 2) * txBit
  BY <1>1, TxLineAssumption DEF Sampled
<1>5. /\ (DataBits + 1) * Bit \in Nat /\ Look(uartTx) \in Nat /\ (DataBits + 2) * txBit \in Nat
      /\ FrameEnd(f) = f + (DataBits + 2) * txBit
  BY <1>1, Sizes, LookType, DivisorIsNat DEF Look, FrameEnd
<1> QED BY <1>1, <1>2, <1>3, <1>4, <1>5, Sizes

\* The decoder has done with a pulse before the next may be on the wire.
LEMMA DoneBeforeNext ==
  ASSUME TxLineInv, NEW s \in Starts(now)
  PROVE  /\ s \in Nat /\ now < s /\ s <= now + Chunk
         /\ ~uartTx.receiving /\ Len(expected) = Len(reported)
<1>1. now \in Nat /\ uartTx \in States /\ txBit \in TxBits
  BY DEF TxLineInv, LineTyped, States
<1>2. s \in Nat /\ now < s /\ s <= now + Chunk
  BY <1>1, Sizes DEF Starts
<1>3. PICK g \in Gaps : s = pulse.free + g
  BY DEF Starts
<1>4. g \in Nat
  BY TxLineAssumption
<1>5. CASE pulse.kind = "quiet"
  BY <1>2, <1>5 DEF TxLineInv
<1>6. CASE pulse.kind = "frame"
  <2>1. PICK f \in Nat, b \in Bytes, stop \in BOOLEAN : pulse = FrameAt(f, b, stop)
    BY <1>6, PulseIs DEF TxLineInv
  <2>2. /\ pulse.start = f /\ pulse.free = FrameEnd(f) + IF stop THEN 0 ELSE Bit
        /\ pulse.stop = stop
    BY <2>1, FrameFields
  <2>3. FrameEnd(f) \in Nat /\ FrameEnd(f) = f + (DataBits + 2) * txBit
    BY <1>1, Sizes, DivisorIsNat DEF FrameEnd
  <2>4. pulse.free \in Nat /\ FrameEnd(f) <= pulse.free /\ pulse.free <= now + Chunk
    BY <1>1, <1>2, <1>3, <1>4, <2>2, <2>3, Sizes
  <2>5. ~Receiving
    BY <1>1, <1>6, <2>1, <2>2, <2>3, <2>4, Sizes, EndsLater DEF TxLineInv
  <2>6. Received
    BY <1>6, <2>5 DEF TxLineInv
  <2>7. ~uartTx.receiving
    <3>1. SUFFICES ASSUME uartTx.receiving PROVE FALSE
      OBVIOUS
    <3>2. /\ ~stop /\ now < uartTx.start + Half /\ uartTx.start < FrameEnd(f)
          /\ uartTx.start \in Nat
      BY <1>1, <2>2, <2>6, <3>1 DEF Received, Waiting, States, Tx!MidStart, Half
    <3> QED BY <1>1, <2>2, <2>3, <2>4, <3>2, Sizes
  <2> QED BY <1>2, <2>6, <2>7 DEF Received
<1>7. CASE pulse.kind = "glitch"
  <2>1. PICK f \in Nat, l \in GlitchLengths : pulse = GlitchAt(f, l)
    BY <1>7, PulseIs DEF TxLineInv
  <2>2. pulse.start = f /\ pulse.free = f + Half + 2 * Chunk
    BY <2>1, GlitchFields
  <2>3. Ignored
    BY <1>7 DEF TxLineInv
  <2>4. ~uartTx.receiving
    <3>1. SUFFICES ASSUME uartTx.receiving PROVE FALSE
      OBVIOUS
    <3>2. /\ now < uartTx.start + Half /\ uartTx.start - f \in 0..Chunk - 1
          /\ uartTx.start \in Nat
      BY <1>1, <2>2, <2>3, <3>1 DEF Ignored, SeenInTime, Waiting, States, Tx!MidStart, Half
    <3> QED BY <1>1, <1>2, <1>3, <1>4, <2>2, <3>2, Sizes
  <2> QED BY <1>2, <2>3, <2>4 DEF Ignored
<1> QED BY <1>5, <1>6, <1>7, PulseIs DEF TxLineInv

-----------------------------------------------------------------------------
(* The histories. *)

Told ==
  /\ expected \in Seq([what: {"byte", "framing"}, byte: Bytes, end: Nat])
  /\ reported \in Seq([what: {"byte", "framing"}, byte: [1..DataBits -> BOOLEAN], at: Nat])
  /\ ReportedIsSent
  /\ \A k \in DOMAIN reported : reported[k].at <= expected[k].end

LEMMA InvTold == TxLineInv => Told
BY DEF TxLineInv, LineTyped, Told

\* Nothing happened to them.
LEMMA ToldStays ==
  ASSUME Told, reported' = reported, expected' = expected
  PROVE  Told'
BY DEF Told, ReportedIsSent

\* A frame began.
LEMMA ToldMore ==
  ASSUME Told, NEW e \in [what: {"byte", "framing"}, byte: Bytes, end: Nat],
         reported' = reported, expected' = Append(expected, e)
  PROVE  Told' /\ Len(expected') = Len(expected) + 1 /\ expected'[Len(expected')] = e
<1> DEFINE E == [what: {"byte", "framing"}, byte: Bytes, end: Nat]
<1>1. expected \in Seq(E) /\ Len(reported) <= Len(expected)
  BY DEF Told, ReportedIsSent
<1> HIDE DEF E
<1>2. e \in E
  BY DEF E
<1>3. /\ expected' \in Seq(E) /\ Len(expected') = Len(expected) + 1
      /\ expected'[Len(expected')] = e /\ Len(expected) \in Nat
      /\ \A k \in 1..Len(expected) : expected'[k] = expected[k]
  BY <1>1, <1>2, AppendProperties, LenProperties
<1>4. \A k \in DOMAIN reported : k \in 1..Len(expected)
  BY <1>1, <1>3, LenProperties DEF Told
<1>5. Len(reported') <= Len(expected')
  BY <1>1, <1>3, LenProperties DEF Told
<1>6. Told'
  BY <1>3, <1>4, <1>5 DEF Told, ReportedIsSent, E
<1> QED BY <1>3, <1>6

\* The one frame that was not reported is.
LEMMA ToldNext ==
  ASSUME Told, NEW m, NEW w, NEW b \in Bytes, NEW at \in Nat,
         Len(expected) = Len(reported) + 1, expected[Len(expected)] = m,
         w \in {"byte", "framing"}, m.what = w, m.byte = b, at <= m.end,
         reported' = Append(reported, [what |-> w, byte |-> b, at |-> at]),
         expected' = expected
  PROVE  Told' /\ Len(expected') = Len(reported')
<1> DEFINE R == [what: {"byte", "framing"}, byte: [1..DataBits -> BOOLEAN], at: Nat]
           r == [what |-> w, byte |-> b, at |-> at]
<1>1. reported \in Seq(R) /\ r \in R /\ r.what = w /\ r.byte = b /\ r.at = at
  BY TxLineAssumption DEF Told
<1> HIDE DEF R, r
<1>2. reported' = Append(reported, r)
  BY DEF r
<1>3. /\ reported' \in Seq(R) /\ Len(reported') = Len(reported) + 1
      /\ reported'[Len(reported')] = r /\ Len(reported) \in Nat
      /\ \A k \in 1..Len(reported) : reported'[k] = reported[k]
      /\ DOMAIN reported' = 1..Len(reported) + 1
  BY <1>1, <1>2, AppendProperties, LenProperties
<1>4. ASSUME NEW k \in DOMAIN reported'
      PROVE  /\ reported'[k].what = expected[k].what
             /\ reported'[k].what = "byte" => reported'[k].byte = expected[k].byte
             /\ reported'[k].at <= expected[k].end
  <2>1. CASE k = Len(reported')
    BY <1>1, <1>3, <2>1
  <2>2. CASE k # Len(reported')
    <3>1. k \in DOMAIN reported /\ k \in 1..Len(reported)
      BY <1>1, <1>3, <2>2, LenProperties
    <3>2. reported'[k] = reported[k]
      BY <1>3, <3>1
    <3>3. /\ reported[k].what = expected[k].what
          /\ reported[k].what = "byte" => reported[k].byte = expected[k].byte
          /\ reported[k].at <= expected[k].end
      BY <3>1 DEF Told, ReportedIsSent
    <3> QED BY <3>2, <3>3
  <2> QED BY <2>1, <2>2
<1>5. Len(reported') <= Len(expected') /\ Len(expected') = Len(reported')
  BY <1>3
<1>6. reported' \in Seq([what: {"byte", "framing"}, byte: [1..DataBits -> BOOLEAN], at: Nat])
  BY <1>3 DEF R
<1> QED BY <1>4, <1>5, <1>6 DEF Told, ReportedIsSent

-----------------------------------------------------------------------------
(* The inductive step, one lemma for each pulse on the wire and each action. *)

\* What every crossing keeps.
LEMMA TypedStays ==
  ASSUME LineTyped, NEW p, Cross(p), uartTx' \in States, Told',
         \/ p = Quiet
         \/ \E s \in Nat, b \in Bytes, stop \in BOOLEAN : p = FrameAt(s, b, stop)
         \/ \E s \in Nat, g \in GlitchLengths : p = GlitchAt(s, g)
  PROVE  LineTyped'
<1>1. now' \in Nat /\ pulse' = p /\ txBit' = txBit
  BY CrossIs
<1>2. pulse' = Quiet
      \/ (\E s \in Nat, b \in Bytes, stop \in BOOLEAN : pulse' = FrameAt(s, b, stop)')
      \/ (\E s \in Nat, g \in GlitchLengths : pulse' = GlitchAt(s, g))
  BY <1>1 DEF FrameAt, FrameEnd
<1> QED BY <1>1, <1>2 DEF LineTyped, States, Told, Quiet, GlitchAt, Settle, FrameAt, FrameEnd

LEMMA StayQuiet ==
  ASSUME TxLineInv, pulse.kind = "quiet", Stay
  PROVE  TxLineInv'
<1>1. LineTyped /\ Told /\ Cross(pulse) /\ uartTx \in States /\ ~uartTx.receiving
      /\ Len(expected) = Len(reported) /\ expected' = expected
  BY InvTold DEF TxLineInv, Stay, LineTyped, States
<1>2. LevelOf(pulse, now + Chunk)
  BY DEF LevelOf
<1>3. Tx!TxSample(uartTx, now + Chunk, LevelOf(pulse, now + Chunk)) = Tx!TxResult(uartTx, "none")
  BY <1>1, <1>2, Sizes, Listens DEF LineTyped
<1>4. uartTx' = uartTx /\ reported' = reported /\ pulse' = pulse
  BY <1>1, <1>3, CrossTo, CrossIs
<1>5. Told'
  BY <1>1, <1>4, ToldStays
<1>6. LineTyped'
  BY <1>1, <1>4, <1>5, TypedStays DEF LineTyped
<1> QED BY <1>1, <1>4, <1>5, <1>6 DEF TxLineInv, Told

LEMMA StayIgnored ==
  ASSUME TxLineInv, pulse.kind = "glitch", Stay
  PROVE  TxLineInv'
<1> DEFINE c == now + Chunk
           level == LevelOf(pulse, c)
<1>1. /\ LineTyped /\ Told /\ Cross(pulse) /\ uartTx \in States /\ now \in Nat
      /\ Len(expected) = Len(reported) /\ expected' = expected /\ Ignored
      /\ pulse.start <= now
  BY InvTold DEF TxLineInv, Stay, LineTyped, States, Ignored
<1>2. PICK s \in Nat, g \in GlitchLengths : pulse = GlitchAt(s, g)
  BY <1>1, PulseIs
<1>3. pulse.start = s /\ pulse.length = g /\ g \in Nat /\ g <= Half /\ c \in Nat /\ s <= c
  BY <1>1, <1>2, GlitchFields, TxLineAssumption, Sizes
<1>4. level <=> (c - s >= g)
  BY <1>2, GlitchLevel
<1>5. now' = c /\ pulse' = pulse /\ uartTx' = Tx!TxSample(uartTx, c, level).state
  BY <1>1, CrossIs
<1>6. SUFFICES uartTx' \in States /\ reported' = reported /\ Ignored'
  <2>1. Told'
    BY <1>1, <1>6, ToldStays
  <2>2. LineTyped'
    BY <1>1, <1>2, <1>6, <2>1, TypedStays
  <2>3. pulse'.start <= now' /\ pulse'.kind = "glitch"
    BY <1>1, <1>3, <1>5
  <2> QED BY <1>6, <2>1, <2>2, <2>3 DEF TxLineInv, Told
<1>7. CASE ~uartTx.receiving
  <2>1. level
    BY <1>1, <1>3, <1>4, <1>7, Sizes DEF Ignored
  <2>2. Tx!TxSample(uartTx, c, level) = Tx!TxResult(uartTx, "none")
    BY <1>1, <1>3, <1>7, <2>1, Listens
  <2>3. uartTx' = uartTx /\ reported' = reported
    BY <1>1, <2>2, CrossTo
  <2>4. now' - pulse'.start >= pulse'.length
    BY <1>3, <1>4, <1>5, <2>1
  <2> QED BY <1>1, <1>7, <2>3, <2>4 DEF Ignored
<1>8. CASE uartTx.receiving /\ c < Look(uartTx)
  <2>1. Tx!TxSample(uartTx, c, level) = Tx!TxResult(uartTx, "none")
    BY <1>1, <1>8, Waits
  <2>2. uartTx' = uartTx /\ reported' = reported
    BY <1>1, <2>1, CrossTo
  <2>3. Waiting' /\ SeenInTime'
    BY <1>1, <1>5, <1>8, <2>2 DEF Waiting, SeenInTime, Ignored, Look, Tx!BitCentre, Tx!MidStart
  <2> QED BY <1>1, <1>8, <2>2, <2>3 DEF Ignored
<1>9. CASE uartTx.receiving /\ ~(c < Look(uartTx))
  <2>1. ~uartTx.validated /\ uartTx.start - s \in 0..Chunk - 1 /\ uartTx.start \in Nat
    BY <1>1, <1>3, <1>9 DEF Ignored, SeenInTime, States
  <2>2. c - s >= g
    <3>1. Look(uartTx) = uartTx.start + Half
      BY <2>1 DEF Look, Tx!MidStart, Half
    <3> QED BY <1>3, <1>9, <2>1, <3>1, Sizes
  <2>3. Tx!TxSample(uartTx, c, level) = Tx!TxResult([uartTx EXCEPT !.receiving = FALSE], "none")
    BY <1>1, <1>4, <1>9, <2>1, <2>2, Drops
  <2>4. uartTx' = [uartTx EXCEPT !.receiving = FALSE] /\ reported' = reported
    BY <1>1, <2>3, CrossTo
  <2>5. uartTx' \in States /\ ~uartTx'.receiving
    BY <1>1, <2>4 DEF States
  <2>6. now' - pulse'.start >= pulse'.length
    BY <1>3, <1>5, <2>2
  <2> QED BY <1>1, <2>4, <2>5, <2>6 DEF Ignored
<1> QED BY <1>7, <1>8, <1>9

\* After a frame, whether its stop bit was high or low.
LEMMA StayReceived ==
  ASSUME TxLineInv, pulse.kind = "frame", Received, Stay
  PROVE  TxLineInv'
<1> DEFINE c == now + Chunk
           level == LevelOf(pulse, c)
<1>1. /\ LineTyped /\ Told /\ Cross(pulse) /\ uartTx \in States /\ now \in Nat
      /\ Len(expected) = Len(reported) /\ expected' = expected
      /\ pulse.start <= now /\ txBit \in TxBits
  BY InvTold DEF TxLineInv, Stay, LineTyped, States, Received
<1>2. PICK s \in Nat, b \in Bytes, stop \in BOOLEAN : pulse = FrameAt(s, b, stop)
  BY <1>1, PulseIs
<1>3. /\ pulse.start = s /\ pulse.stop = stop /\ c \in Nat /\ s <= c /\ FrameEnd(s) \in Nat
      /\ (DataBits + 1) * txBit \in Nat /\ txBit \in Nat
  BY <1>1, <1>2, FrameFields, DivisorIsNat, Sizes DEF FrameEnd
<1>4. (DataBits + 1) * txBit <= c - s
  BY <1>1, <1>3, Sizes DEF Received
<1>5. (stop \/ FrameEnd(s) <= c) => level
  BY <1>1, <1>2, <1>3, <1>4, HighAfter
<1>6. now' = c /\ pulse' = pulse /\ txBit' = txBit
  BY <1>1, CrossIs
<1>7. now' - pulse'.start >= (DataBits + 1) * txBit'
  BY <1>3, <1>4, <1>6
<1>8. FrameEnd(s)' = FrameEnd(s)
  BY <1>6 DEF FrameEnd
<1>9. SUFFICES uartTx' \in States /\ reported' = reported /\ Received'
  <2>1. Told'
    BY <1>1, <1>9, ToldStays
  <2>2. LineTyped'
    BY <1>1, <1>2, <1>9, <2>1, TypedStays
  <2>3. pulse'.start <= now' /\ pulse'.kind = "frame"
    BY <1>3, <1>6
  <2> QED BY <1>9, <2>1, <2>2, <2>3 DEF TxLineInv, Told
<1>10. CASE ~uartTx.receiving /\ level
  <2>1. Tx!TxSample(uartTx, c, level) = Tx!TxResult(uartTx, "none")
    BY <1>1, <1>3, <1>10, Listens
  <2>2. uartTx' = uartTx /\ reported' = reported
    BY <1>1, <2>1, CrossTo
  <2>3. pulse'.stop \/ FrameEnd(s) <= now' + Chunk + Half
    BY <1>1, <1>3, <1>6, <1>10, Sizes DEF Received
  <2> QED BY <1>1, <1>3, <1>6, <1>7, <1>8, <1>10, <2>2, <2>3 DEF Received
<1>11. CASE ~uartTx.receiving /\ ~level
  <2> DEFINE t == Tx!TxCandidate(c)
  <2>1. Tx!TxSample(uartTx, c, level) = Tx!TxResult(t, "none")
    BY <1>1, <1>3, <1>11, Listens
  <2>2. uartTx' = t /\ reported' = reported
    BY <1>1, <2>1, CrossTo
  <2>3. /\ t \in States /\ t.receiving /\ ~t.validated /\ t.start = c
        /\ Tx!MidStart(t) = c + Half /\ c < Tx!MidStart(t)
    BY <1>3, CandidateIs
  <2>4. ~stop /\ c < FrameEnd(s)
    BY <1>3, <1>5, <1>11
  <2>5. FrameEnd(s) <= c + Half
    BY <1>1, <1>3, <1>11, <2>4 DEF Received
  <2> HIDE DEF t
  <2>6. uartTx' \in States /\ uartTx'.receiving /\ ~uartTx'.validated /\ uartTx'.start = c
        /\ Tx!MidStart(uartTx') = c + Half /\ now' < Tx!MidStart(uartTx')
    BY <1>6, <2>2, <2>3
  <2>7. Waiting'
    BY <2>6 DEF Waiting, Tx!MidStart
  <2>8. FrameEnd(pulse.start)' <= Tx!MidStart(uartTx)' /\ uartTx'.start < FrameEnd(pulse.start)'
    BY <1>3, <1>6, <1>8, <2>4, <2>5, <2>6 DEF FrameEnd, Tx!MidStart
  <2> QED BY <1>1, <1>3, <1>6, <1>7, <2>2, <2>4, <2>6, <2>7, <2>8 DEF Received
<1>12. CASE uartTx.receiving /\ c < Look(uartTx)
  <2>1. Tx!TxSample(uartTx, c, level) = Tx!TxResult(uartTx, "none")
    BY <1>1, <1>12, Waits
  <2>2. uartTx' = uartTx /\ reported' = reported
    BY <1>1, <2>1, CrossTo
  <2>3. Waiting'
    BY <1>6, <1>12, <2>2 DEF Waiting, Look, Tx!BitCentre, Tx!MidStart
  <2>4. FrameEnd(pulse.start)' = FrameEnd(pulse.start) /\ Tx!MidStart(uartTx)' = Tx!MidStart(uartTx)
    BY <1>6, <2>2 DEF FrameEnd, Tx!MidStart
  <2> QED BY <1>1, <1>6, <1>7, <1>12, <2>2, <2>3, <2>4 DEF Received
<1>13. CASE uartTx.receiving /\ ~(c < Look(uartTx))
  <2>1. ~uartTx.validated /\ FrameEnd(s) <= Look(uartTx) /\ Look(uartTx) \in Nat
    BY <1>1, <1>3, <1>13, LookType DEF Received, Look
  <2>2. FrameEnd(s) <= c /\ level
    BY <1>3, <1>5, <1>13, <2>1
  <2>3. Tx!TxSample(uartTx, c, level) = Tx!TxResult([uartTx EXCEPT !.receiving = FALSE], "none")
    BY <1>1, <1>13, <2>1, <2>2, Drops
  <2>4. uartTx' = [uartTx EXCEPT !.receiving = FALSE] /\ reported' = reported
    BY <1>1, <2>3, CrossTo
  <2>5. uartTx' \in States /\ ~uartTx'.receiving
    BY <1>1, <2>4 DEF States
  <2>6. FrameEnd(s) <= now' + Chunk + Half
    BY <1>3, <1>6, <2>2, Sizes
  <2> QED BY <1>1, <1>3, <1>6, <1>7, <1>8, <2>4, <2>5, <2>6 DEF Received
<1> QED BY <1>10, <1>11, <1>12, <1>13

\* In the middle of a frame.
LEMMA StayReceiving ==
  ASSUME TxLineInv, pulse.kind = "frame", Receiving, Stay
  PROVE  TxLineInv'
<1> DEFINE c == now + Chunk
           r == Tx!TxSample(uartTx, c, LevelOf(pulse, c))
<1>1. /\ LineTyped /\ Told /\ Cross(pulse) /\ uartTx \in States /\ now \in Nat
      /\ expected' = expected /\ pulse.start <= now /\ txBit \in TxBits
  BY InvTold DEF TxLineInv, Stay, LineTyped, States
<1>2. PICK s \in Nat, b \in Bytes, stop \in BOOLEAN : pulse = FrameAt(s, b, stop)
  BY <1>1, PulseIs
<1>3. /\ pulse.start = s /\ pulse.byte = b /\ pulse.stop = stop /\ c \in Nat /\ s <= c
      /\ FrameEnd(s) \in Nat
  BY <1>1, <1>2, FrameFields, DivisorIsNat, Sizes DEF FrameEnd
<1>4. Follows(uartTx, s, b, now)
  BY <1>3 DEF Receiving, Follows, Waiting, SeenInTime, Look
<1>5. FrameGoesOn(uartTx, s, b, stop, c, r)
  BY <1>1, <1>2, <1>3, <1>4, FrameSample
<1>6. /\ now' = c /\ pulse' = pulse /\ txBit' = txBit /\ uartTx' = r.state
      /\ reported' = IF r.what = "none" THEN reported
                     ELSE Append(reported, [what |-> r.what, byte |-> r.state.shift, at |-> now'])
  BY <1>1, CrossIs
<1> HIDE DEF r
<1>7. r.state \in States /\ uartTx' \in States
  BY <1>5, <1>6 DEF FrameGoesOn
<1>8. pulse'.start <= now' /\ pulse'.kind = "frame" /\ FrameEnd(s)' = FrameEnd(s)
  BY <1>3, <1>6 DEF FrameEnd
<1>9. SUFFICES Told' /\ (Receiving' \/ Received')
  <2>1. LineTyped'
    BY <1>1, <1>2, <1>7, <1>9, TypedStays
  <2> QED BY <1>8, <1>9, <2>1 DEF TxLineInv, Told
<1>10. /\ Len(expected) = Len(reported) + 1
       /\ expected[Len(expected)] = [what |-> IF stop THEN "byte" ELSE "framing",
                                     byte |-> b, end |-> FrameEnd(s)]
  BY <1>3 DEF Receiving
<1>11. CASE r.what = "none" /\ Follows(r.state, s, b, c)
  <2>1. reported' = reported
    BY <1>6, <1>11
  <2>2. Told'
    BY <1>1, <2>1, ToldStays
  <2>3. Follows(uartTx', s, b, now')
    BY <1>6, <1>11
  <2>4. uartTx'.receiving /\ Waiting' /\ SeenInTime' /\ (~uartTx'.validated => uartTx'.index = 0)
        /\ \A i \in 1..uartTx'.index : uartTx'.shift[i] = pulse'.byte[i]
    BY <1>3, <1>6, <2>3 DEF Follows, Waiting, SeenInTime, Look, Tx!BitCentre, Tx!MidStart
  <2>5. FrameEnd(pulse.start)' = FrameEnd(s)
    BY <1>3, <1>6 DEF FrameEnd
  <2> QED BY <1>1, <1>3, <1>6, <1>10, <2>1, <2>2, <2>4, <2>5 DEF Receiving
<1>12. CASE ~(r.what = "none" /\ Follows(r.state, s, b, c))
  <2> DEFINE w == IF stop THEN "byte" ELSE "framing"
  <2>1. /\ r.what = w /\ r.state.shift = b /\ ~r.state.receiving
        /\ (DataBits + 1) * txBit <= c - s /\ c < FrameEnd(s)
        /\ FrameEnd(s) <= c + Chunk + Half
    BY <1>5, <1>12 DEF FrameGoesOn
  <2>2. w \in {"byte", "framing"} /\ w # "none"
    OBVIOUS
  <2> HIDE DEF w
  <2>3. reported' = Append(reported, [what |-> w, byte |-> b, at |-> c])
    BY <1>6, <2>1, <2>2
  <2>4. Told' /\ Len(expected') = Len(reported')
    <3> DEFINE m == expected[Len(expected)]
    <3>1. m.what = w /\ m.byte = b /\ m.end = FrameEnd(s) /\ c <= m.end
      BY <1>3, <1>10, <2>1 DEF w
    <3> HIDE DEF m
    <3>2. expected[Len(expected)] = m
      BY DEF m
    <3> QED BY <1>1, <1>3, <1>10, <2>2, <2>3, <3>1, <3>2, ToldNext
  <2>5. Received'
    <3>1. now' - pulse'.start >= (DataBits + 1) * txBit'
      BY <1>1, <1>3, <1>6, <2>1, DivisorIsNat
    <3>2. ~uartTx'.receiving
      BY <1>6, <2>1
    <3>3. FrameEnd(pulse.start)' <= now' + Chunk + Half
      BY <1>3, <1>6, <2>1 DEF FrameEnd
    <3> QED BY <2>4, <3>1, <3>2, <3>3 DEF Received
  <2> QED BY <2>4, <2>5
<1> QED BY <1>11, <1>12

\* The decoder is idle when a pulse begins, and the next crossing may see it low.
LEMMA FirstLook ==
  ASSUME TxLineInv, NEW s \in Starts(now), NEW p, Cross(p)
  PROVE  /\ reported' = reported /\ uartTx' \in States
         /\ s \in Nat /\ now' \in Nat /\ now' = now + Chunk /\ now' - s \in 0..Chunk - 1
         /\ Len(expected) = Len(reported)
         /\ IF LevelOf(p, now + Chunk) THEN ~uartTx'.receiving
            ELSE /\ uartTx'.receiving /\ ~uartTx'.validated /\ uartTx'.index = 0
                 /\ uartTx'.start = now' /\ now' < Tx!MidStart(uartTx')
<1> DEFINE c == now + Chunk
           level == LevelOf(p, c)
           t == Tx!TxCandidate(c)
<1>1. LineTyped /\ uartTx \in States /\ now \in Nat /\ c \in Nat
  BY Sizes DEF TxLineInv, LineTyped, States
<1>2. s \in Nat /\ now < s /\ s <= c /\ ~uartTx.receiving /\ Len(expected) = Len(reported)
  BY DoneBeforeNext
<1>3. now' = c /\ now' - s \in 0..Chunk - 1
  <2>1. now' = c
    BY <1>1, CrossIs
  <2> QED BY <1>1, <1>2, <2>1, Sizes
<1>4. CASE level
  <2>1. Tx!TxSample(uartTx, c, level) = Tx!TxResult(uartTx, "none")
    BY <1>1, <1>2, <1>4, Listens
  <2>2. uartTx' = uartTx /\ reported' = reported
    BY <1>1, <2>1, CrossTo
  <2> QED BY <1>1, <1>2, <1>3, <1>4, <2>2
<1>5. CASE ~level
  <2>1. Tx!TxSample(uartTx, c, level) = Tx!TxResult(t, "none")
    BY <1>1, <1>2, <1>5, Listens
  <2>2. uartTx' = t /\ reported' = reported
    BY <1>1, <2>1, CrossTo
  <2>3. /\ t \in States /\ t.receiving /\ ~t.validated /\ t.index = 0 /\ t.start = c
        /\ c < Tx!MidStart(t)
    BY <1>1, CandidateIs
  <2> HIDE DEF t
  <2> QED BY <1>1, <1>2, <1>3, <1>5, <2>2, <2>3
<1> QED BY <1>4, <1>5

LEMMA BeginFrameInv ==
  ASSUME TxLineInv, BeginFrame
  PROVE  TxLineInv'
<1>1. PICK s \in Starts(now), b \in Bytes, stop \in BOOLEAN :
        /\ Cross(FrameAt(s, b, stop))
        /\ expected' = Append(expected, [what |-> IF stop THEN "byte" ELSE "framing",
                                         byte |-> b, end |-> FrameEnd(s)])
  BY DEF BeginFrame
<1> DEFINE p == FrameAt(s, b, stop)
           e == [what |-> IF stop THEN "byte" ELSE "framing", byte |-> b, end |-> FrameEnd(s)]
<1>2. LineTyped /\ Told /\ txBit \in TxBits /\ Cross(p)
  BY <1>1, InvTold DEF TxLineInv, LineTyped
<1>3. /\ p.kind = "frame" /\ p.start = s /\ p.byte = b /\ p.stop = stop
  BY FrameFields
<1> HIDE DEF p
<1>4. /\ reported' = reported /\ uartTx' \in States /\ s \in Nat /\ now' \in Nat
      /\ now' = now + Chunk /\ now' - s \in 0..Chunk - 1 /\ Len(expected) = Len(reported)
      /\ IF LevelOf(p, now + Chunk) THEN ~uartTx'.receiving
         ELSE /\ uartTx'.receiving /\ ~uartTx'.validated /\ uartTx'.index = 0
              /\ uartTx'.start = now' /\ now' < Tx!MidStart(uartTx')
  BY <1>2, FirstLook
<1>5. txBit \in Nat /\ FrameEnd(s) \in Nat /\ Half + 2 * (Chunk - 1) < txBit
  BY <1>2, <1>4, Sizes, DivisorIsNat, TxLineAssumption DEF FrameEnd, Sampled
<1>6. ~LevelOf(p, now + Chunk)
  <2>1. now' - s < txBit /\ s <= now'
    BY <1>4, <1>5, Sizes
  <2>2. ~LevelOf(FrameAt(s, b, stop), now')
    BY <1>2, <1>4, <2>1, LowInStart
  <2> QED BY <1>4, <2>2 DEF p
<1>7. now' = now + Chunk /\ pulse' = p /\ txBit' = txBit
  BY <1>2, CrossIs
<1>8. e \in [what: {"byte", "framing"}, byte: Bytes, end: Nat]
  BY <1>5
<1>9. expected' = Append(expected, e)
  BY <1>1
<1> HIDE DEF e
<1>10. Told' /\ Len(expected') = Len(expected) + 1 /\ expected'[Len(expected')] = e
  BY <1>2, <1>4, <1>8, <1>9, ToldMore
<1>11. LineTyped'
  BY <1>2, <1>4, <1>10, TypedStays DEF p
<1>12. FrameEnd(pulse.start)' = FrameEnd(s)
  BY <1>3, <1>7 DEF FrameEnd
<1>13. Receiving'
  <2>1. Waiting' /\ SeenInTime'
    BY <1>3, <1>4, <1>6, <1>7 DEF Waiting, SeenInTime, Tx!MidStart
  <2>2. \A i \in 1..uartTx'.index : uartTx'.shift[i] = pulse'.byte[i]
    BY <1>4, <1>6
  <2>3. e = [what |-> IF pulse'.stop THEN "byte" ELSE "framing", byte |-> pulse'.byte,
             end |-> FrameEnd(pulse.start)']
    BY <1>3, <1>7, <1>12 DEF e
  <2> QED BY <1>4, <1>6, <1>10, <2>1, <2>2, <2>3 DEF Receiving
<1>14. pulse'.start <= now' /\ pulse'.kind = "frame"
  BY <1>3, <1>4, <1>7, Sizes
<1> QED BY <1>10, <1>11, <1>13, <1>14 DEF TxLineInv, Told

LEMMA BeginGlitchInv ==
  ASSUME TxLineInv, BeginGlitch
  PROVE  TxLineInv'
<1>1. PICK s \in Starts(now), g \in GlitchLengths : Cross(GlitchAt(s, g)) /\ expected' = expected
  BY DEF BeginGlitch
<1> DEFINE p == GlitchAt(s, g)
<1>2. LineTyped /\ Told /\ Cross(p)
  BY <1>1, InvTold DEF TxLineInv, LineTyped
<1>3. s \in Nat
  BY DoneBeforeNext
<1>4. p.kind = "glitch" /\ p.start = s /\ p.length = g /\ g \in Nat
  BY <1>3, GlitchFields, TxLineAssumption
<1> HIDE DEF p
<1>5. /\ reported' = reported /\ uartTx' \in States /\ now' \in Nat
      /\ now' = now + Chunk /\ now' - s \in 0..Chunk - 1 /\ Len(expected) = Len(reported)
      /\ IF LevelOf(p, now + Chunk) THEN ~uartTx'.receiving
         ELSE /\ uartTx'.receiving /\ ~uartTx'.validated /\ uartTx'.index = 0
              /\ uartTx'.start = now' /\ now' < Tx!MidStart(uartTx')
  BY <1>2, FirstLook
<1>6. now' = now + Chunk /\ pulse' = p
  BY <1>2, CrossIs
<1>7. LevelOf(p, now + Chunk) <=> (now' - s >= g)
  BY <1>3, <1>6, GlitchLevel DEF p
<1>8. Told'
  BY <1>1, <1>2, <1>5, ToldStays
<1>9. LineTyped'
  BY <1>2, <1>3, <1>5, <1>8, TypedStays DEF p
<1>10. Ignored'
  <2>1. CASE LevelOf(p, now + Chunk)
    BY <1>1, <1>4, <1>5, <1>6, <1>7, <2>1 DEF Ignored
  <2>2. CASE ~LevelOf(p, now + Chunk)
    <3>1. Waiting' /\ SeenInTime'
      BY <1>4, <1>5, <1>6, <2>2 DEF Waiting, SeenInTime, Tx!MidStart
    <3> QED BY <1>1, <1>5, <2>2, <3>1 DEF Ignored
  <2> QED BY <2>1, <2>2
<1>11. pulse'.start <= now' /\ pulse'.kind = "glitch"
  BY <1>3, <1>4, <1>5, <1>6, Sizes
<1> QED BY <1>8, <1>9, <1>10, <1>11 DEF TxLineInv, Told

-----------------------------------------------------------------------------
(* The theorems. *)

LEMMA InitTxLineInv == Init => TxLineInv
<1> SUFFICES ASSUME Init PROVE TxLineInv
  OBVIOUS
<1> DEFINE none == [i \in 1..DataBits |-> FALSE]
<1>1. none \in [1..DataBits -> BOOLEAN] /\ 0 \in 0..DataBits
  BY Sizes
<1>2. uartTx = [receiving |-> FALSE, validated |-> FALSE, start |-> 0, index |-> 0, shift |-> none]
  BY DEF Init, Tx!TxIdle
<1> HIDE DEF none
<1>3. uartTx \in States /\ ~uartTx.receiving
  BY <1>1, <1>2 DEF States
<1>4. pulse = Quiet /\ pulse.kind = "quiet" /\ now = 0 /\ txBit \in TxBits
  BY DEF Init, Quiet
<1>5. Told /\ Len(expected) = 0 /\ Len(reported) = 0
  BY EmptySeq DEF Init, Told, ReportedIsSent
<1> QED BY <1>3, <1>4, <1>5 DEF TxLineInv, LineTyped, States, Told

LEMMA NextTxLineInv == TxLineInv /\ [Next]_vars => TxLineInv'
<1> SUFFICES ASSUME TxLineInv, [Next]_vars PROVE TxLineInv'
  OBVIOUS
<1>1. CASE Stay
  <2>1. CASE pulse.kind = "quiet"
    BY <1>1, <2>1, StayQuiet
  <2>2. CASE pulse.kind = "frame"
    BY <1>1, <2>2, StayReceiving, StayReceived DEF TxLineInv
  <2>3. CASE pulse.kind = "glitch"
    BY <1>1, <2>3, StayIgnored
  <2> QED BY <2>1, <2>2, <2>3, PulseIs DEF TxLineInv
<1>2. CASE BeginFrame
  BY <1>2, BeginFrameInv
<1>3. CASE BeginGlitch
  BY <1>3, BeginGlitchInv
<1>4. CASE UNCHANGED vars
  BY <1>4 DEF vars, TxLineInv, LineTyped, ReportedIsSent, Receiving, Received, Ignored,
              Waiting, SeenInTime, FrameEnd, FrameAt, GlitchAt, Quiet, Settle,
              Tx!BitCentre, Tx!MidStart
<1> QED BY <1>1, <1>2, <1>3, <1>4 DEF Next

\* The decoder is never caught out: at every crossing it is where the pulse on the
\* wire asks it to be.
LEMMA DecoderKeepsUp == Spec => []TxLineInv
<1>1. Init => TxLineInv
  BY InitTxLineInv
<1>2. TxLineInv /\ [Next]_vars => TxLineInv'
  BY NextTxLineInv
<1> QED BY <1>1, <1>2, PTL DEF Spec

\* UartTxDecoder::sample() reports each frame once, in order, with its payload or
\* as a framing error, and nothing else, at every bit length, grid and divisor
\* within the bounds of Uart.h.
THEOREM FramesAreReportedAsSent == Spec => []ReportedIsSent
<1>1. TxLineInv => ReportedIsSent
  BY DEF TxLineInv
<1> QED BY <1>1, DecoderKeepsUp, PTL

\* It does so before the frame's stop bit ends, so that no frame is missed back to
\* back.
THEOREM FramesAreReportedInTime == Spec => []ReportedByStop
<1>1. TxLineInv => ReportedByStop
  <2> SUFFICES ASSUME TxLineInv PROVE ReportedByStop
    OBVIOUS
  <2>1. Told /\ LineTyped
    BY InvTold DEF TxLineInv
  <2>2. SUFFICES ASSUME NEW k \in DOMAIN expected, now >= expected[k].end, ~(k <= Len(reported))
                 PROVE  FALSE
    BY <2>1 DEF ReportedByStop, Told
  <2>3. Len(expected) \in Nat /\ Len(reported) \in Nat /\ k \in 1..Len(expected)
    BY <2>1, LenProperties DEF Told
  <2>4. pulse.kind = "frame" /\ Receiving
    BY <2>2, <2>3, PulseIs, <2>1 DEF TxLineInv, Received, Ignored
  <2>5. PICK s \in Nat, b \in Bytes, stop \in BOOLEAN : pulse = FrameAt(s, b, stop)
    BY <2>1, <2>4, PulseIs
  <2>6. k = Len(expected) /\ expected[k].end = FrameEnd(s)
    BY <2>2, <2>3, <2>4, <2>5, FrameFields DEF Receiving
  <2>7. now + Chunk < FrameEnd(s)
    BY <2>1, <2>4, <2>5, FrameFields, EndsLater
  <2>8. now \in Nat /\ FrameEnd(s) \in Nat
    <3>1. now \in Nat /\ txBit \in Nat /\ DataBits \in Nat
      BY <2>1, DivisorIsNat DEF LineTyped
    <3> QED BY <3>1 DEF FrameEnd
  <2> QED BY <2>2, <2>6, <2>7, <2>8, Sizes
<1> QED BY <1>1, DecoderKeepsUp, PTL
-----------------------------------------------------------------------------
(* The engine. A step as a recursion. *)

EngineNow == [model |-> model, time |-> time, dumps |-> dumps]
OneCycle(s, i) == HalfCycle(HalfCycle(s, 0), 1)
OneEdge(r, i) == RegsAfter(r, InputsOf(model.data))

Cycles == INSTANCE Recursion WITH Base <- EngineNow, Step <- OneCycle
Edges == INSTANCE Recursion WITH Base <- model.regs, Step <- OneEdge

-----------------------------------------------------------------------------
(* The model: what eval() and a store leave. *)

Formed(m) ==
  /\ m = [data |-> m.data, regs |-> m.regs, last |-> m.last]
  /\ m.data = [n \in Signals |-> m.data[n]]

IsSettled(m) ==
  \A n \in Signals \ (Inputs \cup {Clock}) :
    m.data[n] = Value(n, m.regs, InputsOf(m.data))

\* The clock is where eval() last saw it.
AtRest(m) == Formed(m) /\ m.last = m.data[Clock] /\ m.data[Clock] \in {0, 1}

LEMMA Ports ==
  /\ Inputs \subseteq Signals /\ Clock \in Signals /\ Clock \notin Inputs
  /\ \A ids \in WatchLists : ids \in Seq(Signals)
  /\ Range(PortOrder) \subseteq Signals /\ PortOrder \in Seq(Range(PortOrder))
BY EngineAssumption DEF Signals

LEMMA EvalIs ==
  ASSUME NEW m, Formed(m)
  PROVE  LET e == Eval(m)
             rises == m.data[Clock] = 1 /\ m.last = 0
         IN  /\ Formed(e) /\ IsSettled(e)
             /\ InputsOf(e.data) = InputsOf(m.data)
             /\ e.data[Clock] = m.data[Clock] /\ e.last = m.data[Clock]
             /\ e.regs = IF rises THEN RegsAfter(m.regs, InputsOf(m.data)) ELSE m.regs
<1> DEFINE e == Eval(m)
<1> DEFINE rises == m.data[Clock] = 1 /\ m.last = 0
<1> DEFINE r == IF rises THEN RegsAfter(m.regs, InputsOf(m.data)) ELSE m.regs
<1> DEFINE d == [n \in Signals |-> IF n \in Inputs \cup {Clock} THEN m.data[n]
                                   ELSE Value(n, r, InputsOf(m.data))]
<1>1. e = [data |-> d, regs |-> r, last |-> m.data[Clock]]
  BY Zenon DEF Eval
<1> HIDE DEF e, r
<1>2. e.data = d /\ e.regs = r /\ e.last = m.data[Clock]
  BY <1>1
<1>3. d[Clock] = m.data[Clock] /\ \A n \in Inputs : d[n] = m.data[n]
  BY Ports
<1>4. d = [n \in Signals |-> d[n]] /\ \A n \in Signals \ (Inputs \cup {Clock}) : d[n] = Value(n, r, InputsOf(m.data))
  OBVIOUS
<1> HIDE DEF d
<1>5. InputsOf(d) = InputsOf(m.data)
  BY <1>3, Zenon DEF InputsOf
<1>6. Formed(e)
  BY <1>1, <1>2, <1>4, Zenon DEF Formed
<1>7. IsSettled(e)
  BY <1>2, <1>4, <1>5, Zenon DEF IsSettled
<1> QED BY <1>2, <1>3, <1>5, <1>6, <1>7, Zenon DEF e, r

LEMMA StoreIs ==
  ASSUME NEW m, Formed(m), NEW n \in Signals, NEW v
  PROVE  LET s == Store(m, n, v)
         IN  /\ Formed(s) /\ s.regs = m.regs /\ s.last = m.last
             /\ s.data[n] = v % 2 ^ Width(n)
             /\ \A o \in Signals : o # n => s.data[o] = m.data[o]
             /\ InputsOf(s.data) = [o \in Inputs |-> IF o = n THEN v % 2 ^ Width(n) ELSE m.data[o]]
<1> DEFINE s == Store(m, n, v)
<1> DEFINE w == v % 2 ^ Width(n)
<1> DEFINE d == [m.data EXCEPT ![n] = w]
<1> HIDE DEF w
<1>1. s = [m EXCEPT !.data[n] = w]
  BY Zenon DEF Store, w
<1>2. s = [data |-> d, regs |-> m.regs, last |-> m.last]
  <2>1. m = [data |-> m.data, regs |-> m.regs, last |-> m.last]
    BY DEF Formed
  <2> QED BY <1>1, <2>1
<1> HIDE DEF s
<1>3. s.data = d /\ s.regs = m.regs /\ s.last = m.last
  BY <1>2
<1>4. /\ d[n] = w /\ d = [o \in Signals |-> d[o]]
      /\ \A o \in Signals : o # n => d[o] = m.data[o]
  <2>1. m.data = [o \in Signals |-> m.data[o]]
    BY DEF Formed
  <2> QED BY <2>1
<1> HIDE DEF d
<1>5. Formed(s)
  BY <1>2, <1>3, <1>4 DEF Formed
<1>6. InputsOf(d) = [o \in Inputs |-> IF o = n THEN w ELSE m.data[o]]
  BY <1>4, Ports DEF InputsOf
<1> QED BY <1>3, <1>4, <1>5, <1>6, Zenon DEF s, w

\* A clock cycle: one edge, which sees the inputs as they are, and two dumps.
OfCycle(s, t) ==
  LET ins == InputsOf(s.model.data)
      after == RegsAfter(s.model.regs, ins)
  IN  /\ AtRest(t.model) /\ IsSettled(t.model) /\ t.model.data[Clock] = 1
      /\ t.model.regs = after /\ InputsOf(t.model.data) = ins
      /\ t.time = s.time + 5 + 5
      /\ t.dumps = IF tracing
                   THEN Append(Append(s.dumps, [time |-> s.time, regs |-> s.model.regs, ins |-> ins]),
                               [time |-> s.time + 5, regs |-> after, ins |-> ins])
                   ELSE s.dumps

OfHalf(s, level, t) ==
  LET ins == InputsOf(s.model.data)
  IN  /\ AtRest(t.model) /\ IsSettled(t.model) /\ t.model.data[Clock] = level
      /\ InputsOf(t.model.data) = ins
      /\ t.model.regs = IF level = 1 /\ s.model.last = 0
                        THEN RegsAfter(s.model.regs, ins) ELSE s.model.regs
      /\ t.time = s.time + 5
      /\ t.dumps = IF tracing
                   THEN Append(s.dumps, [time |-> s.time, regs |-> t.model.regs, ins |-> ins])
                   ELSE s.dumps

LEMMA HalfIs ==
  ASSUME NEW s, AtRest(s.model), NEW level \in {0, 1}
  PROVE  OfHalf(s, level, HalfCycle(s, level))
<1> DEFINE t == HalfCycle(s, level)
<1> DEFINE m == Store(s.model, Clock, level)
<1> DEFINE e == Eval(m)
<1>1. /\ t.model = e /\ t.time = s.time + 5
      /\ t.dumps = IF tracing THEN Append(s.dumps, [time |-> s.time, regs |-> e.regs, ins |-> InputsOf(e.data)])
                   ELSE s.dumps
  <2> DEFINE new == IF tracing
                    THEN Append(s.dumps, [time |-> s.time, regs |-> e.regs, ins |-> InputsOf(e.data)])
                    ELSE s.dumps
  <2>1. t = [model |-> e, time |-> s.time + 5, dumps |-> new]
    BY Zenon DEF HalfCycle
  <2> HIDE DEF t, new, e
  <2>2. t.model = e /\ t.time = s.time + 5 /\ t.dumps = new
    BY <2>1
  <2> QED BY <2>2 DEF new
<1>2. Formed(s.model) /\ Clock \in Signals /\ Clock \notin Inputs
  BY Ports DEF AtRest
<1>3. /\ Formed(m) /\ m.regs = s.model.regs /\ m.last = s.model.last
      /\ m.data[Clock] = level % 2 ^ Width(Clock)
      /\ InputsOf(m.data) = [o \in Inputs |-> IF o = Clock THEN level % 2 ^ Width(Clock) ELSE s.model.data[o]]
  <2> HIDE DEF m
  <2> QED BY <1>2, StoreIs DEF m
<1> HIDE DEF m
<1>4. m.data[Clock] = level
  BY <1>3, EngineAssumption
<1>5. InputsOf(m.data) = InputsOf(s.model.data)
  BY <1>2, <1>3 DEF InputsOf
<1>6. /\ Formed(e) /\ IsSettled(e) /\ InputsOf(e.data) = InputsOf(m.data)
      /\ e.data[Clock] = level /\ e.last = level
      /\ e.regs = IF level = 1 /\ m.last = 0 THEN RegsAfter(m.regs, InputsOf(m.data)) ELSE m.regs
  <2> HIDE DEF e
  <2> QED BY <1>3, <1>4, EvalIs DEF e
<1> HIDE DEF e, t
<1>7. AtRest(e)
  BY <1>6 DEF AtRest
<1>8. e.regs = IF level = 1 /\ s.model.last = 0
               THEN RegsAfter(s.model.regs, InputsOf(s.model.data)) ELSE s.model.regs
  BY <1>3, <1>5, <1>6
<1>9. OfHalf(s, level, t)
  BY <1>1, <1>5, <1>6, <1>7, <1>8 DEF OfHalf
<1> QED BY <1>9 DEF t

LEMMA CycleIs ==
  ASSUME NEW s, AtRest(s.model), NEW i
  PROVE  OfCycle(s, OneCycle(s, i))
<1> DEFINE l == HalfCycle(s, 0)
<1> DEFINE t == HalfCycle(l, 1)
<1> DEFINE ins == InputsOf(s.model.data)
<1>1. /\ AtRest(l.model) /\ l.model.data[Clock] = 0 /\ InputsOf(l.model.data) = ins
      /\ l.model.regs = s.model.regs /\ l.time = s.time + 5
      /\ l.dumps = IF tracing
                   THEN Append(s.dumps, [time |-> s.time, regs |-> l.model.regs, ins |-> ins])
                   ELSE s.dumps
  <2>1. OfHalf(s, 0, l)
    BY HalfIs
  <2> HIDE DEF l
  <2> QED BY <2>1 DEF OfHalf
<1> HIDE DEF l
<1>2. l.model.last = 0
  BY <1>1 DEF AtRest
<1>3. /\ AtRest(t.model) /\ IsSettled(t.model) /\ t.model.data[Clock] = 1
      /\ InputsOf(t.model.data) = InputsOf(l.model.data)
      /\ t.model.regs = RegsAfter(l.model.regs, InputsOf(l.model.data))
      /\ t.time = l.time + 5
      /\ t.dumps = IF tracing
                   THEN Append(l.dumps, [time |-> l.time, regs |-> t.model.regs, ins |-> InputsOf(l.model.data)])
                   ELSE l.dumps
  <2>1. OfHalf(l, 1, t)
    BY <1>1, HalfIs
  <2> HIDE DEF t
  <2> QED BY <1>2, <2>1 DEF OfHalf
<1>4. t = OneCycle(s, i)
  BY DEF OneCycle, l
<1> HIDE DEF t, ins
<1>5. OfCycle(s, t)
  BY <1>1, <1>3 DEF OfCycle, ins
<1> QED BY <1>4, <1>5

-----------------------------------------------------------------------------
(* Steps of any size. *)

LEMMA CyclesFollow ==
  ASSUME NEW k \in Nat
  PROVE  /\ AfterCycles(k)[0] = EngineNow
         /\ \A i \in 1..k : AfterCycles(k)[i] = OneCycle(AfterCycles(k)[i - 1], i)
<1> DEFINE g == CHOOSE h : Cycles!Follows(h, k)
<1>1. Cycles!Follows(g, k)
  <2>1. \E f : Cycles!Follows(f, k)
    BY Cycles!FollowsExists
  <2> QED BY <2>1, Zenon
<1>2. AfterCycles(k) = g
  BY Zenon DEF AfterCycles, Cycles!Follows, EngineNow, OneCycle
<1> HIDE DEF g
<1>3. g = [i \in 0..k |-> IF i = 0 THEN EngineNow ELSE OneCycle(g[i - 1], i)]
  BY <1>1, Zenon DEF Cycles!Follows
<1>4. 0 \in 0..k /\ \A i \in 1..k : i \in 0..k /\ i # 0
  OBVIOUS
<1>5. g[0] = EngineNow /\ \A i \in 1..k : g[i] = OneCycle(g[i - 1], i)
  BY <1>3, <1>4, Zenon
<1> QED BY <1>2, <1>5, Zenon

LEMMA EdgesFollow ==
  ASSUME NEW k \in Nat
  PROVE  /\ Contract!RegsIn(k)[0] = model.regs
         /\ \A i \in 1..k : Contract!RegsIn(k)[i] = OneEdge(Contract!RegsIn(k)[i - 1], i)
<1> DEFINE g == CHOOSE h : Edges!Follows(h, k)
<1>1. Edges!Follows(g, k)
  <2>1. \E f : Edges!Follows(f, k)
    BY Edges!FollowsExists
  <2> QED BY <2>1, Zenon
<1>2. Contract!RegsIn(k) = g
  BY Zenon DEF Contract!RegsIn, Edges!Follows, OneEdge
<1> HIDE DEF g
<1>3. g = [i \in 0..k |-> IF i = 0 THEN model.regs ELSE OneEdge(g[i - 1], i)]
  BY <1>1, Zenon DEF Edges!Follows
<1>4. 0 \in 0..k /\ \A i \in 1..k : i \in 0..k /\ i # 0
  OBVIOUS
<1>5. g[0] = model.regs /\ \A i \in 1..k : g[i] = OneEdge(g[i - 1], i)
  BY <1>3, <1>4, Zenon
<1> QED BY <1>2, <1>5, Zenon

ExtendsAtEnd(s, t, x) == Append(s \o t, x) = s \o Append(t, x)

LEMMA AppendAtEnd ==
  ASSUME NEW D, NEW s \in Seq(D), NEW t \in Seq(D), NEW x \in D
  PROVE  ExtendsAtEnd(s, t, x)
<1>1. <<x>> \in Seq(D) /\ s \o t \in Seq(D)
  OBVIOUS
<1>2. Append(s \o t, x) = (s \o t) \o <<x>> /\ Append(t, x) = t \o <<x>>
  BY <1>1, AppendIsConcat
<1>3. (s \o t) \o <<x>> = s \o (t \o <<x>>)
  BY <1>1, ConcatAssociative
<1> QED BY <1>2, <1>3, Zenon DEF ExtendsAtEnd

\* The waveform of the first i cycles of a step.
DumpsIn(k, i) ==
  [j \in 1..2 * i |-> Contract!Dump(10 * cycle + 5 * (j - 1), Contract!RegsIn(k)[j \div 2])]

LEMMA DumpsGrow ==
  ASSUME NEW k \in Nat, NEW i \in Nat, i + 1 <= k, cycle \in Nat
  PROVE  DumpsIn(k, i + 1) =
           Append(Append(DumpsIn(k, i),
                         Contract!Dump(10 * cycle + 10 * i, Contract!RegsIn(k)[i])),
                  Contract!Dump(10 * cycle + 10 * i + 5, Contract!RegsIn(k)[i + 1]))
<1> DEFINE D(j) == Contract!Dump(10 * cycle + 5 * (j - 1), Contract!RegsIn(k)[j \div 2])
<1> DEFINE s == [j \in 1..2 * i |-> D(j)]
<1> DEFINE a == D(2 * i + 1)
<1> DEFINE b == D(2 * i + 2)
<1>1. /\ (2 * i + 1) \div 2 = i /\ (2 * i + 2) \div 2 = i + 1
      /\ 10 * cycle + 5 * ((2 * i + 1) - 1) = 10 * cycle + 10 * i
      /\ 10 * cycle + 5 * ((2 * i + 2) - 1) = 10 * cycle + 10 * i + 5
  OBVIOUS
<1>2. /\ a = Contract!Dump(10 * cycle + 10 * i, Contract!RegsIn(k)[i])
      /\ b = Contract!Dump(10 * cycle + 10 * i + 5, Contract!RegsIn(k)[i + 1])
  BY <1>1, Zenon
<1>3. DumpsIn(k, i + 1) = [j \in 1..2 * (i + 1) |-> D(j)] /\ DumpsIn(k, i) = s
  BY Zenon DEF DumpsIn
<1> HIDE DEF D
<1>4. [j \in 1..2 * (i + 1) |-> D(j)] = Append(Append(s, a), b)
  <2> DEFINE t == [j \in 1..2 * (i + 1) |-> D(j)]
  <2>1. Append(s, a) = [j \in 1..2 * i + 1 |-> D(j)]
    OBVIOUS
  <2> DEFINE u == [j \in 1..2 * i + 1 |-> D(j)]
  <2>2. Append(u, b) = [j \in 1..2 * i + 2 |-> D(j)]
    OBVIOUS
  <2> QED BY <2>1, <2>2
<1> QED BY <1>2, <1>3, <1>4

\* What the engine has come to after i of k cycles, in the contract's terms.
Reached(k, i) ==
  LET s == AfterCycles(k)[i]
  IN  /\ AtRest(s.model) /\ s.model.regs = Contract!RegsIn(k)[i]
      /\ InputsOf(s.model.data) = InputsOf(model.data)
      /\ i > 0 => IsSettled(s.model) /\ s.model.data[Clock] = 1
      /\ s.time = 10 * cycle + 10 * i
      /\ s.dumps = IF tracing THEN dumps \o DumpsIn(k, i) ELSE dumps
      /\ \E D : s.dumps \in Seq(D)

LEMMA ModelAtRest == ASSUME EngineInv PROVE AtRest(model) /\ (~dirty => IsSettled(model))
BY DEF EngineInv, ModelKept, AtRest, Formed, IsSettled

LEMMA ReachedNext ==
  ASSUME EngineInv, NEW k \in Nat, NEW i \in Nat, i + 1 <= k, Reached(k, i)
  PROVE  Reached(k, i + 1)
<1> DEFINE s == AfterCycles(k)[i]
<1> DEFINE t == AfterCycles(k)[i + 1]
<1> DEFINE ins == InputsOf(model.data)
<1> DEFINE r == Contract!RegsIn(k)[i]
<1> DEFINE q == Contract!RegsIn(k)[i + 1]
<1>1. i + 1 \in 1..k /\ (i + 1) - 1 = i
  OBVIOUS
<1>2. t = OneCycle(s, i + 1)
  BY <1>1, CyclesFollow
<1>3. q = RegsAfter(r, ins)
  BY <1>1, EdgesFollow DEF OneEdge
<1>4. /\ AtRest(s.model) /\ s.model.regs = r /\ InputsOf(s.model.data) = ins
      /\ s.time = 10 * cycle + 10 * i
      /\ s.dumps = IF tracing THEN dumps \o DumpsIn(k, i) ELSE dumps
      /\ \E D : s.dumps \in Seq(D)
  BY DEF Reached
<1>5. cycle \in Nat /\ \E D : dumps \in Seq(D)
  BY DEF EngineInv, TimeKept
<1> HIDE DEF s, t, r, q, ins
<1>6. OfCycle(s, t)
  BY <1>2, <1>4, CycleIs
<1> DEFINE a == [time |-> s.time, regs |-> r, ins |-> ins]
<1> DEFINE b == [time |-> s.time + 5, regs |-> q, ins |-> ins]
<1>7. /\ AtRest(t.model) /\ IsSettled(t.model) /\ t.model.data[Clock] = 1
      /\ t.model.regs = q /\ InputsOf(t.model.data) = ins
      /\ t.time = s.time + 5 + 5
      /\ t.dumps = IF tracing THEN Append(Append(s.dumps, a), b) ELSE s.dumps
  BY <1>3, <1>4, <1>6 DEF OfCycle
<1>8. /\ a = Contract!Dump(10 * cycle + 10 * i, r)
      /\ b = Contract!Dump(10 * cycle + 10 * i + 5, q)
  BY <1>4 DEF Contract!Dump, ins
<1> HIDE DEF a, b
<1>9. PICK E : s.dumps \in Seq(E)
  BY <1>4
<1>10. t.dumps \in Seq(E \cup {a, b})
  <2>1. s.dumps \in Seq(E \cup {a, b})
    BY <1>9, SeqMonotonic
  <2>2. Append(Append(s.dumps, a), b) \in Seq(E \cup {a, b})
    BY <2>1
  <2> QED BY <1>7, <2>1, <2>2
<1>11. t.dumps = IF tracing THEN dumps \o DumpsIn(k, i + 1) ELSE dumps
  <2> SUFFICES ASSUME tracing PROVE Append(Append(dumps \o DumpsIn(k, i), a), b) = dumps \o DumpsIn(k, i + 1)
    BY <1>4, <1>7
  <2> DEFINE d == DumpsIn(k, i)
  <2>1. DumpsIn(k, i + 1) = Append(Append(d, a), b)
    BY <1>5, <1>8, DumpsGrow DEF r, q
  <2>2. PICK F : dumps \in Seq(F)
    BY <1>5
  <2>3. \E G : d \in Seq(G)
    <3> DEFINE H == {d[j] : j \in 1..2 * i}
    <3>1. d = [j \in 1..2 * i |-> d[j]]
      BY DEF DumpsIn
    <3>2. \A j \in 1..2 * i : d[j] \in H
      OBVIOUS
    <3> HIDE DEF d, H
    <3>3. d \in [1..2 * i -> H]
      BY <3>1, <3>2
    <3>4. 2 * i \in Nat
      OBVIOUS
    <3>5. d \in Seq(H)
      BY <3>3, <3>4
    <3> QED BY <3>5
  <2>4. PICK G : d \in Seq(G)
    BY <2>3
  <2> DEFINE S == F \cup G \cup {a, b}
  <2>5. dumps \in Seq(S) /\ d \in Seq(S) /\ a \in S /\ b \in S
    BY <2>2, <2>4, SeqMonotonic
  <2> HIDE DEF d, S
  <2>6. ExtendsAtEnd(dumps, d, a)
    BY <2>5, AppendAtEnd, Zenon
  <2>8. Append(d, a) \in Seq(S)
    BY <2>5
  <2>7. ExtendsAtEnd(dumps, Append(d, a), b)
    BY <2>5, <2>8, AppendAtEnd, Zenon
  <2> QED BY <2>1, <2>6, <2>7, Zenon DEF d, ExtendsAtEnd
<1>12. t.time = 10 * cycle + 10 * (i + 1)
  BY <1>4, <1>5, <1>7
<1> QED BY <1>7, <1>10, <1>11, <1>12 DEF Reached, t, q, ins

LEMMA AllReached ==
  ASSUME EngineInv, NEW k \in Nat
  PROVE  \A i \in 0..k : Reached(k, i)
<1> DEFINE S == {i \in Nat : i <= k => Reached(k, i)}
<1>1. 0 \in S
  <2>1. AfterCycles(k)[0] = EngineNow /\ Contract!RegsIn(k)[0] = model.regs
    BY CyclesFollow, EdgesFollow
  <2>2. AtRest(model) /\ time = 10 * cycle /\ cycle \in Nat /\ \E D : dumps \in Seq(D)
    BY ModelAtRest DEF EngineInv, TimeKept
  <2>3. EngineNow.model = model /\ EngineNow.time = time /\ EngineNow.dumps = dumps
    BY DEF EngineNow
  <2>4. dumps \o DumpsIn(k, 0) = dumps
    <3>1. DumpsIn(k, 0) = <<>>
      BY DEF DumpsIn
    <3> QED BY <2>2, <3>1, ConcatEmptySeq
  <2>5. time = 10 * cycle + 10 * 0
    BY <2>2
  <2>6. Reached(k, 0)
    BY <2>1, <2>2, <2>3, <2>4, <2>5 DEF Reached
  <2> QED BY <2>6
<1>2. ASSUME NEW i \in Nat, i \in S PROVE i + 1 \in S
  <2> SUFFICES ASSUME i + 1 <= k PROVE Reached(k, i + 1)
    OBVIOUS
  <2>1. Reached(k, i)
    BY <1>2
  <2> QED BY <2>1, ReachedNext
<1>3. \A i \in Nat : i \in S
  <2> HIDE DEF S
  <2> QED BY <1>1, <1>2, Cycles!Induction
<1> QED BY <1>3

-----------------------------------------------------------------------------
(* Each call keeps the invariant and is a call of the contract. *)

\* A settled model shows what the contract reads.
LEMMA ReadIs ==
  ASSUME NEW m, IsSettled(m), NEW c, m.data[Clock] = IF c = 0 THEN 0 ELSE 1, NEW n \in Signals
  PROVE  m.data[n] = Contract!Read(n, c, m.regs, InputsOf(m.data))
<1>1. CASE n = Clock
  BY <1>1 DEF Contract!Read
<1>2. CASE n \in Inputs /\ n # Clock
  BY <1>2 DEF Contract!Read, InputsOf
<1>3. CASE n \notin Inputs /\ n # Clock
  BY <1>3 DEF Contract!Read, IsSettled
<1> QED BY <1>1, <1>2, <1>3

LEMMA PackedIs ==
  ASSUME NEW m, IsSettled(m), NEW c, m.data[Clock] = IF c = 0 THEN 0 ELSE 1, NEW ids \in Seq(Signals)
  PROVE  Packed(ids, m.data) = Contract!Packed(ids, c, m.regs, InputsOf(m.data))
<1> DEFINE f == [j \in DOMAIN ids |-> m.data[ids[j]] * 2 ^ Contract!LaneOffset(ids, j)]
<1> DEFINE g == [j \in DOMAIN ids |-> Contract!Read(ids[j], c, m.regs, InputsOf(m.data))
                                        * 2 ^ Contract!LaneOffset(ids, j)]
<1>1. ASSUME NEW j \in DOMAIN ids
      PROVE  m.data[ids[j]] = Contract!Read(ids[j], c, m.regs, InputsOf(m.data))
  <2>1. ids[j] \in Signals
    OBVIOUS
  <2> QED BY <2>1, ReadIs
<1>2. f = g
  BY <1>1, Zenon
<1>3. Packed(ids, m.data) = Contract!SumOf(f)
  BY Zenon DEF Packed
<1>4. Contract!Packed(ids, c, m.regs, InputsOf(m.data)) = Contract!SumOf(g)
  BY Zenon DEF Contract!Packed
<1> HIDE DEF f, g
<1> QED BY <1>2, <1>3, <1>4, Zenon

LEMMA AdvanceIs ==
  ASSUME EngineInv, NEW k \in Nat, Advance(k)
  PROVE  EngineInv' /\ Contract!Advance(k)
<1> DEFINE s == AfterCycles(k)[k]
<1>1. Reached(k, k)
  <2>1. k \in 0..k
    OBVIOUS
  <2> QED BY <2>1, AllReached
<1>2. /\ AtRest(s.model) /\ s.model.regs = Contract!RegsIn(k)[k]
      /\ InputsOf(s.model.data) = InputsOf(model.data)
      /\ k > 0 => IsSettled(s.model) /\ s.model.data[Clock] = 1
      /\ s.time = 10 * cycle + 10 * k
      /\ s.dumps = IF tracing THEN dumps \o DumpsIn(k, k) ELSE dumps
      /\ \E D : s.dumps \in Seq(D)
  BY <1>1 DEF Reached
<1>3. k = 0 => s.model = model
  <2>1. AfterCycles(k)[0] = EngineNow
    BY CyclesFollow
  <2> QED BY <2>1 DEF EngineNow
<1>4. /\ model' = s.model /\ time' = s.time /\ dumps' = s.dumps /\ cycle' = cycle + k
      /\ dirty' = (dirty /\ k = 0)
      /\ UNCHANGED <<entries, byName, found, tracing, vcd, traceFile>>
  BY DEF Advance, StillDirty
<1> HIDE DEF s
<1>5. cycle \in Nat /\ TimeKept /\ ModelKept /\ NamesKept
  BY DEF EngineInv, TimeKept
<1>6. TimeKept'
  <2>1. cycle' \in Nat /\ time' = 10 * cycle'
    BY <1>2, <1>4, <1>5
  <2>2. dirty' \in BOOLEAN /\ (\E D : dumps \in Seq(D))'
    BY <1>2, <1>4
  <2> QED BY <1>4, <1>5, <2>1, <2>2 DEF TimeKept
<1>7. ModelKept'
  <2>1. CASE k = 0
    <3>1. model' = model /\ cycle' = cycle
      BY <1>3, <1>4, <1>5, <2>1
    <3>2. dirty' => dirty
      BY <1>4, Zenon
    <3>3. dirty => dirty'
      BY <1>4, <2>1, Zenon
    <3> QED BY <1>5, <3>1, <3>2, <3>3 DEF ModelKept, InputsOf
  <2>2. CASE k > 0
    <3>1. cycle' # 0
      BY <1>4, <1>5, <2>2
    <3>2. AtRest(model') /\ IsSettled(model') /\ model'.data[Clock] = 1
      BY <1>2, <1>4, <2>2
    <3> QED BY <3>1, <3>2 DEF ModelKept, AtRest, Formed, IsSettled, InputsOf
  <2> QED BY <2>1, <2>2
<1>8. NamesKept'
  BY <1>4, <1>5 DEF NamesKept
<1>9. dumps' = IF tracing
               THEN dumps \o [j \in 1..2 * k |->
                                Contract!Dump(10 * cycle + 5 * (j - 1), Contract!RegsIn(k)[j \div 2])]
               ELSE dumps
  BY <1>2, <1>4 DEF DumpsIn
<1>10. model'.regs = Contract!RegsIn(k)[k] /\ InputsOf(model'.data) = InputsOf(model.data)
  BY <1>2, <1>4
<1>11. Contract!Advance(k)
  BY <1>4, <1>9, <1>10 DEF Contract!Advance, InputsOf
<1> QED BY <1>6, <1>7, <1>8, <1>11 DEF EngineInv

LEMMA StepIs ==
  ASSUME EngineInv, NEW k \in Nat, Step(k)
  PROVE  EngineInv' /\ Contract!Step(k)
BY AdvanceIs DEF Step, Contract!Step, Done, Contract!Done

\* A call that is refused changes nothing but the answer.
Same == UNCHANGED <<model, dirty, cycle, time, entries, byName, found, tracing, vcd, traceFile, dumps>>

LEMMA SameInv == ASSUME EngineInv, Same PROVE EngineInv'
<1>1. ModelKept'
  BY DEF EngineInv, Same, ModelKept, InputsOf
<1>2. TimeKept'
  BY DEF EngineInv, Same, TimeKept
<1>3. NamesKept'
  BY DEF EngineInv, Same, NamesKept
<1> QED BY <1>1, <1>2, <1>3 DEF EngineInv

LEMMA RefusedIs ==
  ASSUME EngineInv, Same, answer' = Refused
  PROVE  EngineInv' /\ Contract!Refuse
<1>1. Contract!Refuse
  BY DEF Same, InputsOf, Contract!Refuse, Contract!Answers, Refused, Contract!Refused
<1> QED BY <1>1, SameInv

LEMMA CaptureIs ==
  ASSUME EngineInv, NEW k \in Nat, NEW ids \in WatchLists, StepCapture(k, ids)
  PROVE  EngineInv' /\ (Contract!StepCapture(k, ids) \/ Contract!Refuse)
<1>1. CASE Contract!LaneOffset(ids, Len(ids) + 1) > WordBits
  <2>1. answer' = Refused /\ Same
    BY <1>1 DEF StepCapture, Same
  <2> QED BY <2>1, RefusedIs
<1>2. CASE ~(Contract!LaneOffset(ids, Len(ids) + 1) > WordBits)
  <2>1. Advance(k) /\ answer' = [i \in 1..k |-> Packed(ids, AfterCycles(k)[i].model.data)]
    BY <1>2 DEF StepCapture
  <2>2. EngineInv' /\ Contract!Advance(k)
    BY <2>1, AdvanceIs
  <2>3. ASSUME NEW i \in 1..k
        PROVE  Packed(ids, AfterCycles(k)[i].model.data)
                 = Contract!Packed(ids, cycle + i, Contract!RegsIn(k)[i], InputsOf(model.data))
    <3> DEFINE m == AfterCycles(k)[i].model
    <3>1. i \in 0..k /\ i > 0
      OBVIOUS
    <3>2. Reached(k, i)
      BY <3>1, AllReached
    <3>3. /\ IsSettled(m) /\ m.data[Clock] = 1 /\ m.regs = Contract!RegsIn(k)[i]
          /\ InputsOf(m.data) = InputsOf(model.data)
      BY <3>1, <3>2 DEF Reached
    <3>4. cycle + i # 0
      BY <3>1 DEF EngineInv, TimeKept
    <3>5. ids \in Seq(Signals)
      BY Ports
    <3> HIDE DEF m
    <3>6. m.data[Clock] = IF cycle + i = 0 THEN 0 ELSE 1
      BY <3>3, <3>4
    <3>7. Packed(ids, m.data) = Contract!Packed(ids, cycle + i, m.regs, InputsOf(m.data))
      BY <3>3, <3>5, <3>6, PackedIs
    <3> QED BY <3>3, <3>7, Zenon DEF m
  <2>4. answer' = [i \in 1..k |-> Contract!Packed(ids, cycle + i, Contract!RegsIn(k)[i], InputsOf(model.data))]
    BY <2>1, <2>3, Zenon
  <2> QED BY <2>2, <2>4, Zenon DEF Contract!StepCapture
<1> QED BY <1>1, <1>2

\* A store into the model, settled or not, is the contract's poke.
LEMMA StoredIs ==
  ASSUME EngineInv, NEW m, AtRest(m), m.regs = model.regs, InputsOf(m.data) = InputsOf(model.data),
         m.data[Clock] = model.data[Clock], NEW n \in Inputs, NEW v,
         model' = Store(m, n, v), dirty' = TRUE, answer' = Done,
         UNCHANGED <<cycle, time, entries, byName, found, tracing, vcd, traceFile, dumps>>
  PROVE  EngineInv' /\ Contract!Poke(n, v)
<1> DEFINE w == v % 2 ^ Width(n)
<1>1. n \in Signals /\ n # Clock /\ Clock \in Signals
  BY Ports
<1>2. /\ Formed(model') /\ model'.regs = model.regs /\ model'.last = m.last
      /\ model'.data[Clock] = model.data[Clock]
      /\ InputsOf(model'.data) = [o \in Inputs |-> IF o = n THEN w ELSE m.data[o]]
  <2> DEFINE s == Store(m, n, v)
  <2>1. /\ Formed(s) /\ s.regs = m.regs /\ s.last = m.last
        /\ \A o \in Signals : o # n => s.data[o] = m.data[o]
        /\ InputsOf(s.data) = [o \in Inputs |-> IF o = n THEN w ELSE m.data[o]]
    <3> HIDE DEF s, w
    <3> QED BY <1>1, StoreIs DEF AtRest, s, w
  <2> HIDE DEF s, w
  <2> QED BY <1>1, <2>1 DEF s
<1> HIDE DEF w
<1>3. \A o \in Inputs : m.data[o] = model.data[o]
  BY Zenon DEF InputsOf
<1>4. InputsOf(model'.data) = [InputsOf(model.data) EXCEPT ![n] = w]
  BY <1>2, <1>3 DEF InputsOf
<1>5. ModelKept'
  BY <1>2 DEF EngineInv, ModelKept, Formed, AtRest
<1>6. TimeKept' /\ NamesKept'
  BY DEF EngineInv, TimeKept, NamesKept
<1>7. Contract!Poke(n, v)
  BY <1>2, <1>4 DEF Contract!Poke, InputsOf, w, Done, Contract!Done
<1> QED BY <1>5, <1>6, <1>7 DEF EngineInv

LEMMA PokeIs ==
  ASSUME EngineInv, NEW n, NEW v \in PokeValues, Poke(n, v)
  PROVE  EngineInv' /\ ((n \in Inputs /\ Contract!Poke(n, v)) \/ Contract!Refuse)
<1>1. CASE n \notin Inputs
  <2>1. answer' = Refused /\ Same
    BY <1>1 DEF Poke, Same
  <2> QED BY <2>1, RefusedIs
<1>2. CASE n \in Inputs
  <2>1. /\ model' = Store(model, n, v) /\ dirty' = TRUE /\ answer' = Done
        /\ UNCHANGED <<cycle, time, entries, byName, found, tracing, vcd, traceFile, dumps>>
    BY <1>2 DEF Poke
  <2> QED BY <1>2, <2>1, ModelAtRest, StoredIs
<1> QED BY <1>1, <1>2

LEMMA SettledIs ==
  ASSUME EngineInv
  PROVE  LET m == Settled(model)
         IN  /\ AtRest(m) /\ IsSettled(m) /\ m.regs = model.regs
             /\ InputsOf(m.data) = InputsOf(model.data) /\ m.data[Clock] = model.data[Clock]
<1>1. AtRest(model) /\ (~dirty => IsSettled(model))
  BY ModelAtRest
<1> DEFINE e == Eval(model)
<1> DEFINE rises == model.data[Clock] = 1 /\ model.last = 0
<1>2. /\ Formed(e) /\ IsSettled(e) /\ InputsOf(e.data) = InputsOf(model.data)
      /\ e.data[Clock] = model.data[Clock] /\ e.last = model.data[Clock]
      /\ e.regs = IF rises THEN RegsAfter(model.regs, InputsOf(model.data)) ELSE model.regs
  <2> HIDE DEF e
  <2> QED BY <1>1, EvalIs DEF AtRest, e
<1>3. ~rises
  BY <1>1 DEF AtRest
<1> HIDE DEF e, rises
<1>4. AtRest(e) /\ e.regs = model.regs
  BY <1>1, <1>2, <1>3 DEF AtRest
<1>5. Settled(model) = IF dirty THEN e ELSE model
  BY DEF Settled, e
<1> QED BY <1>1, <1>2, <1>4, <1>5

\* What a read does to the model.
LEMMA SettlingKeeps ==
  ASSUME EngineInv, model' = Settled(model), dirty' = FALSE,
         UNCHANGED <<cycle, time, entries, byName, found, tracing, vcd, traceFile, dumps>>
  PROVE  /\ EngineInv'
         /\ IsSettled(model') /\ model'.regs = model.regs
         /\ InputsOf(model'.data) = InputsOf(model.data)
<1>1. /\ AtRest(model') /\ IsSettled(model') /\ model'.regs = model.regs
      /\ InputsOf(model'.data) = InputsOf(model.data) /\ model'.data[Clock] = model.data[Clock]
  BY SettledIs
<1>2. model.data[Clock] = IF cycle = 0 THEN 0 ELSE 1
  BY DEF EngineInv, ModelKept
<1>3. ModelKept'
  BY <1>1, <1>2 DEF ModelKept, AtRest, Formed, IsSettled, InputsOf
<1>4. TimeKept' /\ NamesKept'
  BY DEF EngineInv, TimeKept, NamesKept
<1> QED BY <1>1, <1>3, <1>4 DEF EngineInv

LEMMA PeekIs ==
  ASSUME EngineInv, NEW id, Peek(id)
  PROVE  EngineInv' /\ ((\E n \in Signals : Contract!Peek(n)) \/ Contract!Refuse)
<1>1. CASE id \notin DOMAIN entries
  <2>1. answer' = Refused /\ Same
    BY <1>1 DEF Peek, Same
  <2> QED BY <2>1, RefusedIs
<1>2. CASE id \in DOMAIN entries
  <2>1. /\ model' = Settled(model) /\ dirty' = FALSE
        /\ answer' = <<model'.data[entries[id]]>>
        /\ UNCHANGED <<cycle, time, entries, byName, found, tracing, vcd, traceFile, dumps>>
    BY <1>2 DEF Peek
  <2>2. entries[id] \in Signals
    BY <1>2 DEF EngineInv, NamesKept
  <2>3. /\ EngineInv' /\ IsSettled(model') /\ model'.regs = model.regs
        /\ InputsOf(model'.data) = InputsOf(model.data)
    BY <2>1, SettlingKeeps
  <2>4. model'.data[Clock] = IF cycle = 0 THEN 0 ELSE 1
    BY <2>1, <2>3 DEF EngineInv, ModelKept
  <2>5. model'.data[entries[id]] = Contract!Read(entries[id], cycle, model'.regs, InputsOf(model'.data))
    BY <2>2, <2>3, <2>4, ReadIs
  <2>6. Contract!Peek(entries[id])
    BY <2>1, <2>3, <2>5 DEF Contract!Peek, Contract!Answers, InputsOf
  <2> QED BY <2>2, <2>3, <2>6
<1> QED BY <1>1, <1>2

LEMMA PeekAndPokeIs ==
  ASSUME EngineInv, NEW n, NEW v \in PokeValues, PeekAndPoke(n, v)
  PROVE  EngineInv' /\ ((n \in Inputs /\ Contract!Poke(n, v)) \/ Contract!Refuse)
<1>1. UNCHANGED <<cycle, time, entries, byName, found, tracing, vcd, traceFile, dumps>>
  BY DEF PeekAndPoke
<1>2. CASE n \notin Inputs
  <2>1. model' = Settled(model) /\ dirty' = FALSE /\ answer' = Refused
    BY <1>2 DEF PeekAndPoke
  <2>2. EngineInv' /\ model'.regs = model.regs /\ InputsOf(model'.data) = InputsOf(model.data)
    BY <1>1, <2>1, SettlingKeeps
  <2>3. Contract!Refuse
    BY <1>1, <2>1, <2>2 DEF InputsOf, Contract!Refuse, Contract!Answers, Refused, Contract!Refused
  <2> QED BY <2>2, <2>3
<1>3. CASE n \in Inputs
  <2> DEFINE m == Settled(model)
  <2>1. model' = Store(m, n, v) /\ dirty' = TRUE /\ answer' = Done
    BY <1>3 DEF PeekAndPoke
  <2>2. /\ AtRest(m) /\ m.regs = model.regs
        /\ InputsOf(m.data) = InputsOf(model.data) /\ m.data[Clock] = model.data[Clock]
    BY SettledIs
  <2> HIDE DEF m
  <2> QED BY <1>1, <1>3, <2>1, <2>2, StoredIs
<1> QED BY <1>2, <1>3

LEMMA LookupIs ==
  ASSUME EngineInv, NEW n, Lookup(n)
  PROVE  EngineInv' /\ Contract!Lookup(n)
<1> DEFINE Known == IF byName'[n] = NoEntry THEN n \notin Signals
                    ELSE byName'[n] \in DOMAIN entries' /\ entries'[byName'[n]] = n
<1>1. /\ entries \in Seq(Signals) /\ Range(PortOrder) \subseteq DOMAIN byName
      /\ \A m \in DOMAIN byName :
           IF byName[m] = NoEntry THEN m \notin Signals
           ELSE byName[m] \in DOMAIN entries /\ entries[byName[m]] = m
  BY DEF EngineInv, NamesKept
<1>2. NamesKept' /\ Known
  <2>1. CASE n \in DOMAIN byName
    <3>1. UNCHANGED <<entries, byName>>
      BY <2>1 DEF Lookup
    <3> QED BY <1>1, <2>1, <3>1 DEF NamesKept
  <2>2. CASE n \notin DOMAIN byName /\ n \in Inner
    <3> DEFINE e == Append(entries, n)
    <3> DEFINE b == [m \in DOMAIN byName \cup {n} |-> IF m = n THEN Len(e) ELSE byName[m]]
    <3>1. entries' = e /\ byName' = b
      BY <2>2 DEF Lookup
    <3>2. n \in Signals
      BY <2>2 DEF Signals
    <3>3. /\ e \in Seq(Signals) /\ Len(e) = Len(entries) + 1 /\ e[Len(e)] = n
          /\ Len(e) \in DOMAIN e /\ Len(e) # NoEntry
          /\ \A i \in DOMAIN entries : i \in DOMAIN e /\ e[i] = entries[i]
      BY <1>1, <3>2 DEF NoEntry
    <3> HIDE DEF e
    <3>4. /\ DOMAIN b = DOMAIN byName \cup {n} /\ b[n] = Len(e)
          /\ \A m \in DOMAIN byName : b[m] = byName[m]
      BY <2>2
    <3> HIDE DEF b
    <3>5. ASSUME NEW m \in DOMAIN b
          PROVE  IF b[m] = NoEntry THEN m \notin Signals
                 ELSE b[m] \in DOMAIN e /\ e[b[m]] = m
      <4>1. CASE m = n
        BY <3>3, <3>4, <4>1
      <4>2. CASE m \in DOMAIN byName
        BY <1>1, <3>3, <3>4, <4>2
      <4> QED BY <3>4, <4>1, <4>2
    <3> QED BY <1>1, <3>1, <3>3, <3>4, <3>5 DEF NamesKept
  <2>3. CASE n \notin DOMAIN byName /\ n \notin Inner
    <3> DEFINE b == [m \in DOMAIN byName \cup {n} |-> IF m = n THEN NoEntry ELSE byName[m]]
    <3>1. entries' = entries /\ byName' = b
      BY <2>3 DEF Lookup
    <3>2. n \notin Signals
      BY <1>1, <2>3 DEF Signals
    <3>3. /\ DOMAIN b = DOMAIN byName \cup {n} /\ b[n] = NoEntry
          /\ \A m \in DOMAIN byName : b[m] = byName[m]
      BY <2>3
    <3> HIDE DEF b
    <3>4. ASSUME NEW m \in DOMAIN b
          PROVE  IF b[m] = NoEntry THEN m \notin Signals
                 ELSE b[m] \in DOMAIN entries /\ entries[b[m]] = m
      <4>1. CASE m = n
        BY <3>2, <3>3, <4>1
      <4>2. CASE m \in DOMAIN byName
        BY <1>1, <3>3, <4>2
      <4> QED BY <3>3, <4>1, <4>2
    <3> QED BY <1>1, <3>1, <3>2, <3>3, <3>4 DEF NamesKept
  <2> QED BY <2>1, <2>2, <2>3
<1>3. /\ found' = IF byName'[n] = NoEntry THEN NoSignal ELSE entries'[byName'[n]]
      /\ answer' = Done
      /\ UNCHANGED <<model, dirty, cycle, time, tracing, vcd, traceFile, dumps>>
  BY DEF Lookup
<1>4. byName'[n] = NoEntry \/ n \in Signals
  <2>1. byName'[n] # NoEntry => entries'[byName'[n]] \in Signals
    BY <1>2 DEF NamesKept
  <2> QED BY <1>2, <2>1
<1>5. found' = IF n \in Signals THEN n ELSE NoSignal
  BY <1>2, <1>3, <1>4
<1>6. Contract!Lookup(n)
  BY <1>3, <1>5 DEF Contract!Lookup, InputsOf, NoSignal, Contract!NoSignal, Done, Contract!Done
<1>7. ModelKept' /\ TimeKept'
  BY <1>3 DEF EngineInv, ModelKept, TimeKept, InputsOf
<1> QED BY <1>2, <1>6, <1>7 DEF EngineInv

LEMMA SetTraceFileIs ==
  ASSUME EngineInv, SetTraceFile
  PROVE  EngineInv' /\ (Contract!SetTraceFile \/ Contract!Refuse)
<1>1. CASE vcd = "open"
  <2>1. answer' = Refused /\ Same
    BY <1>1 DEF SetTraceFile, Same
  <2> QED BY <2>1, RefusedIs
<1>2. CASE vcd # "open"
  <2>1. /\ answer' = Done /\ traceFile' = TRUE
        /\ UNCHANGED <<model, dirty, cycle, time, entries, byName, found, tracing, vcd, dumps>>
    BY <1>2 DEF SetTraceFile
  <2>2. Contract!SetTraceFile
    BY <1>2, <2>1 DEF Contract!SetTraceFile, InputsOf, Done, Contract!Done
  <2>3. ModelKept' /\ TimeKept' /\ NamesKept'
    BY <2>1 DEF EngineInv, ModelKept, TimeKept, NamesKept, InputsOf
  <2> QED BY <2>2, <2>3 DEF EngineInv
<1> QED BY <1>1, <1>2

LEMMA TraceOnIs ==
  ASSUME EngineInv, TraceOn
  PROVE  EngineInv' /\ (Contract!Trace(TRUE) \/ Contract!Refuse)
<1>1. CASE vcd # "open" /\ answer' = Refused /\ UNCHANGED <<vcd, tracing>>
  <2>1. Same
    BY <1>1 DEF TraceOn, Same
  <2> QED BY <1>1, <2>1, RefusedIs
<1>2. CASE /\ vcd = "open" \/ traceFile
           /\ vcd' = "open" /\ tracing' = TRUE /\ answer' = Done
  <2>1. UNCHANGED <<model, dirty, cycle, time, entries, byName, found, traceFile, dumps>>
    BY DEF TraceOn
  <2>2. traceFile
    BY <1>2 DEF EngineInv, TimeKept
  <2>3. Contract!Trace(TRUE)
    BY <1>2, <2>1, <2>2 DEF Contract!Trace, InputsOf, Done, Contract!Done
  <2>4. ModelKept' /\ TimeKept' /\ NamesKept'
    BY <1>2, <2>1, <2>2 DEF EngineInv, ModelKept, TimeKept, NamesKept, InputsOf
  <2> QED BY <2>3, <2>4 DEF EngineInv
<1> QED BY <1>1, <1>2 DEF TraceOn

LEMMA TraceOffIs ==
  ASSUME EngineInv, TraceOff
  PROVE  EngineInv' /\ Contract!Trace(FALSE)
<1>1. /\ tracing' = FALSE /\ answer' = Done
      /\ UNCHANGED <<model, dirty, cycle, time, entries, byName, found, vcd, traceFile, dumps>>
  BY DEF TraceOff
<1>2. Contract!Trace(FALSE)
  BY <1>1 DEF Contract!Trace, InputsOf, Done, Contract!Done
<1>3. ModelKept' /\ TimeKept' /\ NamesKept'
  BY <1>1 DEF EngineInv, ModelKept, TimeKept, NamesKept, InputsOf
<1> QED BY <1>2, <1>3 DEF EngineInv

LEMMA EngineStarts == EngineInit => EngineInv /\ Contract!Init
<1> SUFFICES ASSUME EngineInit PROVE EngineInv /\ Contract!Init
  OBVIOUS
<1>1. PICK r \in RegsInits : model = Eval([data |-> [n \in Signals |-> 0], regs |-> r, last |-> 0])
  BY DEF EngineInit
<1> DEFINE m == [data |-> [n \in Signals |-> 0], regs |-> r, last |-> 0]
<1>2. Formed(m) /\ m.data[Clock] = 0 /\ m.last = 0 /\ m.regs = r /\ InputsOf(m.data) = [n \in Inputs |-> 0]
  BY Ports DEF Formed, InputsOf
<1> HIDE DEF m
<1>3. /\ Formed(model) /\ IsSettled(model) /\ model.data[Clock] = 0 /\ model.last = 0
      /\ model.regs = r /\ InputsOf(model.data) = [n \in Inputs |-> 0]
  <2> DEFINE e == Eval(m)
  <2>1. /\ Formed(e) /\ IsSettled(e) /\ InputsOf(e.data) = InputsOf(m.data)
        /\ e.data[Clock] = m.data[Clock] /\ e.last = m.data[Clock]
        /\ e.regs = IF m.data[Clock] = 1 /\ m.last = 0 THEN RegsAfter(m.regs, InputsOf(m.data)) ELSE m.regs
    <3> HIDE DEF e
    <3> QED BY <1>2, EvalIs DEF e
  <2> HIDE DEF e
  <2>2. model = e
    BY <1>1 DEF m, e
  <2> QED BY <1>2, <2>1, <2>2
<1>4. /\ dirty = FALSE /\ cycle = 0 /\ time = 0 /\ entries = PortOrder
      /\ byName = [n \in Range(PortOrder) |-> CHOOSE i \in DOMAIN PortOrder : PortOrder[i] = n]
      /\ tracing = FALSE /\ vcd = "none" /\ traceFile = FALSE /\ dumps = <<>>
      /\ answer = Done /\ found = NoSignal
  BY DEF EngineInit
<1>5. ModelKept
  BY <1>3, <1>4 DEF ModelKept, Formed, IsSettled
<1>6. TimeKept
  <2>1. dumps \in Seq({})
    BY <1>4, EmptySeq
  <2>2. dirty \in BOOLEAN /\ tracing \in BOOLEAN /\ traceFile \in BOOLEAN /\ ~tracing
    BY <1>4
  <2>3. cycle \in Nat /\ time = 10 * cycle /\ vcd \in {"none", "open"} /\ vcd # "open"
    BY <1>4
  <2> QED BY <2>1, <2>2, <2>3 DEF TimeKept
<1>7. NamesKept
  <2>1. entries \in Seq(Signals)
    BY <1>4, Ports, SeqMonotonic
  <2>2. ASSUME NEW n \in Range(PortOrder)
        PROVE  byName[n] \in DOMAIN entries /\ entries[byName[n]] = n /\ byName[n] # NoEntry
    <3>1. \E i \in DOMAIN PortOrder : PortOrder[i] = n
      BY DEF Range
    <3>2. byName[n] = CHOOSE i \in DOMAIN PortOrder : PortOrder[i] = n
      BY <1>4
    <3>3. byName[n] \in DOMAIN PortOrder /\ PortOrder[byName[n]] = n
      BY <3>1, <3>2, Zenon
    <3>4. 0 \notin DOMAIN PortOrder
      BY Ports
    <3> QED BY <1>4, <3>3, <3>4 DEF NoEntry
  <2>3. DOMAIN byName = Range(PortOrder)
    BY <1>4
  <2> QED BY <2>1, <2>2, <2>3 DEF NamesKept
<1>8. Contract!Init
  BY <1>3, <1>4 DEF Contract!Init, Done, Contract!Done, NoSignal, Contract!NoSignal
<1> QED BY <1>5, <1>6, <1>7, <1>8 DEF EngineInv

LEMMA EngineCallIs ==
  EngineInv /\ [EngineNext]_engineVars => EngineInv' /\ [Contract!Next]_(Contract!vars)
<1> SUFFICES ASSUME EngineInv, [EngineNext]_engineVars
             PROVE  EngineInv' /\ (Contract!Next \/ UNCHANGED Contract!vars)
  OBVIOUS
<1>1. ASSUME NEW k \in Amounts, Step(k) PROVE EngineInv' /\ Contract!Next
  <2>1. k \in Nat
    BY EngineAssumption
  <2> QED BY <1>1, <2>1, StepIs DEF Contract!Next
<1>2. ASSUME NEW k \in Amounts, NEW ids \in WatchLists, StepCapture(k, ids)
      PROVE  EngineInv' /\ Contract!Next
  <2>1. k \in Nat
    BY EngineAssumption
  <2> QED BY <1>2, <2>1, CaptureIs DEF Contract!Next
<1>3. ASSUME NEW n \in Range(PortOrder), NEW v \in PokeValues, Poke(n, v) PROVE EngineInv' /\ Contract!Next
  BY <1>3, PokeIs DEF Contract!Next
<1>4. ASSUME NEW n \in Range(PortOrder), NEW v \in PokeValues, PeekAndPoke(n, v)
       PROVE  EngineInv' /\ Contract!Next
  BY <1>4, PeekAndPokeIs DEF Contract!Next
<1>5. ASSUME NEW id \in 1..Len(entries) + 1, Peek(id) PROVE EngineInv' /\ Contract!Next
  BY <1>5, PeekIs DEF Contract!Next
<1>6. ASSUME NEW n \in Names, Lookup(n) PROVE EngineInv' /\ Contract!Next
  BY <1>6, LookupIs DEF Contract!Next
<1>7. ASSUME SetTraceFile PROVE EngineInv' /\ Contract!Next
  BY <1>7, SetTraceFileIs DEF Contract!Next
<1>8. ASSUME TraceOn PROVE EngineInv' /\ Contract!Next
  BY <1>8, TraceOnIs DEF Contract!Next
<1>9. ASSUME TraceOff PROVE EngineInv' /\ Contract!Next
  BY <1>9, TraceOffIs DEF Contract!Next
<1>10. ASSUME UNCHANGED engineVars PROVE EngineInv' /\ UNCHANGED Contract!vars
  <2>1. Same
    BY <1>10 DEF engineVars, Same
  <2> QED BY <1>10, <2>1, SameInv DEF engineVars, Contract!vars, InputsOf
<1> QED BY <1>1, <1>2, <1>3, <1>4, <1>5, <1>6, <1>7, <1>8, <1>9, <1>10
    DEF EngineNext

\* For every design, list of ports and order of calls, the engine keeps the
\* contract of SimEngine.h: dirt, evaluation and the tables of names are never
\* seen (EngineImplements).
THEOREM EngineKeepsItsContract == EngineSpec => EngineImplements
<1>1. EngineInit => EngineInv /\ Contract!Init
  BY EngineStarts
<1>2. EngineInv /\ [EngineNext]_engineVars => EngineInv' /\ [Contract!Next]_(Contract!vars)
  BY EngineCallIs
<1> QED BY <1>1, <1>2, PTL DEF EngineSpec, EngineImplements, Contract!Spec

=============================================================================
