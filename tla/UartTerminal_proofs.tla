-------------------------- MODULE UartTerminal_proofs --------------------------
(***************************************************************************)
(* Proofs about UartTerminal.                                              *)
(* The queue: the adapter keeps a list of its own of the frames that are   *)
(* on the line, cleans it up at other moments than those at which it adds  *)
(* to it, and decides by its length what may be typed.                     *)
(* The rows: bytes, errors, scripted sends and notices are collected apart *)
(* and merged when a refresh comes; what is shown is the same whenever it  *)
(* comes. Every loop over a sequence is a fold, and every operation on the *)
(* rows is shown to commute with trimming them; one thing more that waits  *)
(* is then one thing more at the end of what a publication shows.          *)
(***************************************************************************)
EXTENDS UartTerminal, FiniteSetTheorems, SequenceTheorems, WellFoundedInduction, TLAPS

-----------------------------------------------------------------------------
(* The terminal's queue. *)

USE TerminalAssumption

LEMMA LeastNumber ==
  ASSUME NEW S \in SUBSET Nat, S # {}
  PROVE  \E m \in S : \A k \in S : m <= k
<1> DEFINE R == {ss \in Nat \X Nat : ss[1] < ss[2]}
<1>1. IsWellFoundedOn(R, Nat)
  BY NatLessThanWellFounded, Zenon DEF OpToRel
<1>2. PICK m \in S : \A k \in S : ~(<<k, m>> \in R)
  <2> HIDE DEF R
  <2> QED BY <1>1, WFMin, Zenon
<1>3. ASSUME NEW k \in S PROVE m <= k
  <2>1. k \in Nat /\ m \in Nat
    OBVIOUS
  <2>2. k < m => <<k, m>> \in R
    BY <2>1
  <2>3. ~(<<k, m>> \in R)
    BY <1>2
  <2>4. ~(k < m)
    <3> HIDE DEF R
    <3> QED BY <2>2, <2>3
  <2> QED BY <2>1, <2>4
<1> QED BY <1>3, Zenon

-----------------------------------------------------------------------------
(* What is pending. *)

LEMMA SlotFacts ==
  ASSUME SlotsTyped
  PROVE  /\ now \in Nat /\ Len(slots) \in Nat /\ DOMAIN slots = 1..Len(slots)
         /\ \A k \in 1..Len(slots) :
              /\ slots[k].start \in Nat /\ slots[k].at \in Nat /\ slots[k].typed \in BOOLEAN
              /\ slots[k].at <= now
<1>1. now \in Nat /\ Len(slots) \in Nat /\ DOMAIN slots = 1..Len(slots)
  BY DEF SlotsTyped
<1> DEFINE T == [start : Nat, at : Nat, typed : BOOLEAN]
<1>2. \A k \in 1..Len(slots) : slots[k] \in T
  <2>1. slots \in Seq(T)
    BY DEF SlotsTyped
  <2> HIDE DEF T
  <2> QED BY <2>1
<1>3. \A k \in 1..Len(slots) : slots[k].at <= now
  BY <1>1, Zenon DEF SlotsTyped
<1> QED BY <1>1, <1>2, <1>3

\* Frames end in the order in which they were scheduled.
LEMMA FinishedFirst ==
  ASSUME SlotsTyped, FramesApart
  PROVE  \E d \in 0..Len(slots) : \A k \in DOMAIN slots : Over(k) <=> k <= d
<1> DEFINE n == Len(slots)
           S == {k \in 0..n : k = n \/ ~Over(k + 1)}
<1>1. n \in Nat /\ DOMAIN slots = 1..n
  BY SlotFacts
<1> HIDE DEF n
<1>2. n \in S /\ S \in SUBSET Nat
  BY <1>1
<1>3. PICK m \in S : \A k \in S : m <= k
  <2> HIDE DEF S
  <2> QED BY <1>2, LeastNumber, Zenon
<1>4. m \in 0..n /\ (m = n \/ ~Over(m + 1))
  BY <1>3
<1>5. ASSUME NEW k \in 1..n, k <= m PROVE Over(k)
  <2>1. k - 1 \in 0..n /\ ~(m <= k - 1) /\ (k - 1) + 1 = k /\ k - 1 # n
    BY <1>1, <1>4, <1>5
  <2>2. k - 1 \notin S
    BY <1>3, <2>1
  <2> QED BY <2>1, <2>2
<1>6. ASSUME NEW k \in 1..n, m < k PROVE ~Over(k)
  <2>1. m + 1 \in 1..n /\ m # n
    BY <1>1, <1>4, <1>6
  <2>2. ~Over(m + 1)
    BY <1>4, <2>1, Zenon
  <2>3. slots[m + 1].start \in Nat /\ slots[k].start \in Nat /\ now \in Nat
    BY <2>1, SlotFacts, Zenon DEF n
  <2>4. CASE k = m + 1
    BY <2>2, <2>4
  <2>5. CASE m + 1 < k
    <3>1. slots[m + 1].start + Frame <= slots[k].start
      BY <1>1, <2>1, <2>5 DEF FramesApart
    <3> QED BY <2>2, <2>3, <3>1 DEF Over
  <2> QED BY <1>4, <1>6, <2>4, <2>5
<1>7. \A k \in 1..n : Over(k) <=> k <= m
  BY <1>4, <1>5, <1>6
<1> QED BY <1>1, <1>4, <1>7, Zenon DEF n

\* Popping the front while it is over leaves what is not.
LEMMA StillQueuedIs ==
  ASSUME SlotsTyped, EndsAreTail, NEW d \in 0..Len(slots),
         \A k \in DOMAIN slots : Over(k) <=> k <= d
  PROVE  StillQueued = EndsAfter(d)
<1> USE SlotFacts
<1>1. PICK e \in 0..Len(slots) :
        /\ \A k \in 1..e : Over(k)
        /\ frameEnds = [i \in 1..(Len(slots) - e) |-> slots[e + i].start + Frame]
  BY DEF EndsAreTail, EndsAfter
<1>2. e <= d
  <2>1. SUFFICES ASSUME e # 0 PROVE e <= d
    BY <2>1
  <2>2. e \in DOMAIN slots /\ Over(e)
    BY <1>1, <2>1
  <2> QED BY <2>2
<1>3. Len(frameEnds) = Len(slots) - e
  BY <1>1
<1>4. ASSUME NEW i \in 1..Len(frameEnds) PROVE frameEnds[i] <= now <=> i <= d - e
  <2>1. e + i \in DOMAIN slots /\ i \in 1..(Len(slots) - e)
    BY <1>3
  <2>2. frameEnds[i] = slots[e + i].start + Frame
    BY <1>1, <2>1
  <2>3. frameEnds[i] <= now <=> Over(e + i)
    BY <2>2 DEF Over
  <2>4. Over(e + i) <=> e + i <= d
    BY <2>1
  <2> QED BY <2>3, <2>4
<1> DEFINE Right(k) == /\ \A i \in 1..k : frameEnds[i] <= now
                       /\ k < Len(frameEnds) => frameEnds[k + 1] > now
<1>5. ASSUME NEW i \in 1..Len(frameEnds) PROVE frameEnds[i] \in Nat
  <2>1. e + i \in 1..Len(slots) /\ i \in 1..(Len(slots) - e)
    BY <1>3
  <2>2. frameEnds[i] = slots[e + i].start + Frame
    BY <1>1, <2>1
  <2>3. slots[e + i].start \in Nat
    BY <2>1
  <2> QED BY <2>2, <2>3
<1>6. d - e \in 0..Len(frameEnds) /\ Right(d - e)
  <2>1. d - e \in 0..Len(frameEnds)
    BY <1>2, <1>3
  <2>2. \A i \in 1..(d - e) : frameEnds[i] <= now
    BY <1>4, <2>1
  <2>3. d - e < Len(frameEnds) => frameEnds[(d - e) + 1] > now
    BY <1>4, <1>5, <2>1
  <2> QED BY <2>1, <2>2, <2>3
<1>7. ASSUME NEW k \in 0..Len(frameEnds), Right(k) PROVE k = d - e
  <2>1. d - e < k => FALSE
    <3>1. SUFFICES ASSUME d - e < k PROVE FALSE
      BY <3>1
    <3>2. k \in 1..Len(frameEnds) /\ k \in 1..k
      BY <1>2, <3>1
    <3> QED BY <1>4, <1>7, <3>1, <3>2
  <2>2. k < d - e => FALSE
    <3>1. SUFFICES ASSUME k < d - e PROVE FALSE
      BY <3>1
    <3>2. k + 1 \in 1..Len(frameEnds) /\ k < Len(frameEnds) /\ k + 1 <= d - e
      BY <1>3, <3>1
    <3>3. frameEnds[k + 1] <= now
      BY <1>4, <3>2
    <3>4. frameEnds[k + 1] > now
      BY <1>7, <3>2
    <3> QED BY <1>5, <3>2, <3>3, <3>4
  <2> QED BY <2>1, <2>2
<1>8. Popped = d - e
  <2>1. Popped = CHOOSE k \in 0..Len(frameEnds) : Right(k)
    BY DEF Popped
  <2> HIDE DEF Right
  <2> QED BY <1>6, <1>7, <2>1
<1>9. StillQueued = SubSeq(frameEnds, (d - e) + 1, Len(frameEnds))
  BY <1>8 DEF StillQueued
<1> DEFINE a == (d - e) + 1
           left == SubSeq(frameEnds, a, Len(frameEnds))
<1>10. a \in Int /\ Len(frameEnds) \in Int /\ \A i \in a..Len(frameEnds) : frameEnds[i] \in Nat
  BY <1>2, <1>3, <1>5
<1>11. /\ left \in Seq(Nat)
       /\ Len(left) = IF a <= Len(frameEnds) THEN Len(frameEnds) - a + 1 ELSE 0
       /\ \A i \in 1..(Len(frameEnds) - a + 1) : left[i] = frameEnds[a + i - 1]
  <2> HIDE DEF a
  <2> QED BY <1>10, SubSeqProperties
<1>12. Len(left) = Len(slots) - d
  BY <1>2, <1>3, <1>11
<1>13. ASSUME NEW i \in 1..(Len(slots) - d) PROVE left[i] = slots[d + i].start + Frame
  <2>1. i \in 1..(Len(frameEnds) - a + 1) /\ a + i - 1 = (d - e) + i
    BY <1>2, <1>3
  <2>2. (d - e) + i \in 1..(Len(slots) - e) /\ e + ((d - e) + i) = d + i
    BY <1>2
  <2>3. left[i] = frameEnds[(d - e) + i]
    BY <1>11, <2>1
  <2> QED BY <1>1, <2>2, <2>3
<1> HIDE DEF left
<1>14. left = [i \in 1..Len(left) |-> left[i]]
  <2>1. left \in Seq(Nat)
    BY <1>11
  <2> QED BY <2>1
<1>15. left = [i \in 1..(Len(slots) - d) |-> slots[d + i].start + Frame]
  BY <1>12, <1>13, <1>14, Zenon
<1> QED BY <1>9, <1>15 DEF left, EndsAfter

LEMMA PendingFollows == PendingInv => PendingIsExact
<1> SUFFICES ASSUME PendingInv PROVE PendingIsExact
  OBVIOUS
<1>1. PICK d \in 0..Len(slots) : \A k \in DOMAIN slots : Over(k) <=> k <= d
  BY FinishedFirst DEF PendingInv
<1>2. StillQueued = EndsAfter(d)
  BY <1>1, StillQueuedIs DEF PendingInv
<1> QED BY <1>1, <1>2 DEF PendingIsExact

-----------------------------------------------------------------------------
(* The steps. *)

\* The queue is cleaned up, or left alone.
LEMMA QuietStep ==
  ASSUME PendingInv, now' = now, slots' = slots,
         frameEnds' = frameEnds \/ frameEnds' = StillQueued
  PROVE  PendingInv'
<1>1. SlotsTyped' /\ FramesApart' /\ TypedFits'
  BY DEF PendingInv, SlotsTyped, FramesApart, TypedFits
<1>2. EndsAreTail'
  <2>1. CASE frameEnds' = frameEnds
    BY <2>1 DEF PendingInv, EndsAreTail, EndsAfter, Over
  <2>2. CASE frameEnds' = StillQueued
    <3>1. PICK d \in 0..Len(slots) :
            (\A k \in DOMAIN slots : Over(k) <=> k <= d) /\ StillQueued = EndsAfter(d)
      BY PendingFollows DEF PendingIsExact
    <3>2. \A k \in 1..d : Over(k)
      BY <3>1, SlotFacts DEF PendingInv
    <3>3. (\A k \in 1..d : Over(k)') /\ EndsAfter(d)' = EndsAfter(d)
      BY <3>2 DEF Over, EndsAfter
    <3> QED BY <2>2, <3>1, <3>3 DEF EndsAreTail
  <2> QED BY <2>1, <2>2
<1> QED BY <1>1, <1>2 DEF PendingInv

\* Time passes: what was over is over.
LEMMA ElapseStep ==
  ASSUME PendingInv, now' = now + 1, slots' = slots, frameEnds' = frameEnds
  PROVE  PendingInv'
<1>1. SlotsTyped /\ SlotsTyped'
  <2>1. now' \in Nat /\ \A k \in DOMAIN slots : slots[k].at <= now'
    BY SlotFacts DEF PendingInv
  <2> QED BY <2>1 DEF PendingInv, SlotsTyped
<1>2. FramesApart' /\ TypedFits'
  BY DEF PendingInv, FramesApart, TypedFits
<1>3. PICK d \in 0..Len(slots) : (\A k \in 1..d : Over(k)) /\ frameEnds = EndsAfter(d)
  BY DEF PendingInv, EndsAreTail
<1>4. ASSUME NEW k \in 1..d PROVE Over(k)'
  <2>1. slots[k].start \in Nat /\ now \in Nat
    BY <1>1, SlotFacts
  <2> QED BY <1>3, <2>1 DEF Over
<1>5. EndsAreTail'
  BY <1>3, <1>4 DEF EndsAreTail, EndsAfter
<1> QED BY <1>1, <1>2, <1>5 DEF PendingInv

LEMMA FramesFollow ==
  /\ \A i \in Nat \ {0} : (i - 1) * Frame \in Nat
  /\ \A i, j \in Nat \ {0} : i < j => (i - 1) * Frame + Frame <= (j - 1) * Frame
<1>1. ASSUME NEW i \in Nat PROVE i * Frame \in Nat
  OBVIOUS
<1>2. ASSUME NEW i \in Nat, NEW j \in Nat, i < j PROVE i * Frame + Frame <= j * Frame
  <2>1. j * Frame = i * Frame + Frame + (j - i - 1) * Frame
    OBVIOUS
  <2>2. j - i - 1 \in Nat
    BY <1>2
  <2>3. (j - i - 1) * Frame \in Nat /\ i * Frame \in Nat
    BY <1>1, <2>2
  <2> QED BY <2>1, <2>3
<1>3. \A i \in Nat \ {0} : i - 1 \in Nat
  OBVIOUS
<1> QED BY <1>1, <1>2, <1>3

\* A new frame begins neither in the past nor inside another.
LEMMA FirstStartIs ==
  ASSUME SlotsTyped, FramesApart
  PROVE  /\ FirstStart \in Nat /\ now <= FirstStart
         /\ \A k \in 1..Len(slots) : slots[k].start + Frame <= FirstStart
<1>1. CASE slots = <<>>
  BY <1>1, SlotFacts DEF FirstStart, LineFree
<1>2. CASE slots # <<>>
  <2> DEFINE n == Len(slots)
  <2>1. n \in Nat \ {0} /\ Last(slots) = slots[n]
    BY <1>2, SlotFacts DEF Last, SlotsTyped
  <2>2. slots[n].start \in Nat /\ now \in Nat /\ LineFree = slots[n].start + Frame
    BY <1>2, <2>1, SlotFacts DEF LineFree
  <2>3. FirstStart \in Nat /\ now <= FirstStart /\ slots[n].start + Frame <= FirstStart
    BY <2>2 DEF FirstStart
  <2>4. ASSUME NEW k \in 1..n PROVE slots[k].start + Frame <= FirstStart
    <3>1. slots[k].start \in Nat
      BY SlotFacts
    <3>2. k < n => slots[k].start + Frame <= slots[n].start
      BY <2>1, SlotFacts DEF FramesApart
    <3> QED BY <2>1, <2>2, <2>3, <3>1, <3>2
  <2> QED BY <2>3, <2>4
<1> QED BY <1>1, <1>2

\* A text is queued behind all frames; d of them are known to be over.
LEMMA SendStep ==
  ASSUME PendingInv, NEW text \in Texts, NEW typed \in BOOLEAN,
         now' = now, Queue(text, typed),
         NEW d \in 0..Len(slots), \A k \in 1..d : Over(k),
         frameEnds' = EndsAfter(d) \o NewEnds(text),
         typed => Len(text) + (Len(slots) - d) <= Pending
  PROVE  PendingInv'
<1> DEFINE n == Len(slots)
           m == Len(text)
           Start(i) == FirstStart + (i - 1) * Frame
           Sent(i) == [start |-> Start(i), at |-> now, typed |-> typed]
           T == [start : Nat, at : Nat, typed : BOOLEAN]
<1>1. m \in Nat \ {0} /\ DOMAIN text = 1..m
  <2>1. text \in Seq(Range(text)) /\ text # <<>>
    OBVIOUS
  <2> QED BY <2>1
<1>2. SlotsTyped /\ FramesApart /\ n \in Nat /\ now \in Nat /\ slots \in Seq(T)
  BY SlotFacts DEF PendingInv, SlotsTyped
<1>3. \A i \in 1..m : Start(i) \in Nat /\ now <= Start(i) /\ FirstStart <= Start(i)
  <2> TAKE i \in 1..m
  <2>1. FirstStart \in Nat /\ now <= FirstStart
    BY <1>2, FirstStartIs
  <2>2. i \in Nat \ {0}
    BY <1>1
  <2>3. (i - 1) * Frame \in Nat
    BY <2>2, FramesFollow
  <2> DEFINE offset == (i - 1) * Frame
  <2>4. Start(i) = FirstStart + offset /\ offset \in Nat
    BY <2>3
  <2> HIDE DEF Start, offset
  <2> QED BY <1>2, <2>1, <2>4
<1>4. \A i, j \in 1..m : i < j => Start(i) + Frame <= Start(j)
  <2> SUFFICES ASSUME NEW i \in 1..m, NEW j \in 1..m, i < j PROVE Start(i) + Frame <= Start(j)
    OBVIOUS
  <2>1. (i - 1) * Frame + Frame <= (j - 1) * Frame
    BY FramesFollow
  <2>2. (i - 1) * Frame \in Nat /\ (j - 1) * Frame \in Nat /\ FirstStart \in Nat
    BY <1>2, FirstStartIs, FramesFollow
  <2> QED BY <2>1, <2>2
<1>5. slots' = slots \o [i \in 1..m |-> Sent(i)]
  <2>1. [i \in DOMAIN text |-> [start |-> Starts(text)[i].cycle, at |-> now, typed |-> typed]]
          = [i \in 1..m |-> Sent(i)]
    BY <1>1 DEF Starts
  <2> QED BY <2>1 DEF Queue
<1>6. NewEnds(text) = [i \in 1..m |-> Start(i) + Frame]
  BY <1>1 DEF NewEnds, Starts
<1>7. \A i \in 1..m : Sent(i) \in T
  BY <1>2, <1>3
<1> HIDE DEF Start, T
<1>8. /\ slots' \in Seq(T) /\ Len(slots') = n + m
      /\ \A k \in 1..n : slots'[k] = slots[k]
      /\ \A i \in 1..m : slots'[n + i] = Sent(i)
  <2> HIDE DEF Sent
  <2>1. [i \in 1..m |-> Sent(i)] \in Seq(T) /\ Len([i \in 1..m |-> Sent(i)]) = m
    BY <1>1, <1>7
  <2> QED BY <1>1, <1>2, <1>5, <2>1
<1>9. ASSUME NEW k \in 1..(n + m)
      PROVE  k \in 1..n \/ \E i \in 1..m : k = n + i
  <2>1. CASE k <= n
    BY <1>2, <2>1
  <2>2. CASE k > n
    <3>1. k - n \in 1..m /\ k = n + (k - n)
      BY <1>1, <1>2, <2>2
    <3> QED BY <3>1
  <2> QED BY <1>1, <1>2, <2>1, <2>2
<1>10. DOMAIN slots' = 1..(n + m)
  BY <1>8
<1>11. ASSUME NEW i \in 1..m
       PROVE  slots'[n + i].start = Start(i) /\ slots'[n + i].at = now /\ slots'[n + i].typed = typed
  <2>1. slots'[n + i] = [start |-> Start(i), at |-> now, typed |-> typed]
    BY <1>8
  <2> QED BY <2>1
<1>12. SlotsTyped'
  <2>1. ASSUME NEW k \in 1..(n + m) PROVE slots'[k].at <= now
    <3>1. CASE k \in 1..n
      BY <1>2, <1>8, <3>1, SlotFacts
    <3>2. ASSUME NEW i \in 1..m, k = n + i PROVE slots'[k].at <= now
      <4>1. slots'[n + i].at = now
        BY <1>11
      <4> QED BY <1>2, <3>2, <4>1
    <3> QED BY <1>9, <3>1, <3>2
  <2> QED BY <1>2, <1>8, <1>10, <2>1 DEF SlotsTyped, T
<1>13. FramesApart'
  <2> SUFFICES ASSUME NEW k \in 1..(n + m), NEW l \in 1..(n + m), k < l
               PROVE  slots'[k].start + Frame <= slots'[l].start
    BY <1>10 DEF FramesApart
  <2>1. CASE l \in 1..n
    <3>1. k \in 1..n
      BY <1>2, <2>1
    <3>2. slots[k].start + Frame <= slots[l].start
      BY <1>2, <2>1, <3>1, SlotFacts DEF FramesApart
    <3> QED BY <1>8, <2>1, <3>1, <3>2
  <2>2. ASSUME NEW j \in 1..m, l = n + j, k \in 1..n
        PROVE  slots'[k].start + Frame <= slots'[l].start
    <3>1. slots[k].start + Frame <= FirstStart /\ FirstStart \in Nat /\ slots[k].start \in Nat
      BY <1>2, <2>2, FirstStartIs, SlotFacts
    <3>2. slots'[l].start = Start(j) /\ slots'[k] = slots[k]
      BY <1>8, <1>11, <2>2
    <3> QED BY <1>3, <3>1, <3>2
  <2>3. ASSUME NEW j \in 1..m, l = n + j, NEW i \in 1..m, k = n + i
        PROVE  slots'[k].start + Frame <= slots'[l].start
    <3>1. i < j
      BY <1>2, <2>3
    <3>2. slots'[l].start = Start(j) /\ slots'[k].start = Start(i)
      BY <1>11, <2>3
    <3> QED BY <1>4, <3>1, <3>2
  <2> QED BY <1>9, <2>1, <2>2, <2>3
<1>14. EndsAreTail'
  <2>1. d \in 0..Len(slots') /\ \A k \in 1..d : k \in 1..n
    BY <1>1, <1>2, <1>8
  <2>2. \A k \in 1..d : Over(k)'
    BY <1>8, <2>1 DEF Over
  <2>3. EndsAfter(d)' = [i \in 1..((n + m) - d) |-> slots'[d + i].start + Frame]
    BY <1>8 DEF EndsAfter
  <2>4. ASSUME NEW i \in 1..(n - d) PROVE slots'[d + i].start = slots[d + i].start
    BY <1>2, <1>8
  <2>5. ASSUME NEW i \in 1..m PROVE slots'[n + i].start = Start(i)
    BY <1>11
  <2>6. EndsAfter(d) \o NewEnds(text) = EndsAfter(d)'
    <3> DEFINE f == EndsAfter(d)
               g == NewEnds(text)
               h == EndsAfter(d)'
    <3>1. f = [i \in 1..(n - d) |-> slots[d + i].start + Frame] /\ n - d \in Nat
      BY <1>2 DEF EndsAfter
    <3>2. ASSUME NEW i \in 1..(n - d) PROVE f[i] = h[i]
      <4>1. i \in 1..((n + m) - d)
        BY <1>1, <1>2
      <4>2. h[i] = slots'[d + i].start + Frame
        BY <2>3, <4>1
      <4> QED BY <2>4, <3>1, <4>2
    <3>3. \A i \in 1..m : (n - d) + i \in 1..((n + m) - d) /\ d + ((n - d) + i) = n + i
      BY <1>2
    <3>4. \A i \in 1..m : g[i] = h[(n - d) + i]
      BY <1>6, <2>3, <2>5, <3>3
    <3>5. f \in Seq(Int) /\ Len(f) = n - d
      <4>1. \A i \in 1..(n - d) : d + i \in 1..n
        BY <1>2
      <4>2. \A i \in 1..(n - d) : slots[d + i].start + Frame \in Int
        BY <1>2, <4>1, SlotFacts
      <4>3. f = [i \in 1..(n - d) |-> f[i]] /\ \A i \in 1..(n - d) : f[i] \in Int
        BY <3>1, <4>2
      <4> DEFINE e == n - d
      <4>4. e \in Nat /\ f = [i \in 1..e |-> f[i]] /\ \A i \in 1..e : f[i] \in Int
        BY <3>1, <4>3
      <4> HIDE DEF e, f
      <4>5. f \in [1..e -> Int]
        BY <4>4
      <4>6. f \in Seq(Int) /\ Len(f) = e
        BY <4>4, <4>5
      <4> QED BY <4>6 DEF e
    <3>6. g \in Seq(Int) /\ Len(g) = m
      BY <1>1, <1>3, <1>6
    <3>7. h = [i \in 1..((n - d) + m) |-> h[i]]
      <4>1. (n - d) + m = (n + m) - d
        BY <1>1, <1>2
      <4> QED BY <2>3, <4>1
    <3> HIDE DEF f, g, h
    <3>8. /\ f \o g \in Seq(Int) /\ Len(f \o g) = (n - d) + m
          /\ \A i \in 1..((n - d) + m) : (f \o g)[i] = IF i <= n - d THEN f[i] ELSE g[i - (n - d)]
      <4>1. /\ f \o g \in Seq(Int) /\ Len(f \o g) = Len(f) + Len(g)
            /\ \A i \in 1..(Len(f) + Len(g)) : (f \o g)[i] = IF i <= Len(f) THEN f[i] ELSE g[i - Len(f)]
        BY <3>5, <3>6, ConcatProperties, ZenonT(40)
      <4> QED BY <3>5, <3>6, <4>1, Zenon
    <3>9. ASSUME NEW i \in 1..((n - d) + m) PROVE (f \o g)[i] = h[i]
      <4>1. CASE i <= n - d
        BY <1>2, <3>2, <3>8, <4>1
      <4>2. CASE ~(i <= n - d)
        <5>1. i - (n - d) \in 1..m /\ (n - d) + (i - (n - d)) = i
          BY <1>1, <1>2, <4>2
        <5> QED BY <3>4, <3>8, <4>2, <5>1
      <4> QED BY <4>1, <4>2
    <3>10. f \o g = [i \in 1..((n - d) + m) |-> (f \o g)[i]]
      <4> DEFINE fg == f \o g
      <4>1. fg \in Seq(Int) /\ Len(fg) = (n - d) + m
        BY <3>8
      <4> HIDE DEF fg
      <4>2. fg = [i \in 1..Len(fg) |-> fg[i]]
        BY <4>1
      <4>3. fg = [i \in 1..((n - d) + m) |-> fg[i]]
        BY <4>1, <4>2, Zenon
      <4> QED BY <4>3 DEF fg
    <3>11. f \o g = h
      BY <3>7, <3>9, <3>10, Zenon
    <3> QED BY <3>11 DEF f, g, h
  <2> QED BY <2>1, <2>2, <2>6 DEF EndsAreTail
<1>15. TypedFits'
  <2> SUFFICES ASSUME NEW k \in 1..(n + m), slots'[k].typed
               PROVE  Cardinality({i \in 1..k : slots'[i].start + Frame > slots'[k].at}) <= Pending
    BY <1>10 DEF TypedFits
  <2>1. CASE k \in 1..n
    <3>1. {i \in 1..k : slots'[i].start + Frame > slots'[k].at}
            = {i \in 1..k : slots[i].start + Frame > slots[k].at}
      BY <1>2, <1>8, <2>1
    <3>2. slots[k].typed /\ k \in DOMAIN slots
      BY <1>2, <1>8, <2>1, SlotFacts
    <3> QED BY <3>1, <3>2 DEF PendingInv, TypedFits
  <2>2. ASSUME NEW j \in 1..m, k = n + j
        PROVE  Cardinality({i \in 1..k : slots'[i].start + Frame > slots'[k].at}) <= Pending
    <3> DEFINE waiting == {i \in 1..k : slots'[i].start + Frame > slots'[k].at}
    <3>1. slots'[k].at = now /\ typed
      <4>1. slots'[n + j].at = now /\ slots'[n + j].typed = typed
        BY <1>11
      <4> QED BY <2>2, <4>1
    <3>2. waiting \subseteq (d + 1)..(n + m)
      <4>1. ASSUME NEW i \in 1..(n + m), i \in waiting PROVE d < i
        <5> SUFFICES ASSUME i <= d PROVE FALSE
          BY <1>1, <1>2
        <5>1. i \in 1..n /\ Over(i)
          BY <1>2
        <5>2. slots[i].start + Frame > now /\ slots[i].start \in Nat
          BY <1>2, <1>8, <3>1, <4>1, <5>1, SlotFacts
        <5> QED BY <1>2, <5>1, <5>2 DEF Over
      <4>2. ASSUME NEW i \in waiting PROVE i \in 1..(n + m)
        <5>1. i \in 1..k /\ k \in 1..(n + m)
          OBVIOUS
        <5> QED BY <1>1, <1>2, <5>1
      <4>3. ASSUME NEW i \in waiting PROVE i \in (d + 1)..(n + m)
        <5>1. i \in 1..(n + m) /\ d < i
          BY <4>1, <4>2
        <5> QED BY <1>1, <1>2, <5>1
      <4> QED BY <4>3
    <3>3. /\ IsFiniteSet((d + 1)..(n + m))
          /\ Cardinality((d + 1)..(n + m)) = (n + m) - d
      <4>1. d + 1 \in Int /\ n + m \in Int /\ d + 1 <= n + m /\ (n + m) - (d + 1) + 1 = (n + m) - d
        BY <1>1, <1>2
      <4> QED BY <4>1, FS_Interval
    <3>4. Cardinality(waiting) <= (n + m) - d /\ Cardinality(waiting) \in Nat
      <4> HIDE DEF waiting
      <4> QED BY <3>2, <3>3, FS_Subset, FS_CardinalityType
    <3>5. (n + m) - d <= Pending
      BY <1>1, <1>2, <3>1
    <3> HIDE DEF waiting
    <3>6. Cardinality(waiting) <= Pending
      BY <1>1, <1>2, <3>4, <3>5
    <3> QED BY <3>6 DEF waiting
  <2> QED BY <1>9, <2>1, <2>2
<1> QED BY <1>12, <1>13, <1>14, <1>15 DEF PendingInv

LEMMA InitPending == Init => PendingInv
<1> SUFFICES ASSUME Init PROVE PendingInv
  OBVIOUS
<1>1. now = 0 /\ slots = <<>> /\ frameEnds = <<>>
  BY DEF Init
<1>2. SlotsTyped /\ FramesApart /\ TypedFits
  BY <1>1, EmptySeq DEF SlotsTyped, FramesApart, TypedFits
<1>3. EndsAreTail
  <2>1. 0 \in 0..Len(slots) /\ EndsAfter(0) = <<>>
    BY <1>1 DEF EndsAfter
  <2> QED BY <1>1, <2>1 DEF EndsAreTail
<1> QED BY <1>2, <1>3 DEF PendingInv

LEMMA NextPending == PendingInv /\ [Next]_vars => PendingInv'
<1> SUFFICES ASSUME PendingInv, [Next]_vars PROVE PendingInv'
  OBVIOUS
<1>1. PICK d \in 0..Len(slots) :
        (\A k \in DOMAIN slots : Over(k) <=> k <= d) /\ StillQueued = EndsAfter(d)
  BY PendingFollows DEF PendingIsExact
<1>2. \A k \in 1..d : Over(k)
  BY <1>1, SlotFacts DEF PendingInv
<1>3. ASSUME NEW text \in Texts, TypedSend(text) PROVE PendingInv'
  <2>1. Len(StillQueued) = Len(slots) - d
    BY <1>1, SlotFacts DEF EndsAfter, PendingInv
  <2>2. Len(text) + (Len(slots) - d) <= Pending
    BY <1>3, <2>1 DEF TypedSend, Fits
  <2> QED BY <1>1, <1>2, <1>3, <2>2, SendStep DEF TypedSend
<1>4. ASSUME NEW text \in Texts, ScriptedSend(text) PROVE PendingInv'
  <2>1. PICK e \in 0..Len(slots) : (\A k \in 1..e : Over(k)) /\ frameEnds = EndsAfter(e)
    BY DEF PendingInv, EndsAreTail
  <2> QED BY <1>4, <2>1, SendStep DEF ScriptedSend
<1>5. ASSUME NEW text \in Texts, RejectedSend(text) PROVE PendingInv'
  BY <1>5, QuietStep DEF RejectedSend, boardVars
<1>6. CASE ClearUart
  BY <1>6, QuietStep DEF ClearUart, boardVars
<1>7. CASE Refresh
  BY <1>7, QuietStep DEF Refresh, boardVars
<1>8. CASE BeginReset
  BY <1>8, QuietStep DEF BeginReset, boardVars, adapter
<1>9. CASE EndReset
  BY <1>9, QuietStep DEF EndReset, boardVars
<1>10. CASE FailReset
  BY <1>10, QuietStep DEF FailReset, boardVars
<1>11. CASE Elapse
  BY <1>11, ElapseStep DEF Elapse, adapter
<1>12. CASE UNCHANGED vars
  BY <1>12, QuietStep DEF vars, boardVars, adapter
<1> QED BY <1>3, <1>4, <1>5, <1>6, <1>7, <1>8, <1>9, <1>10, <1>11, <1>12 DEF Next

LEMMA PendingHolds == Spec => []PendingInv
BY InitPending, NextPending, PTL DEF Spec

\* The terminal's count of pending input is the line's: whatever the order of
\* typed and scripted sends, refreshes, clears and resets, the adapter's list,
\* cleaned up, is the frames the board has not finished (BoardAdapter.h:165,
\* "queued frames still on the line").
THEOREM PendingIsTheLines == Spec => []PendingIsExact
BY PendingHolds, PendingFollows, PTL

\* No accepted text overfills the transmit queue of MaximumPendingRxBytes, its
\* own bytes and scripted ones included.
THEOREM TypingFits == Spec => []TypedFits
<1>1. PendingInv => TypedFits
  BY DEF PendingInv
<1> QED BY <1>1, PendingHolds, PTL

-----------------------------------------------------------------------------
(* The terminal's rows: each loop over a sequence as a fold. *)

AddTx(t, b) == AddByte(t, "tx", b)
AddRx(t, b) == AddByte(t, "rx", b)

TxRows == INSTANCE Recursion WITH Base <- NoLines, Step <- AddTx
RxRows == INSTANCE Recursion WITH Base <- NoLines, Step <- AddRx
Sorting == INSTANCE Recursion WITH Base <- <<>>, Step <- Inserted
Placing == INSTANCE Recursion WITH Base <- NoLines, Step <- PlaceMarker
Watching == INSTANCE Recursion WITH Base <- NoLines, Step <- Watched

LEMMA GroupedNone ==
  ASSUME NEW kind \in {"tx", "rx"}, NEW t
  PROVE  Grouped(t, kind, <<>>) = t
<1>1. CASE kind = "tx"
  <2>1. Grouped(t, kind, <<>>) = TxRows!Folded(t, <<>>)
    BY <1>1 DEF Grouped, TxRows!Folded, AddTx
  <2> QED BY <2>1, TxRows!FoldedStep
<1>2. CASE kind = "rx"
  <2>1. Grouped(t, kind, <<>>) = RxRows!Folded(t, <<>>)
    BY <1>2 DEF Grouped, RxRows!Folded, AddRx
  <2> QED BY <2>1, RxRows!FoldedStep
<1> QED BY <1>1, <1>2

LEMMA GroupedNext ==
  ASSUME NEW kind \in {"tx", "rx"}, NEW t, NEW B, NEW bs \in Seq(B), NEW b \in B
  PROVE  Grouped(t, kind, Append(bs, b)) = AddByte(Grouped(t, kind, bs), kind, b)
<1>1. CASE kind = "tx"
  <2>1. \A cs : Grouped(t, kind, cs) = TxRows!Folded(t, cs)
    BY <1>1 DEF Grouped, TxRows!Folded, AddTx
  <2>2. TxRows!Folded(t, Append(bs, b)) = AddTx(TxRows!Folded(t, bs), b)
    BY TxRows!FoldedStep
  <2> QED BY <1>1, <2>1, <2>2, Zenon DEF AddTx
<1>2. CASE kind = "rx"
  <2>1. \A cs : Grouped(t, kind, cs) = RxRows!Folded(t, cs)
    BY <1>2 DEF Grouped, RxRows!Folded, AddRx
  <2>2. RxRows!Folded(t, Append(bs, b)) = AddRx(RxRows!Folded(t, bs), b)
    BY RxRows!FoldedStep
  <2> QED BY <1>2, <2>1, <2>2, Zenon DEF AddRx
<1> QED BY <1>1, <1>2

LEMMA SortIs ==
  ASSUME NEW M
  PROVE  /\ StableSort(<<>>) = <<>>
         /\ \A s \in Seq(M), m \in M : StableSort(Append(s, m)) = Inserted(StableSort(s), m)
<1>1. \A s : StableSort(s) = Sorting!Folded(<<>>, s)
  BY DEF StableSort, Sorting!Folded
<1>2. Sorting!Folded(<<>>, <<>>) = <<>>
  BY Sorting!FoldedStep
<1>3. \A s \in Seq(M), m \in M :
        Sorting!Folded(<<>>, Append(s, m)) = Inserted(Sorting!Folded(<<>>, s), m)
  BY Sorting!FoldedStep
<1> QED BY <1>1, <1>2, <1>3, Zenon

LEMMA PlacedNone ==
  ASSUME NEW a
  PROVE  Placed(a, <<>>) = a
<1>1. Placed(a, <<>>) = Placing!Folded(a, <<>>)
  BY DEF Placed, Placing!Folded
<1> QED BY <1>1, Placing!FoldedStep

LEMMA PlacedNext ==
  ASSUME NEW a, NEW M, NEW s \in Seq(M), NEW m \in M
  PROVE  Placed(a, Append(s, m)) = PlaceMarker(Placed(a, s), m)
<1>1. \A r : Placed(a, r) = Placing!Folded(a, r)
  BY DEF Placed, Placing!Folded
<1>2. Placing!Folded(a, Append(s, m)) = PlaceMarker(Placing!Folded(a, s), m)
  BY Placing!FoldedStep
<1> QED BY <1>1, <1>2, Zenon

LEMMA WatchedAllIs ==
  /\ WatchedAll(<<>>) = NoLines
  /\ \A h \in Seq(Happenings), x \in Happenings :
       WatchedAll(Append(h, x)) = Watched(WatchedAll(h), x)
<1>1. \A h : WatchedAll(h) = Watching!Folded(NoLines, h)
  BY DEF WatchedAll, Watching!Folded
<1>2. Watching!Folded(NoLines, <<>>) = NoLines
  BY Watching!FoldedStep
<1>3. \A h \in Seq(Happenings), x \in Happenings :
        Watching!Folded(NoLines, Append(h, x)) = Watched(Watching!Folded(NoLines, h), x)
  BY Watching!FoldedStep
<1> QED BY <1>1, <1>2, <1>3, Zenon

-----------------------------------------------------------------------------
(* Trimming: rows that gave way are never missed. *)

Excess(n) == IF n > Lines THEN n - Lines ELSE 0
Kept(s) == SubSeq(s, Excess(Len(s)) + 1, Len(s))

LEMMA KeptIs ==
  ASSUME NEW R, NEW s \in Seq(R)
  PROVE  /\ Kept(s) \in Seq(R) /\ Excess(Len(s)) \in 0..Len(s)
         /\ Len(Kept(s)) = Len(s) - Excess(Len(s))
         /\ \A i \in 1..Len(Kept(s)) : Kept(s)[i] = s[Excess(Len(s)) + i]
<1>1. Len(s) \in Nat /\ Excess(Len(s)) \in 0..Len(s)
  BY LenProperties DEF Excess
<1> HIDE DEF Excess
<1>2. \A i \in (Excess(Len(s)) + 1)..Len(s) : s[i] \in R
  BY <1>1, ElementOfSeq
<1>3. /\ Kept(s) \in Seq(R)
      /\ Len(Kept(s)) = IF Excess(Len(s)) + 1 <= Len(s)
                        THEN Len(s) - (Excess(Len(s)) + 1) + 1 ELSE 0
      /\ \A i \in 1..(Len(s) - (Excess(Len(s)) + 1) + 1) :
           Kept(s)[i] = s[(Excess(Len(s)) + 1) + i - 1]
  BY <1>1, <1>2, SubSeqProperties DEF Kept
<1> QED BY <1>1, <1>3

LEMMA KeptTwice ==
  ASSUME NEW R, NEW s \in Seq(R)
  PROVE  Excess(Len(Kept(s))) = 0 /\ Kept(Kept(s)) = Kept(s) /\ Len(Kept(s)) \in Nat
<1>1. /\ Kept(s) \in Seq(R) /\ Len(s) \in Nat
      /\ Len(Kept(s)) = Len(s) - Excess(Len(s))
  BY KeptIs, LenProperties
<1>2. Excess(Len(Kept(s))) = 0 /\ Len(Kept(s)) \in Nat
  BY <1>1 DEF Excess
<1>3. Kept(Kept(s)) \in Seq(R) /\ Len(Kept(Kept(s))) = Len(Kept(s)) - 0
  BY <1>1, <1>2, KeptIs
<1>4. \A i \in 1..Len(Kept(Kept(s))) : Kept(Kept(s))[i] = Kept(s)[0 + i]
  BY <1>1, <1>2, KeptIs
<1>5. Kept(Kept(s)) = Kept(s)
  <2> DEFINE k == Kept(s)
  <2> DEFINE kk == Kept(k)
  <2>1. k \in Seq(R) /\ kk \in Seq(R) /\ Len(kk) = Len(k) /\ Len(k) \in Nat
    BY <1>1, <1>2, <1>3
  <2>2. \A i \in 1..Len(kk) : kk[i] = k[i]
    BY <1>4, <2>1
  <2> HIDE DEF k, kk
  <2>3. kk = k
    BY <2>1, <2>2, SeqEqual
  <2> QED BY <2>3 DEF k, kk
<1> QED BY <1>2, <1>5

LEMMA KeptAppend ==
  ASSUME NEW R, NEW s \in Seq(R), NEW x \in R
  PROVE  /\ Kept(Append(Kept(s), x)) = Kept(Append(s, x))
         /\ Excess(Len(s)) + Excess(Len(Append(Kept(s), x))) = Excess(Len(Append(s, x)))
<1> DEFINE k == Kept(s)
<1> DEFINE u == Append(k, x)
<1> DEFINE v == Append(s, x)
<1>1. /\ k \in Seq(R) /\ Len(k) = Len(s) - Excess(Len(s)) /\ Excess(Len(s)) \in 0..Len(s)
      /\ \A i \in 1..Len(k) : k[i] = s[Excess(Len(s)) + i]
      /\ Len(s) \in Nat
  BY KeptIs, LenProperties
<1> HIDE DEF k
<1>2. /\ u \in Seq(R) /\ Len(u) = Len(k) + 1 /\ u[Len(k) + 1] = x
      /\ \A i \in 1..Len(k) : u[i] = k[i]
  BY <1>1, AppendProperties
<1>3. /\ v \in Seq(R) /\ Len(v) = Len(s) + 1 /\ v[Len(s) + 1] = x
      /\ \A i \in 1..Len(s) : v[i] = s[i]
  BY <1>1, AppendProperties
<1> HIDE DEF u, v
<1>4. Excess(Len(s)) + Excess(Len(u)) = Excess(Len(v)) /\ Excess(Len(u)) \in Nat
  <2> DEFINE n == Len(s)
  <2>1. n \in Nat /\ Lines \in Nat /\ Lines >= 1
    BY <1>1
  <2>2. Len(u) = (n - Excess(n)) + 1 /\ Len(v) = n + 1
    BY <1>1, <1>2, <1>3
  <2> HIDE DEF n
  <2>3. CASE n > Lines
    <3>1. Excess(n) = n - Lines /\ Excess(n + 1) = n + 1 - Lines /\ Excess(Lines + 1) = 1
      BY <2>1, <2>3 DEF Excess
    <3>2. Len(u) = Lines + 1
      BY <2>1, <2>2, <3>1
    <3>3. Excess(n) + 1 = Excess(n + 1)
      BY <2>1, <3>1
    <3> QED BY <2>2, <3>1, <3>2, <3>3 DEF n
  <2>4. CASE ~(n > Lines)
    <3>1. Excess(n) = 0 /\ Len(u) = n + 1
      BY <2>1, <2>2, <2>4 DEF Excess
    <3>2. Excess(n + 1) \in Nat
      BY <2>1 DEF Excess
    <3> QED BY <2>2, <3>1, <3>2 DEF n
  <2> QED BY <2>3, <2>4
<1>5. \A i \in 1..Len(u) : u[i] = v[Excess(Len(s)) + i]
  <2> SUFFICES ASSUME NEW i \in 1..Len(u) PROVE u[i] = v[Excess(Len(s)) + i]
    OBVIOUS
  <2>1. CASE i = Len(k) + 1
    <3>1. Excess(Len(s)) + i = Len(s) + 1
      BY <1>1, <2>1
    <3> QED BY <1>2, <1>3, <2>1, <3>1
  <2>2. CASE i # Len(k) + 1
    <3>1. i \in 1..Len(k) /\ Excess(Len(s)) + i \in 1..Len(s)
      BY <1>1, <1>2, <2>2
    <3> QED BY <1>1, <1>2, <1>3, <3>1
  <2> QED BY <2>1, <2>2
<1>6. /\ Kept(u) \in Seq(R) /\ Len(Kept(u)) = Len(u) - Excess(Len(u))
      /\ \A i \in 1..Len(Kept(u)) : Kept(u)[i] = u[Excess(Len(u)) + i]
      /\ Excess(Len(u)) \in 0..Len(u)
  BY <1>2, KeptIs
<1>7. /\ Kept(v) \in Seq(R) /\ Len(Kept(v)) = Len(v) - Excess(Len(v))
      /\ \A i \in 1..Len(Kept(v)) : Kept(v)[i] = v[Excess(Len(v)) + i]
  BY <1>3, KeptIs
<1>8. Len(Kept(u)) = Len(Kept(v)) /\ Len(Kept(u)) = Len(u) - Excess(Len(u))
  BY <1>1, <1>2, <1>3, <1>4, <1>6, <1>7
<1>9. \A i \in 1..Len(Kept(u)) : Kept(u)[i] = Kept(v)[i]
  <2> SUFFICES ASSUME NEW i \in 1..Len(Kept(u)) PROVE Kept(u)[i] = Kept(v)[i]
    OBVIOUS
  <2> DEFINE j == Excess(Len(u)) + i
  <2>1. j \in 1..Len(u) /\ Excess(Len(s)) + j = Excess(Len(v)) + i
    BY <1>1, <1>2, <1>4, <1>6, <1>8
  <2>2. u[j] = v[Excess(Len(s)) + j]
    BY <1>5, <2>1
  <2>3. Kept(u)[i] = u[j] /\ Kept(v)[i] = v[Excess(Len(v)) + i]
    BY <1>6, <1>7, <1>8
  <2> QED BY <2>1, <2>2, <2>3
<1>10. Kept(u) = Kept(v)
  BY <1>6, <1>7, <1>8, <1>9, SeqEqual
<1> QED BY <1>4, <1>10 DEF u, v, k

LEMMA KeptExcept ==
  ASSUME NEW R, NEW s \in Seq(R), NEW x \in R, s # <<>>
  PROVE  LET k == Kept(s)
             u == [k EXCEPT ![Len(k)] = x]
             v == [s EXCEPT ![Len(s)] = x]
         IN  /\ k # <<>> /\ Last(k) = Last(s)
             /\ u \in Seq(R) /\ v \in Seq(R) /\ Len(v) = Len(s) /\ Len(u) = Len(k)
             /\ Kept(v) = u
<1> DEFINE k == Kept(s)
<1> DEFINE e == Excess(Len(s))
<1> DEFINE u == [k EXCEPT ![Len(k)] = x]
<1> DEFINE v == [s EXCEPT ![Len(s)] = x]
<1>1. /\ k \in Seq(R) /\ Len(k) = Len(s) - e /\ e \in 0..Len(s)
      /\ \A i \in 1..Len(k) : k[i] = s[e + i]
      /\ Len(s) \in Nat
  BY KeptIs, LenProperties
<1>2. Len(s) # 0
  BY EmptySeq
<1>3. Len(k) \in Nat \ {0} /\ e \in Nat /\ Len(s) \in Nat \ {0} /\ Len(k) + e = Len(s)
  <2>1. Len(s) - e # 0
    BY <1>1, <1>2 DEF Excess
  <2> HIDE DEF e, k
  <2> QED BY <1>1, <1>2, <2>1
<1> HIDE DEF k, e
<1>4. k # <<>> /\ Last(k) = Last(s)
  <2>1. k # <<>>
    BY <1>3, EmptySeq
  <2>2. Len(k) \in 1..Len(k) /\ e + Len(k) = Len(s)
    BY <1>3
  <2> QED BY <1>1, <2>1, <2>2 DEF Last
<1>5. u \in Seq(R) /\ Len(u) = Len(k)
  BY <1>1, <1>3, ExceptSeq
<1>6. v \in Seq(R) /\ Len(v) = Len(s)
  BY <1>1, <1>3, ExceptSeq
<1>7. \A i \in 1..Len(k) : u[i] = IF i = Len(k) THEN x ELSE k[i]
  BY <1>1, ExceptSeq
<1>8. \A i \in 1..Len(s) : v[i] = IF i = Len(s) THEN x ELSE s[i]
  BY <1>1, ExceptSeq
<1> HIDE DEF u, v
<1>9. /\ Kept(v) \in Seq(R) /\ Len(Kept(v)) = Len(v) - Excess(Len(v))
      /\ \A i \in 1..Len(Kept(v)) : Kept(v)[i] = v[Excess(Len(v)) + i]
  BY <1>6, KeptIs
<1>10. Excess(Len(v)) = e /\ Len(Kept(v)) = Len(k)
  BY <1>1, <1>6, <1>9 DEF e
<1>11. \A i \in 1..Len(k) : Kept(v)[i] = u[i]
  <2> SUFFICES ASSUME NEW i \in 1..Len(k) PROVE Kept(v)[i] = u[i]
    OBVIOUS
  <2>1. e + i \in 1..Len(s) /\ (e + i = Len(s) <=> i = Len(k))
    BY <1>1, <1>3
  <2>2. Kept(v)[i] = v[e + i]
    BY <1>9, <1>10
  <2>3. v[e + i] = IF e + i = Len(s) THEN x ELSE s[e + i]
    BY <1>8, <2>1
  <2> QED BY <1>1, <1>7, <2>1, <2>2, <2>3
<1>12. Kept(v) = u
  BY <1>5, <1>9, <1>10, <1>11, SeqEqual
<1> QED BY <1>4, <1>5, <1>6, <1>12 DEF u, v, k

-----------------------------------------------------------------------------
(* The operations on a terminal, and trimming before them. *)

LEMMA ByteFacts ==
  ASSUME NEW b \in Stamped(Nat), NEW kind \in Kinds
  PROVE  Row(kind, b) \in RowSet /\ b.value \in ByteValues /\ b.cycle \in Nat
<1>1. b.value \in ByteValues /\ b.cycle \in Nat
  BY DEF Stamped
<1>2. <<b.value>> \in Seq(ByteValues)
  BY <1>1
<1> QED BY <1>1, <1>2 DEF Row, RowSet

LEMMA TerminalFacts ==
  ASSUME NEW t \in Terminals
  PROVE  /\ t.lines \in Seq(RowSet) /\ t.open \in BOOLEAN /\ t.trimmed \in Nat
         /\ Len(t.lines) \in Nat
BY LenProperties DEF Terminals

Terminal(lines, open, trimmed) == [lines |-> lines, open |-> open, trimmed |-> trimmed]

LEMMA MadeOf ==
  ASSUME NEW t \in Terminals, NEW l, NEW o, NEW n, t.lines = l, t.open = o, t.trimmed = n
  PROVE  t = Terminal(l, o, n)
BY DEF Terminals, Terminal

LEMMA Fields ==
  ASSUME NEW l, NEW o, NEW n
  PROVE  /\ Terminal(l, o, n).lines = l /\ Terminal(l, o, n).open = o
         /\ Terminal(l, o, n).trimmed = n
BY DEF Terminal

LEMMA TerminalType ==
  ASSUME NEW l \in Seq(RowSet), NEW o \in BOOLEAN, NEW n \in Nat
  PROVE  Terminal(l, o, n) \in Terminals
BY DEF Terminal, Terminals

\* A new row.
Extended(t, row, open) == Terminal(Append(t.lines, row), open, t.trimmed)

\* The updates that the operations make, field by field.
LEMMA SetOpen ==
  ASSUME NEW t \in Terminals, NEW f \in BOOLEAN
  PROVE  [t EXCEPT !.open = f] = Terminal(t.lines, f, t.trimmed)
<1> DEFINE u == [t EXCEPT !.open = f]
<1>1. u \in Terminals /\ u.lines = t.lines /\ u.open = f /\ u.trimmed = t.trimmed
  BY DEF Terminals
<1> HIDE DEF u
<1>2. u = Terminal(t.lines, f, t.trimmed)
  BY <1>1, MadeOf
<1> QED BY <1>2 DEF u

LEMMA SetLines ==
  ASSUME NEW t \in Terminals, NEW l \in Seq(RowSet), NEW f \in BOOLEAN
  PROVE  /\ [t EXCEPT !.lines = l] = Terminal(l, t.open, t.trimmed)
         /\ [t EXCEPT !.lines = l, !.open = f] = Terminal(l, f, t.trimmed)
<1> DEFINE u == [t EXCEPT !.lines = l]
<1> DEFINE v == [t EXCEPT !.lines = l, !.open = f]
<1>1. u \in Terminals /\ u.lines = l /\ u.open = t.open /\ u.trimmed = t.trimmed
  BY DEF Terminals
<1>2. v \in Terminals /\ v.lines = l /\ v.open = f /\ v.trimmed = t.trimmed
  BY DEF Terminals
<1> HIDE DEF u, v
<1>3. u = Terminal(l, t.open, t.trimmed) /\ v = Terminal(l, f, t.trimmed)
  BY <1>1, <1>2, MadeOf
<1> QED BY <1>3 DEF u, v

LEMMA TrimmedIs ==
  ASSUME NEW t \in Terminals
  PROVE  /\ Trimmed(t) = Terminal(Kept(t.lines), t.open, t.trimmed + Excess(Len(t.lines)))
         /\ Trimmed(t).lines = Kept(t.lines) /\ Trimmed(t).open = t.open
         /\ Trimmed(t).trimmed = t.trimmed + Excess(Len(t.lines))
         /\ Excess(Len(t.lines)) \in Nat
         /\ Trimmed(t) \in Terminals
<1>1. Kept(t.lines) \in Seq(RowSet) /\ Excess(Len(t.lines)) \in Nat
  <2>1. t.lines \in Seq(RowSet) /\ Len(t.lines) \in Nat
    BY TerminalFacts
  <2>2. Kept(t.lines) \in Seq(RowSet) /\ Excess(Len(t.lines)) \in 0..Len(t.lines)
    BY <2>1, KeptIs
  <2> QED BY <2>1, <2>2
<1>2. t.trimmed + Excess(Len(t.lines)) \in Nat /\ t.open \in BOOLEAN
  BY <1>1, TerminalFacts
<1>3. Trimmed(t) = Terminal(Kept(t.lines), t.open, t.trimmed + Excess(Len(t.lines)))
  <2> DEFINE n == Excess(Len(t.lines))
  <2> DEFINE m == t.trimmed + n
  <2> DEFINE l == Kept(t.lines)
  <2>1. Trimmed(t) = [t EXCEPT !.lines = SubSeq(@, n + 1, Len(@)), !.trimmed = @ + n]
    BY DEF Trimmed, Excess
  <2>2. Trimmed(t) = [t EXCEPT !.lines = l, !.trimmed = m]
    <3> HIDE DEF n
    <3>1. Trimmed(t) = [t EXCEPT !.lines = SubSeq(t.lines, n + 1, Len(t.lines)),
                                 !.trimmed = t.trimmed + n]
      BY <2>1 DEF Terminals
    <3> QED BY <3>1 DEF Kept, n
  <2>3. l \in Seq(RowSet) /\ m \in Nat /\ t.open \in BOOLEAN
    BY <1>1, <1>2
  <2> HIDE DEF l, m, n
  <2>4. /\ Trimmed(t) \in Terminals /\ Trimmed(t).lines = l
        /\ Trimmed(t).open = t.open /\ Trimmed(t).trimmed = m
    BY <2>2, <2>3 DEF Terminals
  <2>5. Trimmed(t) = Terminal(l, t.open, m)
    BY <2>4, MadeOf
  <2> QED BY <2>5 DEF l, m, n
<1>4. Trimmed(t) \in Terminals
  BY <1>1, <1>2, <1>3, TerminalType
<1> QED BY <1>1, <1>3, <1>4, Fields

LEMMA TrimmedTerminal ==
  ASSUME NEW l \in Seq(RowSet), NEW o \in BOOLEAN, NEW n \in Nat
  PROVE  Trimmed(Terminal(l, o, n)) = Terminal(Kept(l), o, n + Excess(Len(l)))
BY TerminalType, TrimmedIs, Fields

LEMMA TrimmedTwice ==
  ASSUME NEW t \in Terminals
  PROVE  Trimmed(Trimmed(t)) = Trimmed(t)
<1>1. Excess(Len(Kept(t.lines))) = 0 /\ Kept(Kept(t.lines)) = Kept(t.lines)
  BY TerminalFacts, KeptTwice
<1>2. t.trimmed + Excess(Len(t.lines)) \in Nat
  BY TerminalFacts, TrimmedIs
<1> DEFINE u == Trimmed(t)
<1>3. /\ u = Terminal(Kept(t.lines), t.open, t.trimmed + Excess(Len(t.lines)))
      /\ u \in Terminals /\ u.lines = Kept(t.lines) /\ u.open = t.open
      /\ u.trimmed = t.trimmed + Excess(Len(t.lines))
  BY TrimmedIs
<1> HIDE DEF u
<1>4. Trimmed(u) = Terminal(Kept(u.lines), u.open, u.trimmed + Excess(Len(u.lines)))
  BY <1>3, TrimmedIs
<1>5. u.trimmed + 0 = u.trimmed
  BY <1>2, <1>3
<1> QED BY <1>1, <1>3, <1>4, <1>5 DEF u

LEMMA EndLineIs ==
  ASSUME NEW t \in Terminals
  PROVE  EndLine(t) \in Terminals /\ Trimmed(EndLine(Trimmed(t))) = Trimmed(EndLine(t))
<1>1. \A u \in Terminals : EndLine(u) = Terminal(u.lines, FALSE, u.trimmed)
  BY SetOpen DEF EndLine
<1>2. EndLine(t) \in Terminals
  BY <1>1, TerminalFacts, TerminalType
<1>3. EndLine(Trimmed(t)) = Trimmed(EndLine(t))
  <2>1. Trimmed(EndLine(t)) =
          Terminal(Kept(t.lines), FALSE, t.trimmed + Excess(Len(t.lines)))
    BY <1>1, TerminalFacts, TrimmedTerminal
  <2>2. EndLine(Trimmed(t)) =
          Terminal(Trimmed(t).lines, FALSE, Trimmed(t).trimmed)
    BY <1>1, TrimmedIs
  <2> QED BY <2>1, <2>2, TrimmedIs
<1> QED BY <1>2, <1>3, TrimmedTwice

LEMMA ExtendedIs ==
  ASSUME NEW t \in Terminals, NEW row \in RowSet, NEW open \in BOOLEAN
  PROVE  /\ Extended(t, row, open) \in Terminals
         /\ Trimmed(Extended(Trimmed(t), row, open)) = Trimmed(Extended(t, row, open))
<1> DEFINE s == t.lines
<1> DEFINE e == Excess(Len(s))
<1>1. s \in Seq(RowSet) /\ t.trimmed \in Nat /\ Len(s) \in Nat
  BY TerminalFacts
<1>2. \A u \in Terminals : Extended(u, row, open) \in Terminals
  <2> SUFFICES ASSUME NEW u \in Terminals PROVE Extended(u, row, open) \in Terminals
    OBVIOUS
  <2>1. Append(u.lines, row) \in Seq(RowSet) /\ u.trimmed \in Nat
    BY TerminalFacts, AppendProperties
  <2> QED BY <2>1, TerminalType DEF Extended
<1>3. Trimmed(t).lines = Kept(s) /\ Trimmed(t).trimmed = t.trimmed + e
  BY TrimmedIs
<1>4. /\ Kept(Append(Kept(s), row)) = Kept(Append(s, row))
      /\ e + Excess(Len(Append(Kept(s), row))) = Excess(Len(Append(s, row)))
  BY <1>1, KeptAppend
<1>5. e \in Nat /\ Excess(Len(Append(Kept(s), row))) \in Nat
  <2>1. Append(Kept(s), row) \in Seq(RowSet)
    BY <1>1, KeptIs, AppendProperties
  <2>2. Excess(Len(Append(Kept(s), row))) \in 0..Len(Append(Kept(s), row))
    BY <2>1, KeptIs
  <2> QED BY <2>2, TrimmedIs
<1>6. Trimmed(Extended(t, row, open)) =
        Terminal(Kept(Append(s, row)), open, t.trimmed + Excess(Len(Append(s, row))))
  <2>1. Append(s, row) \in Seq(RowSet)
    BY <1>1, AppendProperties
  <2> QED BY <1>1, <2>1, TrimmedTerminal DEF Extended
<1>7. Trimmed(Extended(Trimmed(t), row, open)) =
        Terminal(Kept(Append(Kept(s), row)), open,
                 (t.trimmed + e) + Excess(Len(Append(Kept(s), row))))
  <2>1. Append(Kept(s), row) \in Seq(RowSet) /\ t.trimmed + e \in Nat
    BY <1>1, <1>5, KeptIs, AppendProperties
  <2>2. Extended(Trimmed(t), row, open) = Terminal(Append(Kept(s), row), open, t.trimmed + e)
    BY <1>3 DEF Extended
  <2> HIDE DEF e
  <2> QED BY <2>1, <2>2, TrimmedTerminal
<1>8. (t.trimmed + e) + Excess(Len(Append(Kept(s), row)))
        = t.trimmed + Excess(Len(Append(s, row)))
  <2> HIDE DEF e, s
  <2> QED BY <1>1, <1>4, <1>5
<1> QED BY <1>2, <1>4, <1>6, <1>7, <1>8

LEMMA NoticedIs ==
  ASSUME NEW t \in Terminals, NEW what \in Kinds, NEW c \in Nat
  PROVE  /\ Noticed(t, what, c) \in Terminals
         /\ Trimmed(Noticed(Trimmed(t), what, c)) = Trimmed(Noticed(t, what, c))
<1> DEFINE row == [kind |-> what, bytes |-> <<>>, ended |-> TRUE, first |-> c, last |-> c]
<1>1. row \in RowSet
  BY EmptySeq DEF RowSet
<1>2. ASSUME NEW u \in Terminals PROVE Noticed(u, what, c) = Extended(u, row, FALSE)
  <2>1. Append(u.lines, row) \in Seq(RowSet)
    BY <1>1, TerminalFacts, AppendProperties
  <2>2. Noticed(u, what, c) = [u EXCEPT !.lines = Append(u.lines, row), !.open = FALSE]
    BY DEF Noticed, Terminals
  <2> HIDE DEF row
  <2> QED BY <2>1, <2>2, SetLines DEF Extended
<1>3. Trimmed(t) \in Terminals
  BY TrimmedIs
<1> HIDE DEF row
<1> QED BY <1>1, <1>2, <1>3, ExtendedIs

LEMMA AddByteIs ==
  ASSUME NEW t \in Terminals, NEW kind \in Kinds, NEW b \in Stamped(Nat)
  PROVE  /\ AddByte(t, kind, b) \in Terminals
         /\ Trimmed(AddByte(Trimmed(t), kind, b)) = Trimmed(AddByte(t, kind, b))
<1> DEFINE s == t.lines
<1> DEFINE k == Kept(s)
<1> DEFINE e == Excess(Len(s))
<1>1. s \in Seq(RowSet) /\ t.trimmed \in Nat /\ Len(s) \in Nat /\ t.open \in BOOLEAN
  BY TerminalFacts
<1>2. /\ Trimmed(t) = Terminal(k, t.open, t.trimmed + e)
      /\ Trimmed(t).lines = k /\ Trimmed(t).open = t.open
      /\ Trimmed(t) \in Terminals /\ e \in Nat
  BY TrimmedIs
<1>3. s = <<>> => k = <<>>
  <2>1. s = <<>> => Len(s) = 0
    BY <1>1, EmptySeq
  <2>2. k \in Seq(RowSet) /\ Len(k) = Len(s) - e /\ e \in 0..Len(s)
    BY <1>1, KeptIs
  <2> HIDE DEF k, s, e
  <2> QED BY <1>1, <2>1, <2>2, EmptySeq
<1>4. CASE s = <<>> \/ ~Continues(t, kind)
  <2>1. ~Continues(t, kind) /\ ~Continues(Trimmed(t), kind)
    <3>1. CASE s = <<>>
      BY <1>2, <1>3, <3>1 DEF Continues
    <3>2. CASE s # <<>>
      <4>1. k # <<>> /\ Last(k) = Last(s)
        <5>1. PICK x \in RowSet : TRUE
          <6>1. Row(kind, b) \in RowSet
            BY ByteFacts
          <6> QED BY <6>1
        <5> QED BY <1>1, <3>2, <5>1, KeptExcept
      <4>2. Trimmed(t).lines = k /\ Trimmed(t).open = t.open
        BY <1>2
      <4> HIDE DEF k
      <4> QED BY <1>4, <3>2, <4>1, <4>2 DEF Continues
    <3> QED BY <3>1, <3>2
  <2>2. ASSUME NEW u \in Terminals, ~Continues(u, kind)
        PROVE  AddByte(u, kind, b) = Extended(u, Row(kind, b), TRUE)
    <3>1. Row(kind, b) \in RowSet
      BY ByteFacts
    <3>2. Append(u.lines, Row(kind, b)) \in Seq(RowSet)
      BY <3>1, TerminalFacts, AppendProperties
    <3>3. AddByte(u, kind, b) =
            [u EXCEPT !.lines = Append(u.lines, Row(kind, b)), !.open = TRUE]
      BY <2>2 DEF AddByte, Terminals
    <3> QED BY <3>2, <3>3, SetLines DEF Extended
  <2>3. Row(kind, b) \in RowSet
    BY ByteFacts
  <2> QED BY <1>2, <2>1, <2>2, <2>3, ExtendedIs
<1>5. CASE s # <<>> /\ Continues(t, kind)
  <2> DEFINE x == Grown(Last(s), b)
  <2>1. Last(s) \in RowSet
    <3>1. Len(s) \in 1..Len(s)
      BY <1>1, <1>5, EmptySeq
    <3> QED BY <1>1, <3>1, ElementOfSeq DEF Last
  <2>2. x \in RowSet
    <3>1. Append(Last(s).bytes, b.value) \in Seq(ByteValues)
      BY <2>1, ByteFacts, AppendProperties DEF RowSet
    <3>2. b.cycle \in Nat
      BY ByteFacts
    <3> QED BY <2>1, <3>1, <3>2 DEF RowSet, Grown
  <2> DEFINE u == [k EXCEPT ![Len(k)] = x]
  <2> DEFINE v == [s EXCEPT ![Len(s)] = x]
  <2>3. /\ k # <<>> /\ Last(k) = Last(s)
        /\ u \in Seq(RowSet) /\ v \in Seq(RowSet) /\ Len(v) = Len(s) /\ Len(u) = Len(k)
        /\ Kept(v) = u
    <3> HIDE DEF x
    <3> QED BY <1>1, <1>5, <2>2, KeptExcept
  <2>4. Continues(Trimmed(t), kind)
    <3>1. Trimmed(t).lines = k /\ Trimmed(t).open = t.open
      BY <1>2
    <3> HIDE DEF k, s, u, v
    <3> QED BY <1>5, <2>3, <3>1 DEF Continues, s
  <2> DEFINE Put(z) == [z EXCEPT !.lines[Len(z.lines)] = Grown(z.lines[Len(z.lines)], b)]
  <2>13. ASSUME NEW z \in Terminals, Continues(z, kind) PROVE AddByte(z, kind, b) = Put(z)
    BY <2>13 DEF AddByte, Terminals
  <2>14. ASSUME NEW z \in Terminals,
                NEW l \in Seq(RowSet), l = [z.lines EXCEPT ![Len(z.lines)] = x],
                Last(z.lines) = Last(s)
         PROVE  Put(z) = Terminal(l, z.open, z.trimmed)
    <3>1. Grown(z.lines[Len(z.lines)], b) = x
      BY <2>14 DEF Last
    <3>2. Put(z) = [z EXCEPT !.lines = [z.lines EXCEPT ![Len(z.lines)] = x]]
      <4> HIDE DEF x
      <4> QED BY <3>1 DEF Terminals
    <3>3. Put(z) = [z EXCEPT !.lines = l]
      BY <2>14, <3>2
    <3>4. [z EXCEPT !.lines = l] = Terminal(l, z.open, z.trimmed)
      BY SetLines
    <3> QED BY <3>3, <3>4
  <2> HIDE DEF Put
  <2>5. AddByte(t, kind, b) = Terminal(v, t.open, t.trimmed)
    <3> HIDE DEF x
    <3> QED BY <1>5, <2>3, <2>13, <2>14
  <2>6. AddByte(Trimmed(t), kind, b) = Terminal(u, t.open, t.trimmed + e)
    <3>1. Last(Trimmed(t).lines) = Last(s) /\ u = [Trimmed(t).lines EXCEPT ![Len(Trimmed(t).lines)] = x]
      BY <1>2, <2>3
    <3>2. Put(Trimmed(t)) = Terminal(u, Trimmed(t).open, Trimmed(t).trimmed)
      <4> HIDE DEF x, u, s
      <4> QED BY <1>2, <2>3, <2>14, <3>1
    <3>3. Trimmed(t).trimmed = t.trimmed + e
      BY TrimmedIs
    <3> HIDE DEF x, u, k, s, e
    <3> QED BY <1>2, <2>4, <2>13, <3>2, <3>3
  <2>7. AddByte(t, kind, b) \in Terminals
    <3> HIDE DEF v
    <3> QED BY <1>1, <2>3, <2>5, TerminalType
  <2>8. AddByte(Trimmed(t), kind, b) \in Terminals
    <3>1. t.trimmed + e \in Nat
      BY <1>1, <1>2
    <3> HIDE DEF u, e
    <3> QED BY <1>1, <2>3, <2>6, <3>1, TerminalType
  <2>9. Trimmed(AddByte(t, kind, b)) = Terminal(u, t.open, t.trimmed + e)
    <3> HIDE DEF u, v, k
    <3> QED BY <1>1, <2>3, <2>5, TrimmedTerminal
  <2>10. Kept(u) = u /\ Excess(Len(u)) = 0
    <3> HIDE DEF u, v
    <3> QED BY <2>3, KeptTwice
  <2>11. Trimmed(AddByte(Trimmed(t), kind, b)) = Terminal(u, t.open, (t.trimmed + e) + 0)
    <3> HIDE DEF u, e
    <3>1. t.trimmed + e \in Nat
      BY <1>1, <1>2 DEF e
    <3> QED BY <1>1, <2>3, <2>6, <2>10, <3>1, TrimmedTerminal
  <2>12. (t.trimmed + e) + 0 = t.trimmed + e
    BY <1>1, <1>2
  <2> QED BY <2>7, <2>9, <2>11, <2>12
<1> QED BY <1>4, <1>5

-----------------------------------------------------------------------------
(* A batch, a happening and a marker. *)

LEMMA GroupedType ==
  ASSUME NEW t \in Terminals, NEW kind \in {"tx", "rx"}
  PROVE  \A bs \in Seq(Stamped(Nat)) :
           /\ Grouped(t, kind, bs) \in Terminals
           /\ Trimmed(Grouped(Trimmed(t), kind, bs)) = Trimmed(Grouped(t, kind, bs))
<1> DEFINE B == Stamped(Nat)
<1> DEFINE u == Trimmed(t)
<1> DEFINE S == {bs \in Seq(B) :
                   /\ Grouped(t, kind, bs) \in Terminals /\ Grouped(u, kind, bs) \in Terminals
                   /\ Trimmed(Grouped(u, kind, bs)) = Trimmed(Grouped(t, kind, bs))}
<1>0. kind \in Kinds /\ u \in Terminals
  BY TrimmedIs DEF Kinds
<1>1. <<>> \in S
  <2>1. Grouped(t, kind, <<>>) = t /\ Grouped(u, kind, <<>>) = u
    BY GroupedNone
  <2>2. Trimmed(u) = Trimmed(t)
    BY TrimmedTwice
  <2> HIDE DEF u
  <2> QED BY <1>0, <2>1, <2>2, EmptySeq
<1>2. ASSUME NEW bs \in Seq(B), NEW b \in B, bs \in S PROVE Append(bs, b) \in S
  <2> DEFINE g == Grouped(t, kind, bs)
  <2> DEFINE h == Grouped(u, kind, bs)
  <2>1. g \in Terminals /\ h \in Terminals /\ Trimmed(h) = Trimmed(g)
    BY <1>2
  <2>2. /\ Grouped(t, kind, Append(bs, b)) = AddByte(g, kind, b)
        /\ Grouped(u, kind, Append(bs, b)) = AddByte(h, kind, b)
    <3> HIDE DEF u, B
    <3> QED BY GroupedNext
  <2> HIDE DEF g, h, u
  <2>3. AddByte(g, kind, b) \in Terminals /\ AddByte(h, kind, b) \in Terminals
    BY <1>0, <2>1, AddByteIs
  <2>4. Trimmed(AddByte(h, kind, b)) = Trimmed(AddByte(g, kind, b))
    <3>1. /\ Trimmed(AddByte(Trimmed(h), kind, b)) = Trimmed(AddByte(h, kind, b))
          /\ Trimmed(AddByte(Trimmed(g), kind, b)) = Trimmed(AddByte(g, kind, b))
      BY <1>0, <2>1, AddByteIs
    <3> QED BY <2>1, <3>1
  <2>5. Append(bs, b) \in Seq(B)
    BY AppendProperties
  <2> HIDE DEF B
  <2> QED BY <2>2, <2>3, <2>4, <2>5
<1> HIDE DEF S
<1>3. Seq(B) \subseteq S
  BY <1>1, <1>2, TxRows!SequenceInduction
<1> QED BY <1>3 DEF S

LEMMA AppendTrafficIs ==
  ASSUME NEW t \in Terminals, NEW kind \in {"tx", "rx"}, NEW bs \in Seq(Stamped(Nat))
  PROVE  /\ AppendTraffic(t, kind, bs) \in Terminals
         /\ Trimmed(AppendTraffic(t, kind, bs)) = AppendTraffic(t, kind, bs)
         /\ AppendTraffic(Trimmed(t), kind, bs) = AppendTraffic(t, kind, bs)
BY GroupedType, TrimmedIs, TrimmedTwice DEF AppendTraffic

LEMMA WatchedIs ==
  ASSUME NEW t \in Terminals, NEW x \in Happenings
  PROVE  /\ Watched(t, x) \in Terminals
         /\ Trimmed(Watched(Trimmed(t), x)) = Trimmed(Watched(t, x))
<1>1. x.kind \in Kinds /\ x.at \in Nat /\ x.bytes \in Seq(Stamped(Nat))
  BY DEF Happenings
<1>2. CASE x.kind \in {"rx", "typed"}
  <2> DEFINE e == EndLine(t)
  <2> DEFINE f == EndLine(Trimmed(t))
  <2>1. e \in Terminals /\ f \in Terminals /\ Trimmed(f) = Trimmed(e)
    BY EndLineIs, TrimmedIs
  <2>2. Watched(t, x) = Grouped(e, "rx", x.bytes) /\ Watched(Trimmed(t), x) = Grouped(f, "rx", x.bytes)
    BY <1>2 DEF Watched
  <2> HIDE DEF e, f
  <2>3. Grouped(e, "rx", x.bytes) \in Terminals
    BY <1>1, <2>1, GroupedType
  <2>4. /\ Trimmed(Grouped(Trimmed(e), "rx", x.bytes)) = Trimmed(Grouped(e, "rx", x.bytes))
        /\ Trimmed(Grouped(Trimmed(f), "rx", x.bytes)) = Trimmed(Grouped(f, "rx", x.bytes))
    BY <1>1, <2>1, GroupedType
  <2> QED BY <2>1, <2>2, <2>3, <2>4
<1>3. CASE x.kind = "tx"
  <2>1. \A u : Watched(u, x) = Grouped(u, "tx", x.bytes)
    BY <1>3 DEF Watched
  <2> QED BY <1>1, <2>1, GroupedType
<1>4. CASE x.kind \notin {"rx", "typed", "tx"}
  <2>1. \A u : Watched(u, x) = Noticed(u, x.kind, x.at)
    BY <1>4 DEF Watched
  <2> QED BY <1>1, <2>1, NoticedIs
<1> QED BY <1>2, <1>3, <1>4

LEMMA WatchedAllType ==
  \A h \in Seq(Happenings) : WatchedAll(h) \in Terminals
<1> DEFINE S == {h \in Seq(Happenings) : WatchedAll(h) \in Terminals}
<1>1. <<>> \in S
  <2>1. NoLines \in Terminals
    BY EmptySeq DEF NoLines, Terminals
  <2> QED BY <2>1, WatchedAllIs, EmptySeq
<1>2. ASSUME NEW h \in Seq(Happenings), NEW x \in Happenings, h \in S
      PROVE  Append(h, x) \in S
  BY <1>2, WatchedAllIs, WatchedIs, AppendProperties
<1> HIDE DEF S
<1>3. Seq(Happenings) \subseteq S
  BY <1>1, <1>2, TxRows!SequenceInduction
<1> QED BY <1>3 DEF S

\* One more happening after rows that are right.
LEMMA WatchedNext ==
  ASSUME NEW h \in Seq(Happenings), NEW x \in Happenings, NEW t \in Terminals,
         t = Trimmed(WatchedAll(h))
  PROVE  Trimmed(Watched(t, x)) = Trimmed(WatchedAll(Append(h, x)))
<1>1. WatchedAll(h) \in Terminals /\ WatchedAll(Append(h, x)) = Watched(WatchedAll(h), x)
  BY WatchedAllType, WatchedAllIs
<1> QED BY <1>1, WatchedIs

HIDE TerminalAssumption

-----------------------------------------------------------------------------
(* Sorting. *)

Insertion(w, s, j, x) ==
  /\ Len(w) = Len(s) + 1
  /\ \A i \in 1..(Len(s) + 1) : w[i] = IF i < j THEN s[i] ELSE IF i = j THEN x ELSE s[i - 1]

LEMMA InsertAtIs ==
  ASSUME NEW T, NEW s \in Seq(T), NEW j \in 1..(Len(s) + 1), NEW x \in T
  PROVE  InsertAt(s, j, x) \in Seq(T) /\ Insertion(InsertAt(s, j, x), s, j, x)
<1> DEFINE n == Len(s)
<1>0. PICK k \in 0..n : j = k + 1
  <2>1. j - 1 \in 0..n /\ j = (j - 1) + 1
    BY LenProperties
  <2> QED BY <2>1
<1> DEFINE a == SubSeq(s, 1, k)
<1> DEFINE b == SubSeq(s, k + 1, n)
<1>1. n \in Nat /\ k \in Int /\ k <= n /\ \A i \in 1..n : s[i] \in T
  BY LenProperties, ElementOfSeq
<1>2. a \in Seq(T) /\ Len(a) = k /\ \A i \in 1..k : a[i] = s[i]
  <2>1. \A i \in 1..k : s[i] \in T
    BY <1>1
  <2>2. /\ a \in Seq(T) /\ Len(a) = IF 1 <= k THEN k - 1 + 1 ELSE 0
        /\ \A i \in 1..(k - 1 + 1) : a[i] = s[1 + i - 1]
    BY <1>1, <2>1, SubSeqProperties
  <2> HIDE DEF a
  <2> QED BY <1>1, <2>2
<1>3. b \in Seq(T) /\ Len(b) = n - k /\ \A i \in 1..(n - k) : b[i] = s[k + i]
  <2>1. \A i \in (k + 1)..n : s[i] \in T
    BY <1>1
  <2>2. /\ b \in Seq(T) /\ Len(b) = IF k + 1 <= n THEN n - (k + 1) + 1 ELSE 0
        /\ \A i \in 1..(n - (k + 1) + 1) : b[i] = s[(k + 1) + i - 1]
    BY <1>1, <2>1, SubSeqProperties
  <2> HIDE DEF b
  <2> QED BY <1>1, <2>2
<1> DEFINE c == a \o <<x>>
<1>4. c \in Seq(T) /\ Len(c) = k + 1 /\ \A i \in 1..(k + 1) : c[i] = IF i <= k THEN a[i] ELSE x
  <2>1. <<x>> \in Seq(T) /\ Len(<<x>>) = 1 /\ <<x>>[1] = x
    OBVIOUS
  <2> HIDE DEF a
  <2>2. /\ c \in Seq(T) /\ Len(c) = Len(a) + 1
        /\ \A i \in 1..(Len(a) + 1) : c[i] = IF i <= Len(a) THEN a[i] ELSE <<x>>[i - Len(a)]
    BY <1>2, <2>1, ConcatProperties
  <2> HIDE DEF c
  <2> QED BY <1>1, <1>2, <2>1, <2>2
<1> HIDE DEF c, b
<1>5. /\ c \o b \in Seq(T) /\ Len(c \o b) = Len(c) + Len(b)
      /\ \A i \in 1..(Len(c) + Len(b)) : (c \o b)[i] = IF i <= Len(c) THEN c[i] ELSE b[i - Len(c)]
  BY <1>3, <1>4, ConcatProperties
<1>6. InsertAt(s, j, x) = c \o b
  <2>1. j - 1 = k /\ j = k + 1
    BY <1>0, <1>1
  <2> QED BY <2>1 DEF InsertAt, c, b
<1> DEFINE w == c \o b
<1>7. w \in Seq(T) /\ Len(w) = n + 1
  BY <1>1, <1>3, <1>4, <1>5
<1>8. ASSUME NEW i \in 1..(n + 1)
      PROVE  w[i] = IF i <= k THEN s[i] ELSE IF i = k + 1 THEN x ELSE s[i - 1]
  <2>1. i \in 1..(Len(c) + Len(b))
    BY <1>1, <1>3, <1>4
  <2>2. CASE i <= k + 1
    <3>1. w[i] = c[i] /\ i \in 1..(k + 1)
      BY <1>1, <1>4, <1>5, <2>1, <2>2
    <3>2. i <= k => a[i] = s[i]
      BY <1>1, <1>2
    <3> HIDE DEF w, a
    <3> QED BY <1>1, <1>4, <3>1, <3>2
  <2>3. CASE ~(i <= k + 1)
    <3>1. w[i] = b[i - (k + 1)] /\ i - (k + 1) \in 1..(n - k) /\ k + (i - (k + 1)) = i - 1
      BY <1>1, <1>4, <1>5, <2>1, <2>3
    <3>2. b[i - (k + 1)] = s[i - 1]
      BY <1>3, <3>1
    <3> HIDE DEF w
    <3> QED BY <1>1, <2>3, <3>1, <3>2
  <2> QED BY <2>2, <2>3
<1> HIDE DEF w
<1>9. InsertAt(s, j, x) = w
  BY <1>6 DEF w
<1>10. \A i \in 1..(n + 1) : (i <= k <=> i < j) /\ (i = k + 1 <=> i = j)
  BY <1>0, <1>1
<1>11. Insertion(w, s, j, x)
  BY <1>7, <1>8, <1>10 DEF Insertion
<1> QED BY <1>7, <1>9, <1>11

LEMMA InsertAtEnd ==
  ASSUME NEW T, NEW s \in Seq(T), NEW x \in T, NEW j, j = Len(s) + 1
  PROVE  InsertAt(s, j, x) = Append(s, x)
<1> DEFINE w == InsertAt(s, j, x)
<1> DEFINE v == Append(s, x)
<1>1. j \in 1..(Len(s) + 1) /\ Len(s) \in Nat
  BY LenProperties
<1>2. /\ w \in Seq(T) /\ Len(w) = Len(s) + 1
      /\ \A i \in 1..(Len(s) + 1) :
           w[i] = IF i < j THEN s[i] ELSE IF i = j THEN x ELSE s[i - 1]
  <2>1. w \in Seq(T) /\ Insertion(w, s, j, x)
    BY <1>1, InsertAtIs
  <2> HIDE DEF w
  <2> QED BY <2>1 DEF Insertion
<1>3. /\ v \in Seq(T) /\ Len(v) = Len(s) + 1 /\ v[Len(s) + 1] = x
      /\ \A i \in 1..Len(s) : v[i] = s[i]
  BY AppendProperties
<1> HIDE DEF w, v
<1>4. \A i \in 1..Len(w) : w[i] = v[i]
  BY <1>1, <1>2, <1>3
<1>5. w = v
  BY <1>2, <1>3, <1>4, SeqEqual
<1> QED BY <1>5 DEF w, v

LEMMA InsertBeforeEnd ==
  ASSUME NEW T, NEW s \in Seq(T), NEW j \in 1..(Len(s) + 1), NEW x \in T, NEW y \in T
  PROVE  InsertAt(Append(s, x), j, y) = Append(InsertAt(s, j, y), x)
<1> DEFINE n == Len(s)
<1> DEFINE t == Append(s, x)
<1> DEFINE u == InsertAt(s, j, y)
<1> DEFINE v == InsertAt(t, j, y)
<1> DEFINE w == Append(u, x)
<1>1. n \in Nat /\ j \in Int /\ j <= n + 1 /\ 1 <= j
  BY LenProperties
<1>2. /\ t \in Seq(T) /\ Len(t) = n + 1 /\ t[n + 1] = x
      /\ \A i \in 1..n : t[i] = s[i]
  BY AppendProperties
<1>3. /\ u \in Seq(T) /\ Len(u) = n + 1
      /\ \A i \in 1..(n + 1) :
           u[i] = IF i < j THEN s[i] ELSE IF i = j THEN y ELSE s[i - 1]
  <2>1. u \in Seq(T) /\ Insertion(u, s, j, y)
    BY InsertAtIs
  <2> HIDE DEF u
  <2> QED BY <2>1 DEF Insertion
<1> HIDE DEF t, u
<1>4. /\ v \in Seq(T) /\ Len(v) = Len(t) + 1
      /\ \A i \in 1..(Len(t) + 1) :
           v[i] = IF i < j THEN t[i] ELSE IF i = j THEN y ELSE t[i - 1]
  <2>1. j \in 1..(Len(t) + 1)
    BY <1>1, <1>2
  <2>2. v \in Seq(T) /\ Insertion(v, t, j, y)
    BY <1>2, <2>1, InsertAtIs
  <2> HIDE DEF v
  <2> QED BY <2>2 DEF Insertion
<1>5. /\ w \in Seq(T) /\ Len(w) = Len(u) + 1 /\ w[Len(u) + 1] = x
      /\ \A i \in 1..Len(u) : w[i] = u[i]
  BY <1>3, AppendProperties
<1> HIDE DEF v, w, n
<1>6. Len(v) = n + 2 /\ Len(w) = n + 2
  BY <1>1, <1>2, <1>3, <1>4, <1>5
<1>7. ASSUME NEW i \in 1..(n + 2) PROVE v[i] = w[i]
  <2>1. CASE i = n + 2
    <3>1. v[i] = t[i - 1] /\ i - 1 = n + 1
      BY <1>1, <1>2, <1>4, <2>1
    <3>2. w[i] = x
      BY <1>1, <1>3, <1>5, <2>1
    <3> QED BY <1>2, <3>1, <3>2
  <2>2. CASE i # n + 2
    <3>1. i \in 1..(n + 1) /\ w[i] = u[i]
      BY <1>1, <1>3, <1>5, <2>2
    <3>2. v[i] = IF i < j THEN t[i] ELSE IF i = j THEN y ELSE t[i - 1]
      BY <1>1, <1>2, <1>4
    <3>3. i < j => t[i] = s[i]
      BY <1>1, <1>2
    <3>4. (~(i < j) /\ i # j) => t[i - 1] = s[i - 1]
      BY <1>1, <1>2, <3>1
    <3> QED BY <1>3, <3>1, <3>2, <3>3, <3>4
  <2> QED BY <2>1, <2>2
<1>8. v = w
  BY <1>4, <1>5, <1>6, <1>7, SeqEqual
<1> QED BY <1>8 DEF v, w, u, t

MarkerSet(C) == [cycle : C, what : {"framing", "reset", "rx"}, bytes : Seq(Stamped(Nat))]

\* Where a row goes.
GoesAt(s, m, k) ==
  /\ k \in 0..Len(s)
  /\ k > 0 => s[k].cycle <= m.cycle
  /\ \A i \in (k + 1)..Len(s) : s[i].cycle > m.cycle

LEMMA NotLaterIs ==
  ASSUME NEW s \in Seq(MarkerSet(Nat)), NEW m \in MarkerSet(Nat), NEW k, GoesAt(s, m, k)
  PROVE  NotLater(s, m) = k
<1>1. NotLater(s, m) = CHOOSE j \in 0..Len(s) : GoesAt(s, m, j)
  BY DEF NotLater, GoesAt
<1>2. ASSUME NEW j, GoesAt(s, m, j) PROVE j = k
  <2>1. Len(s) \in Nat /\ \A i \in 1..Len(s) : s[i].cycle \in Nat
    <3>1. \A i \in 1..Len(s) : s[i] \in MarkerSet(Nat)
      BY ElementOfSeq
    <3> QED BY <3>1, LenProperties DEF MarkerSet
  <2>2. m.cycle \in Nat
    BY DEF MarkerSet
  <2>3. ASSUME NEW a, NEW b, GoesAt(s, m, a), GoesAt(s, m, b) PROVE ~(a < b)
    <3> SUFFICES ASSUME a < b PROVE FALSE
      OBVIOUS
    <3>1. a \in 0..Len(s) /\ b \in 0..Len(s)
      BY <2>3 DEF GoesAt
    <3>2. b > 0 /\ b \in (a + 1)..Len(s) /\ b \in 1..Len(s)
      BY <2>1, <3>1
    <3>3. s[b].cycle <= m.cycle /\ s[b].cycle > m.cycle
      BY <2>3, <3>2 DEF GoesAt
    <3> QED BY <2>1, <2>2, <3>2, <3>3
  <2>4. ~(j < k) /\ ~(k < j)
    BY <1>2, <2>3
  <2>5. j \in 0..Len(s) /\ k \in 0..Len(s)
    BY <1>2 DEF GoesAt
  <2> QED BY <2>1, <2>4, <2>5
<1>3. k \in 0..Len(s)
  BY DEF GoesAt
<1> QED BY <1>1, <1>2, <1>3

LEMMA GoesSomewhere ==
  ASSUME NEW m \in MarkerSet(Nat)
  PROVE  \A s \in Seq(MarkerSet(Nat)) : GoesAt(s, m, NotLater(s, m))
<1> DEFINE S == {s \in Seq(MarkerSet(Nat)) : \E k : GoesAt(s, m, k)}
<1>1. <<>> \in S
  <2>1. GoesAt(<<>>, m, 0)
    BY DEF GoesAt
  <2> QED BY <2>1, EmptySeq
<1>2. ASSUME NEW s \in Seq(MarkerSet(Nat)), NEW x \in MarkerSet(Nat), s \in S
      PROVE  Append(s, x) \in S
  <2> DEFINE t == Append(s, x)
  <2>1. /\ t \in Seq(MarkerSet(Nat)) /\ Len(t) = Len(s) + 1 /\ t[Len(s) + 1] = x
        /\ \A i \in 1..Len(s) : t[i] = s[i]
        /\ Len(s) \in Nat
    BY AppendProperties, LenProperties
  <2> HIDE DEF t
  <2>2. x.cycle \in Nat /\ m.cycle \in Nat
    BY DEF MarkerSet
  <2>3. CASE x.cycle <= m.cycle
    <3>1. GoesAt(t, m, Len(s) + 1)
      BY <2>1, <2>3 DEF GoesAt
    <3> QED BY <2>1, <3>1 DEF t
  <2>4. CASE ~(x.cycle <= m.cycle)
    <3>1. PICK k : GoesAt(s, m, k)
      BY <1>2
    <3>2. k \in 0..Len(s) /\ k \in 0..Len(t)
      BY <2>1, <3>1 DEF GoesAt
    <3>3. k > 0 => t[k].cycle <= m.cycle
      <4> SUFFICES ASSUME k > 0 PROVE t[k].cycle <= m.cycle
        OBVIOUS
      <4>1. k \in 1..Len(s)
        BY <2>1, <3>2
      <4> QED BY <2>1, <3>1, <4>1 DEF GoesAt
    <3>4. ASSUME NEW i \in (k + 1)..Len(t) PROVE t[i].cycle > m.cycle
      <4>1. CASE i = Len(s) + 1
        BY <2>1, <2>2, <2>4, <4>1
      <4>2. CASE i # Len(s) + 1
        <5>1. i \in (k + 1)..Len(s) /\ i \in 1..Len(s)
          BY <2>1, <3>2, <4>2
        <5> QED BY <2>1, <3>1, <5>1 DEF GoesAt
      <4> QED BY <4>1, <4>2
    <3>5. GoesAt(t, m, k)
      BY <3>2, <3>3, <3>4 DEF GoesAt
    <3> QED BY <2>1, <3>5 DEF t
  <2> QED BY <2>3, <2>4
<1> HIDE DEF S
<1>3. Seq(MarkerSet(Nat)) \subseteq S
  BY <1>1, <1>2, TxRows!SequenceInduction
<1>4. ASSUME NEW s \in Seq(MarkerSet(Nat)) PROVE GoesAt(s, m, NotLater(s, m))
  <2>1. PICK k : GoesAt(s, m, k)
    BY <1>3 DEF S
  <2> QED BY <2>1, NotLaterIs
<1> QED BY <1>4

LEMMA MarkersAre ==
  ASSUME NEW C \in SUBSET Nat
  PROVE  /\ MarkerSet(C) \subseteq MarkerSet(Nat)
         /\ \A s \in Seq(MarkerSet(C)) : s \in Seq(MarkerSet(Nat))
<1>1. MarkerSet(C) \subseteq MarkerSet(Nat)
  BY DEF MarkerSet
<1> QED BY <1>1, SeqMonotonic

LEMMA InsertedType ==
  ASSUME NEW C \in SUBSET Nat, NEW s \in Seq(MarkerSet(C)), NEW m \in MarkerSet(C)
  PROVE  Inserted(s, m) \in Seq(MarkerSet(C))
<1>1. s \in Seq(MarkerSet(Nat)) /\ m \in MarkerSet(Nat)
  BY MarkersAre
<1>2. NotLater(s, m) \in 0..Len(s) /\ Len(s) \in Nat
  BY <1>1, GoesSomewhere, LenProperties DEF GoesAt
<1>3. NotLater(s, m) + 1 \in 1..(Len(s) + 1)
  BY <1>2
<1> QED BY <1>3, InsertAtIs DEF Inserted

\* The latest goes to the end.
LEMMA InsertedLast ==
  ASSUME NEW C \in SUBSET Nat, NEW s \in Seq(MarkerSet(C)), NEW m \in MarkerSet(Nat),
         \A c \in C : c <= m.cycle
  PROVE  Inserted(s, m) = Append(s, m)
<1>1. s \in Seq(MarkerSet(Nat)) /\ Len(s) \in Nat
  BY MarkersAre, LenProperties
<1>2. GoesAt(s, m, Len(s))
  <2>1. ASSUME Len(s) > 0 PROVE s[Len(s)].cycle <= m.cycle
    <3>1. Len(s) \in 1..Len(s)
      BY <1>1, <2>1
    <3>2. s[Len(s)] \in MarkerSet(C)
      BY <3>1, ElementOfSeq
    <3> QED BY <3>2 DEF MarkerSet
  <2>2. \A i \in (Len(s) + 1)..Len(s) : s[i].cycle > m.cycle
    BY <1>1
  <2> QED BY <1>1, <2>1, <2>2 DEF GoesAt
<1>3. NotLater(s, m) = Len(s)
  BY <1>1, <1>2, NotLaterIs
<1> QED BY <1>1, <1>3, InsertAtEnd DEF Inserted

\* Behind a later one nothing changes.
LEMMA InsertedBefore ==
  ASSUME NEW s \in Seq(MarkerSet(Nat)), NEW m \in MarkerSet(Nat), NEW x \in MarkerSet(Nat),
         x.cycle < m.cycle
  PROVE  Inserted(Append(s, m), x) = Append(Inserted(s, x), m)
<1> DEFINE t == Append(s, m)
<1> DEFINE k == NotLater(s, x)
<1>1. /\ t \in Seq(MarkerSet(Nat)) /\ Len(t) = Len(s) + 1 /\ t[Len(s) + 1] = m
      /\ \A i \in 1..Len(s) : t[i] = s[i]
      /\ Len(s) \in Nat
  BY AppendProperties, LenProperties
<1>2. GoesAt(s, x, k)
  BY GoesSomewhere
<1> HIDE DEF t, k
<1>3. k \in 0..Len(s) /\ k \in 0..Len(t) /\ k + 1 \in 1..(Len(s) + 1)
  BY <1>1, <1>2 DEF GoesAt
<1>4. GoesAt(t, x, k)
  <2>1. k > 0 => t[k].cycle <= x.cycle
    <3> SUFFICES ASSUME k > 0 PROVE t[k].cycle <= x.cycle
      OBVIOUS
    <3>1. k \in 1..Len(s)
      BY <1>1, <1>3
    <3> QED BY <1>1, <1>2, <3>1 DEF GoesAt
  <2>2. ASSUME NEW i \in (k + 1)..Len(t) PROVE t[i].cycle > x.cycle
    <3>1. CASE i = Len(s) + 1
      <4>1. m.cycle \in Nat /\ x.cycle \in Nat
        BY DEF MarkerSet
      <4> QED BY <1>1, <3>1, <4>1
    <3>2. CASE i # Len(s) + 1
      <4>1. i \in (k + 1)..Len(s) /\ i \in 1..Len(s)
        BY <1>1, <1>3, <3>2
      <4> QED BY <1>1, <1>2, <4>1 DEF GoesAt
    <3> QED BY <3>1, <3>2
  <2> QED BY <1>3, <2>1, <2>2 DEF GoesAt
<1>5. NotLater(t, x) = k
  BY <1>1, <1>4, NotLaterIs
<1>6. InsertAt(t, k + 1, x) = Append(InsertAt(s, k + 1, x), m)
  BY <1>3, InsertBeforeEnd DEF t
<1> QED BY <1>5, <1>6 DEF Inserted, t, k

LEMMA SortType ==
  ASSUME NEW C \in SUBSET Nat
  PROVE  \A s \in Seq(MarkerSet(C)) : StableSort(s) \in Seq(MarkerSet(C))
<1> DEFINE M == MarkerSet(C)
<1> DEFINE S == {s \in Seq(M) : StableSort(s) \in Seq(M)}
<1>1. <<>> \in S
  BY SortIs, EmptySeq
<1>2. ASSUME NEW s \in Seq(M), NEW x \in M, s \in S PROVE Append(s, x) \in S
  <2>1. StableSort(Append(s, x)) = Inserted(StableSort(s), x)
    <3> HIDE DEF M
    <3> QED BY SortIs
  <2> QED BY <1>2, <2>1, InsertedType, AppendProperties
<1> HIDE DEF S
<1>3. Seq(M) \subseteq S
  BY <1>1, <1>2, TxRows!SequenceInduction
<1> QED BY <1>3 DEF S

\* A marker that is not before any, collected last.
LEMMA SortLast ==
  ASSUME NEW C \in SUBSET Nat, NEW s \in Seq(MarkerSet(C)), NEW m \in MarkerSet(Nat),
         \A c \in C : c <= m.cycle
  PROVE  StableSort(Append(s, m)) = Append(StableSort(s), m)
<1>1. s \in Seq(MarkerSet(Nat)) /\ StableSort(s) \in Seq(MarkerSet(C))
  BY MarkersAre, SortType
<1>2. StableSort(Append(s, m)) = Inserted(StableSort(s), m)
  BY <1>1, SortIs
<1> QED BY <1>1, <1>2, InsertedLast

\* A marker that is after those collected behind it.
LEMMA SortMiddle ==
  ASSUME NEW C \in SUBSET Nat, NEW s \in Seq(MarkerSet(C)), NEW m \in MarkerSet(Nat),
         \A c \in C : c <= m.cycle, NEW D \in SUBSET Nat, \A c \in D : c < m.cycle
  PROVE  \A t \in Seq(MarkerSet(D)) :
           StableSort(Append(s, m) \o t) = Append(StableSort(s \o t), m)
<1> DEFINE N == MarkerSet(Nat)
<1> DEFINE M == MarkerSet(D)
<1> DEFINE S == {t \in Seq(M) : StableSort(Append(s, m) \o t) = Append(StableSort(s \o t), m)}
<1>0. s \in Seq(N) /\ Append(s, m) \in Seq(N) /\ M \subseteq N
  BY MarkersAre, AppendProperties
<1>1. <<>> \in S
  <2>1. Append(s, m) \o <<>> = Append(s, m) /\ s \o <<>> = s
    BY <1>0, ConcatEmptySeq
  <2> QED BY <2>1, SortLast, EmptySeq
<1>2. ASSUME NEW t \in Seq(M), NEW x \in M, t \in S PROVE Append(t, x) \in S
  <2>0. t \in Seq(N) /\ x \in N /\ x.cycle < m.cycle
    BY <1>0, MarkersAre DEF MarkerSet
  <2>1. ASSUME NEW r \in Seq(N) PROVE r \o Append(t, x) = Append(r \o t, x)
    <3> HIDE DEF N, M
    <3>1. Append(t, x) = t \o <<x>> /\ <<x>> \in Seq(N)
      BY <2>0, AppendIsConcat
    <3>2. (r \o t) \o <<x>> = r \o (t \o <<x>>)
      BY ONLY <2>0, <2>1, <3>1, ConcatAssociative
    <3>3. r \o t \in Seq(N)
      BY <2>0, ConcatProperties
    <3>4. Append(r \o t, x) = (r \o t) \o <<x>>
      BY <2>0, <3>3, AppendIsConcat
    <3> QED BY <3>1, <3>2, <3>4
  <2> DEFINE a == Append(s, m) \o t
  <2> DEFINE b == s \o t
  <2>2. a \in Seq(N) /\ b \in Seq(N) /\ StableSort(b) \in Seq(N)
    <3>1. a \in Seq(N) /\ b \in Seq(N)
      <4> HIDE DEF N
      <4> QED BY <1>0, <2>0, ConcatProperties
    <3> HIDE DEF a, b
    <3> QED BY <3>1, SortType
  <2>3. Append(s, m) \o Append(t, x) = Append(a, x) /\ s \o Append(t, x) = Append(b, x)
    BY <1>0, <2>1
  <2>4. StableSort(a) = Append(StableSort(b), m)
    BY <1>2
  <2> HIDE DEF a, b
  <2>5. StableSort(Append(a, x)) = Inserted(StableSort(a), x)
    BY <2>0, <2>2, SortIs
  <2>6. StableSort(Append(b, x)) = Inserted(StableSort(b), x)
    BY <2>0, <2>2, SortIs
  <2>7. Inserted(Append(StableSort(b), m), x) = Append(Inserted(StableSort(b), x), m)
    BY <2>0, <2>2, InsertedBefore
  <2>8. Append(t, x) \in Seq(M)
    BY AppendProperties
  <2> QED BY <2>3, <2>4, <2>5, <2>6, <2>7, <2>8
<1> HIDE DEF S
<1>3. Seq(M) \subseteq S
  BY <1>1, <1>2, TxRows!SequenceInduction
<1> QED BY <1>3 DEF S

-----------------------------------------------------------------------------
(* Placing rows among the bytes. *)

Accs == [term : Terminals, tx : Seq(Stamped(Nat))]
Acc(t, tx) == [term |-> t, tx |-> tx]

\* Where the bytes are split.
SplitsAt(tx, m, k) ==
  /\ k \in 0..Len(tx)
  /\ \A i \in 1..k : tx[i].cycle <= m.cycle
  /\ k < Len(tx) => tx[k + 1].cycle > m.cycle

LEMMA BeforeIs ==
  ASSUME NEW tx \in Seq(Stamped(Nat)), NEW m \in MarkerSet(Nat), NEW k, SplitsAt(tx, m, k)
  PROVE  Before(tx, m) = k
<1>1. Before(tx, m) = CHOOSE j \in 0..Len(tx) : SplitsAt(tx, m, j)
  BY DEF Before, SplitsAt
<1>2. ASSUME NEW j, SplitsAt(tx, m, j) PROVE j = k
  <2>1. Len(tx) \in Nat /\ \A i \in 1..Len(tx) : tx[i].cycle \in Nat
    <3>1. \A i \in 1..Len(tx) : tx[i] \in Stamped(Nat)
      BY ElementOfSeq
    <3> QED BY <3>1, LenProperties DEF Stamped
  <2>2. m.cycle \in Nat
    BY DEF MarkerSet
  <2>3. ASSUME NEW a, NEW b, SplitsAt(tx, m, a), SplitsAt(tx, m, b) PROVE ~(a < b)
    <3> SUFFICES ASSUME a < b PROVE FALSE
      OBVIOUS
    <3>1. a \in 0..Len(tx) /\ b \in 0..Len(tx)
      BY <2>3 DEF SplitsAt
    <3>2. a + 1 \in 1..b /\ a < Len(tx) /\ a + 1 \in 1..Len(tx)
      BY <2>1, <3>1
    <3>3. tx[a + 1].cycle <= m.cycle /\ tx[a + 1].cycle > m.cycle
      BY <2>3, <3>2 DEF SplitsAt
    <3> QED BY <2>1, <2>2, <3>2, <3>3
  <2>4. ~(j < k) /\ ~(k < j)
    BY <1>2, <2>3
  <2>5. j \in 0..Len(tx) /\ k \in 0..Len(tx)
    BY <1>2 DEF SplitsAt
  <2> QED BY <2>1, <2>4, <2>5
<1>3. k \in 0..Len(tx)
  BY DEF SplitsAt
<1> QED BY <1>1, <1>2, <1>3

\* A byte stamped later does not move the split.
LEMMA SplitBefore ==
  ASSUME NEW s \in Seq(Stamped(Nat)), NEW m \in MarkerSet(Nat), NEW x \in Stamped(Nat),
         NEW k, SplitsAt(s, m, k), x.cycle > m.cycle
  PROVE  SplitsAt(Append(s, x), m, k)
<1> DEFINE t == Append(s, x)
<1>1. /\ Len(t) = Len(s) + 1 /\ t[Len(s) + 1] = x
      /\ \A i \in 1..Len(s) : t[i] = s[i]
      /\ Len(s) \in Nat
  BY AppendProperties, LenProperties
<1> HIDE DEF t
<1>2. k \in 0..Len(s) /\ k \in 0..Len(t)
  BY <1>1 DEF SplitsAt
<1>3. \A i \in 1..k : t[i].cycle <= m.cycle
  <2> SUFFICES ASSUME NEW i \in 1..k PROVE t[i].cycle <= m.cycle
    OBVIOUS
  <2>1. i \in 1..Len(s)
    BY <1>1, <1>2
  <2> QED BY <1>1, <2>1 DEF SplitsAt
<1>4. k < Len(t) => t[k + 1].cycle > m.cycle
  <2>1. CASE k = Len(s)
    BY <1>1, <2>1
  <2>2. CASE k # Len(s)
    <3>1. k < Len(s) /\ k + 1 \in 1..Len(s)
      BY <1>1, <1>2, <2>2
    <3> QED BY <1>1, <3>1 DEF SplitsAt
  <2> QED BY <2>1, <2>2
<1> QED BY <1>2, <1>3, <1>4 DEF SplitsAt, t

LEMMA SplitsSomewhere ==
  ASSUME NEW m \in MarkerSet(Nat)
  PROVE  \A tx \in Seq(Stamped(Nat)) : SplitsAt(tx, m, Before(tx, m))
<1> DEFINE S == {s \in Seq(Stamped(Nat)) : \E k : SplitsAt(s, m, k)}
<1>1. <<>> \in S
  <2>1. SplitsAt(<<>>, m, 0)
    BY DEF SplitsAt
  <2> QED BY <2>1, EmptySeq
<1>2. ASSUME NEW s \in Seq(Stamped(Nat)), NEW x \in Stamped(Nat), s \in S
      PROVE  Append(s, x) \in S
  <2> DEFINE t == Append(s, x)
  <2>1. /\ t \in Seq(Stamped(Nat)) /\ Len(t) = Len(s) + 1 /\ t[Len(s) + 1] = x
        /\ \A i \in 1..Len(s) : t[i] = s[i]
        /\ Len(s) \in Nat
    BY AppendProperties, LenProperties
  <2>2. x.cycle \in Nat /\ m.cycle \in Nat
    BY DEF MarkerSet, Stamped
  <2>3. PICK k : SplitsAt(s, m, k)
    BY <1>2
  <2>4. k \in 0..Len(s)
    BY <2>3 DEF SplitsAt
  <2>5. CASE x.cycle > m.cycle
    <3>1. SplitsAt(t, m, k)
      BY <2>3, <2>5, SplitBefore
    <3> QED BY <2>1, <3>1
  <2>6. CASE ~(x.cycle > m.cycle) /\ k = Len(s)
    <3> HIDE DEF t
    <3>1. SplitsAt(t, m, Len(s) + 1)
      <4>1. ASSUME NEW i \in 1..(Len(s) + 1) PROVE t[i].cycle <= m.cycle
        <5>1. CASE i = Len(s) + 1
          BY <2>1, <2>2, <2>6, <5>1
        <5>2. CASE i # Len(s) + 1
          <6>1. i \in 1..Len(s)
            BY <2>1, <5>2
          <6> QED BY <2>1, <2>3, <2>6, <6>1 DEF SplitsAt
        <5> QED BY <5>1, <5>2
      <4> QED BY <2>1, <4>1 DEF SplitsAt
    <3> QED BY <2>1, <3>1 DEF t
  <2>7. CASE k # Len(s)
    <3> HIDE DEF t
    <3>1. SplitsAt(t, m, k)
      <4>1. k \in 0..Len(t) /\ k < Len(s) /\ k + 1 \in 1..Len(s)
        BY <2>1, <2>4, <2>7
      <4>2. \A i \in 1..k : t[i] = s[i]
        BY <2>1, <2>4
      <4>3. t[k + 1] = s[k + 1]
        BY <2>1, <4>1
      <4> QED BY <2>3, <4>1, <4>2, <4>3 DEF SplitsAt
    <3> QED BY <2>1, <3>1 DEF t
  <2> QED BY <2>5, <2>6, <2>7
<1> HIDE DEF S
<1>3. Seq(Stamped(Nat)) \subseteq S
  BY <1>1, <1>2, TxRows!SequenceInduction
<1>4. ASSUME NEW tx \in Seq(Stamped(Nat)) PROVE SplitsAt(tx, m, Before(tx, m))
  <2>1. PICK k : SplitsAt(tx, m, k)
    BY <1>3 DEF S
  <2> QED BY <2>1, BeforeIs
<1> QED BY <1>4

\* Either side of a sequence with one element more.
LEMMA SubSeqOfAppend ==
  ASSUME NEW T, NEW s \in Seq(T), NEW x \in T, NEW k \in 0..Len(s), NEW j, j = k + 1
  PROVE  /\ SubSeq(Append(s, x), 1, k) = SubSeq(s, 1, k)
         /\ SubSeq(Append(s, x), j, Len(Append(s, x))) = Append(SubSeq(s, j, Len(s)), x)
<1> DEFINE n == Len(s)
<1> DEFINE t == Append(s, x)
<1>1. /\ t \in Seq(T) /\ Len(t) = n + 1 /\ t[n + 1] = x /\ n \in Nat
      /\ \A i \in 1..n : t[i] = s[i]
      /\ \A i \in 1..n : s[i] \in T
  BY AppendProperties, LenProperties, ElementOfSeq
<1>2. k \in Int /\ k <= n /\ 0 <= k
  BY <1>1
<1> HIDE DEF t, n
<1>3. SubSeq(t, 1, k) = SubSeq(s, 1, k)
  <2> DEFINE a == SubSeq(t, 1, k)
  <2> DEFINE b == SubSeq(s, 1, k)
  <2>1. (\A i \in 1..k : s[i] \in T) /\ \A i \in 1..k : t[i] \in T
    BY <1>1, <1>2
  <2>2. /\ a \in Seq(T) /\ Len(a) = IF 1 <= k THEN k - 1 + 1 ELSE 0
        /\ \A i \in 1..(k - 1 + 1) : a[i] = t[1 + i - 1]
    BY <1>2, <2>1, SubSeqProperties
  <2>3. /\ b \in Seq(T) /\ Len(b) = IF 1 <= k THEN k - 1 + 1 ELSE 0
        /\ \A i \in 1..(k - 1 + 1) : b[i] = s[1 + i - 1]
    BY <1>2, <2>1, SubSeqProperties
  <2> HIDE DEF a, b
  <2>4. Len(a) = k /\ Len(b) = k /\ \A i \in 1..k : a[i] = t[i] /\ b[i] = s[i]
    BY <1>2, <2>2, <2>3
  <2>5. \A i \in 1..Len(a) : a[i] = b[i]
    BY <1>1, <1>2, <2>4
  <2>6. a = b
    BY <2>2, <2>3, <2>4, <2>5, SeqEqual
  <2> QED BY <2>6 DEF a, b
<1>4. SubSeq(t, k + 1, n + 1) = Append(SubSeq(s, k + 1, n), x)
  <2> DEFINE a == SubSeq(t, k + 1, n + 1)
  <2> DEFINE b == SubSeq(s, k + 1, n)
  <2> DEFINE d == Append(b, x)
  <2>1. (\A i \in (k + 1)..(n + 1) : t[i] \in T) /\ \A i \in (k + 1)..n : s[i] \in T
    BY <1>1, <1>2
  <2>2. /\ a \in Seq(T) /\ Len(a) = IF k + 1 <= n + 1 THEN (n + 1) - (k + 1) + 1 ELSE 0
        /\ \A i \in 1..((n + 1) - (k + 1) + 1) : a[i] = t[(k + 1) + i - 1]
    <3>1. k + 1 \in Int /\ n + 1 \in Int
      BY <1>1, <1>2
    <3> QED BY <2>1, <3>1, SubSeqProperties
  <2>3. /\ b \in Seq(T) /\ Len(b) = IF k + 1 <= n THEN n - (k + 1) + 1 ELSE 0
        /\ \A i \in 1..(n - (k + 1) + 1) : b[i] = s[(k + 1) + i - 1]
    <3>1. k + 1 \in Int /\ n \in Int
      BY <1>1, <1>2
    <3> QED BY <2>1, <3>1, SubSeqProperties
  <2> HIDE DEF a, b
  <2>4. Len(a) = n - k + 1 /\ Len(b) = n - k /\ (\A i \in 1..(n - k + 1) : a[i] = t[k + i])
        /\ \A i \in 1..(n - k) : b[i] = s[k + i]
    <3>1. Len(a) = n - k + 1 /\ Len(b) = n - k
      BY <1>1, <1>2, <2>2, <2>3
    <3>2. ASSUME NEW i \in 1..(n - k + 1) PROVE a[i] = t[k + i]
      <4>1. (k + 1) + i - 1 = k + i /\ (n + 1) - (k + 1) + 1 = n - k + 1
        BY <1>1, <1>2
      <4> QED BY <2>2, <4>1
    <3>3. \A i \in 1..(n - k) : b[i] = s[k + i]
      BY <1>1, <1>2, <2>3
    <3> QED BY <3>1, <3>2, <3>3
  <2>5. /\ d \in Seq(T) /\ Len(d) = Len(b) + 1 /\ d[Len(b) + 1] = x
        /\ \A i \in 1..Len(b) : d[i] = b[i]
    BY <2>3, AppendProperties
  <2> HIDE DEF d
  <2>6. \A i \in 1..Len(a) : a[i] = d[i]
    <3> SUFFICES ASSUME NEW i \in 1..(n - k + 1) PROVE a[i] = d[i]
      BY <2>4
    <3>1. CASE i = n - k + 1
      <4>1. k + i = n + 1
        BY <1>1, <1>2, <3>1
      <4> QED BY <1>1, <2>4, <2>5, <3>1, <4>1
    <3>2. CASE i # n - k + 1
      <4>1. i \in 1..(n - k) /\ k + i \in 1..n
        BY <1>1, <1>2, <3>2
      <4> QED BY <1>1, <2>4, <2>5, <4>1
    <3> QED BY <3>1, <3>2
  <2>7. Len(a) = Len(d)
    BY <1>1, <1>2, <2>4, <2>5
  <2>8. a = d
    BY <2>2, <2>5, <2>6, <2>7, SeqEqual
  <2> QED BY <2>8 DEF a, b, d
<1>5. j = k + 1 /\ Len(t) = n + 1
  BY <1>1
<1> QED BY <1>3, <1>4, <1>5 DEF t, n

\* What the split leaves on either side.
LEMMA SplitIs ==
  ASSUME NEW C \in SUBSET Nat, NEW tx \in Seq(Stamped(C)), NEW k \in 0..Len(tx)
  PROVE  /\ SubSeq(tx, 1, k) \in Seq(Stamped(C))
         /\ SubSeq(tx, k + 1, Len(tx)) \in Seq(Stamped(C))
<1>1. Len(tx) \in Nat /\ \A i \in 1..Len(tx) : tx[i] \in Stamped(C)
  BY LenProperties, ElementOfSeq
<1>2. (\A i \in 1..k : tx[i] \in Stamped(C)) /\ \A i \in (k + 1)..Len(tx) : tx[i] \in Stamped(C)
  BY <1>1
<1>3. 1 \in Int /\ k \in Int /\ k + 1 \in Int /\ Len(tx) \in Int
  BY <1>1
<1> QED BY <1>2, <1>3, SubSeqProperties

LEMMA BytesAre ==
  ASSUME NEW C \in SUBSET Nat
  PROVE  /\ Stamped(C) \subseteq Stamped(Nat)
         /\ \A s \in Seq(Stamped(C)) : s \in Seq(Stamped(Nat))
<1>1. Stamped(C) \subseteq Stamped(Nat)
  BY DEF Stamped
<1> QED BY <1>1, SeqMonotonic

MarkerHappened(m) == Happened(m.what, m.cycle, m.bytes)

LEMMA PutMarkerIs ==
  ASSUME NEW t \in Terminals, NEW m \in MarkerSet(Nat)
  PROVE  /\ PutMarker(t, m) = Trimmed(Watched(t, MarkerHappened(m)))
         /\ MarkerHappened(m) \in Happenings
         /\ PutMarker(t, m) \in Terminals
<1>1. /\ m.what \in {"framing", "reset", "rx"} /\ m.cycle \in Nat
      /\ m.bytes \in Seq(Stamped(Nat))
  BY DEF MarkerSet
<1>2. MarkerHappened(m) \in Happenings
  BY <1>1 DEF MarkerHappened, Happened, Happenings, Kinds
<1>3. PutMarker(t, m) = Trimmed(Watched(t, MarkerHappened(m)))
  <2>1. /\ MarkerHappened(m).kind = m.what /\ MarkerHappened(m).at = m.cycle
        /\ MarkerHappened(m).bytes = m.bytes
    BY DEF MarkerHappened, Happened
  <2>2. CASE m.what = "rx"
    BY <2>1, <2>2 DEF PutMarker, Watched, AppendTraffic
  <2>3. CASE m.what # "rx"
    <3>1. m.what \notin {"rx", "tx", "typed"}
      BY <1>1, <2>3
    <3> QED BY <2>1, <2>3, <3>1 DEF PutMarker, Watched, AppendNotice
  <2> QED BY <2>2, <2>3
<1> QED BY <1>2, <1>3, WatchedIs, TrimmedIs

LEMMA PlaceType ==
  ASSUME NEW C \in SUBSET Nat, NEW t \in Terminals, NEW tx \in Seq(Stamped(C)),
         NEW m \in MarkerSet(Nat)
  PROVE  \E u \in Terminals, rest \in Seq(Stamped(C)) : PlaceMarker(Acc(t, tx), m) = Acc(u, rest)
<1> DEFINE k == Before(tx, m)
<1> DEFINE first == SubSeq(tx, 1, k)
<1> DEFINE rest == SubSeq(tx, k + 1, Len(tx))
<1>1. k \in 0..Len(tx)
  BY BytesAre, SplitsSomewhere DEF SplitsAt
<1>2. first \in Seq(Stamped(C)) /\ rest \in Seq(Stamped(C))
  <2> HIDE DEF k
  <2> QED BY <1>1, SplitIs
<1>3. AppendTraffic(t, "tx", first) \in Terminals
  <2> HIDE DEF first
  <2> QED BY <1>2, BytesAre, AppendTrafficIs
<1>4. PutMarker(AppendTraffic(t, "tx", first), m) \in Terminals
  <2> HIDE DEF first
  <2> QED BY <1>3, PutMarkerIs
<1>5. PlaceMarker(Acc(t, tx), m) = Acc(PutMarker(AppendTraffic(t, "tx", first), m), rest)
  BY DEF PlaceMarker, Acc
<1> QED BY <1>2, <1>4, <1>5

LEMMA PlacedType ==
  ASSUME NEW C \in SUBSET Nat, NEW t \in Terminals, NEW tx \in Seq(Stamped(C))
  PROVE  \A s \in Seq(MarkerSet(Nat)) :
           \E u \in Terminals, rest \in Seq(Stamped(C)) : Placed(Acc(t, tx), s) = Acc(u, rest)
<1> DEFINE M == MarkerSet(Nat)
<1> DEFINE S == {s \in Seq(M) : \E u \in Terminals, rest \in Seq(Stamped(C)) :
                                  Placed(Acc(t, tx), s) = Acc(u, rest)}
<1>1. <<>> \in S
  BY PlacedNone, EmptySeq
<1>2. ASSUME NEW s \in Seq(M), NEW x \in M, s \in S PROVE Append(s, x) \in S
  <2>1. PICK u \in Terminals, rest \in Seq(Stamped(C)) : Placed(Acc(t, tx), s) = Acc(u, rest)
    BY <1>2
  <2>2. Placed(Acc(t, tx), Append(s, x)) = PlaceMarker(Acc(u, rest), x)
    <3> HIDE DEF M
    <3> QED BY <2>1, PlacedNext
  <2>3. PICK v \in Terminals, left \in Seq(Stamped(C)) :
          PlaceMarker(Acc(u, rest), x) = Acc(v, left)
    BY PlaceType
  <2>4. Append(s, x) \in Seq(M)
    BY AppendProperties
  <2> QED BY <2>2, <2>3, <2>4
<1> HIDE DEF S
<1>3. Seq(M) \subseteq S
  BY <1>1, <1>2, TxRows!SequenceInduction
<1> QED BY <1>3 DEF S

\* A byte later than all rows is left where it is.
LEMMA PlacedLater ==
  ASSUME NEW t \in Terminals, NEW tx \in Seq(Stamped(Nat)), NEW b \in Stamped(Nat),
         NEW C \in SUBSET Nat, \A c \in C : c < b.cycle
  PROVE  \A s \in Seq(MarkerSet(C)) :
           \E u \in Terminals, rest \in Seq(Stamped(Nat)) :
             /\ Placed(Acc(t, tx), s) = Acc(u, rest)
             /\ Placed(Acc(t, Append(tx, b)), s) = Acc(u, Append(rest, b))
<1> DEFINE M == MarkerSet(C)
<1> DEFINE S == {s \in Seq(M) : \E u \in Terminals, rest \in Seq(Stamped(Nat)) :
                   /\ Placed(Acc(t, tx), s) = Acc(u, rest)
                   /\ Placed(Acc(t, Append(tx, b)), s) = Acc(u, Append(rest, b))}
<1>1. <<>> \in S
  BY PlacedNone, EmptySeq
<1>2. ASSUME NEW s \in Seq(M), NEW x \in M, s \in S PROVE Append(s, x) \in S
  <2>1. PICK u \in Terminals, rest \in Seq(Stamped(Nat)) :
          /\ Placed(Acc(t, tx), s) = Acc(u, rest)
          /\ Placed(Acc(t, Append(tx, b)), s) = Acc(u, Append(rest, b))
    BY <1>2
  <2>2. /\ Placed(Acc(t, tx), Append(s, x)) = PlaceMarker(Acc(u, rest), x)
        /\ Placed(Acc(t, Append(tx, b)), Append(s, x)) = PlaceMarker(Acc(u, Append(rest, b)), x)
    <3> HIDE DEF M
    <3>1. \A a : Placed(a, Append(s, x)) = PlaceMarker(Placed(a, s), x)
      BY PlacedNext
    <3>2. Placed(Acc(t, tx), Append(s, x)) = PlaceMarker(Acc(u, rest), x)
      BY <2>1, <3>1
    <3>3. Placed(Acc(t, Append(tx, b)), Append(s, x)) = PlaceMarker(Acc(u, Append(rest, b)), x)
      BY <2>1, <3>1
    <3> QED BY <3>2, <3>3
  <2> DEFINE more == Append(rest, b)
  <2> DEFINE k == Before(rest, x)
  <2>3. x \in MarkerSet(Nat) /\ b.cycle > x.cycle
    <3>1. x \in MarkerSet(Nat) /\ x.cycle \in C
      BY MarkersAre DEF MarkerSet
    <3>2. x.cycle \in Nat /\ b.cycle \in Nat /\ x.cycle < b.cycle
      BY <3>1 DEF Stamped
    <3> QED BY <3>1, <3>2
  <2>4. more \in Seq(Stamped(Nat)) /\ Len(more) = Len(rest) + 1 /\ more[Len(rest) + 1] = b
        /\ (\A i \in 1..Len(rest) : more[i] = rest[i]) /\ Len(rest) \in Nat
    BY AppendProperties, LenProperties
  <2>5. SplitsAt(rest, x, k)
    BY <2>3, SplitsSomewhere
  <2>6. SplitsAt(more, x, k)
    <3> HIDE DEF k
    <3> QED BY <2>3, <2>5, SplitBefore
  <2> HIDE DEF more, k
  <2>7. Before(more, x) = k
    BY <2>3, <2>4, <2>6, BeforeIs
  <2>8. k \in 0..Len(rest)
    BY <2>5 DEF SplitsAt
  <2> DEFINE first == SubSeq(rest, 1, k)
  <2> DEFINE left == SubSeq(rest, k + 1, Len(rest))
  <2>9. first \in Seq(Stamped(Nat)) /\ left \in Seq(Stamped(Nat))
    BY <2>8, SplitIs
  <2>10. SubSeq(more, 1, k) = first
    <3> DEFINE j == k + 1
    <3>1. j = k + 1
      OBVIOUS
    <3> HIDE DEF j
    <3> QED BY <2>8, <3>1, SubSeqOfAppend DEF more
  <2>11. SubSeq(more, k + 1, Len(more)) = Append(left, b)
    <3> DEFINE j == k + 1
    <3>1. j = k + 1
      OBVIOUS
    <3> HIDE DEF j
    <3>2. SubSeq(more, j, Len(more)) = Append(SubSeq(rest, j, Len(rest)), b)
      BY <2>8, <3>1, SubSeqOfAppend DEF more
    <3> QED BY <3>1, <3>2
  <2> DEFINE v == PutMarker(AppendTraffic(u, "tx", first), x)
  <2>12. v \in Terminals
    <3>1. AppendTraffic(u, "tx", first) \in Terminals
      <4> HIDE DEF first
      <4> QED BY <2>9, AppendTrafficIs
    <3> HIDE DEF first
    <3> QED BY <2>3, <3>1, PutMarkerIs
  <2>13. PlaceMarker(Acc(u, rest), x) = Acc(v, left)
    BY DEF PlaceMarker, Acc, k
  <2>14. PlaceMarker(Acc(u, more), x) = Acc(v, Append(left, b))
    <3>1. PlaceMarker(Acc(u, more), x) =
            Acc(PutMarker(AppendTraffic(u, "tx", SubSeq(more, 1, k)), x), SubSeq(more, k + 1, Len(more)))
      BY <2>7 DEF PlaceMarker, Acc
    <3> QED BY <2>10, <2>11, <3>1
  <2>15. Append(s, x) \in Seq(M)
    BY AppendProperties
  <2> HIDE DEF v, left, first
  <2> QED BY <2>2, <2>9, <2>12, <2>13, <2>14, <2>15 DEF more
<1> HIDE DEF S
<1>3. Seq(M) \subseteq S
  BY <1>1, <1>2, TxRows!SequenceInduction
<1> QED BY <1>3 DEF S

-----------------------------------------------------------------------------
(* A publication, and one thing more waiting for it. *)

Show(t, tx, markers) ==
  AppendTraffic(Placed(Acc(t, tx), markers).term, "tx", Placed(Acc(t, tx), markers).tx)

LEMMA ShowIs ==
  ASSUME NEW t, NEW tx, NEW markers, NEW u, NEW rest,
         Placed(Acc(t, tx), markers) = Acc(u, rest)
  PROVE  Show(t, tx, markers) = AppendTraffic(u, "tx", rest)
<1>1. Acc(u, rest).term = u /\ Acc(u, rest).tx = rest
  BY DEF Acc
<1> QED BY <1>1 DEF Show

LEMMA ShowType ==
  ASSUME NEW t \in Terminals, NEW tx \in Seq(Stamped(Nat)), NEW s \in Seq(MarkerSet(Nat))
  PROVE  Show(t, tx, s) \in Terminals /\ Trimmed(Show(t, tx, s)) = Show(t, tx, s)
<1>1. PICK u \in Terminals, rest \in Seq(Stamped(Nat)) : Placed(Acc(t, tx), s) = Acc(u, rest)
  BY PlacedType
<1>2. Show(t, tx, s) = AppendTraffic(u, "tx", rest)
  BY <1>1, ShowIs
<1> QED BY <1>2, AppendTrafficIs

LEMMA ShowNone ==
  ASSUME NEW t
  PROVE  Show(t, <<>>, <<>>) = Trimmed(t)
<1>1. Show(t, <<>>, <<>>) = AppendTraffic(t, "tx", <<>>)
  BY PlacedNone, ShowIs
<1> QED BY <1>1, GroupedNone DEF AppendTraffic

LEMMA AllBefore ==
  ASSUME NEW C \in SUBSET Nat, NEW rest \in Seq(Stamped(C)), NEW m \in MarkerSet(Nat),
         \A c \in C : c <= m.cycle
  PROVE  /\ Before(rest, m) = Len(rest)
         /\ SubSeq(rest, 1, Len(rest)) = rest
         /\ SubSeq(rest, Len(rest) + 1, Len(rest)) = <<>>
<1>1. rest \in Seq(Stamped(Nat)) /\ Len(rest) \in Nat
  BY BytesAre, LenProperties
<1>2. \A i \in 1..Len(rest) : rest[i].cycle <= m.cycle
  <2>1. \A i \in 1..Len(rest) : rest[i] \in Stamped(C)
    BY ElementOfSeq
  <2> QED BY <2>1 DEF Stamped
<1>3. SplitsAt(rest, m, Len(rest))
  BY <1>1, <1>2 DEF SplitsAt
<1>4. Before(rest, m) = Len(rest)
  BY <1>1, <1>3, BeforeIs
<1>5. SubSeq(rest, 1, Len(rest)) = rest
  <2> DEFINE a == SubSeq(rest, 1, Len(rest))
  <2>1. \A i \in 1..Len(rest) : rest[i] \in Stamped(C)
    BY ElementOfSeq
  <2>2. /\ a \in Seq(Stamped(C)) /\ Len(a) = IF 1 <= Len(rest) THEN Len(rest) - 1 + 1 ELSE 0
        /\ \A i \in 1..(Len(rest) - 1 + 1) : a[i] = rest[1 + i - 1]
    BY <1>1, <2>1, SubSeqProperties
  <2> HIDE DEF a
  <2>3. Len(a) = Len(rest) /\ \A i \in 1..Len(a) : a[i] = rest[i]
    BY <1>1, <2>2
  <2>4. a = rest
    BY <2>2, <2>3, SeqEqual
  <2> QED BY <2>4 DEF a
<1>6. SubSeq(rest, Len(rest) + 1, Len(rest)) = <<>>
  <2> DEFINE a == SubSeq(rest, Len(rest) + 1, Len(rest))
  <2>1. \A i \in (Len(rest) + 1)..Len(rest) : rest[i] \in Stamped(C)
    BY <1>1
  <2>2. Len(rest) + 1 \in Int /\ Len(rest) \in Int
    BY <1>1
  <2>3. /\ a \in Seq(Stamped(C))
        /\ Len(a) = IF Len(rest) + 1 <= Len(rest) THEN Len(rest) - (Len(rest) + 1) + 1 ELSE 0
    BY <2>1, <2>2, SubSeqProperties
  <2> HIDE DEF a
  <2>4. a = <<>>
    BY <1>1, <2>3, EmptySeq
  <2> QED BY <2>4 DEF a
<1> QED BY <1>4, <1>5, <1>6

\* A row after all that waits.
LEMMA ShowMarker ==
  ASSUME NEW t \in Terminals, NEW C \in SUBSET Nat, NEW tx \in Seq(Stamped(C)),
         NEW s \in Seq(MarkerSet(Nat)), NEW m \in MarkerSet(Nat), \A c \in C : c <= m.cycle
  PROVE  Show(t, tx, Append(s, m)) = Trimmed(Watched(Show(t, tx, s), MarkerHappened(m)))
<1>1. PICK u \in Terminals, rest \in Seq(Stamped(C)) : Placed(Acc(t, tx), s) = Acc(u, rest)
  BY PlacedType
<1>2. Placed(Acc(t, tx), Append(s, m)) = PlaceMarker(Acc(u, rest), m)
  BY <1>1, PlacedNext
<1> DEFINE v == AppendTraffic(u, "tx", rest)
<1>3. v \in Terminals /\ v = Show(t, tx, s)
  BY <1>1, BytesAre, AppendTrafficIs, ShowIs
<1>4. PlaceMarker(Acc(u, rest), m) = Acc(PutMarker(v, m), <<>>)
  <2>1. Acc(u, rest).term = u /\ Acc(u, rest).tx = rest
    BY DEF Acc
  <2> DEFINE k == Before(rest, m)
  <2>2. PlaceMarker(Acc(u, rest), m)
          = Acc(PutMarker(AppendTraffic(u, "tx", SubSeq(rest, 1, k)), m),
                SubSeq(rest, k + 1, Len(rest)))
    BY <2>1 DEF PlaceMarker, Acc
  <2>3. k = Len(rest) /\ SubSeq(rest, 1, Len(rest)) = rest
        /\ SubSeq(rest, Len(rest) + 1, Len(rest)) = <<>>
    BY AllBefore
  <2> HIDE DEF k
  <2> QED BY <2>2, <2>3
<1> HIDE DEF v
<1> DEFINE w == PutMarker(v, m)
<1>5. w \in Terminals /\ w = Trimmed(Watched(v, MarkerHappened(m))) /\ Watched(v, MarkerHappened(m)) \in Terminals
  BY <1>3, PutMarkerIs, WatchedIs
<1> HIDE DEF w
<1>6. Show(t, tx, Append(s, m)) = AppendTraffic(w, "tx", <<>>)
  BY <1>2, <1>4, ShowIs DEF w
<1>7. AppendTraffic(w, "tx", <<>>) = Trimmed(w)
  BY GroupedNone DEF AppendTraffic
<1>8. Trimmed(w) = w
  BY <1>5, TrimmedTwice
<1> QED BY <1>3, <1>5, <1>6, <1>7, <1>8

\* A byte after all that waits.
LEMMA ShowTx ==
  ASSUME NEW t \in Terminals, NEW tx \in Seq(Stamped(Nat)), NEW b \in Stamped(Nat),
         NEW C \in SUBSET Nat, NEW s \in Seq(MarkerSet(C)), \A c \in C : c < b.cycle
  PROVE  Show(t, Append(tx, b), s)
           = Trimmed(Watched(Show(t, tx, s), Happened("tx", b.cycle, <<b>>)))
<1>1. PICK u \in Terminals, rest \in Seq(Stamped(Nat)) :
        /\ Placed(Acc(t, tx), s) = Acc(u, rest)
        /\ Placed(Acc(t, Append(tx, b)), s) = Acc(u, Append(rest, b))
  BY PlacedLater
<1> DEFINE g == Grouped(u, "tx", rest)
<1>2. g \in Terminals
  BY GroupedType
<1>3. Show(t, tx, s) = Trimmed(g)
  BY <1>1, ShowIs DEF AppendTraffic
<1>4. Grouped(u, "tx", Append(rest, b)) = AddByte(g, "tx", b)
  BY GroupedNext
<1>5. Show(t, Append(tx, b), s) = AppendTraffic(u, "tx", Append(rest, b))
  BY <1>1, ShowIs
<1>6. Show(t, Append(tx, b), s) = Trimmed(AddByte(g, "tx", b))
  BY <1>4, <1>5 DEF AppendTraffic
<1> HIDE DEF g
<1>7. \A v : Watched(v, Happened("tx", b.cycle, <<b>>)) = AddByte(v, "tx", b)
  <2> SUFFICES ASSUME NEW v PROVE Watched(v, Happened("tx", b.cycle, <<b>>)) = AddByte(v, "tx", b)
    OBVIOUS
  <2>1. Watched(v, Happened("tx", b.cycle, <<b>>)) = Grouped(v, "tx", <<b>>)
    BY DEF Watched, Happened
  <2>2. Grouped(v, "tx", <<>>) = v
    BY GroupedNone
  <2>3. ASSUME NEW none \in Seq(Stamped(Nat))
        PROVE  Grouped(v, "tx", Append(none, b)) = AddByte(Grouped(v, "tx", none), "tx", b)
    BY GroupedNext
  <2>4. <<>> \in Seq(Stamped(Nat)) /\ Append(<<>>, b) = <<b>>
    BY EmptySeq
  <2>5. Grouped(v, "tx", Append(<<>>, b)) = AddByte(Grouped(v, "tx", <<>>), "tx", b)
    BY <2>3, <2>4
  <2> QED BY <2>1, <2>2, <2>4, <2>5
<1>8. "tx" \in Kinds
  BY DEF Kinds
<1>9. Trimmed(AddByte(Trimmed(g), "tx", b)) = Trimmed(AddByte(g, "tx", b))
  BY <1>2, <1>8, AddByteIs
<1> QED BY <1>3, <1>6, <1>7, <1>9

-----------------------------------------------------------------------------
(* The rows a publication collects. *)

Sends(C) == [sent : C, bytes : Seq(Stamped(Nat))]
ErrorRows(errs) == [i \in DOMAIN errs |-> Marker(errs[i], "framing", <<>>)]
ResetRows(rs) == [i \in DOMAIN rs |-> Marker(rs[i], "reset", <<>>)]
ScriptRows(sc) == [i \in DOMAIN sc |-> Marker(sc[i].sent, "rx", sc[i].bytes)]

\* What a publication of all that waits shows.
Shown(t, tx, errs, rs, sc) ==
  Show(t, tx, StableSort(ErrorRows(errs) \o ResetRows(rs) \o ScriptRows(sc)))

LEMMA ErrorRowsAre ==
  ASSUME NEW C \in SUBSET Nat, NEW errs \in Seq(C)
  PROVE  /\ ErrorRows(errs) \in Seq(MarkerSet(C)) /\ Len(ErrorRows(errs)) = Len(errs)
         /\ DOMAIN ErrorRows(errs) = 1..Len(errs)
<1>1. DOMAIN errs = 1..Len(errs) /\ Len(errs) \in Nat /\ \A i \in 1..Len(errs) : errs[i] \in C
  BY LenProperties, ElementOfSeq
<1>2. \A i \in 1..Len(errs) : Marker(errs[i], "framing", <<>>) \in MarkerSet(C)
  BY <1>1, EmptySeq DEF Marker, MarkerSet
<1>3. ErrorRows(errs) \in [1..Len(errs) -> MarkerSet(C)]
  BY <1>1, <1>2 DEF ErrorRows
<1> QED BY <1>1, <1>3, SeqDef, LenProperties

LEMMA ScriptRowsAre ==
  ASSUME NEW C \in SUBSET Nat, NEW sc \in Seq(Sends(C))
  PROVE  /\ ScriptRows(sc) \in Seq(MarkerSet(C)) /\ Len(ScriptRows(sc)) = Len(sc)
         /\ DOMAIN ScriptRows(sc) = 1..Len(sc)
<1>1. DOMAIN sc = 1..Len(sc) /\ Len(sc) \in Nat /\ \A i \in 1..Len(sc) : sc[i] \in Sends(C)
  BY LenProperties, ElementOfSeq
<1>2. \A i \in 1..Len(sc) : Marker(sc[i].sent, "rx", sc[i].bytes) \in MarkerSet(C)
  BY <1>1 DEF Marker, MarkerSet, Sends
<1>3. ScriptRows(sc) \in [1..Len(sc) -> MarkerSet(C)]
  BY <1>1, <1>2 DEF ScriptRows
<1> QED BY <1>1, <1>3, SeqDef, LenProperties

LEMMA ErrorRowsNext ==
  ASSUME NEW C \in SUBSET Nat, NEW errs \in Seq(C), NEW c \in C
  PROVE  ErrorRows(Append(errs, c)) = Append(ErrorRows(errs), Marker(c, "framing", <<>>))
<1> DEFINE m == Marker(c, "framing", <<>>)
<1> DEFINE e == Append(errs, c)
<1> DEFINE a == ErrorRows(e)
<1> DEFINE r == ErrorRows(errs)
<1> DEFINE d == Append(r, m)
<1>1. /\ e \in Seq(C) /\ Len(e) = Len(errs) + 1 /\ e[Len(errs) + 1] = c /\ Len(errs) \in Nat
      /\ \A i \in 1..Len(errs) : e[i] = errs[i]
      /\ DOMAIN errs = 1..Len(errs) /\ DOMAIN e = 1..Len(e)
  BY AppendProperties, LenProperties
<1> HIDE DEF e
<1>2. a \in Seq(MarkerSet(C)) /\ Len(a) = Len(e) /\ r \in Seq(MarkerSet(C)) /\ Len(r) = Len(errs)
  BY <1>1, ErrorRowsAre
<1>3. m \in MarkerSet(C)
  BY EmptySeq DEF Marker, MarkerSet
<1>4. \A i \in 1..Len(e) : a[i] = Marker(e[i], "framing", <<>>)
  BY <1>1 DEF ErrorRows
<1>5. \A i \in 1..Len(errs) : r[i] = Marker(errs[i], "framing", <<>>)
  BY <1>1 DEF ErrorRows
<1> HIDE DEF a, r
<1>6. d \in Seq(MarkerSet(C)) /\ Len(d) = Len(r) + 1 /\ d[Len(r) + 1] = m
      /\ \A i \in 1..Len(r) : d[i] = r[i]
  <2> HIDE DEF m
  <2> QED BY <1>2, <1>3, AppendProperties
<1> HIDE DEF d
<1>7. ASSUME NEW i \in 1..Len(a) PROVE a[i] = d[i]
  <2>1. CASE i = Len(errs) + 1
    BY <1>1, <1>2, <1>4, <1>6, <2>1
  <2>2. CASE i # Len(errs) + 1
    <3>1. i \in 1..Len(errs) /\ i \in 1..Len(e)
      BY <1>1, <1>2, <2>2
    <3> QED BY <1>1, <1>2, <1>4, <1>5, <1>6, <3>1
  <2> QED BY <2>1, <2>2
<1>8. a = d
  BY <1>1, <1>2, <1>6, <1>7, SeqEqual
<1> QED BY <1>8 DEF a, d, r, e

LEMMA ScriptRowsNext ==
  ASSUME NEW C \in SUBSET Nat, NEW sc \in Seq(Sends(C)), NEW x \in Sends(C)
  PROVE  ScriptRows(Append(sc, x)) = Append(ScriptRows(sc), Marker(x.sent, "rx", x.bytes))
<1> DEFINE m == Marker(x.sent, "rx", x.bytes)
<1> DEFINE e == Append(sc, x)
<1> DEFINE a == ScriptRows(e)
<1> DEFINE r == ScriptRows(sc)
<1> DEFINE d == Append(r, m)
<1>1. /\ e \in Seq(Sends(C)) /\ Len(e) = Len(sc) + 1 /\ e[Len(sc) + 1] = x /\ Len(sc) \in Nat
      /\ \A i \in 1..Len(sc) : e[i] = sc[i]
      /\ DOMAIN sc = 1..Len(sc) /\ DOMAIN e = 1..Len(e)
  BY AppendProperties, LenProperties
<1> HIDE DEF e
<1>2. a \in Seq(MarkerSet(C)) /\ Len(a) = Len(e) /\ r \in Seq(MarkerSet(C)) /\ Len(r) = Len(sc)
  BY <1>1, ScriptRowsAre
<1>3. m \in MarkerSet(C)
  BY DEF Marker, MarkerSet, Sends
<1>4. \A i \in 1..Len(e) : a[i] = Marker(e[i].sent, "rx", e[i].bytes)
  BY <1>1 DEF ScriptRows
<1>5. \A i \in 1..Len(sc) : r[i] = Marker(sc[i].sent, "rx", sc[i].bytes)
  BY <1>1 DEF ScriptRows
<1> HIDE DEF a, r
<1>6. d \in Seq(MarkerSet(C)) /\ Len(d) = Len(r) + 1 /\ d[Len(r) + 1] = m
      /\ \A i \in 1..Len(r) : d[i] = r[i]
  <2> HIDE DEF m
  <2> QED BY <1>2, <1>3, AppendProperties
<1> HIDE DEF d
<1>7. ASSUME NEW i \in 1..Len(a) PROVE a[i] = d[i]
  <2>1. CASE i = Len(sc) + 1
    BY <1>1, <1>2, <1>4, <1>6, <2>1
  <2>2. CASE i # Len(sc) + 1
    <3>1. i \in 1..Len(sc) /\ i \in 1..Len(e)
      BY <1>1, <1>2, <2>2
    <3> QED BY <1>1, <1>2, <1>4, <1>5, <1>6, <3>1
  <2> QED BY <2>1, <2>2
<1>8. a = d
  BY <1>1, <1>2, <1>6, <1>7, SeqEqual
<1> QED BY <1>8 DEF a, d, r, e

LEMMA RowsOf ==
  /\ ErrorRows(<<>>) = <<>> /\ ResetRows(<<>>) = <<>> /\ ScriptRows(<<>>) = <<>>
  /\ \A c : ResetRows(<<c>>) = <<Marker(c, "reset", <<>>)>>
<1>1. \A c : ResetRows(<<c>>) = <<Marker(c, "reset", <<>>)>>
  <2> SUFFICES ASSUME NEW c PROVE ResetRows(<<c>>) = <<Marker(c, "reset", <<>>)>>
    OBVIOUS
  <2> DEFINE m == Marker(c, "reset", <<>>)
  <2>1. DOMAIN <<c>> = 1..1 /\ <<c>>[1] = c
    OBVIOUS
  <2>2. ResetRows(<<c>>) = [i \in 1..1 |-> m]
    BY <2>1 DEF ResetRows
  <2> HIDE DEF m
  <2>3. [i \in 1..1 |-> m] = <<m>>
    OBVIOUS
  <2> QED BY <2>2, <2>3 DEF m
<1>2. DOMAIN <<>> = {}
  OBVIOUS
<1>3. \A f : DOMAIN f = {} => ErrorRows(f) = [i \in {} |-> 0] /\ ResetRows(f) = [i \in {} |-> 0]
                              /\ ScriptRows(f) = [i \in {} |-> 0]
  BY DEF ErrorRows, ResetRows, ScriptRows
<1>4. [i \in {} |-> 0] = <<>>
  OBVIOUS
<1> QED BY <1>1, <1>2, <1>3, <1>4

-----------------------------------------------------------------------------
(* One thing more waiting for a publication. *)

Resets(C) == {<<>>} \cup {<<c>> : c \in C}

LEMMA ResetRowsAre ==
  ASSUME NEW C \in SUBSET Nat, NEW rs \in Resets(C)
  PROVE  ResetRows(rs) \in Seq(MarkerSet(C))
<1>1. CASE rs = <<>>
  BY <1>1, RowsOf, EmptySeq
<1>2. ASSUME NEW c \in C, rs = <<c>> PROVE ResetRows(rs) \in Seq(MarkerSet(C))
  <2>1. Marker(c, "reset", <<>>) \in MarkerSet(C)
    BY EmptySeq DEF Marker, MarkerSet
  <2>2. ResetRows(rs) = <<Marker(c, "reset", <<>>)>>
    BY <1>2, RowsOf
  <2> DEFINE m == Marker(c, "reset", <<>>)
  <2> HIDE DEF m
  <2>3. <<m>> \in Seq(MarkerSet(C))
    BY <2>1 DEF m
  <2> QED BY <2>2, <2>3 DEF m
<1> QED BY <1>1, <1>2 DEF Resets

LEMMA CollectedRows ==
  ASSUME NEW C \in SUBSET Nat, NEW e \in Seq(MarkerSet(C)), NEW r \in Seq(MarkerSet(C)),
         NEW s \in Seq(MarkerSet(C))
  PROVE  /\ e \o r \o s \in Seq(MarkerSet(C))
         /\ e \o r \o s \in Seq(MarkerSet(Nat))
         /\ StableSort(e \o r \o s) \in Seq(MarkerSet(C))
         /\ StableSort(e \o r \o s) \in Seq(MarkerSet(Nat))
<1> DEFINE all == e \o r \o s
<1>1. all \in Seq(MarkerSet(C))
  <2>1. e \o r \in Seq(MarkerSet(C))
    BY ConcatProperties
  <2> QED BY <2>1, ConcatProperties
<1> HIDE DEF all
<1>2. StableSort(all) \in Seq(MarkerSet(C))
  BY <1>1, SortType
<1> QED BY <1>1, <1>2, MarkersAre DEF all

LEMMA ShownType ==
  ASSUME NEW t \in Terminals, NEW tx \in Seq(Stamped(Nat)), NEW C \in SUBSET Nat,
         NEW errs \in Seq(C), NEW rs \in Resets(C), NEW sc \in Seq(Sends(C))
  PROVE  /\ Shown(t, tx, errs, rs, sc) \in Terminals
         /\ Trimmed(Shown(t, tx, errs, rs, sc)) = Shown(t, tx, errs, rs, sc)
<1>1. StableSort(ErrorRows(errs) \o ResetRows(rs) \o ScriptRows(sc)) \in Seq(MarkerSet(Nat))
  BY ErrorRowsAre, ResetRowsAre, ScriptRowsAre, CollectedRows
<1> QED BY <1>1, ShowType DEF Shown

LEMMA ShownNone ==
  ASSUME NEW t
  PROVE  Shown(t, <<>>, <<>>, <<>>, <<>>) = Trimmed(t)
<1>1. (<<>> \o <<>>) \o <<>> = <<>>
  OBVIOUS
<1>2. StableSort(<<>>) = <<>>
  BY SortIs
<1> QED BY <1>1, <1>2, RowsOf, ShowNone DEF Shown

LEMMA ShownTx ==
  ASSUME NEW t \in Terminals, NEW tx \in Seq(Stamped(Nat)), NEW C \in SUBSET Nat,
         NEW errs \in Seq(C), NEW rs \in Resets(C), NEW sc \in Seq(Sends(C)),
         NEW b \in Stamped(Nat), \A c \in C : c < b.cycle
  PROVE  Shown(t, Append(tx, b), errs, rs, sc)
           = Trimmed(Watched(Shown(t, tx, errs, rs, sc), Happened("tx", b.cycle, <<b>>)))
<1> DEFINE s == StableSort(ErrorRows(errs) \o ResetRows(rs) \o ScriptRows(sc))
<1>1. s \in Seq(MarkerSet(C))
  BY ErrorRowsAre, ResetRowsAre, ScriptRowsAre, CollectedRows
<1> HIDE DEF s
<1>2. Show(t, Append(tx, b), s)
        = Trimmed(Watched(Show(t, tx, s), Happened("tx", b.cycle, <<b>>)))
  BY <1>1, ShowTx
<1> QED BY <1>2 DEF Shown, s

LEMMA ShownError ==
  ASSUME NEW t \in Terminals, NEW C \in SUBSET Nat, NEW tx \in Seq(Stamped(C)),
         NEW errs \in Seq(C), NEW rs \in Resets(C), NEW sc \in Seq(Sends(C)),
         NEW c \in Nat, \A d \in C : d < c
  PROVE  Shown(t, tx, Append(errs, c), rs, sc)
           = Trimmed(Watched(Shown(t, tx, errs, rs, sc), Happened("framing", c, <<>>)))
<1> DEFINE m == Marker(c, "framing", <<>>)
<1> DEFINE e == ErrorRows(errs)
<1> DEFINE r == ResetRows(rs)
<1> DEFINE s == ScriptRows(sc)
<1>1. e \in Seq(MarkerSet(C)) /\ r \in Seq(MarkerSet(C)) /\ s \in Seq(MarkerSet(C))
  BY ErrorRowsAre, ResetRowsAre, ScriptRowsAre
<1>2. /\ m \in MarkerSet(Nat) /\ m.cycle = c
      /\ MarkerHappened(m) = Happened("framing", c, <<>>)
  BY EmptySeq DEF Marker, MarkerSet, MarkerHappened
<1>3. ErrorRows(Append(errs, c)) = Append(e, m)
  <2>1. errs \in Seq(Nat) /\ Nat \in SUBSET Nat
    BY SeqMonotonic
  <2> QED BY <2>1, ErrorRowsNext
<1> HIDE DEF e, r, s, m
<1>4. Append(e, m) \o r \o s = Append(e, m) \o (r \o s) /\ e \o r \o s = e \o (r \o s)
  <2>1. e \in Seq(MarkerSet(Nat)) /\ r \in Seq(MarkerSet(Nat)) /\ s \in Seq(MarkerSet(Nat))
    BY <1>1, MarkersAre
  <2>2. Append(e, m) \in Seq(MarkerSet(Nat))
    BY <1>2, <2>1, AppendProperties
  <2>3. ASSUME NEW q \in Seq(MarkerSet(Nat)) PROVE q \o r \o s = q \o (r \o s)
    BY ONLY <2>1, <2>3, ConcatAssociative
  <2> QED BY <2>1, <2>2, <2>3
<1>5. r \o s \in Seq(MarkerSet(C))
  BY <1>1, ConcatProperties
<1>6. StableSort(Append(e, m) \o (r \o s)) = Append(StableSort(e \o (r \o s)), m)
  <2>1. \A d \in C : d <= m.cycle /\ d < m.cycle
    BY <1>2
  <2> QED BY <1>1, <1>2, <1>5, <2>1, SortMiddle
<1> DEFINE w == StableSort(e \o r \o s)
<1>7. w \in Seq(MarkerSet(Nat))
  BY <1>1, CollectedRows
<1>8. StableSort(Append(e, m) \o r \o s) = Append(w, m)
  BY <1>4, <1>6
<1> HIDE DEF w
<1>9. Show(t, tx, Append(w, m)) = Trimmed(Watched(Show(t, tx, w), MarkerHappened(m)))
  <2>1. \A d \in C : d <= m.cycle
    BY <1>2
  <2> QED BY <1>2, <1>7, <2>1, ShowMarker
<1>10. Shown(t, tx, Append(errs, c), rs, sc) = Show(t, tx, Append(w, m))
  BY <1>3, <1>8 DEF Shown, r, s
<1>11. Shown(t, tx, errs, rs, sc) = Show(t, tx, w)
  BY DEF Shown, w, e, r, s
<1> QED BY <1>2, <1>9, <1>10, <1>11

LEMMA ShownScript ==
  ASSUME NEW t \in Terminals, NEW C \in SUBSET Nat, NEW tx \in Seq(Stamped(C)),
         NEW errs \in Seq(C), NEW rs \in Resets(C), NEW sc \in Seq(Sends(C)),
         NEW x \in Sends(Nat), \A d \in C : d <= x.sent
  PROVE  Shown(t, tx, errs, rs, Append(sc, x))
           = Trimmed(Watched(Shown(t, tx, errs, rs, sc), Happened("rx", x.sent, x.bytes)))
<1> DEFINE m == Marker(x.sent, "rx", x.bytes)
<1> DEFINE e == ErrorRows(errs)
<1> DEFINE r == ResetRows(rs)
<1> DEFINE s == ScriptRows(sc)
<1>1. e \in Seq(MarkerSet(C)) /\ r \in Seq(MarkerSet(C)) /\ s \in Seq(MarkerSet(C))
  BY ErrorRowsAre, ResetRowsAre, ScriptRowsAre
<1>2. /\ m \in MarkerSet(Nat) /\ m.cycle = x.sent
      /\ MarkerHappened(m) = Happened("rx", x.sent, x.bytes)
  BY DEF Marker, MarkerSet, MarkerHappened, Sends
<1>3. ScriptRows(Append(sc, x)) = Append(s, m)
  <2>1. sc \in Seq(Sends(Nat)) /\ Nat \in SUBSET Nat
    <3>1. Sends(C) \subseteq Sends(Nat)
      BY DEF Sends
    <3> QED BY <3>1, SeqMonotonic
  <2> QED BY <2>1, ScriptRowsNext
<1> HIDE DEF e, r, s, m
<1> DEFINE er == e \o r
<1>4. er \in Seq(MarkerSet(C)) /\ er \in Seq(MarkerSet(Nat))
  <2>1. er \in Seq(MarkerSet(C))
    BY <1>1, ConcatProperties
  <2> HIDE DEF er
  <2> QED BY <2>1, MarkersAre
<1> DEFINE ers == er \o s
<1> HIDE DEF er
<1>5. er \o Append(s, m) = Append(ers, m) /\ ers \in Seq(MarkerSet(C))
  <2>1. s \in Seq(MarkerSet(Nat)) /\ <<m>> \in Seq(MarkerSet(Nat))
    BY <1>1, <1>2, MarkersAre
  <2>2. Append(s, m) = s \o <<m>>
    BY <1>2, <2>1, AppendIsConcat
  <2>3. er \o (s \o <<m>>) = (er \o s) \o <<m>>
    BY ONLY <1>4, <2>1, ConcatAssociative
  <2>4. ers \in Seq(MarkerSet(C))
    BY <1>1, <1>4, ConcatProperties
  <2> HIDE DEF ers
  <2>5. ers \in Seq(MarkerSet(Nat))
    BY <2>4, MarkersAre
  <2>6. Append(ers, m) = ers \o <<m>>
    BY <1>2, <2>5, AppendIsConcat
  <2> QED BY <2>2, <2>3, <2>4, <2>6 DEF ers
<1> HIDE DEF ers
<1>6. StableSort(Append(ers, m)) = Append(StableSort(ers), m)
  <2>1. \A d \in C : d <= m.cycle
    BY <1>2
  <2> QED BY <1>2, <1>5, <2>1, SortLast
<1>7. StableSort(ers) \in Seq(MarkerSet(Nat))
  <2>1. StableSort(ers) \in Seq(MarkerSet(C))
    BY <1>5, SortType
  <2> QED BY <2>1, MarkersAre
<1>9. Show(t, tx, Append(StableSort(ers), m))
        = Trimmed(Watched(Show(t, tx, StableSort(ers)), MarkerHappened(m)))
  <2>1. \A d \in C : d <= m.cycle
    BY <1>2
  <2> QED BY <1>2, <1>7, <2>1, ShowMarker
<1>10. Shown(t, tx, errs, rs, Append(sc, x)) = Show(t, tx, Append(StableSort(ers), m))
  BY <1>3, <1>5, <1>6 DEF Shown, e, r, er
<1>11. Shown(t, tx, errs, rs, sc) = Show(t, tx, StableSort(ers))
  BY DEF Shown, e, r, s, er, ers
<1> QED BY <1>2, <1>9, <1>10, <1>11

LEMMA ShownReset ==
  ASSUME NEW t \in Terminals, NEW C \in SUBSET Nat, NEW tx \in Seq(Stamped(C)),
         NEW errs \in Seq(C), NEW D \in SUBSET Nat, NEW sc \in Seq(Sends(D)),
         NEW c \in Nat, \A d \in C : d <= c, \A d \in D : d < c
  PROVE  Shown(t, tx, errs, <<c>>, sc)
           = Trimmed(Watched(Shown(t, tx, errs, <<>>, sc), Happened("reset", c, <<>>)))
<1> DEFINE m == Marker(c, "reset", <<>>)
<1> DEFINE e == ErrorRows(errs)
<1> DEFINE s == ScriptRows(sc)
<1>1. e \in Seq(MarkerSet(C)) /\ s \in Seq(MarkerSet(D))
  BY ErrorRowsAre, ScriptRowsAre
<1>2. /\ m \in MarkerSet(Nat) /\ m.cycle = c
      /\ MarkerHappened(m) = Happened("reset", c, <<>>)
  BY EmptySeq DEF Marker, MarkerSet, MarkerHappened
<1>3. ResetRows(<<c>>) = <<m>> /\ ResetRows(<<>>) = <<>>
  BY RowsOf
<1> HIDE DEF e, s, m
<1>4. e \o <<m>> = Append(e, m) /\ e \o <<>> = e
  <2>1. e \in Seq(MarkerSet(Nat))
    BY <1>1, MarkersAre
  <2> QED BY <1>2, <2>1, AppendIsConcat, ConcatEmptySeq
<1> DEFINE w == StableSort(e \o s)
<1>6. StableSort(Append(e, m) \o s) = Append(w, m)
  <2>1. (\A d \in C : d <= m.cycle) /\ \A d \in D : d < m.cycle
    BY <1>2
  <2> QED BY <1>1, <1>2, <2>1, SortMiddle
<1>7. w \in Seq(MarkerSet(Nat))
  <2>1. e \in Seq(MarkerSet(Nat)) /\ s \in Seq(MarkerSet(Nat))
    BY <1>1, MarkersAre
  <2>2. e \o s \in Seq(MarkerSet(Nat))
    BY <2>1, ConcatProperties
  <2> QED BY <2>2, SortType
<1> HIDE DEF w
<1>9. Show(t, tx, Append(w, m)) = Trimmed(Watched(Show(t, tx, w), MarkerHappened(m)))
  <2>1. \A d \in C : d <= m.cycle
    BY <1>2
  <2> QED BY <1>2, <1>7, <2>1, ShowMarker
<1>10. Shown(t, tx, errs, <<c>>, sc) = Show(t, tx, Append(w, m))
  BY <1>3, <1>4, <1>6 DEF Shown, e, s
<1>11. Shown(t, tx, errs, <<>>, sc) = Show(t, tx, w)
  BY <1>3, <1>4 DEF Shown, w, e, s
<1> QED BY <1>2, <1>9, <1>10, <1>11

-----------------------------------------------------------------------------
(* What waits, and the steps. *)

LEMMA TailIs ==
  ASSUME NEW T, NEW s \in Seq(T), NEW k \in 0..Len(s)
  PROVE  /\ SubSeq(s, k + 1, Len(s)) \in Seq(T)
         /\ SubSeq(s, Len(s) + 1, Len(s)) = <<>>
<1>1. Len(s) \in Nat /\ \A i \in 1..Len(s) : s[i] \in T
  BY LenProperties, ElementOfSeq
<1>2. \A i \in (k + 1)..Len(s) : s[i] \in T
  BY <1>1
<1>3. k + 1 \in Int /\ Len(s) \in Int /\ Len(s) + 1 \in Int
  BY <1>1
<1>4. SubSeq(s, k + 1, Len(s)) \in Seq(T)
  BY <1>2, <1>3, SubSeqProperties
<1>5. SubSeq(s, Len(s) + 1, Len(s)) = <<>>
  <2> DEFINE a == SubSeq(s, Len(s) + 1, Len(s))
  <2>1. \A i \in (Len(s) + 1)..Len(s) : s[i] \in T
    BY <1>1
  <2>2. /\ a \in Seq(T)
        /\ Len(a) = IF Len(s) + 1 <= Len(s) THEN Len(s) - (Len(s) + 1) + 1 ELSE 0
    BY <1>3, <2>1, SubSeqProperties
  <2> HIDE DEF a
  <2>3. a = <<>>
    BY <1>1, <2>2, EmptySeq
  <2> QED BY <2>3 DEF a
<1> QED BY <1>4, <1>5

LEMMA TailNext ==
  ASSUME NEW T, NEW s \in Seq(T), NEW x \in T, NEW k \in 0..Len(s)
  PROVE  SubSeq(Append(s, x), k + 1, Len(Append(s, x))) = Append(SubSeq(s, k + 1, Len(s)), x)
<1> DEFINE j == k + 1
<1>1. j = k + 1
  OBVIOUS
<1> HIDE DEF j
<1>2. SubSeq(Append(s, x), j, Len(Append(s, x))) = Append(SubSeq(s, j, Len(s)), x)
  BY <1>1, SubSeqOfAppend
<1> QED BY <1>1, <1>2

LEMMA WaitingFacts ==
  ASSUME WaitingTyped
  PROVE  /\ now \in Nat /\ 0..now \in SUBSET Nat
         /\ NewTx \in Seq(Stamped(0..now)) /\ NewTx \in Seq(Stamped(Nat))
         /\ NewErrors \in Seq(0..now)
         /\ scriptedRx \in Seq(Sends(0..now))
         /\ console \in Terminals /\ Trimmed(console) = console
         /\ traffic \in Seq(Happenings)
         /\ pulse # <<>> => /\ pulse = <<pulse[1]>> /\ pulse[1] \in 0..now
                            /\ mark + 1 \in 1..(Len(traffic) + 1)
         /\ pulse \in Resets(0..now)
<1>1. now \in Nat /\ 0..now \in SUBSET Nat
  BY DEF WaitingTyped
<1>2. NewTx \in Seq(Stamped(0..now)) /\ NewErrors \in Seq(0..now)
  BY TailIs DEF WaitingTyped, NewTx, NewErrors
<1>3. NewTx \in Seq(Stamped(Nat))
  BY <1>1, <1>2, BytesAre
<1>4. pulse # <<>> => /\ pulse = <<pulse[1]>> /\ pulse[1] \in 0..now
                      /\ mark + 1 \in 1..(Len(traffic) + 1)
  <2> SUFFICES ASSUME pulse # <<>>
               PROVE  /\ pulse = <<pulse[1]>> /\ pulse[1] \in 0..now
                      /\ mark + 1 \in 1..(Len(traffic) + 1)
    OBVIOUS
  <2>1. PICK c \in 0..now : pulse = <<c>>
    BY DEF WaitingTyped
  <2>2. mark \in 0..Len(traffic) /\ Len(traffic) \in Nat
    BY LenProperties DEF WaitingTyped
  <2>3. mark + 1 \in 1..(Len(traffic) + 1)
    BY <2>2
  <2> QED BY <2>1, <2>3
<1>5. pulse \in Resets(0..now)
  BY <1>4 DEF Resets
<1> QED BY <1>1, <1>2, <1>3, <1>4, <1>5 DEF WaitingTyped, Sends

LEMMA PublishedIs ==
  ASSUME NEW rs
  PROVE  /\ Published(rs, <<>>) = Shown(console, NewTx, NewErrors, rs, scriptedRx)
         /\ Published(rs, <<>>)' = Shown(console', NewTx', NewErrors', rs, scriptedRx')
         /\ \A rx : rx # <<>> =>
              Published(rs, rx)
                = Trimmed(Watched(Published(rs, <<>>), Happened("typed", now, rx)))
<1>1. StableSort(Collected(rs)) = StableSort(ErrorRows(NewErrors) \o ResetRows(rs) \o ScriptRows(scriptedRx))
  BY DEF Collected, ErrorRows, ResetRows, ScriptRows
<1>2. Published(rs, <<>>) = Shown(console, NewTx, NewErrors, rs, scriptedRx)
  BY <1>1 DEF Published, Shown, Show, Acc
<1>3. ASSUME NEW rx, rx # <<>>
      PROVE  Published(rs, rx) = Trimmed(Watched(Published(rs, <<>>), Happened("typed", now, rx)))
  <2>1. Published(rs, rx) = AppendTraffic(EndLine(Published(rs, <<>>)), "rx", rx)
    BY <1>3 DEF Published
  <2> QED BY <2>1 DEF Watched, Happened, AppendTraffic
<1>4. Published(rs, <<>>)' = Shown(console', NewTx', NewErrors', rs, scriptedRx')
  <2>1. Collected(rs)' = ErrorRows(NewErrors') \o ResetRows(rs) \o ScriptRows(scriptedRx')
    BY DEF Collected, ErrorRows, ResetRows, ScriptRows
  <2> QED BY <2>1 DEF Published, Shown, Show, Acc
<1> QED BY <1>2, <1>3, <1>4

LEMMA PublishedType ==
  ASSUME WaitingTyped, NEW rs \in Resets(0..now)
  PROVE  /\ Published(rs, <<>>) \in Terminals
         /\ Trimmed(Published(rs, <<>>)) = Published(rs, <<>>)
<1> DEFINE C == 0..now
<1>1. /\ C \in SUBSET Nat /\ NewTx \in Seq(Stamped(Nat)) /\ NewErrors \in Seq(C)
      /\ scriptedRx \in Seq(Sends(C)) /\ console \in Terminals /\ rs \in Resets(C)
  BY WaitingFacts
<1> HIDE DEF C
<1>2. /\ Shown(console, NewTx, NewErrors, rs, scriptedRx) \in Terminals
      /\ Trimmed(Shown(console, NewTx, NewErrors, rs, scriptedRx))
           = Shown(console, NewTx, NewErrors, rs, scriptedRx)
  BY <1>1, ShownType
<1> QED BY <1>2, PublishedIs

\* More traffic has no fewer ties.
LEMMA TiesStay ==
  ASSUME NEW h \in Seq(Happenings), NEW x \in Happenings, TiedIn(h)
  PROVE  TiedIn(Append(h, x))
<1> DEFINE g == Append(h, x)
<1>1. /\ DOMAIN h = 1..Len(h) /\ DOMAIN g = 1..(Len(h) + 1) /\ Len(h) \in Nat
      /\ \A i \in 1..Len(h) : g[i] = h[i]
  BY AppendProperties, LenProperties
<1>2. PICK i \in DOMAIN h, j \in DOMAIN h :
        h[i].kind = "rx" /\ h[j].kind = "reset" /\ h[i].at = h[j].at
  BY DEF TiedIn
<1> HIDE DEF g
<1>3. i \in DOMAIN g /\ j \in DOMAIN g /\ g[i] = h[i] /\ g[j] = h[j]
  BY <1>1, <1>2
<1> QED BY <1>2, <1>3 DEF TiedIn, g

\* Rows that are right stay right with one happening more.
LEMMA RowsGrow ==
  ASSUME NEW h \in Seq(Happenings), NEW x \in Happenings, NEW p \in Terminals,
         ~TiedIn(h) => p = Trimmed(WatchedAll(h))
  PROVE  ~TiedIn(Append(h, x)) => Trimmed(Watched(p, x)) = Trimmed(WatchedAll(Append(h, x)))
BY TiesStay, WatchedNext

\* The traffic with the notice of the pulse that runs, one happening later.
LEMMA NotedNext ==
  ASSUME WaitingTyped, pulse # <<>>, NEW x \in Happenings,
         traffic' = Append(traffic, x), pulse' = pulse, mark' = mark
  PROVE  Noted \in Seq(Happenings) /\ Noted' = Append(Noted, x)
<1> DEFINE y == Happened("reset", pulse[1], <<>>)
<1> DEFINE j == mark + 1
<1>1. /\ traffic \in Seq(Happenings) /\ pulse[1] \in 0..now /\ now \in Nat
      /\ j \in 1..(Len(traffic) + 1)
  BY WaitingFacts
<1>2. y \in Happenings
  BY <1>1, EmptySeq DEF Happened, Happenings, Kinds
<1>3. Noted = InsertAt(traffic, j, y) /\ Noted' = InsertAt(Append(traffic, x), j, y)
  BY DEF Noted
<1> HIDE DEF j, y
<1>4. InsertAt(traffic, j, y) \in Seq(Happenings)
  BY <1>1, <1>2, InsertAtIs
<1>5. InsertAt(Append(traffic, x), j, y) = Append(InsertAt(traffic, j, y), x)
  BY <1>1, <1>2, InsertBeforeEnd
<1> QED BY <1>3, <1>4, <1>5

LEMMA NotedType ==
  ASSUME WaitingTyped, pulse # <<>>
  PROVE  Noted \in Seq(Happenings)
<1> DEFINE y == Happened("reset", pulse[1], <<>>)
<1> DEFINE j == mark + 1
<1>1. /\ traffic \in Seq(Happenings) /\ pulse[1] \in 0..now /\ now \in Nat
      /\ j \in 1..(Len(traffic) + 1)
  BY WaitingFacts
<1>2. y \in Happenings
  BY <1>1, EmptySeq DEF Happened, Happenings, Kinds
<1> HIDE DEF j, y
<1>3. InsertAt(traffic, j, y) \in Seq(Happenings)
  BY <1>1, <1>2, InsertAtIs
<1> QED BY <1>3 DEF Noted, j, y

\* A step on which one thing more waits.
LEMMA RowsFollowNext ==
  ASSUME WaitingTyped, RowsFollow, NEW x \in Happenings,
         traffic' = Append(traffic, x), pulse' = pulse, mark' = mark,
         \A rs \in Resets(0..now) :
           Published(rs, <<>>)' = Trimmed(Watched(Published(rs, <<>>), x))
  PROVE  RowsFollow'
<1>1. traffic \in Seq(Happenings) /\ pulse \in Resets(0..now) /\ <<>> \in Resets(0..now)
  BY WaitingFacts DEF Resets
<1>2. ~Tied' => Published(<<>>, <<>>)' = Expected'
  <2>1. ~TiedIn(traffic) => Published(<<>>, <<>>) = Trimmed(WatchedAll(traffic))
    BY DEF RowsFollow, Tied, Expected
  <2>2. Published(<<>>, <<>>) \in Terminals
    BY <1>1, PublishedType
  <2>3. ~TiedIn(Append(traffic, x)) =>
          Trimmed(Watched(Published(<<>>, <<>>), x)) = Trimmed(WatchedAll(Append(traffic, x)))
    BY <1>1, <2>1, <2>2, RowsGrow
  <2>4. Published(<<>>, <<>>)' = Trimmed(Watched(Published(<<>>, <<>>), x))
    BY <1>1
  <2>5. Expected' = Trimmed(WatchedAll(Append(traffic, x))) /\ (Tied' <=> TiedIn(Append(traffic, x)))
    <3>1. Expected' = Trimmed(WatchedAll(traffic')) /\ (Tied' <=> TiedIn(traffic'))
      BY DEF Expected, Tied
    <3> QED BY <3>1
  <2> QED BY <2>3, <2>4, <2>5
<1>3. (~Idle' /\ ~TiedIn(Noted)') =>
        Published(pulse, <<>>)' = Trimmed(WatchedAll(Noted))'
  <2> SUFFICES ASSUME pulse # <<>>, ~TiedIn(Noted')
               PROVE  Published(pulse, <<>>)' = Trimmed(WatchedAll(Noted'))
    BY DEF Idle
  <2>1. ~TiedIn(Noted) => Published(pulse, <<>>) = Trimmed(WatchedAll(Noted))
    BY DEF RowsFollow, Idle
  <2>2. Published(pulse, <<>>) \in Terminals
    BY <1>1, PublishedType
  <2>3. Noted \in Seq(Happenings) /\ Noted' = Append(Noted, x)
    BY NotedNext
  <2>4. ~TiedIn(Append(Noted, x)) =>
          Trimmed(Watched(Published(pulse, <<>>), x)) = Trimmed(WatchedAll(Append(Noted, x)))
    BY <2>1, <2>2, <2>3, RowsGrow
  <2>5. Published(pulse, <<>>)' = Trimmed(Watched(Published(pulse, <<>>), x))
    <3>1. PICK rs \in Resets(0..now) : rs = pulse
      BY <1>1
    <3>2. Published(rs, <<>>)' = Trimmed(Watched(Published(rs, <<>>), x))
      OBVIOUS
    <3>3. rs = pulse'
      BY <3>1
    <3> QED BY <3>1, <3>2, <3>3
  <2> QED BY <2>3, <2>4, <2>5
<1> QED BY <1>2, <1>3 DEF RowsFollow

\* A step on which nothing happens.
LEMMA RowsFollowQuiet ==
  ASSUME RowsFollow, UNCHANGED <<console, scriptedRx, traffic, pulse, mark>>,
         NewTx' = NewTx, NewErrors' = NewErrors
  PROVE  RowsFollow'
<1>1. ASSUME NEW rs PROVE Published(rs, <<>>)' = Published(rs, <<>>)
  BY PublishedIs
<1>2. /\ Published(<<>>, <<>>)' = Published(<<>>, <<>>)
      /\ Published(pulse, <<>>)' = Published(pulse, <<>>)
  <2>1. PICK rs : rs = pulse
    OBVIOUS
  <2>2. rs = pulse'
    BY <2>1
  <2> QED BY <1>1, <2>1, <2>2
<1>3. Noted' = Noted /\ Expected' = Expected /\ (Tied' <=> Tied) /\ (Idle' <=> Idle)
  BY DEF Noted, Expected, Tied, Idle
<1> QED BY <1>2, <1>3 DEF RowsFollow

LEMMA LaterTyped ==
  ASSUME NEW c \in Nat, NEW d \in Nat, c <= d
  PROVE  /\ \A s \in Seq(Stamped(0..c)) : s \in Seq(Stamped(0..d))
         /\ \A s \in Seq(0..c) : s \in Seq(0..d)
         /\ \A s \in Seq(Sends(0..c)) : s \in Seq(Sends(0..d))
<1>1. 0..c \subseteq 0..d
  OBVIOUS
<1>2. Stamped(0..c) \subseteq Stamped(0..d) /\ Sends(0..c) \subseteq Sends(0..d)
  BY <1>1 DEF Stamped, Sends
<1> QED BY <1>1, <1>2, SeqMonotonic

\* A script's send is not forgotten by the traffic.
LEMMA ScriptsStay ==
  ASSUME WaitingTyped, ScriptsInTraffic, scriptedRx' = scriptedRx,
         NEW x \in Happenings, traffic' = traffic \/ traffic' = Append(traffic, x)
  PROVE  ScriptsInTraffic'
<1> SUFFICES ASSUME NEW i \in DOMAIN scriptedRx
             PROVE  \E j \in DOMAIN traffic' : /\ traffic'[j].kind = "rx"
                                               /\ traffic'[j].at = scriptedRx[i].sent
  BY DEF ScriptsInTraffic
<1>1. PICK j \in DOMAIN traffic : traffic[j].kind = "rx" /\ traffic[j].at = scriptedRx[i].sent
  BY DEF ScriptsInTraffic
<1>2. traffic \in Seq(Happenings)
  BY WaitingFacts
<1>3. j \in DOMAIN traffic' /\ traffic'[j] = traffic[j]
  <2>1. CASE traffic' = traffic
    BY <2>1
  <2>2. CASE traffic' = Append(traffic, x)
    <3> DEFINE g == Append(traffic, x)
    <3>1. /\ DOMAIN traffic = 1..Len(traffic) /\ DOMAIN g = 1..(Len(traffic) + 1)
          /\ Len(traffic) \in Nat
          /\ \A k \in 1..Len(traffic) : g[k] = traffic[k]
      BY <1>2, AppendProperties, LenProperties
    <3> HIDE DEF g
    <3>2. j \in DOMAIN g /\ g[j] = traffic[j]
      BY <3>1
    <3> QED BY <2>2, <3>2 DEF g
  <2> QED BY <2>1, <2>2
<1> QED BY <1>1, <1>3

\* The board runs, and nothing was decoded.
LEMMA RowsQuiet ==
  ASSUME TrafficInv, now' = now \/ now' = now + 1,
         UNCHANGED <<txBytes, txErrors, txSeen, framingSeen, scriptedRx, console, pulse,
                     traffic, mark>>
  PROVE  TrafficInv'
<1>0. WaitingTyped /\ ScriptsInTraffic /\ RowsFollow
  BY DEF TrafficInv
<1>1. now \in Nat /\ now' \in Nat /\ now <= now'
  BY <1>0 DEF WaitingTyped
<1>2. WaitingTyped'
  <2>1. /\ txBytes' \in Seq(Stamped(0..now')) /\ txErrors' \in Seq(0..now')
        /\ scriptedRx' \in Seq(Sends(0..now'))
    <3>1. /\ txBytes \in Seq(Stamped(0..now)) /\ txErrors \in Seq(0..now)
          /\ scriptedRx \in Seq(Sends(0..now))
      BY <1>0, WaitingFacts DEF WaitingTyped
    <3> QED BY <1>1, <3>1, LaterTyped
  <2>2. 0..now \subseteq 0..now'
    BY <1>1
  <2>3. pulse # <<>> => pulse \in {<<c>> : c \in 0..now'} /\ mark \in 0..Len(traffic)
    <3> SUFFICES ASSUME pulse # <<>> PROVE pulse \in {<<c>> : c \in 0..now'} /\ mark \in 0..Len(traffic)
      OBVIOUS
    <3>1. PICK c \in 0..now : pulse = <<c>>
      BY <1>0 DEF WaitingTyped
    <3>2. c \in 0..now'
      BY <2>2
    <3> QED BY <1>0, <3>1, <3>2 DEF WaitingTyped
  <2>4. Trimmed(console)' = console'
    BY <1>0 DEF WaitingTyped, Trimmed
  <2> QED BY <1>0, <1>1, <2>1, <2>3, <2>4 DEF WaitingTyped, Sends
<1>3. ScriptsInTraffic'
  BY <1>0 DEF ScriptsInTraffic
<1>4. RowsFollow'
  BY <1>0, RowsFollowQuiet DEF NewTx, NewErrors
<1> QED BY <1>2, <1>3, <1>4 DEF TrafficInv

\* The board decodes a byte.
LEMMA RowsTx ==
  ASSUME TrafficInv, now' = now + 1, NEW v \in TxValues, NEW b,
         b = [value |-> v, cycle |-> now'],
         txBytes' = Append(txBytes, b),
         traffic' = Append(traffic, Happened("tx", now', <<b>>)),
         UNCHANGED <<txErrors, txSeen, framingSeen, scriptedRx, console, pulse, mark>>
  PROVE  TrafficInv'
<1> DEFINE x == Happened("tx", now', <<b>>)
<1> DEFINE C == 0..now
<1>0. WaitingTyped /\ ScriptsInTraffic /\ RowsFollow
  BY DEF TrafficInv
<1>1. now \in Nat /\ now' \in Nat /\ now <= now' /\ now' \in 0..now'
  BY <1>0 DEF WaitingTyped
<1>2. b \in Stamped(Nat) /\ b \in Stamped(0..now') /\ b.cycle = now'
  <2>1. v \in ByteValues
    BY DEF ByteValues
  <2> QED BY <1>1, <2>1 DEF Stamped
<1>3. x \in Happenings
  <2>1. <<b>> \in Seq(Stamped(Nat))
    BY <1>2
  <2> QED BY <1>1, <2>1 DEF Happened, Happenings, Kinds
<1>4. /\ txBytes \in Seq(Stamped(0..now')) /\ txErrors \in Seq(0..now')
      /\ scriptedRx \in Seq(Sends(0..now')) /\ Len(txBytes) \in Nat
  <2>1. /\ txBytes \in Seq(Stamped(0..now)) /\ txErrors \in Seq(0..now)
        /\ scriptedRx \in Seq(Sends(0..now)) /\ Len(txBytes) \in Nat
    BY <1>0, WaitingFacts, LenProperties DEF WaitingTyped
  <2> QED BY <1>1, <2>1, LaterTyped
<1>5. /\ txBytes' \in Seq(Stamped(0..now')) /\ Len(txBytes') = Len(txBytes) + 1
      /\ txSeen \in 0..Len(txBytes)
  BY <1>0, <1>2, <1>4, AppendProperties DEF WaitingTyped
<1>6. NewTx' = Append(NewTx, b) /\ NewErrors' = NewErrors
  <2> DEFINE T == Stamped(0..now')
  <2>2. txBytes \in Seq(T) /\ b \in T /\ txSeen \in 0..Len(txBytes)
    BY <1>2, <1>4, <1>5
  <2> HIDE DEF T
  <2>1. SubSeq(Append(txBytes, b), txSeen + 1, Len(Append(txBytes, b)))
          = Append(SubSeq(txBytes, txSeen + 1, Len(txBytes)), b)
    BY ONLY <2>2, TailNext
  <2> QED BY <2>1 DEF NewTx, NewErrors
<1>7. traffic' \in Seq(Happenings) /\ Len(traffic') = Len(traffic) + 1 /\ Len(traffic) \in Nat
  <2>1. traffic \in Seq(Happenings) /\ traffic' = Append(traffic, x)
    BY <1>0, WaitingFacts
  <2> HIDE DEF x
  <2> QED BY <1>3, <2>1, AppendProperties, LenProperties
<1>8. WaitingTyped'
  <2>1. txSeen' \in 0..Len(txBytes') /\ framingSeen' \in 0..Len(txErrors')
    BY <1>0, <1>4, <1>5 DEF WaitingTyped
  <2>2. pulse # <<>> => pulse \in {<<c>> : c \in 0..now'} /\ mark \in 0..Len(traffic')
    <3> SUFFICES ASSUME pulse # <<>> PROVE pulse \in {<<c>> : c \in 0..now'} /\ mark \in 0..Len(traffic')
      OBVIOUS
    <3>1. PICK c \in 0..now : pulse = <<c>>
      BY <1>0 DEF WaitingTyped
    <3>2. c \in 0..now' /\ mark \in 0..Len(traffic)
      BY <1>0, <1>1 DEF WaitingTyped
    <3> QED BY <1>7, <3>1, <3>2
  <2>3. Trimmed(console)' = console' /\ console' \in Terminals
    BY <1>0 DEF WaitingTyped, Trimmed
  <2> QED BY <1>1, <1>4, <1>5, <1>7, <2>1, <2>2, <2>3 DEF WaitingTyped, Sends
<1>9. ScriptsInTraffic'
  BY <1>0, <1>3, ScriptsStay
<1>10. ASSUME NEW rs \in Resets(C)
       PROVE  Published(rs, <<>>)' = Trimmed(Watched(Published(rs, <<>>), x))
  <2>1. /\ C \in SUBSET Nat /\ NewTx \in Seq(Stamped(Nat)) /\ NewErrors \in Seq(C)
        /\ scriptedRx \in Seq(Sends(C)) /\ console \in Terminals
    BY <1>0, WaitingFacts
  <2>2. \A c \in C : c < b.cycle
    BY <1>1, <1>2
  <2>3. x = Happened("tx", b.cycle, <<b>>)
    BY <1>2
  <2> HIDE DEF C, x
  <2>4. Shown(console, Append(NewTx, b), NewErrors, rs, scriptedRx)
          = Trimmed(Watched(Shown(console, NewTx, NewErrors, rs, scriptedRx),
                            Happened("tx", b.cycle, <<b>>)))
    BY ONLY <1>2, <1>10, <2>1, <2>2, ShownTx
  <2> QED BY <1>6, <2>3, <2>4, PublishedIs
<1>11. RowsFollow'
  <2>1. traffic' = Append(traffic, x)
    OBVIOUS
  <2> HIDE DEF x
  <2> QED BY <1>0, <1>3, <1>10, <2>1, RowsFollowNext
<1> QED BY <1>8, <1>9, <1>11 DEF TrafficInv

\* The board decodes a framing error.
LEMMA RowsError ==
  ASSUME TrafficInv, now' = now + 1,
         txErrors' = Append(txErrors, now'),
         traffic' = Append(traffic, Happened("framing", now', <<>>)),
         UNCHANGED <<txBytes, txSeen, framingSeen, scriptedRx, console, pulse, mark>>
  PROVE  TrafficInv'
<1> DEFINE x == Happened("framing", now', <<>>)
<1> DEFINE C == 0..now
<1>0. WaitingTyped /\ ScriptsInTraffic /\ RowsFollow
  BY DEF TrafficInv
<1>1. now \in Nat /\ now' \in Nat /\ now <= now' /\ now' \in 0..now'
  BY <1>0 DEF WaitingTyped
<1>3. x \in Happenings
  BY <1>1, EmptySeq DEF Happened, Happenings, Kinds
<1>4. /\ txBytes \in Seq(Stamped(0..now')) /\ txErrors \in Seq(0..now')
      /\ scriptedRx \in Seq(Sends(0..now')) /\ Len(txErrors) \in Nat
  <2>1. /\ txBytes \in Seq(Stamped(0..now)) /\ txErrors \in Seq(0..now)
        /\ scriptedRx \in Seq(Sends(0..now)) /\ Len(txErrors) \in Nat
    BY <1>0, WaitingFacts, LenProperties DEF WaitingTyped
  <2> QED BY <1>1, <2>1, LaterTyped
<1>5. /\ txErrors' \in Seq(0..now') /\ Len(txErrors') = Len(txErrors) + 1
      /\ framingSeen \in 0..Len(txErrors)
  BY <1>0, <1>1, <1>4, AppendProperties DEF WaitingTyped
<1>6. NewErrors' = Append(NewErrors, now') /\ NewTx' = NewTx
  <2> DEFINE c == now'
  <2>1. c \in 0..now' /\ txErrors' = Append(txErrors, c)
    BY <1>1
  <2> HIDE DEF c
  <2>2. SubSeq(Append(txErrors, c), framingSeen + 1, Len(Append(txErrors, c)))
          = Append(SubSeq(txErrors, framingSeen + 1, Len(txErrors)), c)
    BY <1>4, <1>5, <2>1, TailNext
  <2> QED BY <2>1, <2>2 DEF NewTx, NewErrors, c
<1>7. traffic' \in Seq(Happenings) /\ Len(traffic') = Len(traffic) + 1 /\ Len(traffic) \in Nat
  <2>1. traffic \in Seq(Happenings) /\ traffic' = Append(traffic, x)
    BY <1>0, WaitingFacts
  <2> HIDE DEF x
  <2> QED BY <1>3, <2>1, AppendProperties, LenProperties
<1>8. WaitingTyped'
  <2>1. txSeen' \in 0..Len(txBytes') /\ framingSeen' \in 0..Len(txErrors')
    BY <1>0, <1>4, <1>5 DEF WaitingTyped
  <2>2. pulse # <<>> => pulse \in {<<c>> : c \in 0..now'} /\ mark \in 0..Len(traffic')
    <3> SUFFICES ASSUME pulse # <<>> PROVE pulse \in {<<c>> : c \in 0..now'} /\ mark \in 0..Len(traffic')
      OBVIOUS
    <3>1. PICK c \in 0..now : pulse = <<c>>
      BY <1>0 DEF WaitingTyped
    <3>2. c \in 0..now' /\ mark \in 0..Len(traffic)
      BY <1>0, <1>1 DEF WaitingTyped
    <3> QED BY <1>7, <3>1, <3>2
  <2>3. Trimmed(console)' = console' /\ console' \in Terminals
    BY <1>0 DEF WaitingTyped, Trimmed
  <2> QED BY <1>1, <1>4, <1>5, <1>7, <2>1, <2>2, <2>3 DEF WaitingTyped, Sends
<1>9. ScriptsInTraffic'
  BY <1>0, <1>3, ScriptsStay
<1>10. ASSUME NEW rs \in Resets(C)
       PROVE  Published(rs, <<>>)' = Trimmed(Watched(Published(rs, <<>>), x))
  <2>1. /\ C \in SUBSET Nat /\ NewTx \in Seq(Stamped(C)) /\ NewErrors \in Seq(C)
        /\ scriptedRx \in Seq(Sends(C)) /\ console \in Terminals
    BY <1>0, WaitingFacts
  <2> DEFINE e == now'
  <2>2. e \in Nat /\ \A c \in C : c < e
    BY <1>1
  <2>3. x = Happened("framing", e, <<>>) /\ NewErrors' = Append(NewErrors, e)
    BY <1>6
  <2> HIDE DEF C, x, e
  <2>4. Shown(console, NewTx, Append(NewErrors, e), rs, scriptedRx)
          = Trimmed(Watched(Shown(console, NewTx, NewErrors, rs, scriptedRx),
                            Happened("framing", e, <<>>)))
    BY <2>1, <2>2, ShownError
  <2> QED BY <1>6, <2>3, <2>4, PublishedIs
<1>11. RowsFollow'
  <2>1. traffic' = Append(traffic, x)
    OBVIOUS
  <2> HIDE DEF x
  <2> QED BY <1>0, <1>3, <1>10, <2>1, RowsFollowNext
<1> QED BY <1>8, <1>9, <1>11 DEF TrafficInv

\* Everything that waited was published, or dropped.
LEMMA RowsPublished ==
  ASSUME TrafficInv, UNCHANGED <<now, txBytes, txErrors>>, StageUart, scriptedRx' = <<>>,
         NEW t \in Terminals, Trimmed(t) = t, console' = t, pulse' = <<>>,
         NEW h \in Seq(Happenings), traffic' = h,
         ~TiedIn(h) => t = Trimmed(WatchedAll(h))
  PROVE  TrafficInv'
<1>0. WaitingTyped
  BY DEF TrafficInv
<1>1. /\ now \in Nat /\ txBytes \in Seq(Stamped(0..now)) /\ txErrors \in Seq(0..now)
      /\ Len(txBytes) \in Nat /\ Len(txErrors) \in Nat
  BY <1>0, LenProperties DEF WaitingTyped
<1>2. WaitingTyped'
  <2>1. txSeen' \in 0..Len(txBytes') /\ framingSeen' \in 0..Len(txErrors')
    BY <1>1 DEF StageUart
  <2>2. scriptedRx' \in Seq([sent : 0..now', bytes : Seq(Stamped(Nat))])
    BY EmptySeq
  <2>3. Trimmed(console)' = console'
    BY DEF Trimmed
  <2> QED BY <1>1, <2>1, <2>2, <2>3 DEF WaitingTyped
<1>3. ScriptsInTraffic'
  BY DEF ScriptsInTraffic
<1>4. NewTx' = <<>> /\ NewErrors' = <<>>
  <2>1. SubSeq(txBytes, Len(txBytes) + 1, Len(txBytes)) = <<>>
    <3>1. 0 \in 0..Len(txBytes)
      BY <1>1
    <3> QED BY ONLY <1>1, <3>1, TailIs
  <2>2. SubSeq(txErrors, Len(txErrors) + 1, Len(txErrors)) = <<>>
    <3>1. 0 \in 0..Len(txErrors)
      BY <1>1
    <3> QED BY ONLY <1>1, <3>1, TailIs
  <2> QED BY <2>1, <2>2 DEF StageUart, NewTx, NewErrors
<1>5. RowsFollow'
  <2>1. Published(<<>>, <<>>)' = Shown(t, <<>>, <<>>, <<>>, <<>>)
    <3>1. Published(<<>>, <<>>)' = Shown(console', NewTx', NewErrors', <<>>, scriptedRx')
      BY PublishedIs
    <3> QED BY <1>4, <3>1
  <2>2. Published(<<>>, <<>>)' = t
    BY <2>1, ShownNone
  <2>3. Expected' = Trimmed(WatchedAll(h)) /\ (Tied' <=> TiedIn(h)) /\ Idle'
    <3>1. Expected' = Trimmed(WatchedAll(traffic')) /\ (Tied' <=> TiedIn(traffic'))
      BY DEF Expected, Tied
    <3> QED BY <3>1 DEF Idle
  <2> QED BY <2>2, <2>3 DEF RowsFollow
<1> QED BY <1>2, <1>3, <1>5 DEF TrafficInv

LEMMA RowsRefreshed ==
  ASSUME TrafficInv, UNCHANGED <<now, txBytes, txErrors, traffic>>,
         PublishUart(<<>>, <<>>), pulse' = <<>>
  PROVE  TrafficInv'
<1>0. WaitingTyped /\ RowsFollow
  BY DEF TrafficInv
<1>1. <<>> \in Resets(0..now) /\ traffic \in Seq(Happenings)
  BY <1>0, WaitingFacts DEF Resets
<1> DEFINE t == Published(<<>>, <<>>)
<1>2. t \in Terminals /\ Trimmed(t) = t
  BY <1>0, <1>1, PublishedType
<1>3. ~TiedIn(traffic) => t = Trimmed(WatchedAll(traffic))
  BY <1>0 DEF RowsFollow, Tied, Expected
<1>4. StageUart /\ console' = t /\ scriptedRx' = <<>>
  BY DEF PublishUart
<1> HIDE DEF t
<1> QED BY <1>1, <1>2, <1>3, <1>4, RowsPublished

LEMMA RowsNoted ==
  ASSUME TrafficInv, EndReset
  PROVE  TrafficInv'
<1>0. WaitingTyped /\ RowsFollow
  BY DEF TrafficInv
<1>1. pulse # <<>> /\ pulse \in Resets(0..now) /\ Noted \in Seq(Happenings)
  BY <1>0, WaitingFacts, NotedType DEF EndReset, Idle
<1> DEFINE t == Published(pulse, <<>>)
<1>2. t \in Terminals /\ Trimmed(t) = t
  BY <1>0, <1>1, PublishedType
<1>3. ~TiedIn(Noted) => t = Trimmed(WatchedAll(Noted))
  BY <1>0, <1>1 DEF RowsFollow, Idle
<1>4. /\ StageUart /\ console' = t /\ scriptedRx' = <<>> /\ pulse' = <<>>
      /\ traffic' = Noted /\ UNCHANGED <<now, txBytes, txErrors>>
  BY DEF EndReset, PublishUart, Noted, boardVars
<1> HIDE DEF t
<1> QED BY <1>1, <1>2, <1>3, <1>4, RowsPublished

LEMMA NothingShown ==
  /\ NoLines \in Terminals /\ <<>> \in Seq(Happenings)
  /\ Trimmed(NoLines) = NoLines /\ WatchedAll(<<>>) = NoLines
<1>1. NoLines \in Terminals /\ <<>> \in Seq(Happenings)
  BY EmptySeq DEF NoLines, Terminals
<1>2. ASSUME NEW t \in Terminals, t.lines = <<>> PROVE Trimmed(t) = t
  <2>1. t.lines \in Seq(RowSet) /\ Len(t.lines) = 0 /\ t.trimmed \in Nat
    BY <1>2, TerminalFacts
  <2>2. Excess(Len(t.lines)) = 0
    BY <2>1, TerminalAssumption DEF Excess
  <2>3. Kept(t.lines) \in Seq(RowSet) /\ Len(Kept(t.lines)) = Len(t.lines) - 0
    BY <2>1, <2>2, KeptIs
  <2>4. Kept(t.lines) = t.lines
    BY <1>2, <2>1, <2>3, EmptySeq
  <2>5. Trimmed(t) = Terminal(Kept(t.lines), t.open, t.trimmed + Excess(Len(t.lines)))
    BY TrimmedIs
  <2>6. t.trimmed + 0 = t.trimmed
    BY <2>1
  <2>7. t = Terminal(t.lines, t.open, t.trimmed)
    BY MadeOf
  <2> QED BY <2>2, <2>4, <2>5, <2>6, <2>7
<1>3. NoLines.lines = <<>>
  BY DEF NoLines
<1>4. WatchedAll(<<>>) = NoLines
  BY WatchedAllIs
<1> QED BY <1>1, <1>2, <1>3, <1>4

LEMMA RowsCleared ==
  ASSUME TrafficInv, ClearUart
  PROVE  TrafficInv'
<1>1. /\ StageUart /\ console' = NoLines /\ scriptedRx' = <<>> /\ pulse' = <<>>
      /\ traffic' = <<>> /\ UNCHANGED <<now, txBytes, txErrors>>
  BY DEF ClearUart, Idle, boardVars
<1> QED BY <1>1, NothingShown, RowsPublished

\* The frames of a text.
LEMMA StartsAre ==
  ASSUME NEW text \in Texts, FirstStart \in Nat
  PROVE  Starts(text) \in Seq(Stamped(Nat)) /\ Starts(text) # <<>>
<1>1. text \in Seq(Range(text)) /\ text # <<>>
  BY TerminalAssumption
<1>2. DOMAIN text = 1..Len(text) /\ Len(text) \in Nat \ {0} /\ \A i \in 1..Len(text) : text[i] \in Range(text)
  BY <1>1, LenProperties, ElementOfSeq, EmptySeq
<1>3. Range(text) \subseteq ByteValues
  BY DEF ByteValues
<1>4. ASSUME NEW i \in 1..Len(text)
      PROVE  [value |-> text[i], cycle |-> FirstStart + (i - 1) * Frame] \in Stamped(Nat)
  <2>1. (i - 1) \in Nat
    BY <1>2
  <2>2. (i - 1) * Frame \in Nat
    BY <2>1, TerminalAssumption
  <2>3. FirstStart + (i - 1) * Frame \in Nat
    BY <2>2
  <2> HIDE DEF FirstStart
  <2> QED BY <1>2, <1>3, <2>3 DEF Stamped
<1>5. Starts(text) \in [1..Len(text) -> Stamped(Nat)]
  BY <1>2, <1>4 DEF Starts
<1>6. Starts(text) \in Seq(Stamped(Nat)) /\ DOMAIN Starts(text) = 1..Len(text)
  BY <1>2, <1>5, SeqDef
<1> QED BY <1>2, <1>6

LEMMA RowsTyped ==
  ASSUME TrafficInv, FirstStart \in Nat, NEW text \in Texts, TypedSend(text)
  PROVE  TrafficInv'
<1> DEFINE x == Happened("typed", now, Starts(text))
<1> DEFINE p == Published(<<>>, <<>>)
<1> DEFINE h == Append(traffic, x)
<1> DEFINE t == Trimmed(Watched(p, x))
<1>0. WaitingTyped /\ RowsFollow
  BY DEF TrafficInv
<1>1. <<>> \in Resets(0..now) /\ traffic \in Seq(Happenings) /\ now \in Nat
  BY <1>0, WaitingFacts DEF Resets
<1>2. p \in Terminals
  BY <1>0, <1>1, PublishedType
<1>3. Starts(text) \in Seq(Stamped(Nat)) /\ Starts(text) # <<>>
  BY StartsAre
<1>4. x \in Happenings
  BY <1>1, <1>3 DEF Happened, Happenings, Kinds
<1>5. Published(<<>>, Starts(text)) = t
  BY <1>3, PublishedIs
<1>6. ~TiedIn(traffic) => p = Trimmed(WatchedAll(traffic))
  BY <1>0 DEF RowsFollow, Tied, Expected
<1>7. /\ StageUart /\ console' = Published(<<>>, Starts(text)) /\ scriptedRx' = <<>>
      /\ pulse' = <<>> /\ traffic' = h /\ UNCHANGED <<now, txBytes, txErrors>>
  BY DEF TypedSend, PublishUart, Idle
<1> HIDE DEF x, p
<1>8. t \in Terminals /\ Trimmed(t) = t
  <2>1. Watched(p, x) \in Terminals
    BY <1>2, <1>4, WatchedIs
  <2> QED BY <2>1, TrimmedIs, TrimmedTwice
<1>9. h \in Seq(Happenings)
  BY <1>1, <1>4, AppendProperties
<1>10. ~TiedIn(h) => t = Trimmed(WatchedAll(h))
  BY <1>1, <1>2, <1>4, <1>6, RowsGrow
<1> HIDE DEF t, h
<1> QED BY <1>5, <1>7, <1>8, <1>9, <1>10, RowsPublished

LEMMA RowsScripted ==
  ASSUME TrafficInv, FirstStart \in Nat, NEW text \in Texts, ScriptedSend(text)
  PROVE  TrafficInv'
<1> DEFINE z == [sent |-> now, bytes |-> Starts(text)]
<1> DEFINE x == Happened("rx", now, Starts(text))
<1> DEFINE C == 0..now
<1>0. WaitingTyped /\ ScriptsInTraffic /\ RowsFollow
  BY DEF TrafficInv
<1>1. /\ now \in Nat /\ now \in 0..now /\ traffic \in Seq(Happenings)
      /\ scriptedRx \in Seq(Sends(0..now))
  BY <1>0, WaitingFacts
<1>2. Starts(text) \in Seq(Stamped(Nat))
  BY StartsAre
<1>3. /\ x \in Happenings /\ x.kind = "rx" /\ x.at = now
      /\ z \in Sends(0..now) /\ z \in Sends(Nat) /\ z.sent = now
      /\ x = Happened("rx", z.sent, z.bytes)
  BY <1>1, <1>2 DEF Happened, Happenings, Kinds, Sends
<1>4. /\ UNCHANGED <<now, txBytes, txErrors, txSeen, framingSeen, console, pulse, mark>>
      /\ scriptedRx' = Append(scriptedRx, z) /\ traffic' = Append(traffic, x)
  BY DEF ScriptedSend
<1> HIDE DEF x, z
<1>5. /\ traffic' \in Seq(Happenings) /\ Len(traffic') = Len(traffic) + 1 /\ Len(traffic) \in Nat
      /\ traffic'[Len(traffic) + 1] = x
      /\ \A j \in 1..Len(traffic) : traffic'[j] = traffic[j]
      /\ DOMAIN traffic = 1..Len(traffic) /\ DOMAIN traffic' = 1..(Len(traffic) + 1)
  BY <1>1, <1>3, <1>4, AppendProperties, LenProperties
<1>6. /\ scriptedRx' \in Seq(Sends(0..now)) /\ Len(scriptedRx') = Len(scriptedRx) + 1
      /\ Len(scriptedRx) \in Nat /\ scriptedRx'[Len(scriptedRx) + 1] = z
      /\ \A j \in 1..Len(scriptedRx) : scriptedRx'[j] = scriptedRx[j]
      /\ DOMAIN scriptedRx = 1..Len(scriptedRx)
      /\ DOMAIN scriptedRx' = 1..(Len(scriptedRx) + 1)
  BY <1>1, <1>3, <1>4, AppendProperties, LenProperties
<1>7. WaitingTyped'
  <2>1. pulse # <<>> => mark \in 0..Len(traffic')
    BY <1>0, <1>5 DEF WaitingTyped
  <2>2. Trimmed(console)' = console'
    BY <1>0, <1>4 DEF WaitingTyped, Trimmed
  <2> QED BY <1>0, <1>4, <1>5, <1>6, <2>1, <2>2 DEF WaitingTyped, Sends
<1>8. ScriptsInTraffic'
  <2> SUFFICES ASSUME NEW i \in DOMAIN scriptedRx'
               PROVE  \E j \in DOMAIN traffic' : /\ traffic'[j].kind = "rx"
                                                 /\ traffic'[j].at = scriptedRx'[i].sent
    BY DEF ScriptsInTraffic
  <2>1. CASE i = Len(scriptedRx) + 1
    <3>1. Len(traffic) + 1 \in DOMAIN traffic'
      BY <1>5
    <3> QED BY <1>3, <1>5, <1>6, <2>1, <3>1
  <2>2. CASE i # Len(scriptedRx) + 1
    <3>1. i \in DOMAIN scriptedRx /\ scriptedRx'[i] = scriptedRx[i]
      BY <1>6, <2>2
    <3>2. PICK j \in DOMAIN traffic :
            traffic[j].kind = "rx" /\ traffic[j].at = scriptedRx[i].sent
      BY <1>0, <3>1 DEF ScriptsInTraffic
    <3>3. j \in DOMAIN traffic' /\ traffic'[j] = traffic[j]
      BY <1>5
    <3> QED BY <3>1, <3>2, <3>3
  <2> QED BY <2>1, <2>2
<1>9. NewTx' = NewTx /\ NewErrors' = NewErrors
  BY <1>4 DEF NewTx, NewErrors
<1>10. ASSUME NEW rs \in Resets(C)
       PROVE  Published(rs, <<>>)' = Trimmed(Watched(Published(rs, <<>>), x))
  <2>1. /\ C \in SUBSET Nat /\ NewTx \in Seq(Stamped(C)) /\ NewErrors \in Seq(C)
        /\ scriptedRx \in Seq(Sends(C)) /\ console \in Terminals
    BY <1>0, WaitingFacts
  <2>2. \A d \in C : d <= z.sent
    BY <1>1, <1>3
  <2> HIDE DEF C
  <2>4. Shown(console, NewTx, NewErrors, rs, Append(scriptedRx, z))
          = Trimmed(Watched(Shown(console, NewTx, NewErrors, rs, scriptedRx),
                            Happened("rx", z.sent, z.bytes)))
    BY ONLY <1>3, <1>10, <2>1, <2>2, ShownScript
  <2> QED BY <1>3, <1>4, <1>9, <2>4, PublishedIs
<1>11. RowsFollow'
  BY <1>0, <1>3, <1>4, <1>10, RowsFollowNext
<1> QED BY <1>7, <1>8, <1>11 DEF TrafficInv

\* A pulse begins: its notice will stand behind all that is there, scripted
\* sends of the same cycle excluded.
LEMMA RowsPulse ==
  ASSUME TrafficInv, BeginReset
  PROVE  TrafficInv'
<1> DEFINE x == Happened("reset", now, <<>>)
<1> DEFINE C == 0..now
<1> DEFINE D == {c \in C : c < now}
<1>0. WaitingTyped /\ ScriptsInTraffic /\ RowsFollow
  BY DEF TrafficInv
<1>1. /\ now \in Nat /\ now \in 0..now /\ traffic \in Seq(Happenings) /\ Len(traffic) \in Nat
      /\ <<>> \in Resets(0..now)
  BY <1>0, WaitingFacts, LenProperties DEF Resets
<1>2. x \in Happenings /\ x.kind = "reset" /\ x.at = now
  BY <1>1, EmptySeq DEF Happened, Happenings, Kinds
<1>3. /\ UNCHANGED <<now, txBytes, txErrors, txSeen, framingSeen, scriptedRx, console, traffic>>
      /\ pulse' = <<now>> /\ mark' = Len(traffic)
  BY DEF BeginReset, boardVars, adapter
<1>4. WaitingTyped'
  <2>1. pulse' \in {<<c>> : c \in 0..now'} /\ mark' \in 0..Len(traffic')
    BY <1>1, <1>3
  <2>2. Trimmed(console)' = console'
    BY <1>0, <1>3 DEF WaitingTyped, Trimmed
  <2> QED BY <1>0, <1>3, <2>1, <2>2 DEF WaitingTyped
<1>5. ScriptsInTraffic'
  BY <1>0, <1>3 DEF ScriptsInTraffic
<1>6. NewTx' = NewTx /\ NewErrors' = NewErrors
  BY <1>3 DEF NewTx, NewErrors
<1>7. ~Tied' => Published(<<>>, <<>>)' = Expected'
  <2>1. (Tied' <=> Tied) /\ Expected' = Expected
    BY <1>3 DEF Tied, Expected
  <2>2. Published(<<>>, <<>>)' = Published(<<>>, <<>>)
    BY <1>3, <1>6, PublishedIs
  <2> QED BY <1>0, <2>1, <2>2 DEF RowsFollow
<1>8. ASSUME ~TiedIn(Noted)' PROVE Published(pulse, <<>>)' = Trimmed(WatchedAll(Noted))'
  <2>1. Noted' = Append(traffic, x)
    <3> DEFINE j == Len(traffic) + 1
    <3>1. Noted' = InsertAt(traffic, j, x)
      <4>1. pulse'[1] = now
        BY <1>3
      <4> QED BY <1>3, <4>1 DEF Noted
    <3>2. j = Len(traffic) + 1
      OBVIOUS
    <3> HIDE DEF j, x
    <3> QED BY <1>1, <1>2, <3>1, <3>2, InsertAtEnd
  <2>2. ~TiedIn(Append(traffic, x))
    <3>1. ~TiedIn(Noted')
      BY <1>8
    <3> QED BY <2>1, <3>1
  <2> DEFINE g == Append(traffic, x)
  <2>3. /\ DOMAIN g = 1..(Len(traffic) + 1) /\ g[Len(traffic) + 1] = x
        /\ \A j \in 1..Len(traffic) : g[j] = traffic[j]
        /\ DOMAIN traffic = 1..Len(traffic)
    <3> HIDE DEF x
    <3> QED BY <1>1, <1>2, AppendProperties, LenProperties
  <2> HIDE DEF g
  <2>4. \A j \in 1..Len(traffic) : traffic[j].kind = "rx" => traffic[j].at # now
    <3> SUFFICES ASSUME NEW j \in 1..Len(traffic), traffic[j].kind = "rx", traffic[j].at = now
                 PROVE  FALSE
      OBVIOUS
    <3>1. j \in DOMAIN g /\ Len(traffic) + 1 \in DOMAIN g
      BY <1>1, <2>3
    <3>2. g[j].kind = "rx" /\ g[Len(traffic) + 1].kind = "reset" /\ g[j].at = g[Len(traffic) + 1].at
      BY <1>2, <2>3
    <3>3. TiedIn(g)
      BY <3>1, <3>2 DEF TiedIn
    <3> QED BY <2>2, <3>3 DEF g
  <2>5. scriptedRx \in Seq(Sends(D))
    <3>1. scriptedRx \in Seq(Sends(C)) /\ DOMAIN scriptedRx = 1..Len(scriptedRx)
          /\ Len(scriptedRx) \in Nat
      BY <1>0, WaitingFacts, LenProperties
    <3>2. ASSUME NEW i \in 1..Len(scriptedRx) PROVE scriptedRx[i] \in Sends(D)
      <4>1. scriptedRx[i] \in Sends(C)
        BY <3>1, ElementOfSeq
      <4>2. PICK j \in DOMAIN traffic :
              traffic[j].kind = "rx" /\ traffic[j].at = scriptedRx[i].sent
        BY <1>0, <3>1 DEF ScriptsInTraffic
      <4>3. scriptedRx[i].sent # now
        BY <2>3, <2>4, <4>2
      <4>4. scriptedRx[i].sent \in C
        BY <4>1 DEF Sends
      <4>5. scriptedRx[i].sent \in D
        BY <1>1, <4>3, <4>4
      <4> HIDE DEF C, D
      <4> QED BY <4>1, <4>5 DEF Sends
    <3> HIDE DEF C, D
    <3>3. scriptedRx = [i \in 1..Len(scriptedRx) |-> scriptedRx[i]]
      BY <3>1
    <3>4. scriptedRx \in [1..Len(scriptedRx) -> Sends(D)]
      BY <3>2, <3>3
    <3> QED BY <3>1, <3>4, SeqDef
  <2>6. Shown(console, NewTx, NewErrors, <<now>>, scriptedRx)
          = Trimmed(Watched(Shown(console, NewTx, NewErrors, <<>>, scriptedRx), x))
    <3>1. /\ C \in SUBSET Nat /\ D \in SUBSET Nat /\ NewTx \in Seq(Stamped(C))
          /\ NewErrors \in Seq(C) /\ console \in Terminals
      BY <1>0, WaitingFacts
    <3>2. (\A d \in C : d <= now) /\ \A d \in D : d < now
      BY <1>1
    <3> HIDE DEF C, D
    <3> QED BY ONLY <1>1, <2>5, <3>1, <3>2, ShownReset
  <2>7. Published(pulse, <<>>)' = Trimmed(Watched(Published(<<>>, <<>>), x))
    <3>1. PICK rs : rs = <<now>>
      OBVIOUS
    <3>2. rs = pulse'
      BY <1>3, <3>1
    <3>3. Published(rs, <<>>)' = Shown(console', NewTx', NewErrors', rs, scriptedRx')
      BY PublishedIs
    <3>4. Published(<<>>, <<>>) = Shown(console, NewTx, NewErrors, <<>>, scriptedRx)
      BY PublishedIs
    <3> HIDE DEF x
    <3> QED BY <1>3, <1>6, <2>6, <3>1, <3>2, <3>3, <3>4
  <2>8. ~TiedIn(traffic) => Published(<<>>, <<>>) = Trimmed(WatchedAll(traffic))
    BY <1>0 DEF RowsFollow, Tied, Expected
  <2>9. Published(<<>>, <<>>) \in Terminals
    BY <1>0, <1>1, PublishedType
  <2> HIDE DEF x
  <2>10. Trimmed(Watched(Published(<<>>, <<>>), x)) = Trimmed(WatchedAll(Append(traffic, x)))
    BY <1>1, <1>2, <2>2, <2>8, <2>9, RowsGrow
  <2> QED BY <2>1, <2>7, <2>10
<1>9. RowsFollow'
  BY <1>7, <1>8 DEF RowsFollow
<1> QED BY <1>4, <1>5, <1>9 DEF TrafficInv

LEMMA InitTraffic == Init => TrafficInv
<1> SUFFICES ASSUME Init PROVE TrafficInv
  OBVIOUS
<1>1. /\ now = 0 /\ txBytes = <<>> /\ txErrors = <<>> /\ txSeen = 0 /\ framingSeen = 0
      /\ scriptedRx = <<>> /\ console = NoLines /\ pulse = <<>> /\ traffic = <<>>
  BY DEF Init
<1>2. NoLines \in Terminals /\ Trimmed(NoLines) = NoLines /\ WatchedAll(<<>>) = NoLines
  BY NothingShown
<1>3. WaitingTyped
  BY <1>1, <1>2, EmptySeq DEF WaitingTyped
<1>4. NewTx = <<>> /\ NewErrors = <<>>
  <2>1. Len(<<>>) = 0 /\ SubSeq(<<>>, 0 + 1, 0) = <<>>
    OBVIOUS
  <2> QED BY <1>1, <2>1 DEF NewTx, NewErrors
<1>5. Published(<<>>, <<>>) = Expected
  <2>1. Published(<<>>, <<>>) = Shown(NoLines, <<>>, <<>>, <<>>, <<>>)
    BY <1>1, <1>4, PublishedIs
  <2> QED BY <1>1, <1>2, <2>1, ShownNone DEF Expected
<1>6. RowsFollow /\ ScriptsInTraffic
  BY <1>1, <1>5 DEF RowsFollow, ScriptsInTraffic, Idle
<1> QED BY <1>3, <1>6 DEF TrafficInv

LEMMA NextTraffic ==
  ASSUME TrafficInv, FirstStart \in Nat, [Next]_vars
  PROVE  TrafficInv'
<1>1. ASSUME NEW text \in Texts, TypedSend(text) PROVE TrafficInv'
  BY <1>1, RowsTyped
<1>2. ASSUME NEW text \in Texts, ScriptedSend(text) PROVE TrafficInv'
  BY <1>2, RowsScripted
<1>3. ASSUME NEW text \in Texts, RejectedSend(text) PROVE TrafficInv'
  BY <1>3, RowsQuiet DEF RejectedSend, boardVars
<1>4. CASE ClearUart
  BY <1>4, RowsCleared
<1>5. CASE Refresh
  BY <1>5, RowsRefreshed DEF Refresh, boardVars, Idle
<1>6. CASE BeginReset
  BY <1>6, RowsPulse
<1>7. CASE EndReset
  BY <1>7, RowsNoted
<1>8. CASE FailReset
  BY <1>8, RowsRefreshed DEF FailReset, boardVars
<1>9. CASE Elapse
  <2>1. now' = now + 1 /\ UNCHANGED <<txSeen, framingSeen, scriptedRx, console, pulse, mark>>
    BY <1>9 DEF Elapse, adapter
  <2>2. CASE UNCHANGED <<txBytes, txErrors, traffic>>
    BY <2>1, <2>2, RowsQuiet
  <2>3. ASSUME NEW v \in TxValues,
               txBytes' = Append(txBytes, [value |-> v, cycle |-> now']),
               traffic' = Append(traffic, Happened("tx", now', <<[value |-> v, cycle |-> now']>>)),
               UNCHANGED txErrors
        PROVE  TrafficInv'
    BY <2>1, <2>3, RowsTx
  <2>4. CASE /\ txErrors' = Append(txErrors, now')
             /\ traffic' = Append(traffic, Happened("framing", now', <<>>))
             /\ UNCHANGED txBytes
    BY <2>1, <2>4, RowsError
  <2> QED BY <1>9, <2>2, <2>3, <2>4 DEF Elapse
<1>10. CASE UNCHANGED vars
  BY <1>10, RowsQuiet DEF vars, boardVars, adapter
<1> QED BY <1>1, <1>2, <1>3, <1>4, <1>5, <1>6, <1>7, <1>8, <1>9, <1>10 DEF Next

LEMMA TrafficFollows == TrafficInv => RowsAreTrafficUntied
<1> SUFFICES ASSUME TrafficInv, ~Tied, Idle, AllShown PROVE console = Expected
  BY DEF RowsAreTrafficUntied
<1>1. WaitingTyped /\ RowsFollow
  BY DEF TrafficInv
<1>2. Published(<<>>, <<>>) = Expected
  BY <1>1 DEF RowsFollow
<1>3. Published(<<>>, <<>>) = Shown(console, <<>>, <<>>, <<>>, <<>>)
  BY PublishedIs DEF AllShown
<1>4. Trimmed(console) = console
  BY <1>1 DEF WaitingTyped
<1> QED BY <1>2, <1>3, <1>4, ShownNone

LEMMA TrafficHolds == Spec => [](PendingInv /\ TrafficInv)
<1>1. PendingInv => FirstStart \in Nat
  BY FirstStartIs DEF PendingInv
<1>2. Init => PendingInv /\ TrafficInv
  BY InitPending, InitTraffic
<1>3. PendingInv /\ TrafficInv /\ [Next]_vars => (PendingInv /\ TrafficInv)'
  BY <1>1, NextPending, NextTraffic
<1> QED BY <1>2, <1>3, PTL DEF Spec

\* Whenever nothing waits to be shown, and no reset began in the very cycle of a
\* send, the rows of the terminal, and its count of rows trimmed, are those of a
\* terminal that was refreshed all the time (BoardAdapter.h: "the order never
\* depends on refreshes").
THEOREM RowsNeverDependOnRefreshes == Spec => []RowsAreTrafficUntied
BY TrafficHolds, TrafficFollows, PTL
=============================================================================
