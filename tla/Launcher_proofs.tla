--------------------------- MODULE Launcher_proofs ---------------------------
(***************************************************************************)
(* Proofs about a launch: what its views, its log file and its exit say,   *)
(* for every design, set of command lines, size of batches and view, and   *)
(* every order of batches, clicks, signals and failures. The event log and *)
(* the inspector come first, as the adapter uses them; the launcher's      *)
(* actions then put their lemmas together.                                 *)
(***************************************************************************)
EXTENDS Launcher, SequenceTheorems, TLAPS

\* Induction, and what FlattenSeq computes.
Sequence == INSTANCE Recursion WITH Base <- 0, Step <- Lesser

-----------------------------------------------------------------------------
(* Ends of sequences. *)

\* What is left of a sequence without its first n elements.
Rest(s, n) == SubSeq(s, n + 1, Len(s))

LEMMA RestIs ==
  ASSUME NEW S, NEW s \in Seq(S), NEW n \in 0..Len(s)
  PROVE  /\ Rest(s, n) \in Seq(S) /\ Len(Rest(s, n)) = Len(s) - n
         /\ \A i \in 1..Len(s) - n : Rest(s, n)[i] = s[n + i]
<1>1. Len(s) \in Nat /\ \A i \in n + 1..Len(s) : s[i] \in S
  BY LenProperties, ElementOfSeq
<1>2. n + 1 \in Int /\ Len(s) \in Int
  BY <1>1
<1>3. /\ SubSeq(s, n + 1, Len(s)) \in Seq(S)
      /\ Len(SubSeq(s, n + 1, Len(s))) = IF n + 1 <= Len(s) THEN Len(s) - (n + 1) + 1 ELSE 0
      /\ \A i \in 1..Len(s) - (n + 1) + 1 : SubSeq(s, n + 1, Len(s))[i] = s[(n + 1) + i - 1]
  BY <1>1, <1>2, SubSeqProperties
<1> QED BY <1>1, <1>3 DEF Rest

LEMMA RestAll == ASSUME NEW S, NEW s \in Seq(S) PROVE Rest(s, 0) = s
BY SubSeqFull DEF Rest

LEMMA RestNone == ASSUME NEW S, NEW s \in Seq(S) PROVE Rest(s, Len(s)) = <<>>
<1>1. Len(s) \in Nat
  BY LenProperties
<1> QED BY <1>1, SubSeqEmpty DEF Rest

\* What is added at the end of a sequence is added at the end of its rest.
LEMMA RestOfConcat ==
  ASSUME NEW S, NEW s \in Seq(S), NEW t \in Seq(S), NEW n \in 0..Len(s)
  PROVE  Rest(s \o t, n) = Rest(s, n) \o t
<1>1. Len(s) \in Nat /\ Len(t) \in Nat
  BY LenProperties
<1> DEFINE st == s \o t
<1>2. st \in Seq(S) /\ Len(st) = Len(s) + Len(t)
  BY ConcatProperties
<1>c. ASSUME NEW i \in 1..Len(s) + Len(t)
      PROVE  st[i] = IF i <= Len(s) THEN s[i] ELSE t[i - Len(s)]
  BY ConcatProperties
<1> HIDE DEF st
<1>3. n \in 0..Len(st)
  BY <1>1, <1>2
<1>4. /\ Rest(s, n) \in Seq(S) /\ Len(Rest(s, n)) = Len(s) - n
      /\ Rest(st, n) \in Seq(S) /\ Len(Rest(st, n)) = Len(s) + Len(t) - n
  <2>1. Rest(st, n) \in Seq(S) /\ Len(Rest(st, n)) = Len(st) - n
    BY <1>2, <1>3, RestIs
  <2>2. Rest(s, n) \in Seq(S) /\ Len(Rest(s, n)) = Len(s) - n
    BY RestIs
  <2> QED BY <1>2, <2>1, <2>2
<1>5. Rest(s, n) \o t \in Seq(S) /\ Len(Rest(s, n) \o t) = Len(s) - n + Len(t)
  BY <1>4, ConcatProperties
<1>6. ASSUME NEW i \in 1..Len(s) + Len(t) - n
      PROVE  Rest(st, n)[i] = (Rest(s, n) \o t)[i]
  <2>1. n + i \in 1..Len(s) + Len(t) /\ i \in 1..Len(s) - n + Len(t)
    BY <1>1
  <2>2. Rest(st, n)[i] = st[n + i]
    <3>1. i \in 1..Len(st) - n
      BY <1>2
    <3> QED BY <1>2, <1>3, <3>1, RestIs
  <2>3. st[n + i] = IF n + i <= Len(s) THEN s[n + i] ELSE t[(n + i) - Len(s)]
    BY <2>1, <1>c
  <2>4. (Rest(s, n) \o t)[i] = IF i <= Len(s) - n THEN Rest(s, n)[i] ELSE t[i - (Len(s) - n)]
    BY <1>4, <2>1, ConcatProperties
  <2>5. ASSUME i <= Len(s) - n PROVE Rest(s, n)[i] = s[n + i]
    <3>1. i \in 1..Len(s) - n
      BY <1>1, <2>5
    <3> QED BY <3>1, RestIs
  <2>6. (n + i <= Len(s) <=> i <= Len(s) - n) /\ (n + i) - Len(s) = i - (Len(s) - n)
    BY <1>1
  <2> QED BY <2>2, <2>3, <2>4, <2>5, <2>6
<1>7. Rest(st, n) = Rest(s, n) \o t
  <2> DEFINE a == Rest(st, n)
  <2> DEFINE b == Rest(s, n) \o t
  <2>1. a \in Seq(S) /\ b \in Seq(S) /\ Len(a) = Len(b) /\ Len(a) = Len(s) + Len(t) - n
    BY <1>1, <1>4, <1>5
  <2>2. \A i \in 1..Len(s) + Len(t) - n : a[i] = b[i]
    BY <1>6
  <2> HIDE DEF a, b
  <2>3. a = b
    BY <2>1, <2>2, SeqEqual
  <2> QED BY <2>3 DEF a, b
<1> QED BY <1>7 DEF st

\* Dropping more than the first of two sequences drops from the second.
LEMMA RestPast ==
  ASSUME NEW S, NEW s \in Seq(S), NEW t \in Seq(S), NEW n \in Nat,
         Len(s) <= n, n <= Len(s) + Len(t)
  PROVE  Rest(s \o t, n) = Rest(t, n - Len(s))
<1>1. Len(s) \in Nat /\ Len(t) \in Nat
  BY LenProperties
<1> DEFINE st == s \o t
<1>2. st \in Seq(S) /\ Len(st) = Len(s) + Len(t)
  BY ConcatProperties
<1>c. ASSUME NEW i \in 1..Len(s) + Len(t)
      PROVE  st[i] = IF i <= Len(s) THEN s[i] ELSE t[i - Len(s)]
  BY ConcatProperties
<1> HIDE DEF st
<1>3. n \in 0..Len(st) /\ n - Len(s) \in 0..Len(t)
  BY <1>1, <1>2
<1>4. /\ Rest(st, n) \in Seq(S) /\ Len(Rest(st, n)) = Len(s) + Len(t) - n
      /\ Rest(t, n - Len(s)) \in Seq(S) /\ Len(Rest(t, n - Len(s))) = Len(t) - (n - Len(s))
  BY <1>2, <1>3, RestIs
<1>5. ASSUME NEW i \in 1..Len(s) + Len(t) - n
      PROVE  Rest(st, n)[i] = Rest(t, n - Len(s))[i]
  <2>1. Rest(st, n)[i] = st[n + i]
    <3>1. i \in 1..Len(st) - n
      BY <1>2
    <3> QED BY <1>2, <1>3, <3>1, RestIs
  <2>2. Rest(t, n - Len(s))[i] = t[(n - Len(s)) + i]
    <3>1. i \in 1..Len(t) - (n - Len(s))
      BY <1>1
    <3> QED BY <1>3, <3>1, RestIs
  <2>3. n + i \in 1..Len(s) + Len(t) /\ ~(n + i <= Len(s)) /\ (n + i) - Len(s) = (n - Len(s)) + i
    BY <1>1
  <2>4. st[n + i] = t[(n + i) - Len(s)]
    BY <2>3, <1>c
  <2> QED BY <2>1, <2>2, <2>3, <2>4
<1>6. Rest(st, n) = Rest(t, n - Len(s))
  BY <1>1, <1>4, <1>5, SeqEqual
<1> QED BY <1>6 DEF st

LEMMA RestOfRest ==
  ASSUME NEW S, NEW s \in Seq(S), NEW m \in Nat, NEW n \in Nat, m + n <= Len(s)
  PROVE  Rest(Rest(s, m), n) = Rest(s, m + n)
<1>1. Len(s) \in Nat
  BY LenProperties
<1>2. m \in 0..Len(s) /\ m + n \in 0..Len(s)
  BY <1>1
<1>3. /\ Rest(s, m) \in Seq(S) /\ Len(Rest(s, m)) = Len(s) - m
      /\ Rest(s, m + n) \in Seq(S) /\ Len(Rest(s, m + n)) = Len(s) - (m + n)
  BY <1>2, RestIs
<1>4. n \in 0..Len(Rest(s, m))
  BY <1>1, <1>3
<1>5. Rest(Rest(s, m), n) \in Seq(S) /\ Len(Rest(Rest(s, m), n)) = Len(s) - m - n
  BY <1>3, <1>4, RestIs
<1>6. ASSUME NEW i \in 1..Len(s) - (m + n)
      PROVE  Rest(Rest(s, m), n)[i] = Rest(s, m + n)[i]
  <2>1. Rest(Rest(s, m), n)[i] = Rest(s, m)[n + i]
    <3>1. i \in 1..Len(Rest(s, m)) - n
      BY <1>1, <1>3
    <3> QED BY <1>3, <1>4, <3>1, RestIs
  <2>2. Rest(s, m)[n + i] = s[m + (n + i)]
    <3>1. n + i \in 1..Len(s) - m
      BY <1>1
    <3> QED BY <1>2, <3>1, RestIs
  <2>3. Rest(s, m + n)[i] = s[(m + n) + i]
    BY <1>2, RestIs
  <2> QED BY <1>1, <2>1, <2>2, <2>3
<1> QED BY <1>1, <1>3, <1>5, <1>6, SeqEqual

-----------------------------------------------------------------------------
(* EventsIn. *)

LEMMA SameFlatten == \A ss : Sequence!FlattenSeq(ss) = FlattenSeq(ss)
BY DEF Sequence!FlattenSeq, FlattenSeq

IsEvents(new) == new \in Seq({line \in AnyLine : IsEvent(line)})

LEMMA EventsAreLines ==
  ASSUME NEW new, IsEvents(new)
  PROVE  new \in Seq(AnyLine) /\ \A i \in 1..Len(new) : new[i] \in AnyLine /\ IsEvent(new[i])
BY SeqMonotonic, ElementOfSeq DEF IsEvents

\* The sequences that EventsIn flattens.
Parts(ls) == [i \in DOMAIN ls |-> IF IsEvent(ls[i]) THEN <<ls[i]>> ELSE <<>>]

LEMMA PartsIs ==
  ASSUME NEW ls \in Seq(AnyLine)
  PROVE  /\ Sequence!Family(Parts(ls), Len(ls)) /\ Len(ls) \in Nat
         /\ \A i \in 1..Len(ls) : Parts(ls)[i] = IF IsEvent(ls[i]) THEN <<ls[i]>> ELSE <<>>
<1>1. DOMAIN ls = 1..Len(ls) /\ Len(ls) \in Nat
  BY LenProperties
<1> QED BY <1>1 DEF Parts, Sequence!Family

LEMMA PartsAreSequences ==
  ASSUME NEW ls \in Seq(AnyLine)
  PROVE  \A i \in 1..Len(ls) : Parts(ls)[i] \in Seq(AnyLine)
<1> SUFFICES ASSUME NEW i \in 1..Len(ls) PROVE Parts(ls)[i] \in Seq(AnyLine)
  OBVIOUS
<1>1. ls[i] \in AnyLine
  BY ElementOfSeq
<1>2. <<ls[i]>> \in Seq(AnyLine) /\ <<>> \in Seq(AnyLine)
  BY <1>1, EmptySeq
<1> QED BY <1>2, PartsIs

LEMMA EventsType == ASSUME NEW ls \in Seq(AnyLine) PROVE EventsIn(ls) \in Seq(AnyLine)
<1> DEFINE f == Parts(ls)
<1>1. Len(f) = Len(ls) /\ (Len(ls) = 0 => f = <<>>)
  BY PartsIs, Sequence!FamilyLen
<1>2. \A i \in 1..Len(f) : f[i] \in Seq(AnyLine)
  BY <1>1, PartsAreSequences
<1>3. Len(f) \in Nat
  BY <1>1, PartsIs
<1> HIDE DEF f
<1>4. FlattenSeq(f) \in Seq(AnyLine)
  BY <1>1, <1>2, <1>3, SameFlatten, Sequence!FlattenType
<1> QED BY <1>4 DEF f, EventsIn, Parts

LEMMA EventsOfNone == EventsIn(<<>>) = <<>>
<1>1. <<>> \in Seq(AnyLine) /\ Len(<<>>) = 0
  BY EmptySeq
<1>2. Parts(<<>>) = <<>>
  <2>1. Sequence!Family(Parts(<<>>), 0)
    BY <1>1, PartsIs
  <2> QED BY <2>1, Sequence!FamilyLen
<1>3. Len(Parts(<<>>)) = 0
  BY <1>1, <1>2
<1> QED BY <1>2, <1>3, SameFlatten, Sequence!FlattenNone DEF EventsIn, Parts

LEMMA HeaderIsLine == Header \in AnyLine /\ ~IsEvent(Header)
BY DEF Header, AnyLine, IsEvent

LEMMA EventsOfCleared == Cleared \in Seq(AnyLine) /\ EventsIn(Cleared) = <<>>
<1>1. Cleared \in Seq(AnyLine) /\ Len(Cleared) = 1 /\ Cleared[1] = Header
  BY HeaderIsLine DEF Cleared
<1> DEFINE f == Parts(Cleared)
<1>2. Sequence!Family(f, 1) /\ \A i \in 1..1 : f[i] = <<>>
  <2>1. Sequence!Family(f, Len(Cleared))
    BY <1>1, PartsIs
  <2>2. Parts(Cleared)[1] = IF IsEvent(Cleared[1]) THEN <<Cleared[1]>> ELSE <<>>
    BY <1>1, PartsIs
  <2> HIDE DEF f
  <2>3. Sequence!Family(f, 1)
    BY <1>1, <2>1
  <2>4. f[1] = <<>>
    BY <1>1, <2>2, HeaderIsLine DEF f
  <2> QED BY <2>3, <2>4
<1> HIDE DEF f
<1>3. FlattenSeq(f) = <<>>
  BY <1>2, SameFlatten, Sequence!FlattenEmpty
<1> QED BY <1>1, <1>3 DEF f, EventsIn, Parts

\* One event more.
LEMMA EventsGrow ==
  ASSUME NEW ls \in Seq(AnyLine), NEW x \in AnyLine, IsEvent(x)
  PROVE  EventsIn(Append(ls, x)) = EventsIn(ls) \o <<x>>
<1> DEFINE n == Len(ls)
<1> DEFINE more == Append(ls, x)
<1> DEFINE f == Parts(ls)
<1> DEFINE g == Parts(more)
<1>1. /\ more \in Seq(AnyLine) /\ Len(more) = n + 1 /\ more[n + 1] = x
      /\ \A i \in 1..n : more[i] = ls[i]
  BY AppendProperties
<1>2. n \in Nat /\ Sequence!Family(f, n) /\ Sequence!Family(g, n + 1)
  <2> HIDE DEF more
  <2> QED BY <1>1, PartsIs
<1>3. \A k \in 1..n : g[k] = f[k]
  <2> SUFFICES ASSUME NEW k \in 1..n PROVE g[k] = f[k]
    OBVIOUS
  <2>1. k \in 1..Len(more) /\ more[k] = ls[k]
    BY <1>1, <1>2
  <2>2. g[k] = IF IsEvent(more[k]) THEN <<more[k]>> ELSE <<>>
    <3> HIDE DEF more
    <3> QED BY <1>1, <2>1, PartsIs
  <2>3. f[k] = IF IsEvent(ls[k]) THEN <<ls[k]>> ELSE <<>>
    BY PartsIs
  <2> HIDE DEF f, g, more
  <2> QED BY <2>1, <2>2, <2>3
<1>4. \A k \in 1..(n + 1) : Sequence!IsSequence(g[k])
  <2> HIDE DEF more
  <2> QED BY <1>1, PartsAreSequences DEF Sequence!IsSequence
<1>5. g[n + 1] = <<x>>
  <2>1. n + 1 \in 1..Len(more)
    BY <1>1, <1>2
  <2> HIDE DEF more
  <2> QED BY <1>1, <2>1, PartsIs
<1> HIDE DEF f, g, n, more
<1>6. FlattenSeq(g) = FlattenSeq(f) \o g[n + 1]
  BY <1>2, <1>3, <1>4, SameFlatten, Sequence!FlattenGrows
<1>7. FlattenSeq(g) = FlattenSeq(f) \o <<x>>
  BY <1>5, <1>6
<1> QED BY <1>7 DEF f, g, more, EventsIn, Parts

\* Any number of events more.
LEMMA EventsOfConcat ==
  ASSUME NEW ls \in Seq(AnyLine), NEW new, IsEvents(new)
  PROVE  EventsIn(ls \o new) = EventsIn(ls) \o new
<1>0. new \in Seq(AnyLine) /\ Len(new) \in Nat /\ \A i \in 1..Len(new) : new[i] \in AnyLine /\ IsEvent(new[i])
  BY LenProperties, EventsAreLines
<1>e. EventsIn(ls) \in Seq(AnyLine)
  BY EventsType
<1> DEFINE Upto(n) == SubSeq(new, 1, n)
<1> DEFINE S == {n \in Nat : n <= Len(new) =>
                               EventsIn(ls \o Upto(n)) = EventsIn(ls) \o Upto(n)}
<1>1. 0 \in S
  <2>1. Upto(0) = <<>>
    BY SubSeqEmpty
  <2> QED BY <2>1, <1>e, ConcatEmptySeq
<1>2. ASSUME NEW n \in Nat, n \in S PROVE n + 1 \in S
  <2> SUFFICES ASSUME n + 1 <= Len(new)
               PROVE  EventsIn(ls \o Upto(n + 1)) = EventsIn(ls) \o Upto(n + 1)
    OBVIOUS
  <2> DEFINE u == Upto(n)
  <2> DEFINE x == new[n + 1]
  <2>1. n + 1 \in 1..Len(new) /\ n + 1 \in Nat /\ (n + 1) - 1 = n /\ n \in Int /\ 1 \in 1..Len(new)
    BY <1>0
  <2>2. x \in AnyLine /\ IsEvent(x) /\ <<x>> \in Seq(AnyLine)
    BY <1>0, <2>1
  <2>3. u \in Seq(AnyLine)
    <3>1. \A i \in 1..n : new[i] \in AnyLine
      BY <1>0, <2>1
    <3> QED BY <3>1, SubSeqProperties
  <2>4. Upto(n + 1) = u \o <<x>>
    <3>1. SubSeq(new, 1, n + 1) = SubSeq(new, 1, (n + 1) - 1) \o <<new[n + 1]>>
      BY <1>0, <2>1, SubSeqRecursiveSecond
    <3> QED BY <2>1, <3>1
  <2>5. EventsIn(ls \o u) = EventsIn(ls) \o u
    BY <1>2, <2>1
  <2> HIDE DEF u, x, Upto, S
  <2>6. ls \o u \in Seq(AnyLine)
    BY <2>3, ConcatProperties
  <2>7. ls \o (u \o <<x>>) = Append(ls \o u, x)
    <3>1. Append(ls \o u, x) = (ls \o u) \o <<x>>
      BY <2>2, <2>6, AppendIsConcat
    <3>2. (ls \o u) \o <<x>> = ls \o (u \o <<x>>)
      BY <2>2, <2>3, ConcatAssociative
    <3> QED BY <3>1, <3>2
  <2>8. EventsIn(Append(ls \o u, x)) = EventsIn(ls \o u) \o <<x>>
    BY <2>2, <2>6, EventsGrow
  <2>9. (EventsIn(ls) \o u) \o <<x>> = EventsIn(ls) \o (u \o <<x>>)
    BY <1>e, <2>2, <2>3, ConcatAssociative
  <2> QED BY <2>4, <2>5, <2>7, <2>8, <2>9
<1>3. \A n \in Nat : n \in S
  <2> HIDE DEF S
  <2> QED BY <1>1, <1>2, Sequence!Induction
<1>4. EventsIn(ls \o Upto(Len(new))) = EventsIn(ls) \o Upto(Len(new))
  BY <1>0, <1>3
<1>5. Upto(Len(new)) = new
  BY <1>0, SubSeqFull
<1> QED BY <1>4, <1>5

-----------------------------------------------------------------------------
(* The event log and its view. *)

\* What the view hears of new lines.
Heard(new) == IF recording THEN new ELSE <<>>

LEMMA FirstIs ==
  ASSUME LogInv, NEW ls \in Seq(AnyLine), Len(lines) <= Len(ls)
  PROVE  First(ls) = (IF logRetained THEN logRead ELSE 0) /\ First(ls) \in 0..Len(lines)
<1>1. Len(lines) \in Nat /\ Len(ls) \in Nat /\ logRead \in Nat
  BY LenProperties DEF LogInv, LogTyped
<1> QED BY <1>1 DEF LogInv, First, Lesser

LEMMA DrainedType ==
  ASSUME LogInv, NEW ls \in Seq(AnyLine), Len(lines) <= Len(ls)
  PROVE  Drained(ls) \in Seq(AnyLine)
<1>1. First(ls) \in 0..Len(ls)
  <2>1. Len(lines) \in Nat /\ Len(ls) \in Nat
    BY LenProperties DEF LogInv, LogTyped
  <2> QED BY <2>1, FirstIs
<1>2. Rest(ls, First(ls)) \in Seq(AnyLine)
  BY <1>1, RestIs
<1>3. EventsIn(Rest(ls, First(ls))) \in Seq(AnyLine)
  BY <1>2, EventsType
<1> QED BY <1>3, EmptySeq DEF Drained, Rest

\* New lines are unread until the view reads them, and then read once.
LEMMA DrainedLogged ==
  ASSUME LogInv, NEW new, IsEvents(new)
  PROVE  /\ Logged(new) \in Seq(AnyLine) /\ Len(lines) <= Len(Logged(new))
         /\ Drained(Logged(new)) = Drained(lines) \o Heard(new)
         /\ Heard(new) \in Seq(AnyLine)
<1>1. lines \in Seq(AnyLine) /\ new \in Seq(AnyLine) /\ Len(lines) \in Nat /\ Len(new) \in Nat
  BY LenProperties, EventsAreLines DEF LogInv, LogTyped
<1> DEFINE more == lines \o new
<1>2. more \in Seq(AnyLine) /\ Len(more) = Len(lines) + Len(new)
  BY <1>1, ConcatProperties
<1>3. Logged(new) = IF enabled THEN more ELSE lines
  BY DEF Logged
<1>4. Heard(new) \in Seq(AnyLine)
  BY <1>1, EmptySeq DEF Heard
<1> HIDE DEF more
<1>5. Drained(Logged(new)) = Drained(lines) \o Heard(new)
  <2>1. CASE recording
    <3>1. enabled
      BY <2>1 DEF LogInv, ViewIsStory
    <3> DEFINE n == First(lines)
    <3>2. First(more) = n /\ n \in 0..Len(lines)
      <4>1. Len(lines) <= Len(more) /\ Len(lines) <= Len(lines)
        BY <1>1, <1>2
      <4> QED BY <1>1, <1>2, <4>1, FirstIs
    <3> HIDE DEF n
    <3>3. Rest(more, n) = Rest(lines, n) \o new
      BY <1>1, <3>2, RestOfConcat DEF more
    <3>4. Rest(lines, n) \in Seq(AnyLine)
      BY <1>1, <3>2, RestIs
    <3>5. EventsIn(Rest(lines, n) \o new) = EventsIn(Rest(lines, n)) \o new
      BY <3>4, EventsOfConcat
    <3>6. Drained(more) = EventsIn(Rest(more, n)) /\ Drained(lines) = EventsIn(Rest(lines, n))
      BY <2>1, <3>2 DEF Drained, Rest, n
    <3> QED BY <1>3, <2>1, <3>1, <3>3, <3>5, <3>6 DEF Heard
  <2>2. CASE ~recording
    BY <2>2, EmptySeq, ConcatEmptySeq DEF Drained, Heard
  <2> QED BY <2>1, <2>2
<1> QED BY <1>1, <1>2, <1>3, <1>4, <1>5

\* Nothing is unread behind a drain.
LEMMA DrainedNothing ==
  ASSUME LogInv, NEW ls \in Seq(AnyLine), Len(lines) <= Len(ls), Drain(ls),
         recording' = recording, logRetained' = logRetained
  PROVE  /\ lines' \in Seq(AnyLine) /\ logRead' \in Nat
         /\ Drained(lines)' = <<>>
         /\ logRead' <= IF logRetained' THEN Len(lines') ELSE 0
         /\ logRetained => lines' = ls
<1>1. /\ Len(lines) \in Nat /\ Len(ls) \in Nat /\ logRead \in Nat
      /\ logRead <= IF logRetained THEN Len(lines) ELSE 0
  BY LenProperties DEF LogInv, LogTyped
<1>2. CASE ~recording
  BY <1>1, <1>2 DEF Drain, Drained
<1>3. CASE recording /\ logRetained
  <2>1. lines' = ls /\ logRead' = Len(ls)
    BY <1>3 DEF Drain
  <2>2. First(lines)' = Len(ls)
    BY <1>1, <1>3, <2>1 DEF First, Lesser
  <2>3. Rest(lines', Len(lines')) = <<>>
    BY <2>1, RestNone
  <2>4. Drained(lines)' = EventsIn(Rest(lines', Len(lines')))
    BY <1>3, <2>1, <2>2 DEF Drained, Rest
  <2> QED BY <1>1, <1>3, <2>1, <2>3, <2>4, EventsOfNone
<1>4. CASE recording /\ ~logRetained
  <2>1. lines' = Cleared /\ logRead' = logRead
    BY <1>4 DEF Drain
  <2>2. First(lines)' = 0
    BY <1>4 DEF First
  <2>3. Rest(Cleared, 0) = Cleared
    BY EventsOfCleared, RestAll
  <2>4. Drained(lines)' = EventsIn(Rest(Cleared, 0))
    BY <1>4, <2>1, <2>2 DEF Drained, Rest
  <2> QED BY <1>1, <1>4, <2>1, <2>3, <2>4, EventsOfCleared
<1> QED BY <1>2, <1>3, <1>4

\* Rows are the end of the story, however many a batch pushes out.
LEMMA RowsKept ==
  ASSUME events \in Seq(AnyLine), trimmed \in Nat, recorded \in Nat,
         NEW batch \in Seq(AnyLine), NEW tail \in Seq(AnyLine), NEW st \in Seq(AnyLine),
         trimmed <= Len(st), trimmed + Len(events) <= recorded,
         (events \o batch) \o tail = Rest(st, trimmed),
         AppendRows(batch)
  PROVE  /\ events' \in Seq(AnyLine) /\ trimmed' \in Nat /\ recorded' \in Nat
         /\ trimmed' <= Len(st) /\ trimmed' + Len(events') <= recorded'
         /\ events' \o tail = Rest(st, trimmed')
<1> DEFINE n == Len(events)
<1> DEFINE m == Len(batch)
<1> DEFINE both == events \o batch
<1> DEFINE e == IF n + m > MaxRows THEN (n + m) - MaxRows ELSE 0
<1> DEFINE kept == Existing(e)
<1>0. n \in Nat /\ m \in Nat /\ Len(tail) \in Nat /\ Len(st) \in Nat
  BY LenProperties
<1>1. both \in Seq(AnyLine) /\ Len(both) = n + m
  BY ConcatProperties
<1>2. e \in Nat /\ e <= n + m /\ kept = IF e < n THEN e ELSE n
  BY <1>0, RowsAssumption DEF Existing, Lesser
<1>3. /\ events' = Rest(events, kept) \o Rest(batch, e - kept)
      /\ trimmed' = trimmed + e /\ recorded' = recorded + m
  BY DEF AppendRows, Rest
<1> HIDE DEF e, kept
<1>4. events' = Rest(both, e)
  <2>1. CASE e < n
    <3>1. kept = e /\ e - kept = 0 /\ e \in 0..n
      BY <1>0, <1>2, <2>1
    <3>2. Rest(batch, 0) = batch
      BY RestAll
    <3>3. Rest(both, e) = Rest(events, e) \o batch
      BY <3>1, RestOfConcat
    <3> QED BY <1>3, <3>1, <3>2, <3>3
  <2>2. CASE ~(e < n)
    <3>1. kept = n /\ n <= e
      BY <1>0, <1>2, <2>2
    <3>2. Rest(events, n) = <<>>
      BY RestNone
    <3>3. Rest(both, e) = Rest(batch, e - n)
      BY <1>2, <3>1, RestPast
    <3>4. Rest(batch, e - n) \in Seq(AnyLine)
      <4>1. e - n \in 0..m
        BY <1>0, <1>2, <3>1
      <4> QED BY <4>1, RestIs
    <3> QED BY <1>3, <3>1, <3>2, <3>3, <3>4, ConcatEmptySeq
  <2> QED BY <2>1, <2>2
<1> HIDE DEF both
<1>5. events' \in Seq(AnyLine) /\ Len(events') = n + m - e
  <2>1. e \in 0..Len(both)
    BY <1>0, <1>1, <1>2
  <2>2. Rest(both, e) \in Seq(AnyLine) /\ Len(Rest(both, e)) = Len(both) - e
    BY <1>1, <2>1, RestIs
  <2> QED BY <1>0, <1>1, <1>2, <1>4, <2>2
<1>6. trimmed + e <= Len(st)
  <2>1. Len(both \o tail) = n + m + Len(tail)
    BY <1>1, ConcatProperties
  <2>2. trimmed \in 0..Len(st)
    BY <1>0
  <2>3. Len(Rest(st, trimmed)) = Len(st) - trimmed
    BY <2>2, RestIs
  <2>4. both \o tail = Rest(st, trimmed)
    BY DEF both
  <2> QED BY <1>0, <1>2, <2>1, <2>3, <2>4
<1>7. events' \o tail = Rest(st, trimmed + e)
  <2>1. e \in 0..Len(both)
    BY <1>0, <1>1, <1>2
  <2>2. Rest(both \o tail, e) = Rest(both, e) \o tail
    BY <1>1, <2>1, RestOfConcat
  <2>3. both \o tail = Rest(st, trimmed)
    BY DEF both
  <2>4. Rest(Rest(st, trimmed), e) = Rest(st, trimmed + e)
    BY <1>2, <1>6, RestOfRest
  <2> QED BY <1>4, <2>2, <2>3, <2>4
<1>8. trimmed' \in Nat /\ recorded' \in Nat /\ trimmed' <= Len(st)
  BY <1>0, <1>2, <1>3, <1>6
<1>9. trimmed' + Len(events') <= recorded'
  BY <1>0, <1>2, <1>3, <1>5
<1> QED BY <1>3, <1>5, <1>7, <1>8, <1>9

LEMMA LineIs ==
  ASSUME NEW c \in Nat, NEW what \in {"started", "stopped", "in", "out"}
  PROVE  Line(c, what) \in AnyLine /\ IsEvents(<<Line(c, what)>>) /\ IsEvents(<<>>)
<1>1. Line(c, what) \in {line \in AnyLine : IsEvent(line)}
  BY DEF Line, AnyLine, IsEvent
<1> QED BY <1>1, EmptySeq DEF IsEvents

\* The parts of LogInv that a step has to give again.
LEMMA LogInvIs ==
  LogInv <=>
    /\ LogTyped
    /\ recording => logWasEnabled = wanted
    /\ logRead <= IF logRetained THEN Len(lines) ELSE 0
    /\ ~publishing => pending = <<>>
    /\ trimmed <= Len(story) /\ trimmed + Len(events) <= recorded
    /\ (events \o pending) \o Drained(lines) = Rest(story, trimmed)
    /\ enabled = (recording \/ wanted)
BY DEF LogInv, ViewIsStory, Rest

LEMMA RecordingStarts == ASSUME LogInv, StartRecording PROVE LogInv'
<1> DEFINE x == Line(now, "started")
<1>1. /\ LogTyped /\ x \in AnyLine /\ <<x>> \in Seq(AnyLine) /\ ~recording /\ pending = <<>>
      /\ publishing' = publishing /\ pending' = pending /\ wanted' = wanted
      /\ <<>> \in Seq(AnyLine)
  <2>1. now \in Nat /\ LogTyped
    BY DEF LogInv, LogTyped
  <2>2. x \in AnyLine
    BY <2>1, LineIs
  <2>3. <<x>> \in Seq(AnyLine) /\ <<>> \in Seq(AnyLine)
    <3> HIDE DEF x
    <3> QED BY <2>2
  <2>4. UNCHANGED <<publishing, pending, wanted>> /\ ~publishing
    BY DEF StartRecording, CanAccessBoard, publication
  <2> QED BY <2>1, <2>2, <2>3, <2>4 DEF LogInv, StartRecording
<1>2. story' = Append(story, x) /\ story \o <<x>> = Append(story, x) /\ story' \in Seq(AnyLine)
      /\ Len(story') = Len(story) + 1 /\ Len(story) \in Nat
  BY <1>1, AppendIsConcat, AppendProperties, LenProperties DEF StartRecording, LogTyped
<1>3. Drained(lines) = <<>>
  BY <1>1 DEF Drained
<1>4. events \in Seq(AnyLine) /\ trimmed \in Nat /\ recorded \in Nat /\ AppendRows(<<x>>)
      /\ trimmed <= Len(story) /\ trimmed + Len(events) <= recorded
  BY DEF LogInv, LogTyped, ViewIsStory, StartRecording
<1>5. events = Rest(story, trimmed)
  BY <1>1, <1>3, <1>4, ConcatEmptySeq, LogInvIs
<1>6. (events \o <<x>>) \o <<>> = Rest(story', trimmed)
  <2>1. trimmed \in 0..Len(story) /\ story \in Seq(AnyLine)
    BY <1>2, <1>4 DEF LogInv, LogTyped
  <2>2. Rest(story \o <<x>>, trimmed) = Rest(story, trimmed) \o <<x>>
    BY <1>1, <2>1, RestOfConcat
  <2>3. events \o <<x>> \in Seq(AnyLine)
    BY <1>1, <1>4, ConcatProperties
  <2> QED BY <1>2, <1>5, <2>2, <2>3, ConcatEmptySeq
<1>7. /\ events' \in Seq(AnyLine) /\ trimmed' \in Nat /\ recorded' \in Nat
      /\ trimmed' <= Len(story') /\ trimmed' + Len(events') <= recorded'
      /\ events' \o <<>> = Rest(story', trimmed')
  <2> HIDE DEF x
  <2>1. trimmed <= Len(story')
    BY <1>2, <1>4
  <2> QED BY <1>1, <1>2, <1>4, <1>6, <2>1, RowsKept
<1>8. Drained(lines)' = <<>> /\ lines' \in Seq(AnyLine) /\ logRead' \in Nat
      /\ logRead' <= IF logRetained' THEN Len(lines') ELSE 0
  <2>1. recording' = TRUE /\ logRetained' = logRetained
    BY DEF StartRecording
  <2>2. CASE logRetained
    <3>1. lines' = lines /\ logRead' = Len(lines) /\ Len(lines) \in Nat /\ lines \in Seq(AnyLine)
      BY <2>2, LenProperties DEF StartRecording, LogInv, LogTyped
    <3>2. First(lines)' = Len(lines)
      BY <2>1, <2>2, <3>1 DEF First, Lesser
    <3>3. Drained(lines)' = EventsIn(Rest(lines, Len(lines)))
      BY <2>1, <3>1, <3>2 DEF Drained, Rest
    <3> QED BY <2>1, <2>2, <3>1, <3>3, RestNone, EventsOfNone
  <2>3. CASE ~logRetained
    <3>1. lines' = Cleared /\ logRead' = logRead /\ logRead \in Nat /\ logRead <= 0
      BY <2>3 DEF StartRecording, LogInv, LogTyped
    <3>2. Drained(lines)' = EventsIn(Rest(Cleared, 0))
      BY <2>1, <2>3, <3>1 DEF Drained, Rest, First
    <3> QED BY <2>1, <2>3, <3>1, <3>2, EventsOfCleared, RestAll
  <2> QED BY <2>2, <2>3
<1>9. LogTyped'
  BY <1>1, <1>2, <1>7, <1>8 DEF LogInv, LogTyped, StartRecording
<1>10. (recording => logWasEnabled = wanted)' /\ (enabled = (recording \/ wanted))'
  BY <1>1 DEF LogInv, LogTyped, ViewIsStory, StartRecording
<1>11. ((events \o pending) \o Drained(lines))' = Rest(story, trimmed)'
  <2>1. events' \o <<>> = events'
    BY <1>7, ConcatEmptySeq
  <2>2. (events' \o pending') \o Drained(lines)' = events'
    BY <1>1, <1>8, <2>1
  <2> QED BY <1>7, <2>1, <2>2 DEF Rest
<1> QED BY <1>1, <1>7, <1>8, <1>9, <1>10, <1>11 DEF LogInv, ViewIsStory, Rest

LEMMA RecordingStops == ASSUME LogInv, StopRecording PROVE LogInv' /\ (logRetained => lines' = lines)
<1> DEFINE x == Line(now, "stopped")
<1> DEFINE d == Drained(lines)
<1>1. /\ LogTyped /\ x \in AnyLine /\ <<x>> \in Seq(AnyLine) /\ recording /\ pending = <<>>
      /\ publishing' = publishing /\ pending' = pending /\ wanted' = wanted
      /\ <<>> \in Seq(AnyLine) /\ recording' = FALSE /\ logRetained' = logRetained
  <2>1. now \in Nat /\ LogTyped
    BY DEF LogInv, LogTyped
  <2>2. x \in AnyLine
    BY <2>1, LineIs
  <2>3. <<x>> \in Seq(AnyLine) /\ <<>> \in Seq(AnyLine)
    <3> HIDE DEF x
    <3> QED BY <2>2
  <2>4. UNCHANGED <<publishing, pending, wanted>> /\ ~publishing
    BY DEF StopRecording, CanAccessBoard, publication
  <2> QED BY <2>1, <2>2, <2>3, <2>4 DEF LogInv, StopRecording
<1>2. story' = Append(story, x) /\ story \o <<x>> = Append(story, x) /\ story' \in Seq(AnyLine)
      /\ Len(story') = Len(story) + 1 /\ Len(story) \in Nat
  BY <1>1, AppendIsConcat, AppendProperties, LenProperties DEF StopRecording, LogTyped
<1>3. d \in Seq(AnyLine) /\ Append(d, x) = d \o <<x>>
  <2>1. lines \in Seq(AnyLine) /\ Len(lines) <= Len(lines)
    BY LenProperties DEF LogInv, LogTyped
  <2>2. d \in Seq(AnyLine)
    BY <2>1, DrainedType
  <2> HIDE DEF d, x
  <2> QED BY <1>1, <2>2, AppendIsConcat
<1>4. /\ events \in Seq(AnyLine) /\ trimmed \in Nat /\ recorded \in Nat /\ AppendRows(Append(d, x))
      /\ trimmed <= Len(story) /\ trimmed + Len(events) <= recorded
  BY DEF LogInv, LogTyped, ViewIsStory, StopRecording
<1>5. events \o d = Rest(story, trimmed)
  BY <1>1, <1>4, ConcatEmptySeq, LogInvIs
<1> HIDE DEF d, x
<1>6. (events \o (d \o <<x>>)) \o <<>> = Rest(story', trimmed)
  <2>1. trimmed \in 0..Len(story) /\ story \in Seq(AnyLine)
    BY <1>2, <1>4 DEF LogInv, LogTyped
  <2>2. Rest(story \o <<x>>, trimmed) = Rest(story, trimmed) \o <<x>>
    BY <1>1, <2>1, RestOfConcat
  <2>3. (events \o d) \o <<x>> = events \o (d \o <<x>>)
    <3>1. events \in Seq(AnyLine) /\ d \in Seq(AnyLine) /\ <<x>> \in Seq(AnyLine)
      BY <1>1, <1>3, <1>4
    <3> QED BY ONLY <3>1, ConcatAssociative
  <2>4. events \o (d \o <<x>>) \in Seq(AnyLine)
    BY <1>1, <1>3, <1>4, ConcatProperties
  <2> QED BY <1>2, <1>5, <2>2, <2>3, <2>4, ConcatEmptySeq
<1>7. /\ events' \in Seq(AnyLine) /\ trimmed' \in Nat /\ recorded' \in Nat
      /\ trimmed' <= Len(story') /\ trimmed' + Len(events') <= recorded'
      /\ events' \o <<>> = Rest(story', trimmed')
  <2>1. trimmed <= Len(story')
    BY <1>2, <1>4
  <2>2. d \o <<x>> \in Seq(AnyLine)
    BY <1>1, <1>3, ConcatProperties
  <2>3. AppendRows(d \o <<x>>)
    BY <1>3, <1>4
  <2> DEFINE batch == d \o <<x>>
  <2> HIDE DEF batch
  <2>4. batch \in Seq(AnyLine) /\ AppendRows(batch) /\ (events \o batch) \o <<>> = Rest(story', trimmed)
    BY <1>6, <2>2, <2>3 DEF batch
  <2> QED BY <1>1, <1>2, <1>4, <2>1, <2>4, RowsKept
<1>8. /\ lines' \in Seq(AnyLine) /\ logRead' \in Nat
      /\ logRead' <= IF logRetained' THEN Len(lines') ELSE 0
      /\ logRetained => lines' = lines
  <2>1. Drain(lines)
    BY DEF StopRecording
  <2>2. lines \in Seq(AnyLine) /\ Len(lines) \in Nat
    BY <1>1, LenProperties DEF LogTyped
  <2>3. logRead \in Nat /\ logRead <= IF logRetained THEN Len(lines) ELSE 0
    BY <1>1 DEF LogInv, LogTyped
  <2> QED BY <1>1, <2>1, <2>2, <2>3, EventsOfCleared DEF Drain
<1>9. Drained(lines)' = <<>>
  BY <1>1 DEF Drained
<1>10. LogTyped'
  BY <1>1, <1>2, <1>7, <1>8 DEF LogTyped, StopRecording
<1>11. (recording => logWasEnabled = wanted)' /\ (enabled = (recording \/ wanted))'
  BY <1>1 DEF LogInv, LogTyped, ViewIsStory, StopRecording
<1>12. ((events \o pending) \o Drained(lines))' = Rest(story, trimmed)'
  <2>1. events' \o <<>> = events'
    BY <1>7, ConcatEmptySeq
  <2>2. (events' \o pending') \o Drained(lines)' = events'
    BY <1>1, <1>9, <2>1
  <2> QED BY <1>7, <2>1, <2>2 DEF Rest
<1> QED BY <1>1, <1>7, <1>8, <1>9, <1>10, <1>11, <1>12 DEF LogInv, ViewIsStory, Rest

LEMMA LogCleared == ASSUME LogInv, ClearEventLog PROVE LogInv' /\ (logRetained => lines' = lines)
<1>1. LogTyped /\ lines \in Seq(AnyLine) /\ Len(lines) <= Len(lines) /\ pending = <<>>
  BY LenProperties DEF LogInv, LogTyped, ClearEventLog, CanAccessBoard
<1>2. /\ Drain(lines) /\ recording' = recording /\ logRetained' = logRetained
      /\ events' = <<>> /\ trimmed' = 0 /\ story' = <<>> /\ recorded' = recorded
      /\ enabled' = enabled /\ wanted' = wanted /\ logWasEnabled' = logWasEnabled
      /\ happened' = happened /\ now' = now /\ pending' = pending /\ publishing' = publishing
  BY DEF ClearEventLog, publication
<1>3. /\ lines' \in Seq(AnyLine) /\ logRead' \in Nat /\ Drained(lines)' = <<>>
      /\ logRead' <= IF logRetained' THEN Len(lines') ELSE 0
      /\ logRetained => lines' = lines
  BY <1>1, <1>2, DrainedNothing
<1>4. /\ <<>> \in Seq(AnyLine) /\ Len(<<>>) = 0 /\ <<>> \o <<>> = <<>>
      /\ Rest(<<>>, 0) = <<>>
  <2>1. <<>> \in Seq(AnyLine) /\ Len(<<>>) = 0
    BY EmptySeq
  <2> QED BY <2>1, RestAll, ConcatEmptySeq
<1>5. LogTyped'
  BY <1>1, <1>2, <1>3, <1>4 DEF LogTyped
<1>6. (events' \o pending') \o Drained(lines)' = Rest(story', trimmed')
  BY <1>1, <1>2, <1>3, <1>4
<1>7. recorded \in Nat /\ trimmed' + Len(events') <= recorded' /\ trimmed' <= Len(story')
  BY <1>1, <1>2, <1>4 DEF LogTyped
<1>8. (recording' => logWasEnabled' = wanted') /\ enabled' = (recording' \/ wanted')
  BY <1>2 DEF LogInv, ViewIsStory
<1> QED BY <1>1, <1>2, <1>3, <1>5, <1>6, <1>7, <1>8 DEF LogInv, ViewIsStory, Rest

\* The story goes on with what the view hears.
LEMMA StoryGrows ==
  ASSUME LogInv, NEW new, IsEvents(new), Remember(new)
  PROVE  /\ story' = story \o Heard(new) /\ story' \in Seq(AnyLine) /\ happened' \in Seq(AnyLine)
         /\ Len(story) <= Len(story')
         /\ Rest(story', trimmed) = Rest(story, trimmed) \o Heard(new)
<1>1. story \in Seq(AnyLine) /\ happened \in Seq(AnyLine) /\ trimmed \in Nat /\ trimmed <= Len(story)
  BY DEF LogInv, LogTyped
<1>2. new \in Seq(AnyLine) /\ Heard(new) \in Seq(AnyLine)
  BY EventsAreLines, EmptySeq DEF Heard
<1>3. story' = story \o Heard(new)
  BY <1>1, ConcatEmptySeq DEF Remember, Heard
<1>4. story' \in Seq(AnyLine) /\ Len(story') = Len(story) + Len(Heard(new))
  BY <1>1, <1>2, <1>3, ConcatProperties
<1>5. happened' \in Seq(AnyLine)
  BY <1>1, <1>2, ConcatProperties DEF Remember
<1>6. Len(story) \in Nat /\ Len(Heard(new)) \in Nat
  BY <1>1, <1>2, LenProperties
<1>7. trimmed \in 0..Len(story)
  BY <1>1, <1>6
<1>8. Rest(story \o Heard(new), trimmed) = Rest(story, trimmed) \o Heard(new)
  BY <1>1, <1>2, <1>7, RestOfConcat
<1> QED BY <1>3, <1>4, <1>5, <1>6, <1>8

LEMMA NothingNew ==
  ASSUME LogInv, UNCHANGED <<happened, story>>
  PROVE  Logged(<<>>) = lines /\ Remember(<<>>) /\ IsEvents(<<>>)
<1>1. lines \in Seq(AnyLine) /\ happened \in Seq(AnyLine) /\ story \in Seq(AnyLine)
  BY DEF LogInv, LogTyped
<1> QED BY <1>1, ConcatEmptySeq, EmptySeq DEF Logged, Remember, IsEvents

\* A publication stages all that was unread, with the lines it has just caused.
LEMMA LogStaged ==
  ASSUME LogInv, NEW new, IsEvents(new), StageLog(Logged(new)), Remember(new),
         enabled' = enabled, now' \in Nat
  PROVE  LogInv' /\ (logRetained => lines' = Logged(new))
<1> DEFINE ls == Logged(new)
<1> DEFINE d == Drained(lines)
<1> DEFINE h == Heard(new)
<1>1. /\ LogTyped /\ ls \in Seq(AnyLine) /\ Len(lines) <= Len(ls) /\ Drained(ls) = d \o h
      /\ h \in Seq(AnyLine) /\ pending = <<>>
  BY DrainedLogged DEF LogInv, StageLog, CanAccessBoard
<1>2. d \in Seq(AnyLine)
  <2>1. lines \in Seq(AnyLine) /\ Len(lines) <= Len(lines)
    BY <1>1, LenProperties DEF LogTyped
  <2> QED BY <2>1, DrainedType
<1>3. /\ publishing' = TRUE /\ pending' = Drained(ls) /\ Drain(ls)
      /\ recording' = recording /\ events' = events /\ trimmed' = trimmed /\ recorded' = recorded
      /\ logRetained' = logRetained /\ logWasEnabled' = logWasEnabled /\ wanted' = wanted
  BY DEF StageLog, view
<1> HIDE DEF ls, d, h
<1>4. /\ lines' \in Seq(AnyLine) /\ logRead' \in Nat /\ Drained(lines)' = <<>>
      /\ logRead' <= IF logRetained' THEN Len(lines') ELSE 0
      /\ logRetained => lines' = ls
  BY <1>1, <1>3, DrainedNothing
<1>5. /\ story' \in Seq(AnyLine) /\ happened' \in Seq(AnyLine) /\ Len(story) <= Len(story')
      /\ Rest(story', trimmed) = Rest(story, trimmed) \o h
  BY StoryGrows DEF h
<1>6. events \in Seq(AnyLine) /\ pending' \in Seq(AnyLine) /\ pending' = d \o h
  BY <1>1, <1>2, <1>3, ConcatProperties DEF LogTyped
<1>7. LogTyped'
  BY <1>1, <1>3, <1>4, <1>5, <1>6 DEF LogTyped
<1>8. (events' \o pending') \o Drained(lines)' = Rest(story', trimmed')
  <2>1. (events \o pending) \o d = Rest(story, trimmed)
    BY LogInvIs DEF d
  <2>2. events \o d = Rest(story, trimmed)
    BY <1>1, <1>6, <2>1, ConcatEmptySeq
  <2>3. (events \o d) \o h = events \o (d \o h)
    <3>1. events \in Seq(AnyLine) /\ d \in Seq(AnyLine) /\ h \in Seq(AnyLine)
      BY <1>1, <1>2, <1>6
    <3> QED BY ONLY <3>1, ConcatAssociative
  <2>4. events \o (d \o h) \in Seq(AnyLine)
    BY <1>6, ConcatProperties
  <2>5. (events \o (d \o h)) \o <<>> = events \o (d \o h)
    BY <2>4, ConcatEmptySeq
  <2> QED BY <1>3, <1>4, <1>5, <1>6, <2>2, <2>3, <2>5
<1>9. trimmed' <= Len(story') /\ trimmed' + Len(events') <= recorded'
  <2>1. Len(story) \in Nat /\ Len(story') \in Nat /\ trimmed \in Nat
    BY <1>1, <1>5, LenProperties DEF LogTyped
  <2>2. trimmed <= Len(story) /\ trimmed + Len(events) <= recorded
    BY DEF LogInv, ViewIsStory
  <2> QED BY <1>3, <1>5, <2>1, <2>2
<1>10. (recording' => logWasEnabled' = wanted') /\ enabled' = (recording' \/ wanted')
  BY <1>3 DEF LogInv, ViewIsStory
<1> QED BY <1>3, <1>4, <1>7, <1>8, <1>9, <1>10 DEF LogInv, ViewIsStory, Rest, ls

\* Time passes and nobody looks.
LEMMA LogTicks ==
  ASSUME LogInv, NEW new, IsEvents(new), lines' = Logged(new), Remember(new), now' \in Nat,
         UNCHANGED <<enabled, view, reader, publication, wanted>>
  PROVE  LogInv'
<1> DEFINE ls == Logged(new)
<1> DEFINE d == Drained(lines)
<1> DEFINE h == Heard(new)
<1>1. /\ LogTyped /\ ls \in Seq(AnyLine) /\ Len(lines) <= Len(ls) /\ Drained(ls) = d \o h
      /\ h \in Seq(AnyLine)
  BY DrainedLogged DEF LogInv
<1>2. d \in Seq(AnyLine)
  <2>1. lines \in Seq(AnyLine) /\ Len(lines) <= Len(lines)
    BY <1>1, LenProperties DEF LogTyped
  <2> QED BY <2>1, DrainedType
<1>3. /\ lines' = ls /\ logRead' = logRead /\ publishing' = publishing /\ pending' = pending
      /\ recording' = recording /\ events' = events /\ trimmed' = trimmed /\ recorded' = recorded
      /\ logRetained' = logRetained /\ logWasEnabled' = logWasEnabled /\ wanted' = wanted
      /\ enabled' = enabled
  BY DEF view, reader, publication
<1>4. Drained(lines)' = Drained(ls)
  <2>1. First(lines)' = First(ls)
    BY <1>3 DEF First
  <2> HIDE DEF ls
  <2> QED BY <1>3, <2>1 DEF Drained
<1> HIDE DEF ls, d, h
<1>5. /\ story' \in Seq(AnyLine) /\ happened' \in Seq(AnyLine) /\ Len(story) <= Len(story')
      /\ Rest(story', trimmed) = Rest(story, trimmed) \o h
  BY StoryGrows DEF h
<1>6. events \o pending \in Seq(AnyLine)
  BY <1>1, ConcatProperties DEF LogTyped
<1>7. LogTyped'
  BY <1>1, <1>3, <1>5 DEF LogTyped
<1>8. (events' \o pending') \o Drained(lines)' = Rest(story', trimmed')
  <2>1. (events \o pending) \o d = Rest(story, trimmed)
    BY LogInvIs DEF d
  <2> DEFINE s == events \o pending
  <2>2. (s \o d) \o h = s \o (d \o h)
    <3>1. s \in Seq(AnyLine) /\ d \in Seq(AnyLine) /\ h \in Seq(AnyLine)
      BY <1>1, <1>2, <1>6
    <3> HIDE DEF s
    <3> QED BY ONLY <3>1, ConcatAssociative
  <2> QED BY <1>1, <1>3, <1>4, <1>5, <2>1, <2>2
<1>9. trimmed' <= Len(story') /\ trimmed' + Len(events') <= recorded'
  <2>1. Len(story) \in Nat /\ Len(story') \in Nat /\ trimmed \in Nat
    BY <1>1, <1>5, LenProperties DEF LogTyped
  <2>2. trimmed <= Len(story) /\ trimmed + Len(events) <= recorded
    BY DEF LogInv, ViewIsStory
  <2> QED BY <1>3, <1>5, <2>1, <2>2
<1>10. (recording' => logWasEnabled' = wanted') /\ enabled' = (recording' \/ wanted')
  BY <1>3 DEF LogInv, ViewIsStory
<1>11. (~publishing' => pending' = <<>>) /\ logRead' <= IF logRetained' THEN Len(lines') ELSE 0
  <2>1. Len(lines) \in Nat /\ Len(ls) \in Nat /\ logRead \in Nat
    BY <1>1, LenProperties DEF LogTyped
  <2> QED BY <1>1, <1>3, <2>1 DEF LogInv
<1> QED BY <1>7, <1>8, <1>9, <1>10, <1>11 DEF LogInv, ViewIsStory, Rest

\* The staged batch reaches the view.
LEMMA LogInserted ==
  ASSUME LogInv, InsertRows
  PROVE  LogInv'
<1> DEFINE d == Drained(lines)
<1>1. LogTyped /\ d \in Seq(AnyLine)
  <2>1. LogTyped /\ lines \in Seq(AnyLine) /\ Len(lines) <= Len(lines)
    BY LenProperties DEF LogInv, LogTyped
  <2> QED BY <2>1, DrainedType
<1>2. /\ publishing' = FALSE /\ pending' = <<>> /\ lines' = lines /\ logRead' = logRead
      /\ now' = now /\ enabled' = enabled /\ recording' = recording
      /\ logRetained' = logRetained /\ logWasEnabled' = logWasEnabled /\ wanted' = wanted
      /\ happened' = happened /\ story' = story
  BY DEF InsertRows, boardLog, reader
<1>3. AppendRows(pending)
  BY DEF InsertRows
<1>4. Drained(lines)' = d
  BY <1>2 DEF Drained, First
<1> HIDE DEF d
<1>5. /\ events \in Seq(AnyLine) /\ pending \in Seq(AnyLine) /\ story \in Seq(AnyLine)
      /\ trimmed \in Nat /\ recorded \in Nat
      /\ trimmed <= Len(story) /\ trimmed + Len(events) <= recorded
      /\ (events \o pending) \o d = Rest(story, trimmed)
  BY <1>1, LogInvIs DEF LogTyped, d
<1>6. /\ events' \in Seq(AnyLine) /\ trimmed' \in Nat /\ recorded' \in Nat
      /\ trimmed' <= Len(story) /\ trimmed' + Len(events') <= recorded'
      /\ events' \o d = Rest(story, trimmed')
  BY <1>1, <1>3, <1>5, RowsKept
<1>7. LogTyped'
  BY <1>1, <1>2, <1>6, EmptySeq DEF LogTyped
<1>8. (events' \o pending') \o Drained(lines)' = Rest(story', trimmed')
  BY <1>2, <1>4, <1>6, ConcatEmptySeq
<1>9. /\ logRead' <= IF logRetained' THEN Len(lines') ELSE 0
      /\ (recording' => logWasEnabled' = wanted') /\ enabled' = (recording' \/ wanted')
  BY <1>2 DEF LogInv, ViewIsStory
<1> QED BY <1>2, <1>6, <1>7, <1>8, <1>9 DEF LogInv, ViewIsStory, Rest

\* The adapter is gone.
LEMMA LogReleased ==
  ASSUME LogInv, ReleaseLog
  PROVE  LogInv'
<1>1. LogTyped /\ lines \in Seq(AnyLine) /\ Len(lines) \in Nat /\ pending = <<>>
  BY LenProperties DEF LogInv, LogTyped, ReleaseLog
<1>2. /\ recording' = FALSE /\ events' = <<>> /\ trimmed' = 0 /\ recorded' = 0 /\ story' = <<>>
      /\ now' = now /\ logRead' = logRead /\ logRetained' = logRetained
      /\ logWasEnabled' = logWasEnabled /\ publishing' = publishing /\ pending' = pending
      /\ wanted' = wanted /\ happened' = happened
      /\ enabled' = IF recording THEN logWasEnabled ELSE enabled
      /\ lines' = IF recording /\ ~logRetained THEN Cleared ELSE lines
  BY DEF ReleaseLog, reader, publication
<1>3. Drained(lines)' = <<>>
  BY <1>2 DEF Drained
<1>4. /\ <<>> \in Seq(AnyLine) /\ Len(<<>>) = 0 /\ <<>> \o <<>> = <<>>
      /\ Rest(<<>>, 0) = <<>>
  <2>1. <<>> \in Seq(AnyLine) /\ Len(<<>>) = 0
    BY EmptySeq
  <2> QED BY <2>1, RestAll, ConcatEmptySeq
<1>5. /\ lines' \in Seq(AnyLine) /\ logRead' <= IF logRetained' THEN Len(lines') ELSE 0
  <2>1. logRead \in Nat /\ logRead <= IF logRetained THEN Len(lines) ELSE 0
    BY <1>1 DEF LogInv, LogTyped
  <2> QED BY <1>1, <1>2, <2>1, EventsOfCleared
<1>6. enabled' = (recording' \/ wanted')
  BY <1>1, <1>2 DEF LogInv, LogTyped, ViewIsStory
<1>7. LogTyped'
  BY <1>1, <1>2, <1>4, <1>5, <1>6 DEF LogTyped
<1>8. (events' \o pending') \o Drained(lines)' = Rest(story', trimmed')
  BY <1>1, <1>2, <1>3, <1>4
<1>9. trimmed' + Len(events') <= recorded' /\ trimmed' <= Len(story')
  BY <1>2, <1>4
<1> QED BY <1>1, <1>2, <1>5, <1>6, <1>7, <1>8, <1>9 DEF LogInv, ViewIsStory, Rest

-----------------------------------------------------------------------------
(* The inspector. *)

\* A sequence, whatever its elements are.
Listing(s, n) == n \in Nat /\ Len(s) = n /\ s = [i \in 1..n |-> s[i]]

LEMMA ListingIs == ASSUME NEW n \in Nat, NEW s, s = [i \in 1..n |-> s[i]] PROVE Listing(s, n)
<1>1. Sequence!Family(s, n)
  BY DEF Sequence!Family
<1>2. Len(s) = n
  BY <1>1, Sequence!FamilyLen
<1> QED BY <1>2 DEF Listing

LEMMA ListingIsSeq ==
  ASSUME NEW n, NEW s, Listing(s, n)
  PROVE  s \in Seq({s[i] : i \in 1..n}) /\ DOMAIN s = 1..n
<1> DEFINE T == {s[i] : i \in 1..n}
<1>1. n \in Nat /\ s = [i \in 1..n |-> s[i]] /\ \A i \in 1..n : s[i] \in T
  BY DEF Listing
<1> HIDE DEF T
<1>2. s \in [1..n -> T]
  BY <1>1
<1>3. s \in Seq(T)
  BY <1>1, <1>2, SeqDef
<1> QED BY <1>1, <1>3 DEF T

LEMMA RangeIs ==
  ASSUME NEW n, NEW s, Listing(s, n)
  PROVE  \A r : r \in Range(s) <=> \E i \in 1..n : r = s[i]
BY ListingIsSeq DEF Range

LEMMA RemoveAtIs ==
  ASSUME NEW n, NEW s, Listing(s, n), NEW k \in 1..n
  PROVE  /\ Listing(RemoveAt(s, k), n - 1)
         /\ \A i \in 1..n - 1 : RemoveAt(s, k)[i] = IF i < k THEN s[i] ELSE s[i + 1]
<1> DEFINE T == {s[i] : i \in 1..n}
<1> DEFINE a == SubSeq(s, 1, k - 1)
<1> DEFINE b == SubSeq(s, k + 1, n)
<1>1. n \in Nat /\ Len(s) = n /\ \A i \in 1..n : s[i] \in T
  BY DEF Listing
<1> HIDE DEF T
<1>2. a \in Seq(T) /\ Len(a) = k - 1 /\ \A i \in 1..k - 1 : a[i] = s[i]
  <2>1. 1 \in Int /\ k - 1 \in Int /\ \A i \in 1..k - 1 : s[i] \in T
    BY <1>1
  <2>2. /\ SubSeq(s, 1, k - 1) \in Seq(T)
        /\ Len(SubSeq(s, 1, k - 1)) = IF 1 <= k - 1 THEN (k - 1) - 1 + 1 ELSE 0
        /\ \A i \in 1..(k - 1) - 1 + 1 : SubSeq(s, 1, k - 1)[i] = s[1 + i - 1]
    BY <2>1, SubSeqProperties
  <2> QED BY <1>1, <2>2
<1>3. b \in Seq(T) /\ Len(b) = n - k /\ \A i \in 1..n - k : b[i] = s[k + i]
  <2>1. k + 1 \in Int /\ n \in Int /\ \A i \in k + 1..n : s[i] \in T
    BY <1>1
  <2>2. /\ SubSeq(s, k + 1, n) \in Seq(T)
        /\ Len(SubSeq(s, k + 1, n)) = IF k + 1 <= n THEN n - (k + 1) + 1 ELSE 0
        /\ \A i \in 1..n - (k + 1) + 1 : SubSeq(s, k + 1, n)[i] = s[(k + 1) + i - 1]
    BY <2>1, SubSeqProperties
  <2> QED BY <1>1, <2>2
<1>4. RemoveAt(s, k) = a \o b
  BY <1>1 DEF RemoveAt
<1> HIDE DEF a, b
<1> DEFINE c == a \o b
<1>5. /\ c \in Seq(T) /\ Len(c) = Len(a) + Len(b)
      /\ \A i \in 1..Len(a) + Len(b) : c[i] = IF i <= Len(a) THEN a[i] ELSE b[i - Len(a)]
  BY <1>2, <1>3, ConcatProperties
<1> HIDE DEF c
<1>6. n - 1 \in Nat /\ Len(c) = n - 1
  BY <1>1, <1>2, <1>3, <1>5
<1>7. c = [i \in 1..n - 1 |-> c[i]]
  <2>1. c \in [1..Len(c) -> T]
    BY <1>5, LenProperties
  <2> QED BY <1>6, <2>1
<1>8. ASSUME NEW i \in 1..n - 1 PROVE c[i] = IF i < k THEN s[i] ELSE s[i + 1]
  <2>1. i \in 1..Len(a) + Len(b)
    BY <1>1, <1>2, <1>3
  <2>2. CASE i < k
    <3>1. i <= Len(a) /\ i \in 1..k - 1
      BY <1>1, <1>2, <2>2
    <3> QED BY <1>2, <1>5, <2>1, <2>2, <3>1
  <2>3. CASE ~(i < k)
    <3>1. ~(i <= Len(a)) /\ i - Len(a) \in 1..n - k /\ k + (i - Len(a)) = i + 1
      BY <1>1, <1>2, <2>3
    <3>2. c[i] = b[i - Len(a)]
      BY <1>5, <2>1, <3>1
    <3>3. b[i - Len(a)] = s[k + (i - Len(a))]
      BY <1>3, <3>1
    <3> QED BY <2>3, <3>1, <3>2, <3>3
  <2> QED BY <2>2, <2>3
<1>9. Listing(c, n - 1)
  BY <1>6, <1>7 DEF Listing
<1> QED BY <1>4, <1>8, <1>9 DEF c

\* What InspectorInv says of rows and handles, whether they are in the views or
\* about to be staged.
Rows(rws, ids, n) ==
  /\ Listing(rws, n) /\ Listing(ids, n)
  /\ \A i \in 1..n : ids[i] = SignalOf(rws[i].name)
  /\ \A i, j \in 1..n : rws[i].name = rws[j].name => i = j

LEMMA InspectorInvIs ==
  InspectorInv <=>
    /\ Rows(rows, inspectorIds, Len(rows))
    /\ board \in BOOLEAN /\ haveSnapshot = board
    /\ haveSnapshot => \A i \in 1..Len(rows) :
         /\ rows[i].value = Value(SignalOf(rows[i].name), snapshotCycle, shown)
         /\ rows[i].changed <=> (rows[i].name \in DOMAIN before /\ before[rows[i].name] # rows[i].value)
<1>1. (RowsTyped /\ Parallel) <=> Rows(rows, inspectorIds, Len(rows))
  BY DEF RowsTyped, Parallel, Rows, Listing
<1>2. ASSUME Rows(rows, inspectorIds, Len(rows))
      PROVE  SnapshotOfOneCycle <=>
        (haveSnapshot => \A i \in 1..Len(rows) :
         /\ rows[i].value = Value(SignalOf(rows[i].name), snapshotCycle, shown)
         /\ rows[i].changed <=> (rows[i].name \in DOMAIN before /\ before[rows[i].name] # rows[i].value))
  <2>1. \A r : r \in Range(rows) <=> \E i \in 1..Len(rows) : r = rows[i]
    BY <1>2, RangeIs DEF Rows
  <2>2. Len(inspectorIds) = Len(rows)
    BY <1>2 DEF Rows, Listing
  <2> QED BY <2>1, <2>2 DEF SnapshotOfOneCycle
<1> QED BY <1>1, <1>2 DEF InspectorInv

\* The same of the next state.
LEMMA InspectorNext ==
  ASSUME Rows(rows', inspectorIds', Len(rows')), haveSnapshot' = board', board' \in BOOLEAN,
         haveSnapshot' => \A i \in 1..Len(rows') :
         /\ rows'[i].value = Value(SignalOf(rows'[i].name), snapshotCycle', shown')
         /\ rows'[i].changed <=> (rows'[i].name \in DOMAIN before' /\ before'[rows'[i].name] # rows'[i].value)
  PROVE  InspectorInv'
<1>1. RowsTyped' /\ Parallel'
  BY DEF RowsTyped, Parallel, Rows, Listing
<1>2. \A r : r \in Range(rows') <=> \E i \in 1..Len(rows') : r = rows'[i]
  BY RangeIs DEF Rows
<1>3. Len(inspectorIds') = Len(rows')
  BY DEF Rows, Listing
<1>4. SnapshotOfOneCycle'
  BY <1>2, <1>3 DEF SnapshotOfOneCycle
<1> QED BY <1>1, <1>4 DEF InspectorInv

\* A snapshot of these rows, at this cycle.
Snapped(rws, ids, c, on) ==
  /\ rows' = Staged(rws, [i \in DOMAIN ids |-> Value(ids[i], c, on)])
  /\ inspectorIds' = ids
  /\ haveSnapshot' /\ snapshotCycle' = c /\ shown' = on
  /\ before' = [n \in Listed(rows) |-> (CHOOSE r \in Range(rows) : r.name = n).value]

\* The rows are the view's, or new ones that show their signal.
LEMMA Snap ==
  ASSUME InspectorInv, haveSnapshot, haveSnapshot' = board', board' \in BOOLEAN, NEW rws, NEW ids, NEW n, NEW c, NEW on,
         Rows(rws, ids, n), Snapped(rws, ids, c, on),
         \A i \in 1..n : \/ \E j \in 1..Len(rows) : rws[i] = rows[j]
                         \/ /\ rws[i].name \notin Listed(rows)
                            /\ rws[i].value = Value(ids[i], c, on)
  PROVE  InspectorInv'
<1> DEFINE v == [i \in DOMAIN ids |-> Value(ids[i], c, on)]
<1> DEFINE marked(i) == haveSnapshot /\ rws[i].value # v[i]
<1>1. Listing(rws, n) /\ Listing(ids, n) /\ n \in Nat /\ Len(rws) = n
  BY DEF Rows, Listing
<1>2. DOMAIN rws = 1..n /\ DOMAIN ids = 1..n
  BY <1>1, ListingIsSeq
<1>3. Len(v) = n /\ \A i \in 1..n : v[i] = Value(SignalOf(rws[i].name), c, on)
  <2>1. v = [i \in 1..n |-> v[i]]
    BY <1>2
  <2>2. \A i \in 1..n : v[i] = Value(ids[i], c, on) /\ ids[i] = SignalOf(rws[i].name)
    BY <1>2 DEF Rows
  <2> HIDE DEF v
  <2>3. Listing(v, n)
    BY <1>1, <2>1, ListingIs
  <2> QED BY <2>2, <2>3 DEF Listing
<1> HIDE DEF v
<1>4. rows' = [i \in 1..n |-> [name |-> rws[i].name, value |-> v[i], changed |-> marked(i),
                               watch |-> rws[i].watch]]
  BY <1>1, <1>2, <1>3 DEF Snapped, Staged, v
<1>5. ASSUME NEW i \in 1..n
      PROVE  /\ rows'[i].name = rws[i].name /\ rows'[i].value = v[i]
             /\ rows'[i].changed = marked(i)
  <2> HIDE DEF marked
  <2> QED BY <1>4
<1>6. Listing(rows', n) /\ Len(rows') = n
  <2>1. rows' = [i \in 1..n |-> rows'[i]]
    <3> HIDE DEF marked
    <3> QED BY <1>4
  <2>2. Listing(rows', n)
    BY <1>1, <2>1, ListingIs
  <2> QED BY <2>2 DEF Listing
<1>7. Rows(rows', inspectorIds', Len(rows'))
  <2>1. inspectorIds' = ids
    BY DEF Snapped
  <2> QED BY <1>1, <1>5, <1>6, <2>1 DEF Rows
<1>8. ASSUME NEW i \in 1..n
      PROVE  rows'[i].changed <=> (rows'[i].name \in DOMAIN before' /\ before'[rows'[i].name] # rows'[i].value)
  <2> DEFINE name == rws[i].name
  <2>1. rows'[i].changed <=> rws[i].value # v[i]
    BY <1>5
  <2>2. DOMAIN before' = Listed(rows)
    BY DEF Snapped
  <2>3. CASE \E j \in 1..Len(rows) : rws[i] = rows[j]
    <3>1. PICK j \in 1..Len(rows) : rws[i] = rows[j]
      BY <2>3
    <3>2. Rows(rows, inspectorIds, Len(rows)) /\ Listing(rows, Len(rows))
      BY InspectorInvIs DEF Rows
    <3>3. DOMAIN rows = 1..Len(rows) /\ \A r : r \in Range(rows) <=> \E k \in 1..Len(rows) : r = rows[k]
      BY <3>2, ListingIsSeq, RangeIs
    <3>4. name \in Listed(rows)
      BY <3>1, <3>3 DEF Listed
    <3>5. \A r \in Range(rows) : r.name = name => r = rws[i]
      BY <3>1, <3>2, <3>3 DEF Rows
    <3>6. rws[i] \in Range(rows)
      BY <3>1, <3>3
    <3>7. (CHOOSE r \in Range(rows) : r.name = name) = rws[i]
      BY <3>5, <3>6
    <3>8. before'[name] = (CHOOSE r \in Range(rows) : r.name = name).value
      BY <3>4 DEF Snapped
    <3> QED BY <1>5, <2>1, <2>2, <3>4, <3>7, <3>8
  <2>4. CASE name \notin Listed(rows) /\ rws[i].value = Value(ids[i], c, on)
    <3>1. rws[i].value = v[i]
      BY <1>2, <2>4 DEF v
    <3> QED BY <1>5, <2>1, <2>2, <2>4, <3>1
  <2> QED BY <2>3, <2>4
<1>9. \A i \in 1..Len(rows') : rows'[i].value = Value(SignalOf(rows'[i].name), snapshotCycle', shown')
  BY <1>3, <1>5, <1>6 DEF Snapped
<1> QED BY <1>6, <1>7, <1>8, <1>9, InspectorNext

LEMMA InspectorSame == ASSUME InspectorInv, UNCHANGED <<board, snapshot>> PROVE InspectorInv'
BY DEF InspectorInv, RowsTyped, Parallel, SnapshotOfOneCycle, snapshot, inspector

LEMMA RowsNow ==
  ASSUME InspectorInv
  PROVE  /\ Rows(rows, inspectorIds, Len(rows)) /\ Len(rows) \in Nat
         /\ \A i \in 1..Len(rows) : \E j \in 1..Len(rows) : rows[i] = rows[j]
BY InspectorInvIs DEF Rows, Listing

Grown(t, s, n, x) ==
  Listing(t, n + 1) /\ t[n + 1] = x /\ \A i \in 1..n : t[i] = s[i]

LEMMA AppendListing ==
  ASSUME NEW n, NEW s, Listing(s, n), NEW x
  PROVE  Grown(Append(s, x), s, n, x)
<1> DEFINE T == {s[i] : i \in 1..n} \cup {x}
<1>1. n \in Nat /\ Len(s) = n /\ s = [i \in 1..n |-> s[i]] /\ x \in T /\ \A i \in 1..n : s[i] \in T
  BY DEF Listing
<1> HIDE DEF T
<1>2. s \in [1..n -> T]
  BY <1>1
<1>3. s \in Seq(T)
  BY <1>1, <1>2, SeqDef
<1> DEFINE t == Append(s, x)
<1>4. t \in Seq(T) /\ Len(t) = n + 1 /\ t[n + 1] = x /\ \A i \in 1..n : t[i] = s[i]
  BY <1>1, <1>3, AppendProperties
<1> HIDE DEF t
<1>5. t \in [1..n + 1 -> T]
  BY <1>4, LenProperties
<1>6. Listing(t, n + 1)
  BY <1>1, <1>4, <1>5 DEF Listing
<1>7. Grown(t, s, n, x)
  BY <1>4, <1>6 DEF Grown
<1> QED BY <1>7 DEF t

\* A publication keeps the inspector right, with or without a board.
LEMMA InspectorStaged ==
  ASSUME InspectorInv, board' = board, NEW ls, NEW on, NEW c, NEW rws, NEW ids, NEW n,
         Stage(ls, on, c, rws, ids), Rows(rws, ids, n), ~board => rws = rows /\ ids = inspectorIds,
         \A i \in 1..n : \/ \E j \in 1..Len(rows) : rws[i] = rows[j]
                         \/ /\ rws[i].name \notin Listed(rows)
                            /\ rws[i].value = Value(ids[i], c, on)
  PROVE  InspectorInv'
<1>1. board \in BOOLEAN /\ haveSnapshot = board /\ inspectorIds' = ids
  BY DEF InspectorInv, Stage
<1>2. CASE board
  <2>1. Snapped(rws, ids, c, on) /\ haveSnapshot' = board' /\ haveSnapshot /\ board' \in BOOLEAN
    BY <1>1, <1>2 DEF Stage, Snapped
  <2> QED BY <2>1, Snap
<1>3. CASE ~board
  <2>1. UNCHANGED <<board, snapshot>>
    BY <1>1, <1>3 DEF Stage, snapshot, inspector
  <2> QED BY <2>1, InspectorSame
<1> QED BY <1>1, <1>2, <1>3

\* addWatch(): the new row and its handle come together.
LEMMA WatchAdded ==
  ASSUME InspectorInv, NEW name, AddWatch(name)
  PROVE  InspectorInv'
<1> DEFINE n == Len(rows)
<1> DEFINE id == SignalOf(name)
<1> DEFINE row == Row(name, Value(id, now, switch), TRUE)
<1> DEFINE rws == Append(rows, row)
<1> DEFINE ids == Append(inspectorIds, id)
<1>1. /\ board /\ board' = board /\ name \notin Listed(rows)
      /\ Stage(lines, switch, now, rws, ids)
  BY DEF AddWatch
<1>2. /\ n \in Nat /\ Listing(rows, n) /\ Listing(inspectorIds, n)
      /\ \A i \in 1..n : inspectorIds[i] = SignalOf(rows[i].name)
      /\ \A i, j \in 1..n : rows[i].name = rows[j].name => i = j
  BY RowsNow DEF Rows
<1>3. DOMAIN rows = 1..n
  BY <1>2, ListingIsSeq
<1>4. row.name = name /\ row.value = Value(id, now, switch)
  BY DEF Row
<1> HIDE DEF row, id, n
<1>5. /\ Listing(rws, n + 1) /\ rws[n + 1] = row /\ \A i \in 1..n : rws[i] = rows[i]
      /\ Listing(ids, n + 1) /\ ids[n + 1] = id /\ \A i \in 1..n : ids[i] = inspectorIds[i]
  <2>1. Listing(rows, n) /\ Listing(inspectorIds, n)
    BY <1>2
  <2>2. Grown(rws, rows, n, row)
    BY <2>1, AppendListing
  <2>3. Grown(ids, inspectorIds, n, id)
    BY <2>1, AppendListing
  <2> QED BY <2>2, <2>3 DEF Grown
<1> HIDE DEF rws, ids
<1>6. \A i \in 1..n : rows[i].name # name
  BY <1>1, <1>3 DEF Listed
<1>7. Rows(rws, ids, n + 1)
  <2>1. \A i \in 1..n + 1 : i \in 1..n \/ i = n + 1
    BY <1>2
  <2>2. \A i \in 1..n + 1 : ids[i] = SignalOf(rws[i].name)
    BY <1>2, <1>4, <1>5, <2>1 DEF id
  <2>3. \A i, j \in 1..n + 1 : rws[i].name = rws[j].name => i = j
    BY <1>2, <1>4, <1>5, <1>6, <2>1
  <2> QED BY <1>5, <2>2, <2>3 DEF Rows
<1>8. ASSUME NEW i \in 1..n + 1
      PROVE  \/ \E j \in 1..Len(rows) : rws[i] = rows[j]
             \/ /\ rws[i].name \notin Listed(rows)
                /\ rws[i].value = Value(ids[i], now, switch)
  <2>1. CASE i \in 1..n
    BY <1>5, <2>1 DEF n
  <2>2. CASE i = n + 1
    BY <1>1, <1>4, <1>5, <2>2
  <2> QED BY <1>2, <2>1, <2>2
<1> QED BY <1>1, <1>7, <1>8, InspectorStaged

\* removeWatch(): row and handle go together; the other rows stay as they are.
LEMMA WatchRemoved ==
  ASSUME InspectorInv, NEW name, RemoveWatch(name)
  PROVE  InspectorInv'
<1> DEFINE n == Len(rows)
<1>1. PICK k \in DOMAIN rows :
        /\ rows[k].name = name
        /\ rows' = RemoveAt(rows, k)
        /\ inspectorIds' = RemoveAt(inspectorIds, k)
  BY DEF RemoveWatch, WithoutSignal
<1>2. /\ n \in Nat /\ Listing(rows, n) /\ Listing(inspectorIds, n)
      /\ \A i \in 1..n : inspectorIds[i] = SignalOf(rows[i].name)
      /\ \A i, j \in 1..n : rows[i].name = rows[j].name => i = j
  BY RowsNow DEF Rows
<1>3. k \in 1..n
  BY <1>2, ListingIsSeq
<1>4. /\ before' = [x \in DOMAIN before \ {name} |-> before[x]]
      /\ UNCHANGED <<board, haveSnapshot, snapshotCycle, shown>>
  BY DEF RemoveWatch
<1> DEFINE old(i) == IF i < k THEN i ELSE i + 1
<1> HIDE DEF n
<1>5. /\ Listing(rows', n - 1) /\ \A i \in 1..n - 1 : rows'[i] = rows[old(i)]
      /\ Listing(inspectorIds', n - 1) /\ \A i \in 1..n - 1 : inspectorIds'[i] = inspectorIds[old(i)]
  <2>1. /\ Listing(RemoveAt(rows, k), n - 1)
        /\ \A i \in 1..n - 1 : RemoveAt(rows, k)[i] = IF i < k THEN rows[i] ELSE rows[i + 1]
    BY ONLY <1>2, <1>3, RemoveAtIs
  <2>2. /\ Listing(RemoveAt(inspectorIds, k), n - 1)
        /\ \A i \in 1..n - 1 : RemoveAt(inspectorIds, k)[i]
                                 = IF i < k THEN inspectorIds[i] ELSE inspectorIds[i + 1]
    BY ONLY <1>2, <1>3, RemoveAtIs
  <2> QED BY <1>1, <2>1, <2>2
<1>6. \A i \in 1..n - 1 : old(i) \in 1..n /\ old(i) # k
  BY <1>2, <1>3
<1>7. \A i, j \in 1..n - 1 : old(i) = old(j) => i = j
  BY <1>2, <1>3
<1> HIDE DEF old
<1>8. Len(rows') = n - 1
  BY <1>5 DEF Listing
<1>9. Rows(rows', inspectorIds', n - 1)
  BY <1>2, <1>5, <1>6, <1>7 DEF Rows
<1>10. \A i \in 1..n - 1 : rows'[i].name # name
  BY <1>1, <1>2, <1>3, <1>5, <1>6
<1>11. /\ board \in BOOLEAN /\ haveSnapshot = board
       /\ haveSnapshot => \A i \in 1..n :
         /\ rows[i].value = Value(SignalOf(rows[i].name), snapshotCycle, shown)
         /\ rows[i].changed <=> (rows[i].name \in DOMAIN before /\ before[rows[i].name] # rows[i].value)
  BY InspectorInvIs DEF n
<1>12. ASSUME haveSnapshot', NEW i \in 1..n - 1
       PROVE  /\ rows'[i].value = Value(SignalOf(rows'[i].name), snapshotCycle', shown')
              /\ rows'[i].changed <=> (rows'[i].name \in DOMAIN before' /\ before'[rows'[i].name] # rows'[i].value)
  <2> DEFINE r == rows[old(i)]
  <2>1. rows'[i] = r /\ old(i) \in 1..n /\ r.name # name
    BY <1>5, <1>6, <1>10
  <2>2. /\ r.value = Value(SignalOf(r.name), snapshotCycle, shown)
        /\ r.changed <=> (r.name \in DOMAIN before /\ before[r.name] # r.value)
    BY <1>4, <1>11, <1>12, <2>1
  <2> HIDE DEF r
  <2>3. DOMAIN before' = DOMAIN before \ {name} /\ \A x \in DOMAIN before \ {name} : before'[x] = before[x]
    BY <1>4
  <2> QED BY <1>4, <2>1, <2>2, <2>3
<1>13. haveSnapshot' = board' /\ board' \in BOOLEAN
  BY <1>4, <1>11
<1> QED BY <1>8, <1>9, <1>12, <1>13, InspectorNext

\* BoardAdapter(): the ports, with the values of a board at rest.
LEMMA InspectorMade ==
  ASSUME NEW hasBoard \in BOOLEAN, AdapterMade(hasBoard),
         snapshotCycle = 0, shown = FALSE, before = <<>>
  PROVE  InspectorInv'
<1>1. /\ haveSnapshot' = hasBoard /\ board' = hasBoard
      /\ snapshotCycle' = 0 /\ shown' = FALSE /\ before' = <<>>
  BY DEF AdapterMade
<1>2. CASE ~hasBoard
  <2>1. rows' = <<>> /\ inspectorIds' = <<>>
    BY <1>2 DEF AdapterMade
  <2>2. Listing(<<>>, 0)
    BY DEF Listing
  <2>3. Rows(rows', inspectorIds', Len(rows')) /\ Len(rows') = 0
    BY <2>1, <2>2 DEF Rows
  <2> QED BY <1>1, <1>2, <2>3, InspectorNext
<1>3. CASE hasBoard
  <2> DEFINE n == Len(Ports)
  <2>1. n \in Nat /\ DOMAIN Ports = 1..n /\ \A i, j \in 1..n : Ports[i] = Ports[j] => i = j
    BY PortsAssumption, LenProperties
  <2> HIDE DEF n
  <2>2. /\ rows' = [i \in 1..n |-> Row(Ports[i], Value(SignalOf(Ports[i]), 0, FALSE), FALSE)]
        /\ inspectorIds' = [i \in 1..n |-> SignalOf(Ports[i])]
    BY <1>3, <2>1 DEF AdapterMade
  <2>3. \A i \in 1..n : /\ rows'[i].name = Ports[i] /\ rows'[i].changed = FALSE
                        /\ rows'[i].value = Value(SignalOf(Ports[i]), 0, FALSE)
                        /\ inspectorIds'[i] = SignalOf(Ports[i])
    BY <2>2 DEF Row
  <2>4. rows' = [i \in 1..n |-> rows'[i]] /\ inspectorIds' = [i \in 1..n |-> inspectorIds'[i]]
    BY <2>2
  <2>5. Listing(rows', n) /\ Listing(inspectorIds', n)
    BY <2>1, <2>4, ListingIs
  <2>6. Rows(rows', inspectorIds', Len(rows')) /\ Len(rows') = n
    <3>1. Len(rows') = n
      BY <2>5 DEF Listing
    <3>2. \A i \in 1..n : inspectorIds'[i] = SignalOf(rows'[i].name)
      BY ONLY <2>3
    <3>3. ASSUME NEW i \in 1..n, NEW j \in 1..n, rows'[i].name = rows'[j].name PROVE i = j
      <4>1. Ports[i] = Ports[j]
        BY <2>3, <3>3
      <4> QED BY <2>1, <4>1
    <3> QED BY ONLY <2>5, <3>1, <3>2, <3>3 DEF Rows
  <2>7. DOMAIN before' = {}
    BY <1>1
  <2>8. \A i \in 1..Len(rows') :
         /\ rows'[i].value = Value(SignalOf(rows'[i].name), snapshotCycle', shown')
         /\ rows'[i].changed <=> (rows'[i].name \in DOMAIN before' /\ before'[rows'[i].name] # rows'[i].value)
    BY <1>1, <2>3, <2>6, <2>7
  <2> QED BY <1>1, <2>6, <2>8, InspectorNext
<1> QED BY <1>2, <1>3

-----------------------------------------------------------------------------
(* The adapter: log, view and inspector together. *)

LEMMA OutputIs == ASSUME NEW c \in Nat, NEW n \in Nat PROVE IsEvents(Output(c, n))
<1> DEFINE S == {line \in AnyLine : IsEvent(line)}
<1> DEFINE f == [i \in 1..n |-> IF Emits(c + i) THEN <<Line(c + i, "out")>> ELSE <<>>]
<1>1. \A i \in 1..n : f[i] \in Seq(S)
  <2> SUFFICES ASSUME NEW i \in 1..n PROVE f[i] \in Seq(S)
    OBVIOUS
  <2>1. c + i \in Nat
    OBVIOUS
  <2> DEFINE line == Line(c + i, "out")
  <2>2. IsEvents(<<line>>) /\ IsEvents(<<>>)
    BY <2>1, LineIs
  <2> HIDE DEF line
  <2>3. <<line>> \in Seq(S) /\ <<>> \in Seq(S)
    BY <2>2 DEF IsEvents
  <2> HIDE DEF S
  <2>4. f[i] = IF Emits(c + i) THEN <<line>> ELSE <<>>
    BY DEF line
  <2> QED BY <2>3, <2>4
<1>2. Sequence!Family(f, n)
  BY DEF Sequence!Family
<1> HIDE DEF f, S
<1>3. Len(f) = n /\ (n = 0 => f = <<>>)
  BY <1>2, Sequence!FamilyLen
<1>4. FlattenSeq(f) \in Seq(S)
  BY <1>1, <1>3, SameFlatten, Sequence!FlattenType
<1> QED BY <1>4 DEF IsEvents, Output, S, f

\* The owner's log, while somebody will write it to a file.
Whole == (logRetained /\ wanted) => lines = <<Header>> \o happened

LEMMA WholeLogged ==
  ASSUME LogInv, Whole, NEW new, IsEvents(new), Remember(new), UNCHANGED <<logRetained, wanted>>,
         logRetained => lines' = Logged(new)
  PROVE  Whole'
<1> SUFFICES ASSUME logRetained, wanted PROVE lines' = <<Header>> \o happened'
  BY DEF Whole
<1>1. enabled
  BY DEF LogInv, ViewIsStory
<1>2. lines' = (<<Header>> \o happened) \o new /\ happened' = happened \o new
  BY <1>1 DEF Whole, Logged, Remember
<1>3. <<Header>> \in Seq(AnyLine) /\ happened \in Seq(AnyLine) /\ new \in Seq(AnyLine)
  BY EventsAreLines, EventsOfCleared DEF LogInv, LogTyped, Cleared
<1>4. (<<Header>> \o happened) \o new = <<Header>> \o (happened \o new)
  BY ONLY <1>3, ConcatAssociative
<1> QED BY <1>2, <1>4

AdapterInv == LogInv /\ InspectorInv /\ Whole

\* What every call that a view, the controller or the board makes promises.
AdapterStep == AdapterInv' /\ UNCHANGED <<logRetained, wanted, board>>

LEMMA AdapterTicks ==
  ASSUME AdapterInv, NEW n \in Nat, BoardTick(n)
  PROVE  AdapterStep
<1>1. LogInv /\ InspectorInv /\ Whole /\ now \in Nat
  BY DEF AdapterInv, LogInv, LogTyped
<1> DEFINE new == Output(now, n)
<1>2. IsEvents(new)
  BY <1>1, OutputIs
<1>3. /\ lines' = Logged(new) /\ Remember(new) /\ now' \in Nat
      /\ UNCHANGED <<enabled, view, reader, publication, wanted>> /\ UNCHANGED <<board, snapshot>>
  BY <1>1 DEF BoardTick
<1> HIDE DEF new
<1>4. LogInv'
  BY <1>1, <1>2, <1>3, LogTicks
<1>5. UNCHANGED <<logRetained, wanted, board>>
  BY <1>3 DEF reader
<1>6. Whole'
  BY <1>1, <1>2, <1>3, <1>5, WholeLogged
<1> QED BY <1>1, <1>3, <1>4, <1>5, <1>6, InspectorSame DEF AdapterInv, AdapterStep

\* Log and inspector are staged together.
LEMMA AdapterStages ==
  ASSUME AdapterInv, NEW new, IsEvents(new), Remember(new), NEW on, NEW c, NEW rws, NEW ids,
         Stage(Logged(new), on, c, rws, ids), enabled' = enabled, board' = board, now' \in Nat,
         InspectorInv'
  PROVE  AdapterStep
<1>1. LogInv /\ Whole /\ StageLog(Logged(new))
  BY DEF AdapterInv, Stage
<1>2. LogInv' /\ (logRetained => lines' = Logged(new))
  BY <1>1, LogStaged
<1>3. UNCHANGED <<logRetained, wanted, board>>
  BY <1>1 DEF StageLog
<1>4. Whole'
  BY <1>1, <1>2, <1>3, WholeLogged
<1> QED BY <1>2, <1>3, <1>4 DEF AdapterInv, AdapterStep

LEMMA AdapterPublishes ==
  ASSUME AdapterInv, NEW new, IsEvents(new), Remember(new), NEW on, NEW c,
         Stage(Logged(new), on, c, rows, inspectorIds), enabled' = enabled, board' = board,
         now' \in Nat
  PROVE  AdapterStep
<1>1. InspectorInv
  BY DEF AdapterInv
<1>2. InspectorInv'
  BY <1>1, RowsNow, InspectorStaged
<1> QED BY <1>2, AdapterStages

LEMMA AdapterRefreshes == ASSUME AdapterInv, Refresh PROVE AdapterStep
<1>1. LogInv /\ now \in Nat /\ UNCHANGED <<happened, story>> /\ enabled' = enabled /\ board' = board
      /\ now' = now
  BY DEF AdapterInv, LogInv, LogTyped, Refresh
<1>2. Logged(<<>>) = lines /\ Remember(<<>>) /\ IsEvents(<<>>)
  BY <1>1, NothingNew
<1>3. Stage(Logged(<<>>), switch, now, rows, inspectorIds)
  BY <1>2 DEF Refresh
<1> QED BY <1>1, <1>2, <1>3, AdapterPublishes

LEMMA AdapterNotifies == ASSUME AdapterInv, Notify PROVE AdapterStep
<1>1. LogInv /\ InspectorInv /\ Whole /\ InsertRows /\ UNCHANGED <<board, snapshot>>
  BY DEF AdapterInv, Notify
<1>2. UNCHANGED <<logRetained, wanted, lines, happened>>
  BY <1>1 DEF InsertRows, boardLog, reader
<1>3. Whole'
  BY <1>1, <1>2 DEF Whole
<1> QED BY <1>1, <1>2, <1>3, LogInserted, InspectorSame DEF AdapterInv, AdapterStep

\* Whatever a view asks for.
LEMMA AdapterServes == ASSUME AdapterInv, Views PROVE AdapterStep
<1>0. LogInv /\ InspectorInv /\ Whole /\ now \in Nat
  BY DEF AdapterInv, LogInv, LogTyped
<1>1. ASSUME NEW on \in BOOLEAN, SetSwitch(on) PROVE AdapterStep
  <2> DEFINE poke == IF on = switch THEN <<>> ELSE <<Line(now, "in")>>
  <2>1. IsEvents(poke)
    <3>1. IsEvents(<<Line(now, "in")>>) /\ IsEvents(<<>>)
      BY <1>0, LineIs
    <3> QED BY <3>1
  <2>2. /\ Remember(poke) /\ Stage(Logged(poke), on, now, rows, inspectorIds)
        /\ enabled' = enabled /\ board' = board /\ now' = now
    BY <1>1 DEF SetSwitch
  <2> HIDE DEF poke
  <2> QED BY <1>0, <2>1, <2>2, AdapterPublishes
<1>2. ASSUME NEW name, AddWatch(name) PROVE AdapterStep
  <2>1. PICK rws, ids : Stage(lines, switch, now, rws, ids)
    BY <1>2 DEF AddWatch
  <2>2. UNCHANGED <<happened, story>> /\ enabled' = enabled /\ board' = board /\ now' = now
    BY <1>2 DEF AddWatch
  <2>3. Logged(<<>>) = lines /\ Remember(<<>>) /\ IsEvents(<<>>)
    BY <1>0, <2>2, NothingNew
  <2>4. InspectorInv'
    BY <1>0, <1>2, WatchAdded
  <2>5. Stage(Logged(<<>>), switch, now, rws, ids)
    BY <2>1, <2>3
  <2> QED BY <1>0, <2>2, <2>3, <2>4, <2>5, AdapterStages
<1>3. ASSUME NEW name, RemoveWatch(name) PROVE AdapterStep
  <2>1. InspectorInv'
    BY <1>0, <1>3, WatchRemoved
  <2>2. UNCHANGED logVars /\ UNCHANGED board
    BY <1>3 DEF RemoveWatch
  <2>3. LogInv' /\ Whole' /\ UNCHANGED <<logRetained, wanted>>
    BY <1>0, <2>2 DEF LogInv, LogTyped, ViewIsStory, Drained, First, Whole,
       logVars, boardLog, view, reader, publication
  <2> QED BY <2>1, <2>2, <2>3 DEF AdapterInv, AdapterStep
<1>4. ASSUME SetRecording PROVE AdapterStep
  <2>1. InspectorInv' /\ board' = board
    BY <1>0, <1>4, InspectorSame DEF SetRecording
  <2>2. CASE StartRecording
    <3>1. UNCHANGED <<logRetained, wanted, happened>> /\ (logRetained => lines' = lines)
      BY <2>2 DEF StartRecording
    <3>2. Whole'
      BY <1>0, <3>1 DEF Whole
    <3> QED BY <1>0, <2>1, <2>2, <3>1, <3>2, RecordingStarts DEF AdapterInv, AdapterStep
  <2>3. CASE StopRecording
    <3>1. UNCHANGED <<logRetained, wanted, happened>>
      BY <2>3 DEF StopRecording
    <3>2. LogInv' /\ (logRetained => lines' = lines)
      BY <1>0, <2>3, RecordingStops
    <3>3. Whole'
      BY <1>0, <3>1, <3>2 DEF Whole
    <3> QED BY <2>1, <3>1, <3>2, <3>3 DEF AdapterInv, AdapterStep
  <2> QED BY <1>4, <2>2, <2>3 DEF SetRecording
<1>5. ASSUME Clear PROVE AdapterStep
  <2>1. InspectorInv' /\ board' = board /\ ClearEventLog
    BY <1>0, <1>5, InspectorSame DEF Clear
  <2>2. UNCHANGED <<logRetained, wanted, happened>>
    BY <2>1 DEF ClearEventLog
  <2>3. LogInv' /\ (logRetained => lines' = lines)
    BY <1>0, <2>1, LogCleared
  <2>4. Whole'
    BY <1>0, <2>2, <2>3 DEF Whole
  <2> QED BY <2>1, <2>2, <2>3, <2>4 DEF AdapterInv, AdapterStep
<1> QED BY <1>1, <1>2, <1>3, <1>4, <1>5 DEF Views

LEMMA AdapterStill == ASSUME AdapterInv, UNCHANGED adapterVars PROVE AdapterStep
<1>1. LogInv /\ InspectorInv /\ Whole /\ UNCHANGED logVars /\ UNCHANGED <<board, snapshot>>
  BY DEF AdapterInv, adapterVars
<1>2. LogInv' /\ Whole' /\ UNCHANGED <<logRetained, wanted>>
  BY <1>1 DEF LogInv, LogTyped, ViewIsStory, Drained, First, Whole,
     logVars, boardLog, view, reader, publication
<1> QED BY <1>1, <1>2, InspectorSame DEF AdapterInv, AdapterStep

-----------------------------------------------------------------------------
(* The launch. *)

\* Only `run` reads a screenshot or a log.
LEMMA OptionsAre ==
  ASSUME NEW o \in Options \cup {NoOptions}
  PROVE  /\ o.preview \in BOOLEAN /\ o.scripted \in BOOLEAN /\ o.shot \in BOOLEAN
         /\ o.log \in BOOLEAN /\ o.frames \in Nat \cup {Endless}
         /\ (o.shot \/ o.log => o.scripted) /\ (o.scripted => ~o.preview)
<1>1. CASE o = NoOptions
  BY <1>1 DEF NoOptions
<1>2. CASE o \in Options
  <2>1. o \in [preview: BOOLEAN, scripted: BOOLEAN, frames: {Endless} \cup Nat,
               shot: BOOLEAN, log: BOOLEAN, smoke: BOOLEAN, realtime: BOOLEAN]
    BY <1>2, LauncherAssumption
  <2>2. (o.shot \/ o.log => o.scripted) /\ (o.scripted => ~o.preview)
    BY <1>2, LauncherAssumption
  <2> QED BY <2>1, <2>2
<1> QED BY <1>1, <1>2

LEMMA OptIs ==
  ASSUME LauncherInv
  PROVE  /\ opt.preview \in BOOLEAN /\ opt.scripted \in BOOLEAN /\ opt.shot \in BOOLEAN
         /\ opt.log \in BOOLEAN /\ opt.frames \in Nat \cup {Endless}
         /\ (opt.shot \/ opt.log => opt.scripted) /\ (opt.scripted => ~opt.preview)
<1>1. opt \in Options \cup {NoOptions}
  BY DEF LauncherInv, StartKept, Phases
<1> QED BY <1>1, OptionsAre

LEMMA AdapterOf ==
  ASSUME LauncherInv, phase \notin {"over", "killed"}
  PROVE  AdapterInv
<1>1. Whole
  <2>1. CASE Unmade
    BY <2>1 DEF LauncherInv, StartKept, Whole
  <2>2. CASE ~Unmade
    BY <2>2 DEF LauncherInv, FileKept, Whole
  <2> QED BY <2>1, <2>2
<1> QED BY <1>1 DEF LauncherInv, AdapterInv

\* In the loop only the end of the run is left to look at.
LEMMA LoopKept ==
  ASSUME LauncherInv, phase = "loop", phase' = "loop", AdapterStep, opt' = opt, ShotKept'
  PROVE  LauncherInv'
<1>1. LogInv' /\ InspectorInv' /\ Whole' /\ UNCHANGED <<logRetained, wanted, board>>
  BY DEF AdapterStep, AdapterInv
<1>2. StartKept'
  BY DEF LauncherInv, StartKept, Unmade, BeforeLoop, Phases
<1>3. FileKept'
  <2>1. logRetained = opt.log /\ wanted = opt.log
    BY DEF LauncherInv, FileKept, Unmade
  <2> QED BY <1>1, <2>1 DEF FileKept, LogFileWhole, Whole
<1> QED BY <1>1, <1>2, <1>3 DEF LauncherInv

\* Before it the log is the owner's.
LEMMA LogComposed ==
  ASSUME LogInv, ~recording, ~logRetained, now' \in Nat,
         lines' \in Seq(AnyLine), happened' \in Seq(AnyLine),
         wanted' \in BOOLEAN, enabled' = wanted', logRetained' \in BOOLEAN,
         UNCHANGED <<view, logRead, logWasEnabled, publication, story>>
  PROVE  LogInv'
<1>1. /\ LogTyped /\ logRead = 0 /\ trimmed <= Len(story) /\ trimmed + Len(events) <= recorded
      /\ ~publishing => pending = <<>>
      /\ events \o pending \o Drained(lines) = SubSeq(story, trimmed + 1, Len(story))
  BY DEF LogInv, LogTyped, ViewIsStory
<1>2. UNCHANGED <<recording, events, trimmed, recorded, logRead, logWasEnabled,
                  publishing, pending, story>>
  BY DEF view, publication
<1>3. Drained(lines) = <<>> /\ Drained(lines)' = <<>>
  BY <1>2 DEF Drained
<1>4. LogTyped'
  BY <1>1, <1>2 DEF LogTyped
<1>5. logRead' <= IF logRetained' THEN Len(lines') ELSE 0
  <2>1. Len(lines') \in Nat
    BY LenProperties
  <2> QED BY <1>1, <1>2, <2>1
<1>6. ViewIsStory'
  <2>1. (events \o pending \o Drained(lines))' = SubSeq(story, trimmed + 1, Len(story))'
    BY <1>1, <1>2, <1>3
  <2> QED BY <1>1, <1>2, <2>1 DEF ViewIsStory
<1> QED BY <1>1, <1>2, <1>4, <1>5, <1>6 DEF LogInv

\* The publications that no view has seen yet.
LEMMA InspectorUnseen ==
  ASSUME InspectorInv, board, board' = board, shown = switch, NEW ls, NEW c, PublishUnseen(ls, c)
  PROVE  InspectorInv'
<1>1. Snapped(rows, inspectorIds, c, switch) /\ haveSnapshot
  BY DEF PublishUnseen, Snapped, InspectorInv
<1>2. haveSnapshot' = board' /\ board' \in BOOLEAN
  BY DEF PublishUnseen, InspectorInv
<1> QED BY <1>1, <1>2, RowsNow, Snap

LEMMA StartIs == Init => LauncherInv
<1> SUFFICES ASSUME Init PROVE LauncherInv
  OBVIOUS
<1>1. LogInit /\ AdapterInit
  BY DEF Init, AdapterInit
<1>2. LogInv
  <2>1. <<>> \in Seq(AnyLine) /\ Len(<<>>) = 0 /\ <<>> \o <<>> = <<>> /\ Rest(<<>>, 0) = <<>>
    <3>1. <<>> \in Seq(AnyLine) /\ Len(<<>>) = 0
      BY EmptySeq
    <3> QED BY <3>1, RestAll, ConcatEmptySeq
  <2>2. LogTyped
    BY <1>1, <2>1, EventsOfCleared DEF LogInit, LogTyped
  <2>3. Drained(lines) = <<>>
    BY <1>1 DEF LogInit, Drained
  <2>4. events \o pending \o Drained(lines) = Rest(story, trimmed)
    BY <1>1, <2>1, <2>3 DEF LogInit
  <2>5. ViewIsStory
    <3>1. /\ events = <<>> /\ trimmed = 0 /\ recorded = 0
          /\ enabled = FALSE /\ recording = FALSE /\ wanted = FALSE
      BY <1>1 DEF LogInit
    <3>2. trimmed + Len(events) <= recorded
      BY <2>1, <3>1
    <3>3. enabled = (recording \/ wanted)
      BY <3>1
    <3> QED BY <2>4, <3>2, <3>3 DEF ViewIsStory, Rest
  <2> QED BY <1>1, <2>1, <2>2, <2>5 DEF LogInit, LogInv
<1>3. InspectorInv
  <2>1. rows = <<>> /\ inspectorIds = <<>> /\ board = FALSE /\ haveSnapshot = FALSE
    BY <1>1 DEF AdapterInit
  <2>2. RowsTyped /\ Parallel
    BY <2>1 DEF RowsTyped, Parallel
  <2> QED BY <2>1, <2>2 DEF InspectorInv, SnapshotOfOneCycle
<1>4. StartKept
  BY <1>1 DEF Init, AdapterInit, LogInit, StartKept, Phases, Unmade, BeforeLoop
<1>5. FileKept
  BY DEF Init, FileKept, LogFileWhole, Unmade
<1>6. ShotKept
  BY DEF Init, ShotKept, ShotOrTold
<1>7. phase # "left"
  BY DEF Init
<1> QED BY <1>2, <1>3, <1>4, <1>5, <1>6, <1>7 DEF LauncherInv

LEMMA ParseKeeps == ASSUME LauncherInv, Parse PROVE LauncherInv'
<1>1. /\ phase = "args" /\ phase' \in {"parsed", "over"} /\ opt = NoOptions
      /\ UNCHANGED adapterVars
      /\ UNCHANGED <<opt, running, finished, endCycle, posted, saved, failed, told, file, overtaken>>
  BY DEF Parse, LauncherInv, StartKept, control, artifacts
<1>2. LogInv' /\ InspectorInv'
  BY <1>1, AdapterOf, AdapterStill DEF AdapterInv, AdapterStep
<1>3. UNCHANGED <<now, lines, happened, wanted, logRetained, recording, publishing,
                  board, switch, snapshotCycle, shown, before>>
  BY <1>1 DEF adapterVars, logVars, boardLog, view, reader, publication, snapshot, inspector
<1>4. StartKept'
  BY <1>1, <1>3 DEF LauncherInv, StartKept, Phases, Unmade, BeforeLoop
<1>5. FileKept' /\ ShotKept'
  <2>1. opt'.log = FALSE /\ opt'.shot = FALSE
    BY <1>1 DEF NoOptions
  <2> QED BY <1>1, <1>3, <2>1 DEF LauncherInv, FileKept, LogFileWhole, Unmade, ShotKept, ShotOrTold, WantsShot
<1> QED BY <1>1, <1>2, <1>4, <1>5 DEF LauncherInv

LEMMA StartFailsKeeps == ASSUME LauncherInv, StartFails PROVE LauncherInv'
<1>1. /\ phase \in {"parsed", "made", "composed"} /\ phase' = "over" /\ code' = 1
      /\ UNCHANGED adapterVars /\ UNCHANGED <<opt, running, finished, endCycle>>
  BY DEF StartFails, control, parsing
<1>2. LogInv' /\ InspectorInv'
  BY <1>1, AdapterOf, AdapterStill DEF AdapterInv, AdapterStep
<1>3. StartKept'
  <2>1. opt \in Options \cup {NoOptions}
    BY <1>1 DEF LauncherInv, StartKept
  <2> QED BY <1>1, <2>1 DEF StartKept, Phases, Unmade, BeforeLoop
<1>4. FileKept' /\ ShotKept'
  <2>1. now' = now
    BY <1>1 DEF adapterVars, logVars, boardLog
  <2> QED BY <1>1, <2>1 DEF LauncherInv, FileKept, LogFileWhole, Unmade, ShotKept, ShotOrTold
<1> QED BY <1>1, <1>2, <1>3, <1>4 DEF LauncherInv

LEMMA MakeBoardKeeps == ASSUME LauncherInv, MakeBoard PROVE LauncherInv'
<1>1. /\ phase = "parsed" /\ phase' = "made" /\ opt' \in Options /\ AdapterMade(~opt'.preview)
      /\ UNCHANGED logVars /\ UNCHANGED <<switch, running, finished, endCycle>>
  BY DEF MakeBoard, control
<1>2. snapshotCycle = 0 /\ shown = FALSE /\ before = <<>>
  BY <1>1 DEF LauncherInv, StartKept
<1>3. InspectorInv' /\ board' = ~opt'.preview /\ shown' = shown
  <2>1. (~opt'.preview) \in BOOLEAN
    OBVIOUS
  <2> QED BY <1>1, <1>2, <2>1, InspectorMade DEF AdapterMade
<1>4. LogInv' /\ UNCHANGED <<now, lines, happened, wanted, logRetained, recording>>
  BY <1>1 DEF LauncherInv, LogInv, LogTyped, ViewIsStory, Drained, First,
     logVars, boardLog, view, reader, publication
<1>5. StartKept'
  BY <1>1, <1>3, <1>4 DEF LauncherInv, StartKept, Phases, Unmade, BeforeLoop
<1>6. FileKept' /\ ShotKept'
  BY <1>1, <1>4 DEF LauncherInv, FileKept, LogFileWhole, ShotKept, ShotOrTold, Unmade
<1> QED BY <1>1, <1>3, <1>4, <1>5, <1>6 DEF LauncherInv

LEMMA ExecKeeps == ASSUME LauncherInv, Exec PROVE LauncherInv'
<1>1. /\ phase = "composed" /\ phase' = "loop" /\ running' = (opt.scripted /\ ~finished)
      /\ UNCHANGED <<logVars, board, switch>> /\ UNCHANGED <<opt, finished, endCycle>>
      /\ IF running' \/ (opt.realtime /\ board) THEN PublishUnseen(lines, now)
                                              ELSE UNCHANGED snapshot
  BY DEF Exec, parsing
<1>2. LogInv' /\ UNCHANGED <<now, lines, happened, wanted, logRetained>>
  BY <1>1 DEF LauncherInv, LogInv, LogTyped, ViewIsStory, Drained, First,
     logVars, boardLog, view, reader, publication
<1>3. /\ InspectorInv /\ board = ~opt.preview /\ shown = switch /\ (finished => opt.frames = 0)
      /\ (opt.scripted => ~opt.preview)
  BY <1>1, OptIs DEF LauncherInv, StartKept, BeforeLoop
<1>4. InspectorInv'
  <2>1. CASE running' \/ (opt.realtime /\ board)
    <3>1. board
      BY <1>1, <1>3, <2>1
    <3> QED BY <1>1, <1>3, <2>1, <3>1, InspectorUnseen
  <2>2. CASE ~(running' \/ (opt.realtime /\ board))
    BY <1>1, <1>3, <2>2, InspectorSame
  <2> QED BY <2>1, <2>2
<1>5. StartKept'
  BY <1>1 DEF LauncherInv, StartKept, Phases, Unmade, BeforeLoop
<1>6. FileKept'
  BY <1>1, <1>2 DEF LauncherInv, FileKept, LogFileWhole, Unmade
<1>7. ShotKept'
  <2>1. finished => ~WantsShot'
    BY <1>1, <1>3 DEF WantsShot
  <2>2. endCycle' # Endless => endCycle' \in Nat /\ now' <= endCycle'
    BY <1>1, <1>2 DEF LauncherInv, ShotKept
  <2>3. running' => ~finished'
    BY <1>1
  <2> QED BY <1>1, <2>1, <2>2, <2>3 DEF ShotKept, ShotOrTold
<1> QED BY <1>1, <1>2, <1>4, <1>5, <1>6, <1>7 DEF LauncherInv

LEMMA ComposeKeeps == ASSUME LauncherInv, Compose PROVE LauncherInv'
<1>1. /\ phase = "made" /\ phase' = "composed" /\ logRetained' = opt.log
      /\ UNCHANGED <<view, logRead, logWasEnabled, publication, story>>
      /\ UNCHANGED <<board, switch, opt, running>>
  BY DEF Compose, parsing
<1>2. /\ board = ~opt.preview /\ shown = switch /\ ~running /\ ~recording /\ endCycle = Endless
      /\ ~finished /\ ~wanted /\ ~logRetained /\ lines = Cleared /\ happened = <<>>
      /\ opt \in Options \cup {NoOptions}
  BY <1>1 DEF LauncherInv, StartKept, Unmade, BeforeLoop
<1>3. /\ opt.log \in BOOLEAN /\ opt.frames \in Nat \cup {Endless}
      /\ (opt.log => opt.scripted) /\ (opt.scripted => ~opt.preview)
  BY OptIs
<1>4. LogInv /\ LogTyped /\ InspectorInv /\ recording' = recording
  BY <1>1 DEF LauncherInv, LogInv, view
<1>5. Startup \in Nat \ {0} /\ FrameCycles \in Nat \ {0}
  BY LauncherAssumption
<1>6. /\ now' \in Nat /\ lines' \in Seq(AnyLine) /\ happened' \in Seq(AnyLine)
      /\ wanted' = opt.log /\ enabled' = wanted' /\ InspectorInv' /\ shown' = shown
      /\ (opt.log => lines' = <<Header>> \o happened')
      /\ (finished' => opt.frames = 0)
      /\ (endCycle' # Endless => endCycle' \in Nat /\ now' <= endCycle')
  <2>0. /\ lines \in Seq(AnyLine) /\ happened \in Seq(AnyLine) /\ now \in Nat
        /\ enabled \in BOOLEAN /\ wanted \in BOOLEAN /\ enabled = wanted
    BY <1>2, <1>4 DEF LogInv, LogTyped, ViewIsStory
  <2>1. CASE opt.scripted
    <3> DEFINE cycles == IF opt.frames = 0 THEN 0 ELSE Startup
    <3> DEFINE poke(c) == IF cycles = 0 THEN <<>> ELSE <<Line(c, "in")>>
    <3> DEFINE ls == IF opt.log THEN poke(0) \o Output(0, cycles) \o poke(cycles) ELSE <<>>
    <3>1. /\ enabled' = opt.log /\ wanted' = opt.log /\ now' = cycles
          /\ lines' = lines \o ls /\ happened' = ls
          /\ endCycle' = IF opt.frames = Endless THEN Endless
                         ELSE cycles + opt.frames * FrameCycles
          /\ finished' = (opt.frames = 0)
          /\ PublishUnseen(lines', cycles)
      BY <2>1 DEF Compose, StartScript
    <3>2. cycles \in Nat
      BY <1>5
    <3>3. ls \in Seq(AnyLine)
      <4>1. \A c \in Nat : poke(c) \in Seq(AnyLine)
        <5> SUFFICES ASSUME NEW c \in Nat PROVE poke(c) \in Seq(AnyLine)
          OBVIOUS
        <5>1. IsEvents(<<Line(c, "in")>>) /\ IsEvents(<<>>)
          BY LineIs
        <5> HIDE DEF cycles
        <5> QED BY <5>1, EventsAreLines
      <4>2. Output(0, cycles) \in Seq(AnyLine)
        <5> HIDE DEF cycles
        <5> QED BY <3>2, OutputIs, EventsAreLines
      <4>3. poke(0) \in Seq(AnyLine) /\ poke(cycles) \in Seq(AnyLine)
        BY <3>2, <4>1
      <4> HIDE DEF poke, cycles
      <4>4. poke(0) \o Output(0, cycles) \o poke(cycles) \in Seq(AnyLine)
        BY <4>2, <4>3, ConcatProperties
      <4> QED BY <4>4, EmptySeq
    <3> HIDE DEF ls
    <3>4. lines \o ls \in Seq(AnyLine) /\ lines = <<Header>>
      BY <1>2, <2>0, <3>3, ConcatProperties DEF Cleared
    <3>5. endCycle' # Endless => endCycle' \in Nat /\ now' <= endCycle'
      <4> SUFFICES ASSUME opt.frames # Endless PROVE endCycle' \in Nat /\ now' <= endCycle'
        BY <3>1
      <4>1. opt.frames \in Nat /\ FrameCycles \in Nat
        BY <1>3, <1>5
      <4>2. opt.frames * FrameCycles \in Nat
        BY <4>1
      <4> HIDE DEF cycles
      <4> QED BY <3>1, <3>2, <4>2
    <3>6. InspectorInv' /\ shown' = shown
      <4> HIDE DEF cycles
      <4> QED BY <1>1, <1>2, <1>3, <1>4, <2>1, <3>1, InspectorUnseen DEF PublishUnseen
    <3> QED BY <3>1, <3>2, <3>3, <3>4, <3>5, <3>6
  <2>2. CASE ~opt.scripted /\ board /\ StartupReset
    <3>1. /\ now' = Startup /\ PublishUnseen(lines, Startup)
          /\ UNCHANGED <<lines, enabled, wanted, happened, endCycle, finished>>
      BY <2>2 DEF StartupReset
    <3>2. InspectorInv' /\ shown' = shown
      BY <1>1, <1>2, <1>4, <2>2, <3>1, InspectorUnseen DEF PublishUnseen
    <3> QED BY <1>2, <1>3, <1>5, <2>0, <2>2, <3>1, <3>2
  <2>3. CASE /\ ~opt.scripted
             /\ UNCHANGED <<boardLog, wanted, happened, endCycle, finished, snapshot>>
    <3>1. InspectorInv' /\ shown' = shown
      BY <1>1, <1>4, <2>3, InspectorSame DEF snapshot
    <3> QED BY <1>2, <1>3, <2>0, <2>3, <3>1 DEF boardLog
  <2> QED BY <2>1, <2>2, <2>3 DEF Compose
<1>7. LogInv'
  BY <1>1, <1>2, <1>3, <1>4, <1>6, LogComposed
<1>8. StartKept'
  BY <1>1, <1>2, <1>4, <1>6 DEF StartKept, Phases, Unmade, BeforeLoop
<1>9. FileKept'
  BY <1>1, <1>6 DEF FileKept, LogFileWhole, Unmade
<1>10. ShotKept'
  BY <1>1, <1>2, <1>6 DEF ShotKept, ShotOrTold, WantsShot
<1> QED BY <1>1, <1>6, <1>7, <1>8, <1>9, <1>10 DEF LauncherInv

\* Time advances, with or without a publication.
LEMMA AdvanceKeeps ==
  ASSUME LauncherInv, phase = "loop", NEW n \in BatchSizes, NEW due, Advance(n, due),
         UNCHANGED endCycle
  PROVE  /\ AdapterStep
         /\ endCycle' # Endless => endCycle' \in Nat /\ now' <= endCycle'
         /\ finished' => "finish" \in posted'
<1> DEFINE cycles == Clipped(n)
<1> DEFINE ends == endCycle # Endless /\ now + cycles = endCycle
<1>1. /\ now \in Nat /\ n \in Nat /\ (endCycle # Endless => endCycle \in Nat /\ now <= endCycle)
  BY LauncherAssumption DEF LauncherInv, LogInv, LogTyped, ShotKept
<1>2. cycles \in Nat /\ (endCycle # Endless => now + cycles <= endCycle)
  BY <1>1 DEF Clipped, Lesser
<1>3. /\ IF due \/ ends THEN AdvanceAndPublish(cycles) ELSE BoardTick(cycles)
      /\ finished' = ends /\ posted' = IF ends THEN posted \cup {"finish"} ELSE posted
  BY DEF Advance, Announced
<1> HIDE DEF cycles, ends
<1>4. AdapterInv
  BY AdapterOf
<1>5. now' = now + cycles
  BY <1>3 DEF AdvanceAndPublish, BoardTick
<1>6. AdapterStep
  <2>1. CASE due \/ ends
    <3> DEFINE new == Output(now, cycles)
    <3>1. /\ Remember(new) /\ Stage(Logged(new), switch, now + cycles, rows, inspectorIds)
          /\ enabled' = enabled /\ board' = board
      BY <1>3, <2>1 DEF AdvanceAndPublish
    <3>2. IsEvents(new) /\ now' \in Nat
      BY <1>1, <1>2, <1>5, OutputIs
    <3> HIDE DEF new
    <3> QED BY <1>4, <3>1, <3>2, AdapterPublishes
  <2>2. CASE ~(due \/ ends)
    BY <1>2, <1>3, <1>4, <2>2, AdapterTicks
  <2> QED BY <2>1, <2>2
<1>7. endCycle' # Endless => endCycle' \in Nat /\ now' <= endCycle'
  BY <1>1, <1>2, <1>5
<1> QED BY <1>3, <1>6, <1>7

LEMMA BatchKeeps == ASSUME LauncherInv, Batch PROVE LauncherInv'
<1>1. PICK n \in BatchSizes, due \in BOOLEAN : Advance(n, due)
  BY DEF Batch
<1>2. /\ phase = "loop" /\ phase' = "loop" /\ opt' = opt /\ endCycle' = endCycle
      /\ running' = ~finished'
  BY DEF Batch, InLoop, parsing
<1>3. /\ AdapterStep /\ (finished' => "finish" \in posted')
      /\ (endCycle' # Endless => endCycle' \in Nat /\ now' <= endCycle')
  BY <1>1, <1>2, AdvanceKeeps
<1>4. ShotKept'
  BY <1>2, <1>3 DEF ShotKept, ShotOrTold
<1> QED BY <1>2, <1>3, <1>4, LoopKept

LEMMA NotifyKeeps == ASSUME LauncherInv, NotifyViews PROVE LauncherInv'
<1>1. /\ phase = "loop" /\ phase' = "loop" /\ Notify
      /\ UNCHANGED <<opt, running, finished, endCycle, posted, saved, failed>>
  BY DEF NotifyViews, parsing, control, loop, artifacts
<1>2. AdapterStep /\ now' = now
  BY <1>1, AdapterOf, AdapterNotifies DEF Notify, InsertRows, boardLog
<1>3. ShotKept'
  BY <1>1, <1>2 DEF LauncherInv, ShotKept, ShotOrTold, WantsShot
<1> QED BY <1>1, <1>2, <1>3, LoopKept

LEMMA ViewsKeepTime == ASSUME Views PROVE now' = now
<1>1. ASSUME NEW on, SetSwitch(on) PROVE now' = now
  BY <1>1 DEF SetSwitch
<1>2. ASSUME NEW name, AddWatch(name) PROVE now' = now
  BY <1>2 DEF AddWatch
<1>3. ASSUME NEW name, RemoveWatch(name) PROVE now' = now
  BY <1>3 DEF RemoveWatch, logVars, boardLog
<1>4. ASSUME SetRecording PROVE now' = now
  BY <1>4 DEF SetRecording, StartRecording, StopRecording
<1>5. ASSUME Clear PROVE now' = now
  BY <1>5 DEF Clear, ClearEventLog
<1> QED BY <1>1, <1>2, <1>3, <1>4, <1>5 DEF Views

LEMMA UserKeeps == ASSUME LauncherInv, User PROVE LauncherInv'
<1>1. /\ phase = "loop" /\ phase' = "loop"
      /\ UNCHANGED <<opt, saved, failed>>
  BY DEF User, parsing, artifacts
<1>2. CASE Step
  <2>1. PICK n \in BatchSizes : Advance(n, TRUE)
    BY <1>2 DEF Step
  <2>2. UNCHANGED <<running, endCycle>> /\ ~running
    BY <1>2 DEF Step
  <2>3. /\ AdapterStep /\ (finished' => "finish" \in posted')
        /\ (endCycle' # Endless => endCycle' \in Nat /\ now' <= endCycle')
    BY <1>1, <2>1, <2>2, AdvanceKeeps
  <2>4. ShotKept'
    BY <1>1, <2>2, <2>3 DEF ShotKept, ShotOrTold
  <2> QED BY <1>1, <2>3, <2>4, LoopKept
<1>3. CASE RunOrPause
  <2>1. Refresh /\ ~finished /\ UNCHANGED <<finished, endCycle, posted>>
    BY <1>3 DEF RunOrPause
  <2>2. AdapterStep /\ now' = now
    BY <1>1, <2>1, AdapterOf, AdapterRefreshes DEF Refresh
  <2>3. ShotKept'
    BY <1>1, <2>1, <2>2 DEF LauncherInv, ShotKept, ShotOrTold
  <2> QED BY <1>1, <2>2, <2>3, LoopKept
<1>4. CASE UseViews
  <2>1. Views /\ UNCHANGED <<running, finished, endCycle, posted>>
    BY <1>4 DEF UseViews, control
  <2>2. AdapterStep /\ now' = now
    BY <1>1, <2>1, AdapterOf, AdapterServes, ViewsKeepTime
  <2>3. ShotKept'
    BY <1>1, <2>1, <2>2 DEF LauncherInv, ShotKept, ShotOrTold, WantsShot
  <2> QED BY <1>1, <2>2, <2>3, LoopKept
<1> QED BY <1>2, <1>3, <1>4 DEF User

LEMMA EventLoopKeeps == ASSUME LauncherInv, EventLoop PROVE LauncherInv'
<1>1. /\ phase' = phase /\ UNCHANGED <<opt, running, finished, endCycle>> /\ UNCHANGED adapterVars
  BY DEF EventLoop, parsing, control
<1>2. phase = "loop"
  BY DEF EventLoop, Quit, FinishRun, FrameSwapped, GivesUp, Deliver, InLoop
<1>3. AdapterStep /\ now' = now
  BY <1>1, <1>2, AdapterOf, AdapterStill DEF adapterVars, logVars, boardLog
<1>4. WantsShot' = WantsShot
  BY <1>1 DEF WantsShot
<1>5. (saved \/ failed \/ "finish" \in posted) /\ WantsShot
        => saved' \/ failed' \/ "finish" \in posted'
  <2>1. CASE Quit
    BY <2>1 DEF Quit
  <2>2. CASE FinishRun
    <3>1. CASE WantsShot
      <4>1. PICK written \in BOOLEAN : saved' = written /\ failed' = ~written
        BY <2>2, <3>1 DEF FinishRun
      <4> QED BY <4>1
    <3> QED BY <3>1
  <2>3. CASE FrameSwapped
    BY <2>3 DEF FrameSwapped
  <2>4. CASE GivesUp
    <3>1. PICK e \in {"deadline", "broken"} : posted' = posted \ {e}
      BY <2>4 DEF GivesUp
    <3>2. UNCHANGED <<saved, failed>>
      BY <2>4 DEF GivesUp
    <3> QED BY <3>1, <3>2
  <2> QED BY <2>1, <2>2, <2>3, <2>4 DEF EventLoop
<1>6. ShotKept'
  BY <1>1, <1>2, <1>3, <1>4, <1>5 DEF LauncherInv, ShotKept, ShotOrTold
<1> QED BY <1>1, <1>2, <1>3, <1>6, LoopKept

LEMMA WindowEndsKeeps == ASSUME LauncherInv, WindowEnds PROVE LauncherInv'
<1>1. /\ phase = "loop" /\ phase' = "loop" /\ \E e : posted' = posted \cup {e}
      /\ UNCHANGED <<opt, running, finished, endCycle, saved, failed>> /\ UNCHANGED adapterVars
  BY DEF WindowEnds, InLoop, parsing, control, artifacts
<1>2. AdapterStep /\ now' = now
  BY <1>1, AdapterOf, AdapterStill DEF adapterVars, logVars, boardLog
<1>3. ShotKept'
  BY <1>1, <1>2 DEF LauncherInv, ShotKept, ShotOrTold, WantsShot
<1> QED BY <1>1, <1>2, <1>3, LoopKept

LEMMA SignalKeeps == ASSUME LauncherInv, Signal PROVE LauncherInv'
<1>1. /\ phase \in {"made", "composed", "loop"} /\ phase' \in {phase, "killed"}
      /\ (posted' = posted \cup {"quit"} \/ posted' = posted)
      /\ UNCHANGED <<opt, running, finished, endCycle, saved, failed>> /\ UNCHANGED adapterVars
  BY DEF Signal, parsing, control, artifacts
<1>2. LogInv' /\ InspectorInv'
  BY <1>1, AdapterOf, AdapterStill DEF AdapterInv, AdapterStep
<1>3. UNCHANGED <<now, lines, happened, wanted, logRetained, recording, publishing,
                  board, switch, snapshotCycle, shown, before>>
  BY <1>1 DEF adapterVars, logVars, boardLog, view, reader, publication, snapshot, inspector
<1>4. StartKept'
  <2>1. opt' \in Options \cup {NoOptions}
    BY <1>1 DEF LauncherInv, StartKept
  <2>2. CASE phase' = "killed"
    BY <2>1, <2>2 DEF StartKept, Phases, Unmade, BeforeLoop
  <2>3. CASE phase' = phase
    BY <1>1, <1>3, <2>3 DEF LauncherInv, StartKept, Unmade, BeforeLoop
  <2> QED BY <1>1, <2>2, <2>3
<1>5. FileKept'
  BY <1>1, <1>3 DEF LauncherInv, FileKept, LogFileWhole, Unmade
<1>6. ShotKept'
  BY <1>1, <1>3 DEF LauncherInv, ShotKept, ShotOrTold, WantsShot
<1> QED BY <1>1, <1>2, <1>4, <1>5, <1>6 DEF LauncherInv

LEMMA LeaveLoopKeeps == ASSUME LauncherInv, LeaveLoop PROVE LauncherInv'
<1>1. /\ phase = "loop" /\ ~publishing /\ phase' = "left" /\ overtaken' = ("finish" \in posted)
      /\ UNCHANGED <<opt, running, finished, endCycle, saved, failed>> /\ UNCHANGED adapterVars
  BY DEF LeaveLoop, InLoop, parsing, control, artifacts
<1>2. LogInv' /\ InspectorInv'
  BY <1>1, AdapterOf, AdapterStill DEF AdapterInv, AdapterStep
<1>3. UNCHANGED <<now, lines, happened, wanted, logRetained, publishing>>
  BY <1>1 DEF adapterVars, logVars, boardLog, reader, publication
<1>4. StartKept'
  BY <1>1 DEF LauncherInv, StartKept, Phases, Unmade, BeforeLoop
<1>5. FileKept'
  BY <1>1, <1>3 DEF LauncherInv, FileKept, LogFileWhole, Unmade
<1>6. ShotKept'
  BY <1>1, <1>3 DEF LauncherInv, ShotKept, ShotOrTold, WantsShot
<1> QED BY <1>1, <1>2, <1>3, <1>4, <1>5, <1>6 DEF LauncherInv

\* The file is the log before the adapter lets go of it.
LEMMA WriteFilesKeeps == ASSUME LauncherInv, WriteFiles PROVE LauncherInv'
<1>1. /\ phase = "left" /\ phase' = "over" /\ told' = EndedEarly /\ ReleaseLog
      /\ UNCHANGED <<opt, running, finished, endCycle, saved, overtaken>>
      /\ UNCHANGED <<board, snapshot>>
  BY DEF WriteFiles, parsing, control
<1>2. PICK written \in BOOLEAN :
        /\ file' = IF opt.log /\ written THEN lines ELSE NoFile
        /\ failed' = (failed \/ ~written)
  BY DEF WriteFiles
<1>3. failed' => code' = 1
  BY DEF WriteFiles
<1>4. LogInv' /\ InspectorInv'
  BY <1>1, LogReleased, InspectorSame DEF LauncherInv
<1>5. now' = now /\ happened' = happened
  BY <1>1 DEF ReleaseLog
<1>6. StartKept'
  BY <1>1 DEF LauncherInv, StartKept, Phases, Unmade, BeforeLoop
<1>7. FileKept'
  <2>1. opt.log => lines = <<Header>> \o happened
    BY <1>1 DEF LauncherInv, FileKept, Unmade
  <2> QED BY <1>1, <1>2, <1>3, <1>5, <2>1 DEF FileKept, LogFileWhole, Unmade
<1>8. ShotOrTold'
  <2>1. finished /\ WantsShot => saved \/ failed \/ overtaken
    BY <1>1 DEF LauncherInv, ShotKept
  <2>2. WantsShot' = WantsShot
    BY <1>1 DEF WantsShot
  <2> QED BY <1>1, <1>2, <1>3, <2>1, <2>2 DEF ShotOrTold, EndedEarly
<1>9. ShotKept'
  BY <1>1, <1>5, <1>8 DEF LauncherInv, ShotKept
<1> QED BY <1>1, <1>4, <1>6, <1>7, <1>9 DEF LauncherInv

LEMMA LauncherKeeps == LauncherInv /\ [Next]_vars => LauncherInv'
<1> SUFFICES ASSUME LauncherInv, [Next]_vars PROVE LauncherInv'
  OBVIOUS
<1>1. CASE Starting
  BY <1>1, ParseKeeps, MakeBoardKeeps, StartFailsKeeps, ComposeKeeps, ExecKeeps DEF Starting
<1>2. CASE Loop
  BY <1>2, BatchKeeps, NotifyKeeps, EventLoopKeeps, LeaveLoopKeeps DEF Loop
<1>3. CASE WriteFiles
  BY <1>3, WriteFilesKeeps
<1>4. CASE World
  BY <1>4, UserKeeps, SignalKeeps, WindowEndsKeeps DEF World
<1>5. CASE UNCHANGED vars
  <2>1. /\ UNCHANGED adapterVars
        /\ UNCHANGED <<phase, opt, running, finished, endCycle, posted, saved, failed, told, file,
                       code, overtaken>>
    BY <1>5 DEF vars, parsing, control, loop, artifacts
  <2>2. UNCHANGED <<now, lines, happened, wanted, logRetained, recording, publishing,
                    board, switch, snapshotCycle, shown, before, logVars>>
        /\ UNCHANGED <<board, snapshot>>
    BY <2>1 DEF adapterVars, logVars, boardLog, view, reader, publication, snapshot, inspector
  <2>3. LogInv'
    <3>1. LogInv /\ UNCHANGED logVars
      BY <2>2 DEF LauncherInv
    <3> QED BY <3>1 DEF LogInv, LogTyped, ViewIsStory, Drained, First,
               logVars, boardLog, view, reader, publication
  <2>4. InspectorInv'
    BY <2>2, InspectorSame DEF LauncherInv
  <2>5. StartKept'
    BY <2>1, <2>2 DEF LauncherInv, StartKept, Unmade, BeforeLoop
  <2>6. FileKept' /\ ShotKept'
    BY <2>1, <2>2 DEF LauncherInv, FileKept, LogFileWhole, Unmade, ShotKept, ShotOrTold, WantsShot
  <2> QED BY <2>1, <2>2, <2>3, <2>4, <2>5, <2>6 DEF LauncherInv
<1> QED BY <1>1, <1>2, <1>3, <1>4, <1>5 DEF Next

\* The invariant of a launch, for every design, batch size, view and order of
\* batches, clicks, signals and failures: log, view, inspector, log file and the
\* end of the run (LauncherInv).
THEOREM LaunchKeepsItsPromises == Spec => []LauncherInv
<1>1. Init => LauncherInv
  BY StartIs
<1>2. LauncherInv /\ [Next]_vars => LauncherInv'
  BY LauncherKeeps
<1> QED BY <1>1, <1>2, PTL DEF Spec

\* For every size of the view and of the batches, every order of recording,
\* stopping, clearing and publishing: no event is shown twice, none is lost, and
\* the trimmed count is what is missing (ViewIsStory).
THEOREM LogViewTellsTheStory == Spec => []ViewIsStory
<1>1. LauncherInv => ViewIsStory
  BY DEF LauncherInv, LogInv
<1> QED BY <1>1, LaunchKeepsItsPromises, PTL

\* For every design and list of watches, rows and handles stay parallel and every
\* row shows its own signal at the cycle of the snapshot (SnapshotOfOneCycle).
THEOREM InspectorShowsOneCycle == Spec => []SnapshotOfOneCycle
<1>1. LauncherInv => SnapshotOfOneCycle
  BY DEF LauncherInv, InspectorInv
<1> QED BY <1>1, LaunchKeepsItsPromises, PTL

\* A log file holds every event of the run, whatever the view drained, stopped or
\* cleared meanwhile, or the exit code says that it does not (LogFileWhole).
THEOREM LogFileIsComplete == Spec => []LogFileWhole
<1>1. LauncherInv => LogFileWhole
  BY DEF LauncherInv, FileKept
<1> QED BY <1>1, LaunchKeepsItsPromises, PTL

\* A run that was asked for a screenshot saves it, fails or says why not, unless
\* its end was overtaken in the queue (ShotOrTold).
THEOREM ScreenshotIsAccountedFor == Spec => []ShotOrTold
<1>1. LauncherInv => ShotOrTold
  BY DEF LauncherInv, ShotKept
<1> QED BY <1>1, LaunchKeepsItsPromises, PTL
=============================================================================
