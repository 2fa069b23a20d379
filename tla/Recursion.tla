----------------------------- MODULE Recursion -----------------------------
(***************************************************************************)
(* What recursion over numbers and sequences computes.  Induction is       *)
(* stated with a set instead of an operator, so that it can be applied     *)
(* inside a proof; the definitions that other modules make by recursion    *)
(* are read as instances of Iterate and Folded, with their own Base and    *)
(* Step; and the library's FlattenSeq gets the equations that determine    *)
(* it.                                                                     *)
(***************************************************************************)
EXTENDS Integers, SequencesExt, SequenceTheorems, WellFoundedInduction, TLAPS

CONSTANTS Base, Step(_, _)

LEMMA LessIsWellFounded == IsWellFoundedOn({ss \in Nat \X Nat : ss[1] < ss[2]}, Nat)
BY NatLessThanWellFounded, Zenon DEF OpToRel

\* A set that holds 0 and is closed under successor holds every number.
LEMMA Induction ==
  ASSUME NEW S, 0 \in S, \A n \in Nat : n \in S => n + 1 \in S
  PROVE  \A n \in Nat : n \in S
<1> DEFINE R == {ss \in Nat \X Nat : ss[1] < ss[2]}
<1> SUFFICES ASSUME Nat \ S # {} PROVE FALSE
  OBVIOUS
<1>1. IsWellFoundedOn(R, Nat)
  BY LessIsWellFounded
<1>2. PICK m \in Nat \ S : \A k \in Nat \ S : ~(<<k, m>> \in R)
  <2> HIDE DEF R
  <2> QED BY <1>1, WFMin, Zenon
<1>3. m \in Nat /\ m # 0 /\ m - 1 \in Nat /\ m - 1 < m /\ (m - 1) + 1 = m
  OBVIOUS
<1>4. <<m - 1, m>> \in R
  BY <1>3
<1>5. m - 1 \in S
  BY <1>2, <1>3, <1>4, Zenon
<1> QED BY <1>3, <1>5, Zenon

-----------------------------------------------------------------------------
(* Recursive functions. *)

\* Base after the steps 1, ..., n.
Iterate(n) ==
  LET state[k \in 0..n] == IF k = 0 THEN Base ELSE Step(state[k - 1], k)
  IN  state[n]

Follows(f, n) == f = [k \in 0..n |-> IF k = 0 THEN Base ELSE Step(f[k - 1], k)]

LEMMA FollowsExists == \A n \in Nat : \E f : Follows(f, n)
<1> DEFINE S == {n \in Nat : \E f : Follows(f, n)}
<1>1. 0 \in S
  <2>1. Follows([k \in 0..0 |-> Base], 0)
    BY DEF Follows
  <2> QED BY <2>1
<1>2. ASSUME NEW n \in Nat, n \in S PROVE n + 1 \in S
  <2>1. PICK f : Follows(f, n)
    BY <1>2
  <2> DEFINE g == [k \in 0..(n + 1) |-> IF k = n + 1 THEN Step(f[n], n + 1) ELSE f[k]]
  <2> DEFINE h == [k \in 0..(n + 1) |-> IF k = 0 THEN Base ELSE Step(g[k - 1], k)]
  <2>2. ASSUME NEW k \in 0..(n + 1) PROVE g[k] = h[k]
    <3>1. CASE k = n + 1
      <4>1. n \in 0..(n + 1) /\ n # n + 1 /\ k - 1 = n /\ k # 0
        BY <3>1
      <4> QED BY <3>1, <4>1
    <3>2. CASE k # n + 1
      <4>1. k \in 0..n /\ g[k] = f[k] /\ (k # 0 => g[k - 1] = f[k - 1])
        BY <3>2
      <4> QED BY <4>1, <2>1 DEF Follows
    <3> QED BY <3>1, <3>2
  <2>3. g = [k \in 0..(n + 1) |-> g[k]] /\ h = [k \in 0..(n + 1) |-> h[k]]
    OBVIOUS
  <2>4. g = h
    <3> HIDE DEF g, h
    <3> QED BY <2>2, <2>3, Zenon
  <2>5. Follows(g, n + 1)
    <3> HIDE DEF g
    <3> QED BY <2>4 DEF Follows
  <2> HIDE DEF g
  <2> QED BY <2>5
<1>3. \A n \in Nat : n \in S
  <2> HIDE DEF S
  <2> QED BY <1>1, <1>2, Induction
<1> QED BY <1>3

LEMMA FollowsAgree ==
  ASSUME NEW n \in Nat, NEW m \in Nat, NEW f, NEW g, Follows(f, n), Follows(g, m), n <= m
  PROVE  \A k \in 0..n : f[k] = g[k]
<1> DEFINE S == {k \in Nat : k \in 0..n => f[k] = g[k]}
<1>1. 0 \in S
  BY DEF Follows
<1>2. ASSUME NEW k \in Nat, k \in S PROVE k + 1 \in S
  <2> SUFFICES ASSUME k + 1 \in 0..n PROVE f[k + 1] = g[k + 1]
    OBVIOUS
  <2>1. k + 1 \in 0..m /\ k \in 0..n /\ k + 1 # 0 /\ (k + 1) - 1 = k
    OBVIOUS
  <2>2. f[k + 1] = Step(f[(k + 1) - 1], k + 1) /\ g[k + 1] = Step(g[(k + 1) - 1], k + 1)
    BY <2>1 DEF Follows
  <2> QED BY <1>2, <2>1, <2>2
<1>3. \A k \in Nat : k \in S
  <2> HIDE DEF S
  <2> QED BY <1>1, <1>2, Induction
<1> QED BY <1>3

LEMMA IterateIs ==
  ASSUME NEW n \in Nat, NEW f, Follows(f, n)
  PROVE  Iterate(n) = f[n]
<1> DEFINE g == CHOOSE h : Follows(h, n)
<1>1. Follows(g, n)
  BY Zenon
<1>2. Iterate(n) = g[n]
  BY DEF Iterate, Follows
<1>3. \A k \in 0..n : f[k] = g[k]
  <2> HIDE DEF g
  <2> QED BY <1>1, FollowsAgree
<1> QED BY <1>2, <1>3

\* The equation.
LEMMA IterateStep ==
  /\ Iterate(0) = Base
  /\ \A n \in Nat : Iterate(n + 1) = Step(Iterate(n), n + 1)
<1>1. Iterate(0) = Base
  <2>1. PICK f : Follows(f, 0)
    BY FollowsExists
  <2>2. f[0] = Base
    BY <2>1 DEF Follows
  <2> QED BY <2>1, <2>2, IterateIs
<1>2. ASSUME NEW n \in Nat PROVE Iterate(n + 1) = Step(Iterate(n), n + 1)
  <2>1. PICK f : Follows(f, n)
    BY FollowsExists
  <2>2. PICK g : Follows(g, n + 1)
    BY FollowsExists
  <2>3. f[n] = g[n]
    <3>1. \A k \in 0..n : f[k] = g[k]
      BY <2>1, <2>2, FollowsAgree
    <3> QED BY <3>1
  <2>4. g[n + 1] = Step(g[n], n + 1)
    <3>1. n + 1 \in 0..(n + 1) /\ n + 1 # 0 /\ (n + 1) - 1 = n
      OBVIOUS
    <3> QED BY <2>2, <3>1 DEF Follows
  <2>5. Iterate(n) = f[n] /\ Iterate(n + 1) = g[n + 1]
    BY <2>1, <2>2, IterateIs
  <2> QED BY <2>3, <2>4, <2>5
<1> QED BY <1>1, <1>2

-----------------------------------------------------------------------------
(* Folds over sequences: the step takes the element. *)

\* A set that holds the empty sequence and every extension of its members.
LEMMA SequenceInduction ==
  ASSUME NEW T, NEW S, <<>> \in S,
         \A s \in Seq(T), x \in T : s \in S => Append(s, x) \in S
  PROVE  Seq(T) \subseteq S
<1> DEFINE N == {n \in Nat : \A s \in Seq(T) : Len(s) = n => s \in S}
<1>1. 0 \in N
  BY EmptySeq
<1>2. ASSUME NEW n \in Nat, n \in N PROVE n + 1 \in N
  <2> SUFFICES ASSUME NEW s \in Seq(T), Len(s) = n + 1 PROVE s \in S
    OBVIOUS
  <2> DEFINE f == [i \in 1..n |-> s[i]]
  <2>1. \A i \in 1..(n + 1) : s[i] \in T
    BY ElementOfSeq
  <2>2. f \in Seq(T) /\ Len(f) = n /\ s[n + 1] \in T
    <3>1. \A i \in 1..n : s[i] \in T
      BY <2>1
    <3>2. n + 1 \in 1..(n + 1)
      OBVIOUS
    <3> QED BY <2>1, <3>1, <3>2
  <2>3. Append(f, s[n + 1]) = s
    <3>1. Append(f, s[n + 1]) \in Seq(T) /\ Len(Append(f, s[n + 1])) = n + 1
      <4> HIDE DEF f
      <4> QED BY <2>2, AppendProperties
    <3>2. ASSUME NEW i \in 1..(n + 1) PROVE Append(f, s[n + 1])[i] = s[i]
      <4>1. CASE i = n + 1
        <5> HIDE DEF f
        <5> QED BY <2>2, <4>1, AppendProperties
      <4>2. CASE i # n + 1
        <5>1. i \in 1..n /\ f[i] = s[i]
          BY <4>2
        <5> HIDE DEF f
        <5> QED BY <2>2, <5>1, AppendProperties
      <4> QED BY <4>1, <4>2
    <3> HIDE DEF f
    <3> QED BY <3>1, <3>2, SeqEqual
  <2>4. f \in S
    BY <1>2, <2>2
  <2> HIDE DEF f
  <2> QED BY <2>2, <2>3, <2>4
<1>3. \A n \in Nat : n \in N
  <2> HIDE DEF N
  <2> QED BY <1>1, <1>2, Induction
<1> QED BY <1>3, LenProperties

\* b after the elements of s.
Folded(b, s) ==
  LET after[i \in 0..Len(s)] == IF i = 0 THEN b ELSE Step(after[i - 1], s[i])
  IN  after[Len(s)]

Folds(f, b, s) == f = [i \in 0..Len(s) |-> IF i = 0 THEN b ELSE Step(f[i - 1], s[i])]

\* Two such functions agree on what their sequences share.
LEMMA FoldsAgree ==
  ASSUME NEW b, NEW s, NEW t, NEW f, NEW g, Folds(f, b, s), Folds(g, b, t),
         Len(s) \in Nat, Len(t) \in Nat, Len(s) <= Len(t),
         \A i \in 1..Len(s) : s[i] = t[i]
  PROVE  \A k \in 0..Len(s) : f[k] = g[k]
<1> DEFINE S == {k \in Nat : k \in 0..Len(s) => f[k] = g[k]}
<1>1. 0 \in S
  BY DEF Folds
<1>2. ASSUME NEW k \in Nat, k \in S PROVE k + 1 \in S
  <2> SUFFICES ASSUME k + 1 \in 0..Len(s) PROVE f[k + 1] = g[k + 1]
    OBVIOUS
  <2>1. /\ k + 1 \in 0..Len(t) /\ k \in 0..Len(s) /\ k + 1 # 0 /\ (k + 1) - 1 = k
        /\ s[k + 1] = t[k + 1]
    OBVIOUS
  <2>2. /\ f[k + 1] = Step(f[(k + 1) - 1], s[k + 1])
        /\ g[k + 1] = Step(g[(k + 1) - 1], t[k + 1])
    BY <2>1 DEF Folds
  <2> QED BY <1>2, <2>1, <2>2
<1>3. \A k \in Nat : k \in S
  <2> HIDE DEF S
  <2> QED BY <1>1, <1>2, Induction
<1> QED BY <1>3

LEMMA FoldsExists ==
  ASSUME NEW b, NEW T
  PROVE  \A s \in Seq(T) : \E f : Folds(f, b, s)
<1> DEFINE S == {s \in Seq(T) : \E f : Folds(f, b, s)}
<1>1. <<>> \in S
  <2>1. Folds([i \in 0..0 |-> b], b, <<>>)
    BY DEF Folds
  <2> QED BY <2>1, EmptySeq
<1>2. ASSUME NEW s \in Seq(T), NEW x \in T, s \in S PROVE Append(s, x) \in S
  <2>1. PICK f : Folds(f, b, s)
    BY <1>2
  <2> DEFINE t == Append(s, x)
  <2> DEFINE n == Len(s)
  <2>2. /\ t \in Seq(T) /\ Len(t) = n + 1 /\ t[n + 1] = x /\ n \in Nat
        /\ \A i \in 1..n : t[i] = s[i]
    BY AppendProperties, LenProperties
  <2> HIDE DEF t, n
  <2> DEFINE g == [k \in 0..(n + 1) |-> IF k = n + 1 THEN Step(f[n], x) ELSE f[k]]
  <2> DEFINE h == [k \in 0..(n + 1) |-> IF k = 0 THEN b ELSE Step(g[k - 1], t[k])]
  <2>3. ASSUME NEW k \in 0..(n + 1) PROVE g[k] = h[k]
    <3>1. CASE k = n + 1
      <4>1. n \in 0..(n + 1) /\ n # n + 1 /\ k - 1 = n /\ k # 0
        BY <2>2, <3>1
      <4> QED BY <2>2, <3>1, <4>1
    <3>2. CASE k # n + 1
      <4>1. /\ k \in 0..n /\ g[k] = f[k]
            /\ k # 0 => g[k - 1] = f[k - 1] /\ t[k] = s[k]
        BY <2>2, <3>2
      <4> QED BY <2>1, <4>1 DEF Folds, n
    <3> QED BY <3>1, <3>2
  <2>4. g = [k \in 0..(n + 1) |-> g[k]] /\ h = [k \in 0..(n + 1) |-> h[k]]
    OBVIOUS
  <2>5. g = h
    <3> HIDE DEF g, h
    <3> QED BY <2>3, <2>4, Zenon
  <2>6. Folds(g, b, t)
    <3> HIDE DEF g
    <3> QED BY <2>2, <2>5 DEF Folds
  <2> HIDE DEF g
  <2> QED BY <2>2, <2>6 DEF t
<1> HIDE DEF S
<1>3. Seq(T) \subseteq S
  BY <1>1, <1>2, SequenceInduction
<1> QED BY <1>3 DEF S

LEMMA FoldedIs ==
  ASSUME NEW b, NEW T, NEW s \in Seq(T), NEW f, Folds(f, b, s)
  PROVE  Folded(b, s) = f[Len(s)]
<1> DEFINE g == CHOOSE h : Folds(h, b, s)
<1>1. Folds(g, b, s)
  BY Zenon
<1>2. Folded(b, s) = g[Len(s)]
  BY DEF Folded, Folds
<1>3. \A k \in 0..Len(s) : f[k] = g[k]
  <2> HIDE DEF g
  <2> QED BY <1>1, FoldsAgree, LenProperties
<1> QED BY <1>2, <1>3, LenProperties

\* The equations.
LEMMA FoldedStep ==
  /\ \A b : Folded(b, <<>>) = b
  /\ \A b, T : \A s \in Seq(T), x \in T : Folded(b, Append(s, x)) = Step(Folded(b, s), x)
<1>1. ASSUME NEW b PROVE Folded(b, <<>>) = b
  <2>1. <<>> \in Seq({})
    BY EmptySeq
  <2>2. PICK f : Folds(f, b, <<>>)
    BY <2>1, FoldsExists
  <2>3. f[0] = b
    BY <2>2 DEF Folds
  <2>4. Folded(b, <<>>) = f[Len(<<>>)]
    BY ONLY <2>1, <2>2, FoldedIs
  <2>5. Len(<<>>) = 0
    OBVIOUS
  <2> QED BY <2>3, <2>4, <2>5
<1>2. ASSUME NEW b, NEW T, NEW s \in Seq(T), NEW x \in T
      PROVE  Folded(b, Append(s, x)) = Step(Folded(b, s), x)
  <2> DEFINE t == Append(s, x)
  <2> DEFINE n == Len(s)
  <2>1. /\ t \in Seq(T) /\ Len(t) = n + 1 /\ t[n + 1] = x /\ n \in Nat
        /\ \A i \in 1..n : s[i] = t[i]
    BY AppendProperties, LenProperties
  <2> HIDE DEF t
  <2>2. PICK f : Folds(f, b, s)
    BY FoldsExists
  <2>3. PICK g : Folds(g, b, t)
    BY <2>1, FoldsExists
  <2>4. \A k \in 0..n : f[k] = g[k]
    BY <2>1, <2>2, <2>3, FoldsAgree
  <2>5. g[n + 1] = Step(g[n], x)
    <3>1. n + 1 \in 0..(n + 1) /\ n + 1 # 0 /\ (n + 1) - 1 = n
      BY <2>1
    <3> QED BY <2>1, <2>3, <3>1 DEF Folds
  <2>6. Folded(b, s) = f[n]
    BY <2>2, FoldedIs
  <2>7. Folded(b, t) = g[n + 1]
    BY <2>1, <2>3, FoldedIs
  <2>8. f[n] = g[n]
    BY <2>1, <2>4
  <2> QED BY <2>5, <2>6, <2>7, <2>8 DEF t
<1> QED BY <1>1, <1>2

-----------------------------------------------------------------------------
(* FlattenSeq. *)

\* f[i] is the concatenation of the first i sequences.
Flattens(f, ss) ==
  f = [i \in 1..Len(ss) |-> IF i = 1 THEN ss[i] ELSE f[i - 1] \o ss[i]]

\* Such a function exists: extend it one sequence at a time.
LEMMA FlattensExists ==
  ASSUME NEW ss, Len(ss) \in Nat
  PROVE  \E f : Flattens(f, ss)
<1> DEFINE Up(f, n) == f = [i \in 1..n |-> IF i = 1 THEN ss[i] ELSE f[i - 1] \o ss[i]]
<1> DEFINE S == {n \in Nat : \E f : Up(f, n)}
<1>1. 0 \in S
  <2>1. Up([i \in 1..0 |-> ss[i]], 0)
    OBVIOUS
  <2> QED BY <2>1
<1>2. ASSUME NEW n \in Nat, n \in S PROVE n + 1 \in S
  <2>1. PICK f : Up(f, n)
    BY <1>2
  <2> DEFINE last == IF n = 0 THEN ss[1] ELSE f[n] \o ss[n + 1]
  <2> DEFINE g == [i \in 1..(n + 1) |-> IF i = n + 1 THEN last ELSE f[i]]
  <2>2. ASSUME NEW i \in 1..(n + 1)
        PROVE  g[i] = IF i = 1 THEN ss[i] ELSE g[i - 1] \o ss[i]
    <3>1. CASE i = n + 1
      <4>1. CASE n = 0
        BY <4>1, <3>1
      <4>2. CASE n # 0
        <5>1. g[i] = f[n] \o ss[n + 1] /\ g[i - 1] = f[n] /\ i # 1
          <6>1. n \in 1..(n + 1) /\ n # n + 1 /\ i - 1 = n /\ i # 1
            BY <4>2, <3>1
          <6> QED BY <6>1, <4>2, <3>1
        <5> QED BY <5>1, <3>1
      <4> QED BY <4>1, <4>2
    <3>2. CASE i # n + 1
      <4>1. i \in 1..n /\ g[i] = f[i] /\ (i # 1 => g[i - 1] = f[i - 1])
        BY <3>2
      <4> QED BY <4>1, <2>1
    <3> QED BY <3>1, <3>2
  <2>3. Up(g, n + 1)
    <3>1. g = [i \in 1..(n + 1) |-> g[i]]
      OBVIOUS
    <3> DEFINE h == [i \in 1..(n + 1) |-> IF i = 1 THEN ss[i] ELSE g[i - 1] \o ss[i]]
    <3>2. \A i \in 1..(n + 1) : g[i] = h[i]
      BY <2>2
    <3>3. h = [i \in 1..(n + 1) |-> h[i]]
      OBVIOUS
    <3>4. g = h
      <4> HIDE DEF g, h
      <4> QED BY <3>1, <3>2, <3>3, Zenon
    <3> HIDE DEF g
    <3> QED BY <3>4
  <2> HIDE DEF g, Up
  <2> QED BY <2>3
<1>3. Len(ss) \in S
  <2> HIDE DEF S
  <2> QED BY <1>1, <1>2, Induction
<1> QED BY <1>3 DEF Flattens

\* tt goes on where ss ends.
Begins(ss, tt) ==
  /\ Len(ss) \in Nat /\ Len(tt) \in Nat /\ Len(ss) <= Len(tt)
  /\ \A i \in 1..Len(ss) : ss[i] = tt[i]

\* Two of them agree on the sequences that they share.
LEMMA FlattensAgree ==
  ASSUME NEW ss, NEW tt, NEW f, NEW g, Flattens(f, ss), Flattens(g, tt),
         Begins(ss, tt)
  PROVE  \A i \in 1..Len(ss) : f[i] = g[i]
<1> DEFINE S == {m \in Nat : m \in 1..Len(ss) => f[m] = g[m]}
<1>1. 0 \in S
  OBVIOUS
<1>2. ASSUME NEW m \in Nat, m \in S PROVE m + 1 \in S
  <2> SUFFICES ASSUME m + 1 \in 1..Len(ss) PROVE f[m + 1] = g[m + 1]
    OBVIOUS
  <2>1. ss[m + 1] = tt[m + 1] /\ m + 1 \in 1..Len(ss) /\ m + 1 \in 1..Len(tt)
    BY DEF Begins
  <2>2. /\ f[m + 1] = IF m + 1 = 1 THEN ss[m + 1] ELSE f[(m + 1) - 1] \o ss[m + 1]
        /\ g[m + 1] = IF m + 1 = 1 THEN tt[m + 1] ELSE g[(m + 1) - 1] \o tt[m + 1]
    BY <2>1 DEF Flattens
  <2>3. m + 1 # 1 => f[(m + 1) - 1] = g[(m + 1) - 1]
    BY <1>2
  <2> QED BY <2>1, <2>2, <2>3
<1>3. \A m \in Nat : m \in S
  <2> HIDE DEF S
  <2> QED BY <1>1, <1>2, Induction
<1> QED BY <1>3

\* The value of the library's definition is that of any such function.
LEMMA FlattenSeqIs ==
  ASSUME NEW ss, Len(ss) \in Nat, Len(ss) # 0, NEW f, Flattens(f, ss)
  PROVE  FlattenSeq(ss) = f[Len(ss)]
<1> DEFINE g == CHOOSE h : Flattens(h, ss)
<1>1. Flattens(g, ss)
  BY Zenon
<1>2. FlattenSeq(ss) = g[Len(ss)]
  BY DEF FlattenSeq, Flattens
<1>3. \A i \in 1..Len(ss) : f[i] = g[i]
  <2>1. Begins(ss, ss)
    BY DEF Begins
  <2> HIDE DEF g
  <2> QED BY <1>1, <2>1, FlattensAgree
<1> QED BY <1>2, <1>3

\* Flattening nothing.
LEMMA FlattenNone == ASSUME NEW ss, Len(ss) = 0, ss = <<>> PROVE FlattenSeq(ss) = <<>>
BY DEF FlattenSeq

\* Flattening one sequence more adds it at the end.
LEMMA FlattenNext ==
  ASSUME NEW ss, NEW tt, Len(ss) \in Nat, Len(tt) = Len(ss) + 1,
         \A i \in 1..Len(ss) : tt[i] = ss[i],
         NEW T, FlattenSeq(ss) \in Seq(T), tt[Len(tt)] \in Seq(T),
         Len(ss) = 0 => ss = <<>>
  PROVE  FlattenSeq(tt) = FlattenSeq(ss) \o tt[Len(tt)]
<1>1. PICK g : Flattens(g, tt)
  BY FlattensExists
<1>2. FlattenSeq(tt) = g[Len(tt)]
  BY <1>1, FlattenSeqIs
<1>3. CASE Len(ss) = 0
  <2>1. FlattenSeq(ss) = <<>>
    BY <1>3, FlattenNone
  <2>2. g[Len(tt)] = tt[Len(tt)]
    BY <1>1, <1>3 DEF Flattens
  <2> QED BY <1>2, <2>1, <2>2, ConcatEmptySeq
<1>4. CASE Len(ss) # 0
  <2>1. PICK f : Flattens(f, ss)
    BY FlattensExists
  <2>2. FlattenSeq(ss) = f[Len(ss)]
    BY <1>4, <2>1, FlattenSeqIs
  <2>3. f[Len(ss)] = g[Len(ss)]
    <3>1. \A i \in 1..Len(ss) : f[i] = g[i]
      <4>1. Begins(ss, tt)
        BY DEF Begins
      <4> QED BY <1>1, <2>1, <4>1, FlattensAgree
    <3> QED BY <1>4, <3>1
  <2>4. g[Len(tt)] = g[Len(ss)] \o tt[Len(tt)]
    <3>1. Len(tt) \in 1..Len(tt) /\ Len(tt) # 1 /\ Len(tt) - 1 = Len(ss)
      BY <1>4
    <3> QED BY <1>1, <3>1 DEF Flattens
  <2> QED BY <1>2, <2>2, <2>3, <2>4
<1> QED BY <1>3, <1>4

\* The result holds what the sequences hold.
LEMMA FlattenType ==
  ASSUME NEW T, NEW ss, Len(ss) \in Nat, Len(ss) = 0 => ss = <<>>,
         \A i \in 1..Len(ss) : ss[i] \in Seq(T)
  PROVE  FlattenSeq(ss) \in Seq(T)
<1>1. CASE Len(ss) = 0
  BY <1>1, FlattenNone, EmptySeq
<1>2. CASE Len(ss) # 0
  <2>1. PICK f : Flattens(f, ss)
    BY FlattensExists
  <2> DEFINE S == {m \in Nat : m \in 1..Len(ss) => f[m] \in Seq(T)}
  <2>2. 0 \in S
    OBVIOUS
  <2>3. ASSUME NEW m \in Nat, m \in S PROVE m + 1 \in S
    <3> SUFFICES ASSUME m + 1 \in 1..Len(ss) PROVE f[m + 1] \in Seq(T)
      OBVIOUS
    <3>1. f[m + 1] = IF m + 1 = 1 THEN ss[m + 1] ELSE f[(m + 1) - 1] \o ss[m + 1]
      BY <2>1 DEF Flattens
    <3>2. ss[m + 1] \in Seq(T)
      OBVIOUS
    <3>3. m + 1 # 1 => f[(m + 1) - 1] \in Seq(T)
      BY <2>3
    <3> QED BY <3>1, <3>2, <3>3, ConcatProperties
  <2>4. \A m \in Nat : m \in S
    <3> HIDE DEF S
    <3> QED BY <2>2, <2>3, Induction
  <2>5. f[Len(ss)] \in Seq(T)
    BY <1>2, <2>4
  <2> QED BY <1>2, <2>1, <2>5, FlattenSeqIs
<1> QED BY <1>1, <1>2

-----------------------------------------------------------------------------
(* Families of sequences numbered from one. *)

Family(f, n) == n \in Nat /\ f = [k \in 1..n |-> f[k]]
IsSequence(s) == \E S : s \in Seq(S)

LEMMA FamilyLen == ASSUME NEW n, NEW f, Family(f, n) PROVE Len(f) = n /\ (n = 0 => f = <<>>)
BY DEF Family

\* Sequences over different sets are sequences over one.
LEMMA CommonSet ==
  ASSUME NEW n \in Nat, NEW f, \A k \in 1..n : IsSequence(f[k])
  PROVE  \E T : \A k \in 1..n : f[k] \in Seq(T)
<1> DEFINE S(k) == CHOOSE S : f[k] \in Seq(S)
<1> DEFINE T == UNION {S(k) : k \in 1..n}
<1>1. ASSUME NEW k \in 1..n PROVE f[k] \in Seq(T)
  <2>1. f[k] \in Seq(S(k))
    BY Zenon DEF IsSequence
  <2>2. S(k) \subseteq T
    <3> HIDE DEF S
    <3> QED OBVIOUS
  <2> HIDE DEF S, T
  <2> QED BY <2>1, <2>2, SeqMonotonic
<1> HIDE DEF S, T
<1> QED BY <1>1

LEMMA FlattenIsSequence ==
  ASSUME NEW n, NEW f, Family(f, n), \A k \in 1..n : IsSequence(f[k])
  PROVE  IsSequence(FlattenSeq(f))
<1>1. Len(f) = n /\ (n = 0 => f = <<>>) /\ n \in Nat
  BY FamilyLen DEF Family
<1>2. PICK T : \A k \in 1..n : f[k] \in Seq(T)
  BY <1>1, CommonSet
<1>3. FlattenSeq(f) \in Seq(T)
  BY <1>1, <1>2, FlattenType
<1> QED BY <1>3 DEF IsSequence

\* One sequence more.
LEMMA FlattenGrows ==
  ASSUME NEW n, NEW f, NEW g, Family(f, n), Family(g, n + 1),
         \A k \in 1..n : g[k] = f[k], \A k \in 1..(n + 1) : IsSequence(g[k])
  PROVE  FlattenSeq(g) = FlattenSeq(f) \o g[n + 1]
<1>1. Len(f) = n /\ (n = 0 => f = <<>>) /\ Len(g) = n + 1 /\ n \in Nat
  BY FamilyLen DEF Family
<1>2. PICK T : \A k \in 1..(n + 1) : g[k] \in Seq(T)
  <2>1. n + 1 \in Nat
    BY <1>1
  <2> QED BY <2>1, CommonSet
<1>3. FlattenSeq(f) \in Seq(T)
  <2>1. ASSUME NEW k \in 1..n PROVE f[k] \in Seq(T)
    <3>1. k \in 1..(n + 1) /\ g[k] = f[k]
      BY <1>1
    <3> QED BY <1>2, <3>1
  <2> QED BY <1>1, <2>1, FlattenType
<1>4. g[Len(g)] \in Seq(T)
  <2>1. n + 1 \in 1..(n + 1)
    BY <1>1
  <2> QED BY <1>1, <1>2, <2>1
<1>5. FlattenSeq(g) = FlattenSeq(f) \o g[Len(g)]
  BY <1>1, <1>3, <1>4, FlattenNext
<1> QED BY <1>1, <1>5

\* Adding an empty sequence.
LEMMA FlattenStays ==
  ASSUME NEW n, NEW f, NEW g, Family(f, n), Family(g, n + 1),
         \A k \in 1..n : g[k] = f[k], \A k \in 1..n : IsSequence(f[k]), g[n + 1] = <<>>
  PROVE  FlattenSeq(g) = FlattenSeq(f)
<1>0. n \in Nat
  BY DEF Family
<1>1. ASSUME NEW k \in 1..(n + 1) PROVE IsSequence(g[k])
  <2>1. CASE k = n + 1
    BY <2>1, EmptySeq DEF IsSequence
  <2>2. CASE k # n + 1
    <3>1. k \in 1..n
      BY <1>0, <2>2
    <3> QED BY <3>1
  <2> QED BY <2>1, <2>2
<1>2. FlattenSeq(g) = FlattenSeq(f) \o <<>>
  BY <1>1, FlattenGrows
<1>3. IsSequence(FlattenSeq(f))
  BY FlattenIsSequence
<1> QED BY <1>2, <1>3, ConcatEmptySeq DEF IsSequence

\* Adding any number of them.
LEMMA FlattenTail ==
  ASSUME NEW n, NEW f, Family(f, n), NEW m \in Nat, m <= n, NEW g, Family(g, m),
         \A k \in 1..m : g[k] = f[k], \A k \in 1..m : IsSequence(g[k]),
         \A k \in (m + 1)..n : f[k] = <<>>
  PROVE  FlattenSeq(f) = FlattenSeq(g)
<1>0. n \in Nat /\ f = [k \in 1..n |-> f[k]] /\ g = [k \in 1..m |-> g[k]]
  BY DEF Family
<1> DEFINE F(j) == [k \in 1..j |-> f[k]]
<1> DEFINE S == {d \in Nat : m + d <= n => FlattenSeq(F(m + d)) = FlattenSeq(g)}
<1>1. 0 \in S
  <2>1. \A k \in 1..m : g[k] = F(m)[k]
    OBVIOUS
  <2>2. F(m) = [k \in 1..m |-> F(m)[k]]
    OBVIOUS
  <2>3. F(m) = g
    <3> HIDE DEF F
    <3> QED BY <1>0, <2>1, <2>2, Zenon
  <2> HIDE DEF F
  <2> QED BY <2>3
<1>2. ASSUME NEW d \in Nat, d \in S PROVE d + 1 \in S
  <2> SUFFICES ASSUME m + (d + 1) <= n PROVE FlattenSeq(F(m + (d + 1))) = FlattenSeq(g)
    OBVIOUS
  <2> DEFINE e == F(m + d)
  <2> DEFINE h == F(m + (d + 1))
  <2>1. m + d \in Nat /\ m + (d + 1) = (m + d) + 1 /\ m + (d + 1) \in Nat /\ m + d <= n
    BY <1>0
  <2>2. Family(e, m + d) /\ Family(h, (m + d) + 1)
    BY <2>1 DEF Family
  <2>3. \A k \in 1..(m + d) : h[k] = e[k]
    BY <2>1
  <2>4. h[(m + d) + 1] = <<>>
    BY <2>1
  <2>5. ASSUME NEW k \in 1..(m + d) PROVE IsSequence(e[k])
    <3>1. CASE k <= m
      BY <3>1
    <3>2. CASE k > m
      <4>1. k \in (m + 1)..n
        BY <1>0, <2>1, <3>2
      <4>2. e[k] = <<>>
        BY <4>1
      <4> QED BY <4>2, EmptySeq DEF IsSequence
    <3> QED BY <3>1, <3>2
  <2>6. FlattenSeq(h) = FlattenSeq(e)
    <3> HIDE DEF e, h
    <3> QED BY <2>2, <2>3, <2>4, <2>5, FlattenStays
  <2>7. FlattenSeq(e) = FlattenSeq(g)
    BY <1>2, <2>1
  <2> HIDE DEF e, F
  <2> QED BY <2>6, <2>7 DEF h
<1>3. n - m \in S
  <2>1. n - m \in Nat
    BY <1>0
  <2> HIDE DEF S
  <2> QED BY <1>1, <1>2, <2>1, Induction
<1>4. FlattenSeq(F(n)) = FlattenSeq(g)
  <2>1. m + (n - m) = n
    BY <1>0
  <2> HIDE DEF F
  <2> QED BY <1>0, <1>3, <2>1
<1> QED BY <1>0, <1>4

\* All empty.
LEMMA FlattenEmpty ==
  ASSUME NEW n, NEW f, Family(f, n), \A k \in 1..n : f[k] = <<>>
  PROVE  FlattenSeq(f) = <<>>
<1> DEFINE g == [k \in 1..0 |-> f[k]]
<1>1. Family(g, 0) /\ g = <<>> /\ Len(g) = 0
  BY DEF Family
<1>2. n \in Nat
  BY DEF Family
<1> HIDE DEF g
<1>3. FlattenSeq(f) = FlattenSeq(g)
  <2>1. \A k \in 1..0 : g[k] = f[k] /\ IsSequence(g[k])
    OBVIOUS
  <2>2. \A k \in (0 + 1)..n : f[k] = <<>>
    OBVIOUS
  <2> QED BY <1>1, <1>2, <2>1, <2>2, FlattenTail
<1> QED BY <1>1, <1>3, FlattenNone

\* All empty but one.
LEMMA FlattenOne ==
  ASSUME NEW n, NEW f, Family(f, n), NEW j \in 1..n, IsSequence(f[j]),
         \A k \in 1..n : k # j => f[k] = <<>>
  PROVE  FlattenSeq(f) = f[j]
<1>0. n \in Nat
  BY DEF Family
<1> DEFINE g == [k \in 1..j |-> f[k]]
<1> DEFINE e == [k \in 1..(j - 1) |-> f[k]]
<1>1. Family(g, j) /\ Family(e, j - 1) /\ (j - 1) + 1 = j /\ j \in Nat /\ j <= n
  BY <1>0 DEF Family
<1>2. ASSUME NEW k \in 1..j PROVE g[k] = f[k] /\ IsSequence(g[k])
  <2>1. k \in 1..n
    BY <1>0
  <2>2. CASE k = j
    BY <2>2
  <2>3. CASE k # j
    <3>1. g[k] = <<>>
      BY <2>1, <2>3
    <3> QED BY <3>1, EmptySeq DEF IsSequence
  <2> QED BY <2>2, <2>3
<1>3. \A k \in 1..(j - 1) : e[k] = <<>> /\ g[k] = e[k]
  BY <1>0
<1>4. g[j] = f[j]
  BY <1>1
<1>5. \A k \in (j + 1)..n : f[k] = <<>>
  BY <1>0
<1> HIDE DEF e, g
<1>6. FlattenSeq(f) = FlattenSeq(g)
  BY <1>1, <1>2, <1>5, FlattenTail
<1>7. FlattenSeq(e) = <<>>
  BY <1>1, <1>3, FlattenEmpty
<1>8. FlattenSeq(g) = FlattenSeq(e) \o g[j]
  <2> DEFINE i == j - 1
  <2>1. i + 1 = j /\ Family(e, i) /\ Family(g, i + 1)
    BY <1>1
  <2>2. \A k \in 1..i : g[k] = e[k]
    BY <1>3
  <2>3. \A k \in 1..(i + 1) : IsSequence(g[k])
    BY <1>2, <2>1
  <2> HIDE DEF i
  <2>4. FlattenSeq(g) = FlattenSeq(e) \o g[i + 1]
    BY <2>1, <2>2, <2>3, FlattenGrows
  <2> QED BY <2>1, <2>4
<1> QED BY <1>4, <1>6, <1>7, <1>8, ConcatEmptySeq DEF IsSequence
=============================================================================
