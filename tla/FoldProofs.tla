------------------------------ MODULE FoldProofs ------------------------------
(***************************************************************************)
(* What is needed to reason about the folds of SequencesExt.  FoldLeft     *)
(* goes down from the set 1 .. n of all positions to the empty one, taking *)
(* the greatest position off each time; a function that does so exists     *)
(* for every operation, and any two of them agree on 1 .. n.  From these   *)
(* follows what FlattenSeq does to a sequence that grows.                  *)
(*                                                                         *)
(* An operation cannot be quantified over here: it comes as a function g   *)
(* from values and positions to values, and each fold of the models has a  *)
(* lemma of its own that goes from its operator to such a function.        *)
(***************************************************************************)
EXTENDS Integers, SequencesExt, FiniteSetTheorems,
        SequenceTheorems, WellFoundedInduction, TLAPS

(* Naturals are compared by the intervals below them: a set of them has a   *)
(* least member.                                                            *)
LEMMA LeastNat ==
  ASSUME NEW S \in SUBSET Nat, S # {}
  PROVE  \E m \in S : \A n \in S : m <= n
<1> DEFINE Up == {0 .. n : n \in S}
<1>1. Up \subseteq FiniteSubsetsOf(Nat) /\ Up # {}
  <2>1. ASSUME NEW n \in S PROVE 0 .. n \in FiniteSubsetsOf(Nat)
    <3>1. 0 \in Int /\ n \in Int /\ 0 .. n \subseteq Nat
      OBVIOUS
    <3>2. IsFiniteSet(0 .. n)
      BY <3>1, FS_Interval
    <3> QED
      BY <3>1, <3>2 DEF FiniteSubsetsOf
  <2> QED
    BY <2>1
<1>2. PICK I \in Up : \A J \in Up : <<J, I>> \notin StrictSubsetOrdering(Nat)
  <2> HIDE DEF Up
  <2> QED
    BY <1>1, FS_StrictSubsetOrderingWellFounded, WFMin
<1>3. PICK m \in S : I = 0 .. m
  OBVIOUS
<1>4. ASSUME NEW n \in S, n < m PROVE FALSE
  <2>1. 0 .. n \subseteq 0 .. m /\ m \in 0 .. m /\ m \notin 0 .. n
    BY <1>4
  <2>2. <<0 .. n, 0 .. m>> \in StrictSubsetOrdering(Nat)
    BY <2>1 DEF StrictSubsetOrdering
  <2> QED
    BY <1>2, <1>3, <2>2
<1> QED
  BY <1>4

(* Induction over 0 .. n, for a set instead of a predicate. *)
LEMMA Climb ==
  ASSUME NEW n \in Nat, NEW S, 0 \in S,
         \A k \in 0 .. n : k \in S /\ k # n => k + 1 \in S
  PROVE  \A k \in 0 .. n : k \in S
<1> DEFINE Off == {k \in 0 .. n : k \notin S}
<1>1. SUFFICES ASSUME Off # {}
               PROVE  FALSE
  OBVIOUS
<1>2. Off \in SUBSET Nat
  OBVIOUS
<1>3. PICK m \in Off : \A k \in Off : m <= k
  BY <1>1, <1>2, LeastNat
<1>4. m # 0 /\ m - 1 \in 0 .. n /\ m - 1 \notin Off /\ m - 1 # n
  BY <1>3
<1> QED
  BY <1>3, <1>4

(* Positions have a greatest one. *)
LEMMA GreatestPosition ==
  ASSUME NEW n \in Nat, NEW S \in SUBSET (1 .. n), S # {}
  PROVE  Max(S) \in S /\ \A i \in S : i <= Max(S)
<1> DEFINE D == {n - i : i \in S}
<1>0. \A i \in S : i \in Int /\ n - i \in Nat
  OBVIOUS
<1>1. D \in SUBSET Nat /\ D # {}
  BY <1>0
<1>2. PICK d \in D : \A e \in D : d <= e
  BY <1>1, LeastNat
<1>3. PICK m \in S : d = n - m
  OBVIOUS
<1>4. \A i \in S : i <= m
  <2>1. \A i \in S : d <= n - i
    BY <1>2
  <2> QED
    BY <1>0, <1>3, <2>1
<1>5. \A x, y \in S : x >= y <=> y <= x
  BY <1>0
<1> QED
  BY <1>4, <1>5 DEF Max

LEMMA GreatestOfPrefix ==
  ASSUME NEW k \in Nat \ {0}
  PROVE  Max(1 .. k) = k /\ (1 .. k) \ {k} = 1 .. k - 1
<1>1. 1 .. k \in SUBSET (1 .. k) /\ k \in 1 .. k
  OBVIOUS
<1>2. Max(1 .. k) \in 1 .. k /\ \A i \in 1 .. k : i <= Max(1 .. k)
  BY <1>1, GreatestPosition
<1> QED
  BY <1>1, <1>2

(* How a fold goes on from the positions before the greatest one. *)
Folds(f, n, base, g) ==
  f = [S \in SUBSET (1 .. n) |->
         IF S = {} THEN base ELSE g[f[S \ {Max(S)}]][Max(S)]]

(* A fold exists. *)
LEMMA FoldExists ==
  ASSUME NEW n \in Nat, NEW A, NEW base \in A, NEW g \in [A -> [1 .. n -> A]]
  PROVE  \E f \in [SUBSET (1 .. n) -> A] : Folds(f, n, base, g)
<1> DEFINE Done(k) ==
             \E f \in [SUBSET (1 .. k) -> A] :
               \A S \in SUBSET (1 .. k) :
                 f[S] = IF S = {} THEN base ELSE g[f[S \ {Max(S)}]][Max(S)]
           Ok == {k \in 0 .. n : Done(k)}
<1>1. Done(0)
  <2>1. SUBSET (1 .. 0) = {{}}
    OBVIOUS
  <2> DEFINE f == [S \in SUBSET (1 .. 0) |-> base]
  <2>2. f \in [SUBSET (1 .. 0) -> A] /\ \A S \in SUBSET (1 .. 0) : f[S] = base /\ S = {}
    BY <2>1
  <2> HIDE DEF f
  <2> QED
    BY <2>2
<1>2. ASSUME NEW k \in 0 .. n, Done(k), k # n
      PROVE  Done(k + 1)
  <2>1. PICK f \in [SUBSET (1 .. k) -> A] :
          \A S \in SUBSET (1 .. k) :
            f[S] = IF S = {} THEN base ELSE g[f[S \ {Max(S)}]][Max(S)]
    BY <1>2
  <2> DEFINE h == [S \in SUBSET (1 .. k + 1) |->
                     IF k + 1 \in S THEN g[f[S \ {k + 1}]][k + 1] ELSE f[S]]
  <2>2. \A S \in SUBSET (1 .. k + 1) : S \ {k + 1} \in SUBSET (1 .. k)
    OBVIOUS
  <2>3. \A S \in SUBSET (1 .. k + 1) : k + 1 \notin S => S \in SUBSET (1 .. k)
    OBVIOUS
  <2>4. k + 1 \in 1 .. n
    <3> HIDE DEF Done
    <3> QED
      BY <1>2
  <2>5. h \in [SUBSET (1 .. k + 1) -> A]
    <3>1. ASSUME NEW S \in SUBSET (1 .. k + 1)
          PROVE  (IF k + 1 \in S THEN g[f[S \ {k + 1}]][k + 1] ELSE f[S]) \in A
      BY <2>2, <2>3, <2>4
    <3> QED
      BY <3>1
  <2>6. ASSUME NEW S \in SUBSET (1 .. k + 1)
        PROVE  h[S] = IF S = {} THEN base ELSE g[h[S \ {Max(S)}]][Max(S)]
    <3>1. CASE k + 1 \in S
      <4>1. S # {} /\ k + 1 \in Nat /\ \A i \in S : i <= k + 1 /\ i \in Int
        BY <3>1
      <4>2. Max(S) \in S /\ \A i \in S : i <= Max(S)
        BY <4>1, GreatestPosition
      <4>3. Max(S) = k + 1
        <5>1. ASSUME NEW m \in S, \A i \in S : i <= m
              PROVE  m = k + 1
          BY <3>1, <4>1, <5>1
        <5> QED
          BY <4>2, <5>1
      <4>4. S \ {k + 1} \in SUBSET (1 .. k + 1) /\ k + 1 \notin S \ {k + 1}
        OBVIOUS
      <4>5. h[S \ {k + 1}] = f[S \ {k + 1}] /\ h[S] = g[f[S \ {k + 1}]][k + 1]
        BY <3>1, <4>4
      <4> QED
        BY <4>1, <4>3, <4>5
    <3>2. CASE k + 1 \notin S
      <4>1. S \in SUBSET (1 .. k) /\ h[S] = f[S]
        BY <2>3, <3>2
      <4>2. S \ {Max(S)} \in SUBSET (1 .. k + 1) /\ k + 1 \notin S \ {Max(S)}
        BY <3>2
      <4>3. h[S \ {Max(S)}] = f[S \ {Max(S)}]
        BY <4>2
      <4> QED
        BY <2>1, <4>1, <4>3
    <3> QED
      BY <3>1, <3>2
  <2> HIDE DEF h
  <2> QED
    BY <2>5, <2>6
<1> HIDE DEF Done
<1>3. \A k \in 0 .. n : k \in Ok
  <2>1. 0 \in Ok
    BY <1>1
  <2>2. \A k \in 0 .. n : k \in Ok /\ k # n => k + 1 \in Ok
    BY <1>2
  <2> HIDE DEF Ok
  <2> QED
    BY <2>1, <2>2, Climb
<1>4. Done(n)
  BY <1>3
<1>5. PICK f \in [SUBSET (1 .. n) -> A] :
        \A S \in SUBSET (1 .. n) :
          f[S] = IF S = {} THEN base ELSE g[f[S \ {Max(S)}]][Max(S)]
  BY <1>4 DEF Done
<1>6. f = [S \in SUBSET (1 .. n) |-> f[S]]
  OBVIOUS
<1> QED
  BY <1>5, <1>6 DEF Folds

(* What a fold finds at a prefix of the positions.                          *)
LEMMA PrefixFacts ==
  ASSUME NEW n \in Nat, NEW k \in 1 .. n
  PROVE  /\ 1 .. k \in SUBSET (1 .. n) /\ 1 .. k # {}
         /\ Max(1 .. k) = k /\ (1 .. k) \ {k} = 1 .. k - 1
<1>1. k \in 1 .. k /\ \A i \in 1 .. k : i \in 1 .. n
  OBVIOUS
<1> QED
  BY <1>1, GreatestOfPrefix

(* What a fold makes of the positions up to k, from what it made of those   *)
(* before.                                                                  *)
Goes(e, n, base, A, g) ==
  /\ e[{}] = base
  /\ \A k \in 1 .. n : e[1 .. k - 1] \in A => e[1 .. k] = g[e[1 .. k - 1]][k]
Unrolled(F, n, base, e, g) ==
  /\ F[0] = base /\ F[n] = e[1 .. n]
  /\ \A i \in 1 .. n : F[i] = g[F[i - 1]][i]

LEMMA Unroll ==
  ASSUME NEW n \in Nat, NEW A, NEW base \in A, NEW g \in [A -> [1 .. n -> A]],
         NEW e, Goes(e, n, base, A, g)
  PROVE  \E F \in [0 .. n -> A] : Unrolled(F, n, base, e, g)
<1> DEFINE In == {k \in 0 .. n : e[1 .. k] \in A}
           F == [k \in 0 .. n |-> e[1 .. k]]
<1>1. 1 .. 0 = {} /\ 0 \in 0 .. n /\ n \in 0 .. n
  OBVIOUS
<1>2. 0 \in In
  BY <1>1 DEF Goes
<1>3. \A k \in 0 .. n : k \in In /\ k # n => k + 1 \in In
  <2> SUFFICES ASSUME NEW k \in 0 .. n, k \in In, k # n
               PROVE  k + 1 \in In
    OBVIOUS
  <2>1. k + 1 \in 1 .. n /\ k + 1 \in 0 .. n /\ (k + 1) - 1 = k /\ e[1 .. k] \in A
    OBVIOUS
  <2>2. e[1 .. k + 1] = g[e[1 .. k]][k + 1]
    BY <2>1 DEF Goes
  <2> QED
    BY <2>1, <2>2
<1>4. \A k \in 0 .. n : k \in In
  <2> HIDE DEF In
  <2> QED
    BY <1>2, <1>3, Climb
<1>5. F \in [0 .. n -> A]
  BY <1>4
<1>6. ASSUME NEW i \in 1 .. n
      PROVE  F[i] = g[F[i - 1]][i]
  <2>1. i \in 0 .. n /\ i - 1 \in 0 .. n
    OBVIOUS
  <2>2. e[1 .. i - 1] \in A
    BY <1>4, <2>1
  <2>3. F[i] = e[1 .. i] /\ F[i - 1] = e[1 .. i - 1]
    BY <2>1
  <2> QED
    BY <2>2, <2>3 DEF Goes
<1>7. F[0] = base /\ F[n] = e[1 .. n]
  BY <1>1 DEF Goes
<1> HIDE DEF F
<1> QED
  BY <1>5, <1>6, <1>7 DEF Unrolled

-----------------------------------------------------------------------------
(* A function on 0 .. n that goes on from each value to the next. *)
LEMMA Recurs ==
  ASSUME NEW n \in Nat, NEW A, NEW base \in A, NEW g \in [A -> [1 .. n -> A]]
  PROVE  \E F \in [0 .. n -> A] : \E e : Unrolled(F, n, base, e, g)
<1>1. PICK f \in [SUBSET (1 .. n) -> A] : Folds(f, n, base, g)
  BY FoldExists
<1>2. Goes(f, n, base, A, g)
  <2> SUFFICES ASSUME NEW k \in 1 .. n
               PROVE  f[1 .. k] = g[f[1 .. k - 1]][k] /\ f[{}] = base
    BY <1>1 DEF Goes, Folds
  <2>1. /\ 1 .. k \in SUBSET (1 .. n) /\ 1 .. k # {}
        /\ Max(1 .. k) = k /\ (1 .. k) \ {k} = 1 .. k - 1
    BY PrefixFacts
  <2> QED
    BY <1>1, <2>1 DEF Folds
<1> QED
  BY <1>2, Unroll

(* FlattenSeq, sequence by sequence. *)
Flattens(F, ss) ==
  /\ F[0] = <<>> /\ F[Len(ss)] = FlattenSeq(ss)
  /\ \A k \in 1 .. Len(ss) : F[k] = F[k - 1] \o ss[k]

LEMMA FlattenSteps ==
  ASSUME NEW S, NEW ss \in Seq(Seq(S))
  PROVE  \E F \in [0 .. Len(ss) -> Seq(S)] : Flattens(F, ss)
<1> DEFINE n == Len(ss)
           A == Seq(S)
           g == [a \in A |-> [k \in 1 .. n |-> a \o ss[k]]]
<1>1. n \in Nat
  BY LenProperties
<1>2. \A k \in 1 .. n : ss[k] \in A
  BY ElementOfSeq
<1>3. <<>> \in A
  OBVIOUS
<1>4. ASSUME NEW a \in A, NEW k \in 1 .. n
      PROVE  a \o ss[k] \in A
  BY <1>2, ConcatProperties
<1> HIDE DEF n, A
<1>5. g \in [A -> [1 .. n -> A]] /\ \A a \in A, k \in 1 .. n : g[a][k] = a \o ss[k]
  BY <1>4
<1> HIDE DEF g
<1>6. PICK F \in [0 .. n -> A] : \E e : Unrolled(F, n, <<>>, e, g)
  <2>1. g \in [A -> [1 .. n -> A]]
    BY <1>5
  <2> QED
    BY <1>1, <1>3, <2>1, Recurs
<1>7. F[0] = <<>> /\ \A k \in 1 .. n : F[k] = F[k - 1] \o ss[k]
  <2>1. \A k \in 1 .. n : F[k - 1] \in A
    BY <1>1
  <2> QED
    BY <1>5, <1>6, <2>1 DEF Unrolled
<1>8. F[n] = FlattenSeq(ss)
  <2>1. CASE n = 0
    <3>1. ss = <<>>
      BY <2>1, EmptySeq DEF n
    <3>2. FlattenSeq(ss) = ss
      BY <2>1 DEF FlattenSeq, n
    <3> QED
      BY <1>7, <2>1, <3>1, <3>2
  <2>2. CASE n # 0
    <3>0. F[1] = ss[1] /\ 1 \in 1 .. n
      <4>1. 1 \in 1 .. n /\ 1 - 1 = 0
        BY <1>1, <2>2
      <4>2. ss[1] \in A /\ F[1] = F[0] \o ss[1]
        BY <1>2, <1>7, <4>1
      <4>3. <<>> \o ss[1] = ss[1]
        BY <4>2, ConcatEmptySeq DEF A
      <4> QED
        BY <1>7, <4>1, <4>2, <4>3
    <3> DEFINE Steps(f) == f = [i \in 1 .. n |-> IF i = 1 THEN ss[i] ELSE f[i - 1] \o ss[i]]
               h == [i \in 1 .. n |-> F[i]]
    <3>1. FlattenSeq(ss) = (CHOOSE f : Steps(f))[n]
      BY <2>2, Zenon DEF FlattenSeq, n
    <3>2. Steps(h)
      <4>1. ASSUME NEW i \in 1 .. n
            PROVE  F[i] = IF i = 1 THEN ss[i] ELSE h[i - 1] \o ss[i]
        <5>1. CASE i = 1
          BY <3>0, <5>1
        <5>2. CASE i # 1
          <6>1. i - 1 \in 1 .. n
            BY <1>1, <5>2
          <6> QED
            BY <1>7, <5>2, <6>1
        <5> QED
          BY <5>1, <5>2
      <4>2. h = [i \in 1 .. n |-> IF i = 1 THEN ss[i] ELSE h[i - 1] \o ss[i]]
        BY <4>1
      <4> HIDE DEF h
      <4> QED
        BY <4>2
    <3> HIDE DEF h
    <3>3. PICK e : Steps(e) /\ FlattenSeq(ss) = e[n]
      <4> HIDE DEF Steps
      <4> QED
        BY <3>1, <3>2
    <3>4. \A i \in 1 .. n : e[i] = IF i = 1 THEN ss[i] ELSE e[i - 1] \o ss[i]
      BY <3>3
    <3> DEFINE Same == {k \in 0 .. n : k # 0 => e[k] = F[k]}
    <3>5. 0 \in Same
      BY <1>1
    <3>6. ASSUME NEW k \in 0 .. n, k \in Same, k # n
          PROVE  k + 1 \in Same
      <4>1. k + 1 \in 1 .. n /\ k + 1 \in 0 .. n /\ (k + 1) - 1 = k
        <5> HIDE DEF Same
        <5> QED
          BY <1>1, <3>6
      <4>2. F[k + 1] = F[k] \o ss[k + 1]
        BY <1>7, <4>1
      <4>3. CASE k = 0
        <5>1. e[1] = ss[1]
          BY <3>0, <3>4
        <5>2. k + 1 = 1
          BY <4>3
        <5> QED
          BY <3>0, <4>1, <5>1, <5>2
      <4>4. CASE k # 0
        <5>1. e[k] = F[k] /\ k + 1 # 1
          BY <3>6, <4>4
        <5> QED
          BY <3>4, <4>1, <4>2, <5>1
      <4> QED
        BY <4>3, <4>4
    <3>7. \A k \in 0 .. n : k \in Same
      <4> HIDE DEF Same
      <4> QED
        BY <1>1, <3>5, <3>6, Climb
    <3>8. n \in 0 .. n
      BY <1>1
    <3> QED
      BY <2>2, <3>3, <3>7, <3>8
  <2> QED
    BY <2>1, <2>2
<1> QED
  BY <1>7, <1>8 DEF Flattens, n, A

(* A sequence more is flattened into the end. *)
LEMMA FlattenAppend ==
  ASSUME NEW S, NEW ss \in Seq(Seq(S)), NEW x \in Seq(S)
  PROVE  /\ FlattenSeq(ss) \in Seq(S)
         /\ FlattenSeq(Append(ss, x)) = FlattenSeq(ss) \o x
<1> DEFINE n == Len(ss)
           tt == Append(ss, x)
<1>1. n \in Nat /\ tt \in Seq(Seq(S)) /\ Len(tt) = n + 1 /\ tt[n + 1] = x
      /\ \A k \in 1 .. n : tt[k] = ss[k]
  BY AppendProperties, LenProperties
<1>2. PICK F \in [0 .. n -> Seq(S)] : Flattens(F, ss)
  BY FlattenSteps
<1> HIDE DEF tt
<1>3. PICK G \in [0 .. Len(tt) -> Seq(S)] : Flattens(G, tt)
  BY <1>1, FlattenSteps
<1> DEFINE Same == {k \in 0 .. n : G[k] = F[k]}
<1> HIDE DEF n
<1>4. 0 \in Same
  BY <1>1, <1>2, <1>3 DEF Flattens
<1>5. ASSUME NEW k \in 0 .. n, k \in Same, k # n
      PROVE  k + 1 \in Same
  <2>1. k + 1 \in 1 .. n /\ k + 1 \in 0 .. n /\ (k + 1) - 1 = k /\ k + 1 \in 1 .. Len(tt)
    <3> HIDE DEF Same
    <3> QED
      BY <1>1, <1>5
  <2>2. F[k + 1] = F[k] \o ss[k + 1] /\ G[k + 1] = G[k] \o tt[k + 1] /\ tt[k + 1] = ss[k + 1]
    BY <1>1, <1>2, <1>3, <2>1 DEF Flattens, n
  <2> QED
    BY <1>5, <2>1, <2>2
<1>6. \A k \in 0 .. n : k \in Same
  <2> HIDE DEF Same
  <2> QED
    BY <1>1, <1>4, <1>5, Climb
<1>7. n \in 0 .. n /\ n + 1 \in 1 .. Len(tt) /\ (n + 1) - 1 = n
  BY <1>1
<1>8. G[n + 1] = G[n] \o x /\ G[n + 1] = FlattenSeq(tt)
  BY <1>1, <1>3, <1>7 DEF Flattens
<1>9. G[n] = F[n] /\ F[n] = FlattenSeq(ss) /\ F[n] \in Seq(S)
  BY <1>2, <1>6, <1>7 DEF Flattens, n
<1> QED
  BY <1>8, <1>9 DEF tt

(* Nothing but empty sequences makes an empty one. *)
LEMMA FlattenNothing ==
  ASSUME NEW ss, ss \in Seq(Seq({}))
  PROVE  FlattenSeq(ss) = <<>>
<1>1. PICK F \in [0 .. Len(ss) -> Seq({})] : Flattens(F, ss)
  BY FlattenSteps
<1>2. Len(ss) \in 0 .. Len(ss)
  BY LenProperties
<1>3. FlattenSeq(ss) \in Seq({})
  BY <1>1, <1>2 DEF Flattens
<1> QED
  BY <1>3

(* How a function is recognised as a sequence with one element more. *)
Longer(t, s, x, n) ==
  /\ n = Len(s) /\ t = [k \in 1 .. n + 1 |-> t[k]]
  /\ t[n + 1] = x /\ \A k \in 1 .. n : t[k] = s[k]

LEMMA IsAppend ==
  ASSUME NEW S, NEW s \in Seq(S), NEW x \in S, NEW t, NEW n, Longer(t, s, x, n)
  PROVE  t = Append(s, x)
<1> USE DEF Longer
<1> DEFINE u == Append(s, x)
<1>1. n \in Nat /\ \A k \in 1 .. n + 1 : k \in 1 .. n \/ k = n + 1
  BY LenProperties
<1>2. u \in Seq(S) /\ Len(u) = n + 1 /\ u[n + 1] = x /\ \A k \in 1 .. n : u[k] = s[k]
  BY AppendProperties
<1> HIDE DEF u
<1>3. u = [k \in 1 .. n + 1 |-> u[k]]
  BY <1>2, LenProperties
<1>4. \A k \in 1 .. n + 1 : t[k] = u[k]
  BY <1>1, <1>2
<1> QED
  BY <1>3, <1>4 DEF u

(* Two sequences one after the other, up to the k-th of the second. *)
Joined(s, t, k) == [i \in 1 .. Len(s) + k |-> IF i <= Len(s) THEN s[i] ELSE t[i - Len(s)]]

LEMMA JoinedFacts ==
  ASSUME NEW S, NEW s \in Seq(S), NEW t \in Seq(S)
  PROVE  /\ Joined(s, t, 0) = s /\ Joined(s, t, Len(t)) = s \o t
         /\ \A k \in 0 .. Len(t) : Joined(s, t, k) \in Seq(S)
         /\ \A k \in 0 .. Len(t) : k # Len(t) =>
              Joined(s, t, k + 1) = Append(Joined(s, t, k), t[k + 1])
<1> DEFINE n == Len(s)
           m == Len(t)
<1>1. n \in Nat /\ m \in Nat /\ (\A i \in 1 .. n : s[i] \in S) /\ (\A i \in 1 .. m : t[i] \in S)
  BY LenProperties, ElementOfSeq
<1>2. \A k : Joined(s, t, k) = [i \in 1 .. n + k |-> IF i <= n THEN s[i] ELSE t[i - n]]
  BY DEF Joined
<1>3. s = [i \in 1 .. n |-> s[i]]
  BY LenProperties
<1>4. s \o t = [i \in 1 .. n + m |-> IF i <= n THEN s[i] ELSE t[i - n]]
  <2> DEFINE u == s \o t
  <2>1. u \in Seq(S) /\ Len(u) = n + m
        /\ \A i \in 1 .. n + m : u[i] = IF i <= n THEN s[i] ELSE t[i - n]
    BY ConcatProperties
  <2> HIDE DEF u, n, m
  <2>2. u = [i \in 1 .. n + m |-> u[i]]
    BY <2>1, LenProperties
  <2>3. u = [i \in 1 .. n + m |-> IF i <= n THEN s[i] ELSE t[i - n]]
    BY <2>1, <2>2
  <2> QED
    BY <2>3 DEF u
<1> HIDE DEF n, m
<1>5. Joined(s, t, 0) = s
  <2>1. Joined(s, t, 0) = [i \in 1 .. n |-> s[i]]
    BY <1>1, <1>2
  <2> QED
    BY <1>3, <2>1
<1>6. ASSUME NEW k \in 0 .. m
      PROVE  Joined(s, t, k) \in Seq(S) /\ Len(Joined(s, t, k)) = n + k
  <2>1. \A i \in 1 .. n + k : i <= n \/ i - n \in 1 .. m
    BY <1>1
  <2>2. \A i \in 1 .. n + k : (IF i <= n THEN s[i] ELSE t[i - n]) \in S
    BY <1>1, <2>1
  <2>3. n + k \in Nat
    BY <1>1
  <2> QED
    BY <1>2, <2>2, <2>3
<1>7. ASSUME NEW k \in 0 .. m, k # m
      PROVE  Joined(s, t, k + 1) = Append(Joined(s, t, k), t[k + 1])
  <2>1. t[k + 1] \in S
    BY <1>1, <1>7
  <2>2. n + (k + 1) = (n + k) + 1 /\ ~((n + k) + 1 <= n) /\ ((n + k) + 1) - n = k + 1
        /\ (n + k) + 1 \in 1 .. (n + k) + 1 /\ \A i \in 1 .. n + k : i \in 1 .. (n + k) + 1
    BY <1>1
  <2>3. Joined(s, t, k + 1) = [i \in 1 .. (n + k) + 1 |-> Joined(s, t, k + 1)[i]]
    BY <1>2, <2>2
  <2>4. Joined(s, t, k + 1)[(n + k) + 1] = t[k + 1]
    BY <1>2, <2>2
  <2>5. \A i \in 1 .. n + k : Joined(s, t, k + 1)[i] = Joined(s, t, k)[i]
    <3> TAKE i \in 1 .. n + k
    <3>1. i \in 1 .. n + (k + 1)
      BY <2>2
    <3> QED
      BY <1>2, <3>1
  <2>6. Longer(Joined(s, t, k + 1), Joined(s, t, k), t[k + 1], n + k)
    BY <1>6, <2>3, <2>4, <2>5 DEF Longer
  <2>7. Joined(s, t, k) \in Seq(S)
    BY <1>6
  <2> QED
    BY <2>1, <2>6, <2>7, IsAppend
<1> QED
  BY <1>2, <1>4, <1>5, <1>6, <1>7 DEF m
==============================================================================
