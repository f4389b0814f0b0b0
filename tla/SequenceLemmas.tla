---------------------------- MODULE SequenceLemmas ----------------------------
(***************************************************************************)
(* Facts about operators of the community modules that the proofs of more  *)
(* than one component use.                                                 *)
(*                                                                         *)
(* The library's induction theorems take the induction hypothesis as an    *)
(* operator, for which no installed prover finds an instance.  Here it is  *)
(* a set: the numbers for which the hypothesis holds.                      *)
(***************************************************************************)
EXTENDS SequencesExt, SequenceTheorems, FiniteSetTheorems, TLAPS

\* A set of numbers that holds 0, and with a number the next, holds them all.
LEMMA Induction ==
  ASSUME NEW S, 0 \in S, \A n \in Nat : n \in S => n + 1 \in S
  PROVE  \A n \in Nat : n \in S
<1>. DEFINE R == OpToRel(<, Nat)
            T == Nat \ S
<1>1. IsWellFoundedOn(R, Nat)
  BY NatLessThanWellFounded
<1>2. SUFFICES ASSUME T # {} PROVE FALSE
  OBVIOUS
<1>3. PICK x \in T : \A y \in T : ~(<<y, x>> \in R)
  <2>1. T \subseteq Nat
    OBVIOUS
  <2>. HIDE DEF R, T
  <2>. QED BY <1>1, <1>2, <2>1, WFMin
<1>4. x \in Nat /\ x \notin S /\ x # 0
  OBVIOUS
<1>5. x - 1 \in Nat /\ (x - 1) + 1 = x
  BY <1>4
<1>6. x - 1 \in T
  BY <1>4, <1>5
<1>7. <<x - 1, x>> \in R
  BY <1>4, <1>5 DEF OpToRel
<1>. QED BY <1>3, <1>6, <1>7

\* SetToSeq lists the elements of a finite set, each once.
LEMMA SetToSeqProperties ==
  ASSUME NEW S, IsFiniteSet(S)
  PROVE  /\ SetToSeq(S) \in Seq(S)
         /\ ToSet(SetToSeq(S)) = S
         /\ IsInjective(SetToSeq(S))
<1>. DEFINE n == Cardinality(S)
            s == SetToSeq(S)
<1>1. n \in Nat /\ ExistsBijection(1 .. n, S)
  <2>1. n \in Nat
    BY FS_CardinalityType
  <2>2. IsFiniteSet(1 .. n) /\ Cardinality(1 .. n) = n
    BY <2>1, FS_Interval
  <2>. QED BY <2>1, <2>2, FS_SameCardinalityBij
<1>2. \E f \in [1 .. n -> S] : IsInjective(f)
  BY <1>1 DEF ExistsBijection, Bijection, Injection
<1>3. s \in [1 .. n -> S] /\ IsInjective(s)
  BY <1>2 DEF SetToSeq
<1>4. s \in Seq(S)
  BY <1>1, <1>3
<1>5. s \in Injection(1 .. n, S)
  BY <1>3 DEF Injection
<1>6. s \in Surjection(1 .. n, S)
  BY <1>1, <1>5, FS_Injection, FS_Interval
<1>. QED
  BY <1>1, <1>3, <1>4, <1>6 DEF Surjection, ToSet

\* A recursion on 0 .. n: it begins with base, and step[i] takes the value at
\* i - 1 to the one at i.
Recursions(D) == [Nat -> [D -> D]]
Solutions(D, base, step, n) ==
  {f \in [0 .. n -> D] : f[0] = base /\ \A i \in 1 .. n : f[i] = step[i][f[i - 1]]}

\* Every recursion has a solution.
LEMMA RecursionSolvable ==
  ASSUME NEW D, NEW base \in D, NEW step \in Recursions(D), NEW m \in Nat
  PROVE  Solutions(D, base, step, m) # {}
<1>. DEFINE S == {n \in Nat : Solutions(D, base, step, n) # {}}
<1>. USE DEF Recursions
<1>1. 0 \in S
  <2>. DEFINE f == [i \in 0 .. 0 |-> base]
  <2>1. f \in Solutions(D, base, step, 0)
    BY DEF Solutions
  <2>. QED BY <2>1
<1>2. ASSUME NEW n \in Nat, n \in S PROVE n + 1 \in S
  <2>1. PICK f : f \in Solutions(D, base, step, n)
    BY <1>2
  <2>. DEFINE h == [i \in 0 .. n + 1 |-> IF i <= n THEN f[i] ELSE step[n + 1][f[n]]]
  <2>2. f \in [0 .. n -> D] /\ f[0] = base /\ \A i \in 1 .. n : f[i] = step[i][f[i - 1]]
    BY <2>1 DEF Solutions
  <2>3. h \in [0 .. n + 1 -> D]
    BY <2>2
  <2>4. h[0] = base
    BY <2>2
  <2>5. ASSUME NEW i \in 1 .. n + 1 PROVE h[i] = step[i][h[i - 1]]
    <3>1. CASE i = n + 1
      BY <3>1
    <3>2. CASE i <= n
      BY <2>2, <3>2
    <3>. QED BY <3>1, <3>2
  <2>. HIDE DEF h
  <2>6. h \in Solutions(D, base, step, n + 1)
    BY <2>3, <2>4, <2>5 DEF Solutions
  <2>. QED BY <2>6
<1>. HIDE DEF S
<1>3. \A n \in Nat : n \in S
  BY <1>1, <1>2, Induction
<1>. QED BY <1>3 DEF S

\* Concatenation, by elements.
LEMMA ConcatElements ==
  ASSUME NEW S, NEW s \in Seq(S), NEW t \in Seq(S)
  PROVE  /\ s \o t \in Seq(S)
         /\ ToSet(s \o t) = ToSet(s) \union ToSet(t)
         /\ IsInjective(s) /\ IsInjective(t) /\ ToSet(s) \intersect ToSet(t) = {} =>
              IsInjective(s \o t)
<1>1. /\ s \o t \in Seq(S) /\ Len(s \o t) = Len(s) + Len(t)
      /\ DOMAIN (s \o t) = 1 .. Len(s) + Len(t)
      /\ \A i \in 1 .. Len(s) : (s \o t)[i] = s[i]
      /\ \A i \in 1 .. Len(t) : (s \o t)[Len(s) + i] = t[i]
  OBVIOUS
<1>2. ToSet(s \o t) = ToSet(s) \union ToSet(t)
  <2>1. ASSUME NEW i \in 1 .. Len(s) + Len(t)
        PROVE  (s \o t)[i] \in ToSet(s) \union ToSet(t)
    <3>1. CASE i \in 1 .. Len(s)
      BY <1>1, <3>1 DEF ToSet
    <3>2. CASE i - Len(s) \in 1 .. Len(t)
      BY <1>1, <3>2 DEF ToSet
    <3>. QED BY <3>1, <3>2
  <2>2. ASSUME NEW i \in 1 .. Len(s) PROVE s[i] \in ToSet(s \o t)
    BY <1>1 DEF ToSet
  <2>3. ASSUME NEW i \in 1 .. Len(t) PROVE t[i] \in ToSet(s \o t)
    BY <1>1 DEF ToSet
  <2>4. ToSet(s \o t) \subseteq ToSet(s) \union ToSet(t)
    BY <1>1, <2>1 DEF ToSet
  <2>5. ToSet(s) \subseteq ToSet(s \o t)
    BY <2>2 DEF ToSet
  <2>6. ToSet(t) \subseteq ToSet(s \o t)
    BY <2>3 DEF ToSet
  <2>. QED BY <2>4, <2>5, <2>6
<1>3. ASSUME IsInjective(s), IsInjective(t), ToSet(s) \intersect ToSet(t) = {},
             NEW i \in 1 .. Len(s) + Len(t), NEW j \in 1 .. Len(s) + Len(t),
             (s \o t)[i] = (s \o t)[j]
      PROVE  i = j
  <2>1. CASE i <= Len(s) /\ j <= Len(s)
    BY <1>1, <1>3, <2>1 DEF IsInjective
  <2>2. CASE i > Len(s) /\ j > Len(s)
    BY <1>3, <2>2 DEF IsInjective
  <2>3. CASE i <= Len(s) /\ j > Len(s)
    BY <1>3, <2>3 DEF ToSet
  <2>4. CASE i > Len(s) /\ j <= Len(s)
    BY <1>3, <2>4 DEF ToSet
  <2>. QED BY <2>1, <2>2, <2>3, <2>4
<1>. QED BY <1>1, <1>2, <1>3 DEF IsInjective

\* What FlattenSeq computes.
LEMMA FlattenSeqUnfolds ==
  ASSUME NEW S, NEW seqs \in Seq(Seq(S)), NEW n \in Nat, n = Len(seqs), n > 0
  PROVE  \E f :
           /\ f[1] = seqs[1]
           /\ \A i \in 1 .. n - 1 : f[i + 1] = f[i] \o seqs[i + 1]
           /\ FlattenSeq(seqs) = f[n]
<1>1. \A i \in 1 .. n : seqs[i] \in Seq(S)
  OBVIOUS
<1>2. PICK g \in Recursions(Seq(S)) :
             \A i \in 1 .. n : \A v \in Seq(S) : g[i][v] = v \o seqs[i]
  <2>. DEFINE g == [i \in Nat |-> [v \in Seq(S) |-> IF i \in 1 .. n THEN v \o seqs[i] ELSE v]]
  <2>1. g \in [Nat -> [Seq(S) -> Seq(S)]]
    BY <1>1
  <2>2. \A i \in 1 .. n : \A v \in Seq(S) : g[i][v] = v \o seqs[i]
    OBVIOUS
  <2>. HIDE DEF g
  <2>. QED BY <2>1, <2>2 DEF Recursions
<1>3. PICK f \in [0 .. n -> Seq(S)] :
             f[0] = <<>> /\ \A i \in 1 .. n : f[i] = g[i][f[i - 1]]
  <2>1. <<>> \in Seq(S)
    OBVIOUS
  <2>2. Solutions(Seq(S), <<>>, g, n) # {}
    BY <2>1, RecursionSolvable
  <2>. QED BY <2>2 DEF Solutions
<1>4. ASSUME NEW i \in 1 .. n PROVE f[i] = f[i - 1] \o seqs[i]
  <2>1. f[i - 1] \in Seq(S)
    <3>1. i - 1 \in 0 .. n
      OBVIOUS
    <3>. QED BY <3>1
  <2>. QED BY <1>2, <1>3, <2>1
<1>5. f[1] = seqs[1]
  <2>1. f[1] = <<>> \o seqs[1]
    <3>1. 1 \in 1 .. n /\ 1 - 1 = 0
      OBVIOUS
    <3>. QED BY <1>3, <1>4, <3>1
  <2>2. <<>> \o seqs[1] = seqs[1]
    BY <1>1, ConcatEmptySeq
  <2>. QED BY <2>1, <2>2
<1>. DEFINE F(h) == h = [i \in 1 .. n |-> IF i = 1 THEN seqs[i] ELSE h[i - 1] \o seqs[i]]
            flat == CHOOSE h : F(h)
            h == [i \in 1 .. n |-> f[i]]
<1>6. F(h)
  <2>1. ASSUME NEW i \in 1 .. n
        PROVE  f[i] = IF i = 1 THEN seqs[i] ELSE h[i - 1] \o seqs[i]
    <3>1. CASE i = 1
      BY <1>5, <3>1
    <3>2. CASE i # 1
      <4>1. h[i - 1] = f[i - 1]
        BY <3>2
      <4>. QED BY <1>4, <3>2, <4>1
    <3>. QED BY <3>1, <3>2
  <2>. QED BY <2>1
<1>7. F(flat)
  <2>. HIDE DEF F, h
  <2>. QED BY <1>6
<1>8. FlattenSeq(seqs) = flat[n]
  BY DEF FlattenSeq
<1>9. flat[1] = seqs[1] /\ \A i \in 1 .. n - 1 : flat[i + 1] = flat[i] \o seqs[i + 1]
  <2>. HIDE DEF flat
  <2>1. 1 \in 1 .. n /\ \A i \in 1 .. n - 1 : i + 1 \in 1 .. n /\ i + 1 # 1 /\ (i + 1) - 1 = i
    OBVIOUS
  <2>. QED BY <1>7, <2>1
<1>. HIDE DEF flat
<1>. QED BY <1>8, <1>9

\* FlattenSeq lists the elements of all sequences, each once if it is listed once
\* by one of them.
LEMMA FlattenSeqProperties ==
  ASSUME NEW S, NEW seqs \in Seq(Seq(S))
  PROVE  /\ FlattenSeq(seqs) \in Seq(S)
         /\ ToSet(FlattenSeq(seqs)) = UNION {ToSet(seqs[i]) : i \in DOMAIN seqs}
         /\ /\ \A i \in DOMAIN seqs : IsInjective(seqs[i])
            /\ \A i, j \in DOMAIN seqs : i # j => ToSet(seqs[i]) \intersect ToSet(seqs[j]) = {}
            => IsInjective(FlattenSeq(seqs))
<1>1. CASE Len(seqs) = 0
  BY <1>1 DEF FlattenSeq, ToSet, IsInjective
<1>2. ASSUME NEW n \in Nat, n = Len(seqs), n > 0
      PROVE  /\ FlattenSeq(seqs) \in Seq(S)
             /\ ToSet(FlattenSeq(seqs)) = UNION {ToSet(seqs[i]) : i \in 1 .. n}
             /\ /\ \A i \in 1 .. n : IsInjective(seqs[i])
                /\ \A i, j \in 1 .. n : i # j => ToSet(seqs[i]) \intersect ToSet(seqs[j]) = {}
                => IsInjective(FlattenSeq(seqs))
  <2>1. \A i \in 1 .. n : seqs[i] \in Seq(S)
    BY <1>2
  <2>2. PICK f : /\ f[1] = seqs[1]
                 /\ \A i \in 1 .. n - 1 : f[i + 1] = f[i] \o seqs[i + 1]
                 /\ FlattenSeq(seqs) = f[n]
    BY <1>2, FlattenSeqUnfolds
  <2>. DEFINE Apart(m) ==
                /\ \A i \in 1 .. m : IsInjective(seqs[i])
                /\ \A i, j \in 1 .. m : i # j => ToSet(seqs[i]) \intersect ToSet(seqs[j]) = {}
              Good(m) ==
                /\ f[m] \in Seq(S)
                /\ ToSet(f[m]) = UNION {ToSet(seqs[i]) : i \in 1 .. m}
                /\ Apart(m) => IsInjective(f[m])
              P == {m \in Nat : m < n => Good(m + 1)}
  <2>3. Good(1)
    <3>1. f[1] \in Seq(S)
      BY <1>2, <2>1, <2>2
    <3>2. ToSet(f[1]) = UNION {ToSet(seqs[i]) : i \in 1 .. 1}
      BY <2>2
    <3>. QED BY <2>2, <3>1, <3>2
  <2>4. ASSUME NEW m \in 1 .. n - 1, Good(m) PROVE Good(m + 1)
    <3>1. f[m + 1] = f[m] \o seqs[m + 1] /\ seqs[m + 1] \in Seq(S)
      <4>1. m + 1 \in 1 .. n
        BY <1>2
      <4>. QED BY <2>1, <2>2, <4>1
    <3>2. /\ f[m + 1] \in Seq(S)
          /\ ToSet(f[m + 1]) = ToSet(f[m]) \union ToSet(seqs[m + 1])
      BY <2>4, <3>1, ConcatElements
    <3>3. 1 .. m + 1 = (1 .. m) \union {m + 1}
      BY <1>2
    <3>4. ToSet(f[m + 1]) = UNION {ToSet(seqs[i]) : i \in 1 .. m + 1}
      BY <2>4, <3>2, <3>3
    <3>5. ASSUME Apart(m + 1) PROVE IsInjective(f[m + 1])
      <4>1. Apart(m) /\ IsInjective(seqs[m + 1])
        BY <3>3, <3>5
      <4>2. ToSet(f[m]) \intersect ToSet(seqs[m + 1]) = {}
        <5>1. ASSUME NEW i \in 1 .. m PROVE ToSet(seqs[i]) \intersect ToSet(seqs[m + 1]) = {}
          <6>1. i \in 1 .. m + 1 /\ m + 1 \in 1 .. m + 1 /\ i # m + 1
            OBVIOUS
          <6>. QED BY <3>5, <6>1
        <5>. QED BY <2>4, <5>1
      <4>3. IsInjective(f[m])
        BY <2>4, <4>1
      <4>. QED BY <2>4, <3>1, <4>1, <4>2, <4>3, ConcatElements
    <3>. QED BY <3>2, <3>4, <3>5
  <2>. HIDE DEF Good
  <2>5. 0 \in P
    BY <2>3
  <2>6. ASSUME NEW m \in Nat, m \in P PROVE m + 1 \in P
    BY <1>2, <2>4, <2>6
  <2>7. n - 1 \in P
    <3>. HIDE DEF P
    <3>1. \A m \in Nat : m \in P
      BY <2>5, <2>6, Induction
    <3>2. n - 1 \in Nat
      BY <1>2
    <3>. QED BY <3>1, <3>2
  <2>8. Good(n)
    BY <1>2, <2>7
  <2>. QED BY <2>2, <2>8 DEF Good
<1>3. Len(seqs) \in Nat /\ DOMAIN seqs = 1 .. Len(seqs)
  OBVIOUS
<1>. QED BY <1>1, <1>2, <1>3

\* The head of a sequence that lists things once, and the rest.
LEMMA HeadTailElements ==
  ASSUME NEW S, NEW s \in Seq(S), s # <<>>, IsInjective(s)
  PROVE  /\ Head(s) \in S /\ Head(s) \in ToSet(s)
         /\ Tail(s) \in Seq(S) /\ IsInjective(Tail(s))
         /\ ToSet(Tail(s)) = ToSet(s) \ {Head(s)}
<1>1. /\ Len(s) \in Nat \ {0} /\ DOMAIN s = 1 .. Len(s) /\ Head(s) = s[1] /\ Head(s) \in S
      /\ Tail(s) \in Seq(S) /\ DOMAIN Tail(s) = 1 .. Len(s) - 1
      /\ \A i \in 1 .. Len(s) - 1 : Tail(s)[i] = s[i + 1]
  OBVIOUS
<1>2. Head(s) \in ToSet(s)
  BY <1>1 DEF ToSet
<1>3. IsInjective(Tail(s))
  <2>1. ASSUME NEW i \in 1 .. Len(s) - 1, NEW j \in 1 .. Len(s) - 1, Tail(s)[i] = Tail(s)[j]
        PROVE  i = j
    <3>1. i + 1 \in DOMAIN s /\ j + 1 \in DOMAIN s /\ s[i + 1] = s[j + 1]
      BY <1>1, <2>1
    <3>2. i + 1 = j + 1
      BY <3>1 DEF IsInjective
    <3>. QED BY <1>1, <3>2
  <2>. QED BY <1>1, <2>1 DEF IsInjective
<1>4. ASSUME NEW i \in 1 .. Len(s) - 1 PROVE Tail(s)[i] \in ToSet(s) \ {Head(s)}
  <2>1. i + 1 \in DOMAIN s /\ 1 \in DOMAIN s /\ i + 1 # 1
    BY <1>1
  <2>. QED BY <1>1, <2>1 DEF ToSet, IsInjective
<1>5. ASSUME NEW i \in DOMAIN s, s[i] # Head(s) PROVE s[i] \in ToSet(Tail(s))
  <2>1. i - 1 \in 1 .. Len(s) - 1 /\ (i - 1) + 1 = i
    BY <1>1, <1>5
  <2>2. Tail(s)[i - 1] = s[i]
    BY <1>1, <2>1
  <2>. QED BY <1>1, <2>1, <2>2 DEF ToSet
<1>6. ToSet(Tail(s)) \subseteq ToSet(s) \ {Head(s)}
  BY <1>1, <1>4 DEF ToSet
<1>7. ToSet(s) \ {Head(s)} \subseteq ToSet(Tail(s))
  BY <1>5 DEF ToSet
<1>. QED BY <1>1, <1>2, <1>3, <1>6, <1>7

=============================================================================
