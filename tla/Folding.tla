------------------------------- MODULE Folding -------------------------------
(***************************************************************************)
(* What FoldLeft computes, for any operator.  The provers cannot           *)
(* instantiate a theorem about an operator, but a module can be: its       *)
(* theorems are then cited for the operator it is instantiated with.       *)
(***************************************************************************)
EXTENDS Integers, SequencesExt, WellFoundedInduction, TLAPS

CONSTANT Op(_, _)     \* what folds an element into a result

Fold(base, seq) == FoldLeft(Op, base, seq)

(* Induction over the natural numbers, with a set for the predicate.       *)
LEMMA Naturals == ASSUME NEW T, 0 \in T, \A n \in Nat : n \in T => n + 1 \in T PROVE Nat \subseteq T
<1> DEFINE R == OpToRel(<, Nat)
<1> SUFFICES ASSUME Nat \ T # {} PROVE FALSE
  OBVIOUS
<1>1. IsWellFoundedOn(R, Nat)
  BY NatLessThanWellFounded
<1>2. \A x, y \in Nat : y < x => <<y, x>> \in R
  BY DEF OpToRel
<1> HIDE DEF R
<1>3. PICK x \in Nat \ T : \A y \in Nat \ T : ~(<<y, x>> \in R)
  BY <1>1, WFMin
<1>4. x - 1 \in Nat /\ x - 1 < x /\ x - 1 + 1 = x
  BY <1>3
<1> QED
  BY <1>2, <1>3, <1>4

LEMMA GreatestIsIn ==
  ASSUME NEW n \in Nat, NEW s \in SUBSET (1..n), s # {}
  PROVE  Max(s) \in s /\ \A y \in s : Max(s) >= y
<1> DEFINE T == {m \in Nat : \A u \in SUBSET (1..m) : u # {} => \E x \in u : \A y \in u : x >= y}
<1>1. 0 \in T
  <2>1. 1..0 = {}
    OBVIOUS
  <2> QED
    BY <2>1
<1>2. ASSUME NEW m \in Nat, m \in T PROVE m + 1 \in T
  <2>1. ASSUME NEW u \in SUBSET (1..(m + 1)), u # {} PROVE \E x \in u : \A y \in u : x >= y
    <3>1. CASE m + 1 \in u
      BY <3>1
    <3>2. CASE m + 1 \notin u
      <4>1. u \in SUBSET (1..m)
        BY <3>2
      <4> QED
        BY <1>2, <2>1, <4>1
    <3> QED
      BY <3>1, <3>2
  <2> QED
    BY <2>1
<1> HIDE DEF T
<1>3. n \in T
  BY <1>1, <1>2, Naturals
<1>4. \E x \in s : \A y \in s : x >= y
  BY <1>3 DEF T
<1> QED
  BY <1>4 DEF Max

(* The fold over a set of positions, as FoldLeft runs through them.        *)
OfPart(base, seq, f, s) ==
  IF s = {} THEN base ELSE LET x == Max(s) IN Op(f[s \ {x}], seq[x])

OfParts(base, seq, n, f) == f = [s \in SUBSET (1..n) |-> OfPart(base, seq, f, s)]

LEMMA OfPartsExist ==
  ASSUME NEW base, NEW seq, NEW n \in Nat
  PROVE  \E f : OfParts(base, seq, n, f)
<1> DEFINE T == {m \in Nat : \E f : OfParts(base, seq, m, f)}
<1>1. 0 \in T
  <2> DEFINE f == [s \in SUBSET (1..0) |-> base]
  <2>1. \A s \in SUBSET (1..0) : s = {}
    OBVIOUS
  <2>2. \A s \in SUBSET (1..0) : f[s] = OfPart(base, seq, f, s)
    BY <2>1 DEF OfPart
  <2>3. OfParts(base, seq, 0, f)
    BY <2>2 DEF OfParts
  <2> QED
    BY <2>3
<1>2. ASSUME NEW m \in Nat, m \in T PROVE m + 1 \in T
  <2>1. PICK f : f = [s \in SUBSET (1..m) |-> OfPart(base, seq, f, s)]
    BY <1>2 DEF OfParts
  <2> DEFINE g == [s \in SUBSET (1..(m + 1)) |-> OfPart(base, seq, f, s)]
  <2>2. \A s \in SUBSET (1..m) : s \in SUBSET (1..(m + 1))
    OBVIOUS
  <2>3. \A s \in SUBSET (1..m) : g[s] = f[s]
    <3> HIDE DEF g
    <3>1. \A s \in SUBSET (1..(m + 1)) : g[s] = OfPart(base, seq, f, s)
      BY DEF g
    <3> QED
      BY <2>1, <2>2, <3>1
  <2>4. ASSUME NEW s \in SUBSET (1..(m + 1)) PROVE g[s] = OfPart(base, seq, g, s)
    <3>1. CASE s = {}
      BY <3>1 DEF OfPart
    <3>2. CASE s # {}
      <4>1. PICK x : x = Max(s)
        OBVIOUS
      <4>2. x \in s /\ \A y \in s : x >= y
        <5>1. m + 1 \in Nat
          OBVIOUS
        <5> QED
          BY <3>2, <4>1, <5>1, GreatestIsIn
      <4>3. s \ {x} \in SUBSET (1..m)
        BY <4>2
      <4>4. g[s \ {x}] = f[s \ {x}]
        BY <2>3, <4>3
      <4> HIDE DEF g
      <4>5. OfPart(base, seq, g, s) = OfPart(base, seq, f, s)
        BY <4>1, <4>4 DEF OfPart
      <4> QED
        BY <4>5 DEF g
    <3> QED
      BY <3>1, <3>2
  <2>5. g = [s \in SUBSET (1..(m + 1)) |-> OfPart(base, seq, g, s)]
    BY <2>4
  <2>6. OfParts(base, seq, m + 1, g)
    BY <2>5 DEF OfParts
  <2> QED
    BY <2>6
<1> HIDE DEF T
<1>3. n \in T
  BY <1>1, <1>2, Naturals
<1> QED
  BY <1>3 DEF T

(* The partial results of a fold over a sequence of n elements.            *)
Runs(base, seq, n, g) ==
  /\ g[0] = base
  /\ \A k \in 1..n : g[k] = Op(g[k - 1], seq[k])
  /\ Fold(base, seq) = g[n]

(* A fold runs through the sequence from left to right.  About FoldLeft,   *)
(* whose definition runs through sets of positions.                        *)
THEOREM FoldRuns ==
  ASSUME NEW base, NEW seq, NEW n \in Nat, DOMAIN seq = 1..n
  PROVE  \E g : Runs(base, seq, n, g)
<1>1. PICK f : OfParts(base, seq, n, f) /\ Fold(base, seq) = f[1..n]
  <2> DEFINE f == CHOOSE f : OfParts(base, seq, n, f)
  <2>1. Fold(base, seq) = f[1..n]
    BY DEF Fold, FoldLeft, MapThenFoldSet, OfParts, OfPart
  <2>2. OfParts(base, seq, n, f)
    BY OfPartsExist
  <2> QED
    BY <2>1, <2>2
<1>2. \A s \in SUBSET (1..n) : f[s] = OfPart(base, seq, f, s)
  BY <1>1 DEF OfParts
<1> DEFINE g == [k \in 0..n |-> f[1..k]]
<1>3. g[0] = base
  <2>1. 1..0 = {}
    OBVIOUS
  <2>2. {} \in SUBSET (1..n) /\ 0 \in 0..n
    OBVIOUS
  <2>3. f[{}] = base
    BY <1>2, <2>2 DEF OfPart
  <2> QED
    BY <2>1, <2>2, <2>3
<1>4. ASSUME NEW k \in 1..n PROVE g[k] = Op(g[k - 1], seq[k])
  <2>1. 1..k \in SUBSET (1..n) /\ k - 1 \in 0..n /\ k \in 0..n /\ k \in 1..k
    OBVIOUS
  <2>4. (1..k) \ {k} = 1..(k - 1)
    <3>1. \A i : i \in (1..k) \ {k} <=> i \in 1..(k - 1)
      OBVIOUS
    <3> QED
      BY <3>1
  <2>2. Max(1..k) = k
    <3>1. \A s \in SUBSET (1..n) : s # {} => Max(s) \in s /\ \A y \in s : Max(s) >= y
      BY GreatestIsIn
    <3>2. PICK x : x = Max(1..k)
      OBVIOUS
    <3>3. x \in 1..k /\ \A y \in 1..k : x >= y
      BY <2>1, <3>1, <3>2
    <3> QED
      BY <2>1, <3>2, <3>3
  <2>3. f[1..k] = Op(f[(1..k) \ {k}], seq[k])
    <3>1. 1..k # {}
      BY <2>1
    <3>2. f[1..k] = OfPart(base, seq, f, 1..k)
      BY <1>2, <2>1
    <3> QED
      BY <2>2, <3>1, <3>2 DEF OfPart
  <2> QED
    BY <2>1, <2>3, <2>4
<1>5. Fold(base, seq) = g[n]
  BY <1>1
<1>6. Runs(base, seq, n, g)
  <2> HIDE DEF g
  <2> QED
    BY <1>3, <1>4, <1>5 DEF Runs
<1> QED
  BY <1>6

(* One element more is folded last.  About FoldLeft, see FoldRuns.         *)
THEOREM FoldAppend ==
  ASSUME NEW base, NEW S, NEW seq \in Seq(S), NEW x
  PROVE  Fold(base, Append(seq, x)) = Op(Fold(base, seq), x)
<1>1. PICK n \in Nat : n = Len(seq) /\ DOMAIN seq = 1..n
  OBVIOUS
<1>2. PICK more : more = Append(seq, x)
  OBVIOUS
<1>3. /\ DOMAIN more = 1..(n + 1) /\ more[n + 1] = x
      /\ \A k \in 1..n : more[k] = seq[k]
  BY <1>1, <1>2
<1>4. PICK g : Runs(base, seq, n, g)
  BY <1>1, FoldRuns
<1>5. PICK h : Runs(base, more, n + 1, h)
  <2>1. n + 1 \in Nat
    OBVIOUS
  <2> QED
    BY <1>3, <2>1, FoldRuns
<1> DEFINE T == {k \in Nat : k <= n => h[k] = g[k]}
<1>6. 0 \in T
  BY <1>4, <1>5 DEF Runs
<1>7. ASSUME NEW k \in Nat, k \in T PROVE k + 1 \in T
  <2>1. CASE k + 1 <= n
    <3>1. k + 1 \in 1..n /\ k + 1 \in 1..(n + 1) /\ k + 1 - 1 = k
      BY <2>1
    <3>2. h[k] = g[k]
      BY <1>7, <2>1
    <3>3. h[k + 1] = g[k + 1]
      BY <1>3, <1>4, <1>5, <3>1, <3>2 DEF Runs
    <3> QED
      BY <3>3
  <2> QED
    BY <2>1
<1> HIDE DEF T
<1>8. n \in T
  BY <1>6, <1>7, Naturals
<1>9. h[n] = g[n]
  BY <1>8 DEF T
<1> QED
  <2>1. n + 1 \in 1..(n + 1) /\ n + 1 - 1 = n
    OBVIOUS
  <2> QED
    BY <1>2, <1>3, <1>4, <1>5, <1>9, <2>1 DEF Runs
=============================================================================
