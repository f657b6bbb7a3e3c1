------------------------- MODULE MCAlgorithms_proofs -------------------------
(***************************************************************************)
(* What the algorithms without state compute: any amount that is printed   *)
(* is read as it was meant, any fragments are grouped into rows, any rows  *)
(* give totals, and the inputs of MCAlgorithms are compared as the general *)
(* theorems of MatchingRules_proofs say.                                   *)
(***************************************************************************)
EXTENDS MCAlgorithms, MatchingRules_proofs

(* The folds of OcrText, each with the theorems of Folding.                *)
Adding  == INSTANCE Folding WITH Op <- Ocr!Shifted
Joining == INSTANCE Folding WITH Op <- Ocr!JoinPiece
Keeping == INSTANCE Folding WITH Op <- Ocr!KeepRead
Lining  == INSTANCE Folding WITH Op <- Ocr!JoinFragment

-----------------------------------------------------------------------------
(* The digits of a number.                                                 *)
(* A base in which a number has digits.                                    *)
IsBase(b) ==
  /\ b \in Nat
  /\ \A k \in Nat : /\ k \div b \in Nat /\ k % b \in Nat /\ k % b < b /\ k = (k \div b) * b + (k % b)
                    /\ k >= b => k \div b < k

LEMMA Bases == IsBase(10) /\ IsBase(1000)
BY DEF IsBase

(* The digits of the numbers up to N, as DigitsOf computes them.           *)
DigitsStep(f, base, k) ==
  IF k < base THEN <<k>> ELSE Append(f[k \div base], k % base)

DigitsUpTo(f, base, N) == f = [k \in 0..N |-> DigitsStep(f, base, k)]

LEMMA DigitsExist ==
  ASSUME NEW base, IsBase(base), NEW N \in Nat
  PROVE  \E f : DigitsUpTo(f, base, N)
<1> DEFINE T == {n \in Nat : \E f : DigitsUpTo(f, base, n)}
<1>1. 0 \in T
  <2> DEFINE f == [k \in 0..0 |-> <<k>>]
  <2>1. 0 < base
    BY DEF IsBase
  <2>2. \A k \in 0..0 : f[k] = DigitsStep(f, base, k)
    BY <2>1 DEF DigitsStep
  <2>3. DigitsUpTo(f, base, 0)
    BY <2>2 DEF DigitsUpTo
  <2> QED
    BY <2>3
<1>2. ASSUME NEW n \in Nat, n \in T PROVE n + 1 \in T
  <2>1. PICK f : f = [k \in 0..n |-> DigitsStep(f, base, k)]
    BY <1>2 DEF DigitsUpTo
  <2> DEFINE g == [k \in 0..(n + 1) |-> DigitsStep(f, base, k)]
  <2>2. \A k \in 0..n : g[k] = f[k]
    <3> HIDE DEF g
    <3>1. \A k \in 0..(n + 1) : g[k] = DigitsStep(f, base, k)
      BY DEF g
    <3>2. \A k \in 0..n : k \in 0..(n + 1)
      OBVIOUS
    <3> QED
      BY <2>1, <3>1, <3>2
  <2>3. ASSUME NEW k \in 0..(n + 1) PROVE g[k] = DigitsStep(g, base, k)
    <3>1. k >= base => k \div base \in 0..n
      BY DEF IsBase
    <3>2. k >= base => g[k \div base] = f[k \div base]
      BY <2>2, <3>1
    <3> HIDE DEF g
    <3>3. DigitsStep(g, base, k) = DigitsStep(f, base, k)
      BY <3>2 DEF DigitsStep, IsBase
    <3> QED
      BY <3>3 DEF g
  <2>4. g = [k \in 0..(n + 1) |-> DigitsStep(g, base, k)]
    BY <2>3
  <2>5. DigitsUpTo(g, base, n + 1)
    BY <2>4 DEF DigitsUpTo
  <2> QED
    BY <2>5
<1> HIDE DEF T
<1>3. N \in T
  BY <1>1, <1>2, NatSet
<1> QED
  BY <1>3 DEF T

LEMMA DigitsOfSteps ==
  ASSUME NEW base, IsBase(base), NEW N \in Nat
  PROVE  \E f : /\ DigitsOf(N, base) = f[N]
                /\ \A k \in 0..N : f[k] = DigitsStep(f, base, k)
<1> DEFINE f == CHOOSE f : DigitsUpTo(f, base, N)
<1>1. DigitsOf(N, base) = f[N]
  BY DEF DigitsOf, DigitsUpTo, DigitsStep
<1>2. DigitsUpTo(f, base, N)
  BY DigitsExist
<1> HIDE DEF f
<1>3. \A k \in 0..N : f[k] = DigitsStep(f, base, k)
  BY <1>2 DEF DigitsUpTo
<1> QED
  BY <1>1, <1>3

(* The first digits and the last one.                                      *)
LEMMA StepCases ==
  ASSUME NEW f, NEW base \in Nat, NEW k \in Nat
  PROVE  /\ k < base => DigitsStep(f, base, k) = <<k>>
         /\ k >= base => DigitsStep(f, base, k) = Append(f[k \div base], k % base)
BY DEF DigitsStep

(* Digits that make a number: g has the values of their beginnings.        *)
Reads(q, base, n) ==
  /\ q \in Seq(Nat) /\ Len(q) >= 1 /\ \A i \in 1..Len(q) : q[i] < base
  /\ \E g : /\ g[1] = q[1] /\ g[Len(q)] = n
            /\ \A i \in 2..Len(q) : g[i] = g[i - 1] * base + q[i]
            /\ \A i \in 1..Len(q) : g[i] \in Nat

LEMMA OneDigitReads ==
  ASSUME NEW base, IsBase(base), NEW n \in Nat, n < base
  PROVE  Reads(<<n>>, base, n)
<1>1. <<n>> \in Seq(Nat) /\ Len(<<n>>) = 1 /\ \A i \in 1..1 : <<n>>[i] = n
  OBVIOUS
<1> DEFINE g == [i \in {1} |-> n]
<1>2. /\ g[1] = <<n>>[1] /\ g[1] = n
      /\ \A i \in 2..1 : g[i] = g[i - 1] * base + <<n>>[i]
      /\ \A i \in 1..1 : g[i] \in Nat
  BY <1>1
<1> HIDE DEF g
<1> QED
  BY <1>1, <1>2 DEF Reads

LEMMA MoreDigitsRead ==
  ASSUME NEW base, IsBase(base), NEW q, NEW m \in Nat, Reads(q, base, m), NEW d \in Nat, d < base
  PROVE  Reads(Append(q, d), base, m * base + d)
<1>1. PICK p, l : p = Append(q, d) /\ l = Len(q)
  OBVIOUS
<1>2. /\ l \in Nat /\ l >= 1 /\ Len(p) = l + 1 /\ p \in Seq(Nat) /\ p[l + 1] = d
      /\ \A i \in 1..l : p[i] = q[i] /\ q[i] < base
  BY <1>1 DEF Reads
<1>3. PICK g : /\ g[1] = q[1] /\ g[l] = m
               /\ \A i \in 2..l : g[i] = g[i - 1] * base + q[i]
               /\ \A i \in 1..l : g[i] \in Nat
  BY <1>1 DEF Reads
<1> DEFINE h == [i \in 1..(l + 1) |-> IF i = l + 1 THEN m * base + d ELSE g[i]]
<1>4. m * base + d \in Nat
  BY DEF IsBase
<1>5. h[l + 1] = m * base + d /\ \A i \in 1..l : h[i] = g[i]
  BY <1>2
<1> HIDE DEF h
<1>6. h[1] = p[1]
  BY <1>2, <1>3, <1>5
<1>7. ASSUME NEW i \in 2..(l + 1) PROVE h[i] = h[i - 1] * base + p[i]
  <2>1. CASE i = l + 1
    <3>1. h[i - 1] = m
      BY <1>2, <1>3, <1>5, <2>1
    <3> QED
      BY <1>2, <1>5, <2>1, <3>1
  <2>2. CASE i \in 2..l
    <3>1. i - 1 \in 1..l /\ i \in 1..l
      BY <1>2, <2>2
    <3> QED
      BY <1>2, <1>3, <1>5, <2>2, <3>1
  <2> QED
    BY <1>2, <2>1, <2>2
<1>8. \A i \in 1..(l + 1) : h[i] \in Nat
  <2>1. \A i \in 1..(l + 1) : i = l + 1 \/ i \in 1..l
    BY <1>2
  <2> QED
    BY <1>3, <1>4, <1>5, <2>1
<1>9. \A i \in 1..(l + 1) : p[i] < base
  <2>1. \A i \in 1..(l + 1) : i = l + 1 \/ i \in 1..l
    BY <1>2
  <2> QED
    BY <1>2, <2>1
<1>10. Reads(p, base, m * base + d)
  <2>1. p \in Seq(Nat) /\ Len(p) = l + 1 /\ Len(p) >= 1
    BY <1>2
  <2> QED
    BY <1>5, <1>6, <1>7, <1>8, <1>9, <2>1 DEF Reads
<1> QED
  BY <1>1, <1>10

LEMMA DigitsOfReads ==
  ASSUME NEW base, IsBase(base), NEW n \in Nat
  PROVE  Reads(DigitsOf(n, base), base, n)
<1>1. PICK f : /\ DigitsOf(n, base) = f[n]
               /\ \A k \in 0..n : f[k] = DigitsStep(f, base, k)
  BY DigitsOfSteps
<1> DEFINE T == {m \in Nat : \A k \in 0..m : k <= n => Reads(f[k], base, k)}
<1>2. ASSUME NEW k \in 0..n, \A j \in 0 .. k - 1 : Reads(f[j], base, j) PROVE Reads(f[k], base, k)
  <2>1. CASE k < base
    <3>1. f[k] = <<k>> /\ k \in Nat
      <4>1. f[k] = DigitsStep(f, base, k)
        BY <1>1
      <4>2. base \in Nat /\ k \in Nat
        BY DEF IsBase
      <4> QED
        BY <2>1, <4>1, <4>2, StepCases
    <3> QED
      BY <2>1, <3>1, OneDigitReads
  <2>2. CASE k >= base
    <3>1. PICK j, d : j = k \div base /\ d = k % base
      OBVIOUS
    <3>2. j \in 0 .. k - 1 /\ j \in Nat /\ d \in Nat /\ d < base /\ k = j * base + d
      BY <2>2, <3>1 DEF IsBase
    <3>3. f[k] = Append(f[j], d)
      <4>1. f[k] = DigitsStep(f, base, k)
        BY <1>1
      <4>2. base \in Nat /\ k \in Nat
        BY DEF IsBase
      <4> QED
        BY <2>2, <3>1, <4>1, <4>2, StepCases
    <3>4. Reads(f[j], base, j)
      BY <1>2, <3>2
    <3> QED
      BY <3>2, <3>3, <3>4, MoreDigitsRead
  <2> QED
    BY <2>1, <2>2 DEF IsBase
<1>3. 0 \in T
  BY <1>2
<1>4. ASSUME NEW m \in Nat, m \in T PROVE m + 1 \in T
  <2>1. ASSUME NEW k \in 0..(m + 1), k <= n PROVE Reads(f[k], base, k)
    <3>1. \A j \in 0 .. k - 1 : j \in 0..m /\ j <= n
      BY <2>1
    <3>2. \A j \in 0 .. k - 1 : Reads(f[j], base, j)
      BY <1>4, <3>1
    <3>3. k \in 0..n
      BY <2>1
    <3> QED
      BY <1>2, <3>2, <3>3
  <2> QED
    BY <2>1
<1> HIDE DEF T
<1>5. n \in T
  BY <1>3, <1>4, NatSet
<1>6. Reads(f[n], base, n)
  BY <1>5 DEF T
<1> QED
  BY <1>1, <1>6

(* A number below a thousand has at most three digits, and one at least.   *)
LEMMA Lengths ==
  ASSUME NEW n \in Nat
  PROVE  Length(n) \in Nat /\ Length(n) >= 1 /\ (n < 1000 => Length(n) <= 3)
<1>1. Length(n) \in Nat /\ Length(n) >= 1
  BY DigitsOfReads, Bases DEF Length, Reads
<1>2. ASSUME n < 1000 PROVE Length(n) <= 3
  <2>1. PICK f : /\ DigitsOf(n, 10) = f[n]
                 /\ \A k \in 0..n : f[k] = DigitsStep(f, 10, k)
    BY DigitsOfSteps, Bases
  <2>2. ASSUME NEW k \in 0..n, k < 10 PROVE f[k] \in Seq(Nat) /\ Len(f[k]) = 1
    <3>1. f[k] = <<k>> /\ k \in Nat
      BY <2>1, <2>2, StepCases
    <3> QED
      BY <3>1
  <2>3. ASSUME NEW k \in 0..n, k < 100 PROVE f[k] \in Seq(Nat) /\ Len(f[k]) <= 2
    <3>1. CASE k >= 10
      <4>1. k \div 10 \in 0..n /\ k \div 10 < 10 /\ k % 10 \in Nat
        BY <2>3, <3>1
      <4>2. f[k] = Append(f[k \div 10], k % 10)
        BY <2>1, <3>1, StepCases
      <4>3. PICK q : q = f[k \div 10] /\ q \in Seq(Nat) /\ Len(q) = 1
        BY <2>2, <4>1
      <4>4. PICK d \in Nat : d = k % 10
        BY <4>1
      <4>5. PICK p : p = Append(q, d)
        OBVIOUS
      <4>6. p \in Seq(Nat) /\ Len(p) <= 2
        <5>1. p \in Seq(Nat)
          BY <4>3, <4>4, <4>5
        <5>2. Len(p) = Len(q) + 1
          BY <4>3, <4>4, <4>5, SMTT(30)
        <5> QED
          BY <4>3, <5>1, <5>2
      <4> QED
        BY <4>2, <4>3, <4>4, <4>5, <4>6
    <3>2. CASE k < 10
      <4>1. Len(f[k]) = 1 /\ f[k] \in Seq(Nat)
        BY <2>2, <3>2
      <4> QED
        BY <4>1
    <3> QED
      BY <3>1, <3>2
  <2>4. CASE n >= 100
    <3>1. n \div 10 \in 0..n /\ n \div 10 < 100 /\ n % 10 \in Nat
      BY <1>2, <2>4
    <3>2. f[n] = Append(f[n \div 10], n % 10)
      BY <2>1, <2>4, StepCases
    <3>3. Len(f[n]) <= 3
      BY <2>3, <3>1, <3>2
    <3> QED
      BY <2>1, <3>3 DEF Length
  <2>5. CASE n < 100
    <3>1. Len(f[n]) <= 2
      BY <2>3, <2>5
    <3>2. Length(n) = Len(f[n])
      BY <2>1 DEF Length
    <3> QED
      BY <1>1, <3>1, <3>2
  <2> QED
    BY <2>4, <2>5
<1> QED
  BY <1>1, <1>2

-----------------------------------------------------------------------------
(* Groups of digits that make the number n, all but the first of three.    *)
PartType == [len : Nat, val : Nat]

Values(W, g) ==
  /\ g[1] = W[1].val
  /\ \A i \in 2..Len(W) : g[i] = g[i - 1] * 1000 + W[i].val
  /\ \A i \in 1..Len(W) : g[i] \in Nat

Grouped(W, n) ==
  /\ W \in Seq(PartType) /\ Len(W) >= 1
  /\ W[1].len >= 1 /\ (Len(W) > 1 => W[1].len <= 3)
  /\ \A k \in 2..Len(W) : W[k].len = 3
  /\ \E g : Values(W, g) /\ g[Len(W)] = n

LEMMA RunIsGrouped == ASSUME NEW n \in Nat PROVE Grouped(<<Part(Length(n), n)>>, n)
<1>1. PICK W : W = <<Part(Length(n), n)>>
  OBVIOUS
<1>2. Part(Length(n), n) \in PartType /\ Part(Length(n), n).len >= 1 /\ Part(Length(n), n).val = n
  BY Lengths DEF Part, PartType
<1>3. W \in Seq(PartType) /\ Len(W) = 1 /\ W[1] = Part(Length(n), n)
  BY <1>1, <1>2
<1> DEFINE g == [i \in {1} |-> n]
<1>4. g[1] = n
  OBVIOUS
<1> HIDE DEF g
<1>5. Values(W, g)
  BY <1>2, <1>3, <1>4 DEF Values
<1>6. Grouped(W, n)
  BY <1>2, <1>3, <1>4, <1>5 DEF Grouped
<1> QED
  BY <1>1, <1>6

LEMMA ThousandsAreGrouped == ASSUME NEW n \in Nat PROVE Grouped(Thousands(n), n)
<1>1. PICK q : q = DigitsOf(n, 1000)
  OBVIOUS
<1>2. Reads(q, 1000, n)
  BY <1>1, DigitsOfReads, Bases
<1>3. PICK l : l = Len(q)
  OBVIOUS
<1>4. /\ l \in Nat /\ l >= 1 /\ DOMAIN q = 1..l /\ q[1] \in Nat
      /\ \A k \in 1..l : q[k] \in Nat /\ q[k] < 1000
  <2>1. q \in Seq(Nat) /\ Len(q) >= 1 /\ \A k \in 1..Len(q) : q[k] < 1000
    BY <1>2 DEF Reads
  <2> QED
    BY <1>3, <2>1
<1>5. PICK W : W = Thousands(n)
  OBVIOUS
<1>6. W = [k \in 1..l |-> Part(IF k = 1 THEN Length(q[1]) ELSE 3, q[k])]
  BY <1>1, <1>4, <1>5 DEF Thousands
<1>7. \A k \in 1..l : /\ W[k] \in PartType /\ W[k].val = q[k]
                      /\ W[k].len = IF k = 1 THEN Length(q[1]) ELSE 3
  <2>1. PICK len : len = Length(q[1])
    OBVIOUS
  <2>2. len \in Nat
    BY <1>4, <2>1, Lengths
  <2>3. ASSUME NEW k \in 1..l
        PROVE  W[k] \in PartType /\ W[k].val = q[k] /\ W[k].len = IF k = 1 THEN len ELSE 3
    <3>1. PICK x \in Nat : x = IF k = 1 THEN len ELSE 3
      BY <2>2
    <3>2. W[k] = [len |-> x, val |-> q[k]]
      BY <1>6, <2>1, <3>1 DEF Part
    <3> QED
      BY <1>4, <3>1, <3>2 DEF PartType
  <2> QED
    BY <2>1, <2>3
<1>8. W \in Seq(PartType) /\ Len(W) = l
  BY <1>4, <1>6, <1>7
<1>9. W[1].len >= 1 /\ W[1].len <= 3 /\ \A k \in 2..l : W[k].len = 3
  <2>1. Length(q[1]) >= 1 /\ Length(q[1]) <= 3
    <3>1. q[1] < 1000
      BY <1>4
    <3> QED
      BY <1>4, <3>1, Lengths
  <2> QED
    BY <1>4, <1>7, <2>1
<1>10. PICK g : /\ g[1] = q[1] /\ g[l] = n
                /\ \A i \in 2..l : g[i] = g[i - 1] * 1000 + q[i]
                /\ \A i \in 1..l : g[i] \in Nat
  BY <1>2, <1>3 DEF Reads
<1>11. Values(W, g)
  BY <1>4, <1>7, <1>8, <1>10 DEF Values
<1>12. Grouped(W, n)
  BY <1>4, <1>8, <1>9, <1>10, <1>11 DEF Grouped
<1> QED
  BY <1>5, <1>12

(* Groups of three digits are worth the number they make.                  *)
LEMMA GroupsAreWorth ==
  ASSUME NEW W, NEW n \in Nat, Grouped(W, n)
  PROVE  Ocr!Digits(W) = n
<1>1. PICK l, g : l = Len(W) /\ Values(W, g) /\ g[l] = n
  BY DEF Grouped
<1>2. l \in Nat /\ l >= 1 /\ DOMAIN W = 1..l /\ \A k \in 1..l : W[k] \in PartType
  BY <1>1 DEF Grouped
<1>3. PICK h : Adding!Runs(0, W, l, h)
  BY <1>2, Adding!FoldRuns
<1>4. h[0] = 0 /\ Ocr!Digits(W) = h[l] /\ \A k \in 1..l : h[k] = h[k - 1] * 10^W[k].len + W[k].val
  <2>1. Ocr!Digits(W) = Adding!Fold(0, W)
    BY DEF Adding!Fold, Ocr!Digits, Adding!FoldLeft, Ocr!FoldLeft, Adding!MapThenFoldSet, Ocr!MapThenFoldSet,
           Adding!Max, Ocr!Max
  <2> QED
    BY <1>3, <2>1 DEF Adding!Runs, Ocr!Shifted
<1> DEFINE T == {k \in Nat : k >= 1 /\ k <= l => h[k] = g[k]}
<1>5. 0 \in T
  OBVIOUS
<1>6. ASSUME NEW k \in Nat, k \in T PROVE k + 1 \in T
  <2>1. CASE k = 0
    <3>1. h[1] = 0 * 10^W[1].len + W[1].val
      BY <1>2, <1>4
    <3>2. 10^W[1].len \in Int /\ W[1].val \in Nat
      BY <1>2 DEF PartType
    <3>3. h[1] = W[1].val
      BY <3>1, <3>2
    <3> QED
      BY <1>1, <2>1, <3>3 DEF Values
  <2>2. CASE k >= 1 /\ k + 1 <= l
    <3>1. h[k] = g[k] /\ k + 1 \in 2..l /\ k + 1 \in 1..l /\ k + 1 - 1 = k
      BY <1>2, <1>6, <2>2
    <3>2. W[k + 1].len = 3
      BY <1>1, <3>1 DEF Grouped
    <3>3. 10^3 = 1000
      BY SMT
    <3>4. h[k + 1] = h[k] * 1000 + W[k + 1].val
      <4>1. h[k + 1] = h[k] * 10^W[k + 1].len + W[k + 1].val
        BY <1>4, <3>1
      <4> QED
        BY <3>2, <3>3, <4>1
    <3>5. g[k + 1] = g[k] * 1000 + W[k + 1].val
      BY <1>1, <3>1 DEF Values
    <3> QED
      BY <3>1, <3>4, <3>5
  <2> QED
    BY <2>1, <2>2
<1> HIDE DEF T
<1>7. l \in T
  BY <1>2, <1>5, <1>6, NatSet
<1> QED
  BY <1>1, <1>2, <1>4, <1>7 DEF T

-----------------------------------------------------------------------------
(* What becomes of the groups of a numeral when its spaces are dropped.    *)
LEMMA UnspacedRuns ==
  ASSUME NEW n, NEW m \in Nat, DOMAIN n.parts = 1..m
  PROVE  \E h : /\ h[0] = [parts |-> <<>>, seps |-> <<>>]
                /\ \A k \in 1..m : h[k] = Ocr!JoinPiece(h[k - 1], Ocr!Pieces(n)[k])
                /\ Ocr!Unspaced(n) = h[m]
<1> DEFINE base == [parts |-> <<>>, seps |-> <<>>]
<1>1. DOMAIN Ocr!Pieces(n) = 1..m
  BY DEF Ocr!Pieces
<1> HIDE DEF base
<1>2. PICK h : Joining!Runs(base, Ocr!Pieces(n), m, h)
  BY <1>1, Joining!FoldRuns
<1>3. Ocr!Unspaced(n) = Joining!Fold(base, Ocr!Pieces(n))
  BY DEF base, Joining!Fold, Ocr!Unspaced, Joining!FoldLeft, Ocr!FoldLeft, Joining!MapThenFoldSet,
         Ocr!MapThenFoldSet, Joining!Max, Ocr!Max
<1>4. /\ h[0] = base
      /\ \A k \in 1..m : h[k] = Ocr!JoinPiece(h[k - 1], Ocr!Pieces(n)[k])
      /\ Ocr!Unspaced(n) = h[m]
  BY <1>2, <1>3 DEF Joining!Runs
<1> QED
  BY <1>4 DEF base

(* One group more: the first one, one after a separator, one after a space.*)
LEMMA JoinFirst ==
  ASSUME NEW p, NEW s, NEW x
  PROVE  Ocr!JoinPiece([parts |-> p, seps |-> s], [part |-> x, sep |-> ""]) =
           [parts |-> Append(p, x), seps |-> s]
BY DEF Ocr!JoinPiece

LEMMA JoinApart ==
  ASSUME NEW p, NEW s, NEW x, NEW c, c # "nbsp", c # ""
  PROVE  Ocr!JoinPiece([parts |-> p, seps |-> s], [part |-> x, sep |-> c]) =
           [parts |-> Append(p, x), seps |-> Append(s, c)]
BY DEF Ocr!JoinPiece

LEMMA JoinSpaced ==
  ASSUME NEW y, NEW s, NEW x
  PROVE  Ocr!JoinPiece([parts |-> <<y>>, seps |-> s], [part |-> x, sep |-> "nbsp"]) =
           [parts |-> <<[len |-> y.len + x.len, val |-> y.val * 10^x.len + x.val]>>, seps |-> s]
<1>1. PICK p, a : p = <<y>> /\ a = [parts |-> p, seps |-> s]
  OBVIOUS
<1>2. Len(p) = 1 /\ p[1] = y
  BY <1>1
<1>3. a.parts = p /\ a.seps = s
  BY <1>1
<1> DEFINE z == [len |-> y.len + x.len, val |-> y.val * 10^x.len + x.val]
<1>4. [p EXCEPT ![1] = z] = <<z>>
  BY <1>1
<1>5. [a EXCEPT !.parts = [p EXCEPT ![1] = z]] = [parts |-> <<z>>, seps |-> s]
  BY <1>1, <1>4
<1>6. Ocr!JoinPiece(a, [part |-> x, sep |-> "nbsp"]) = [a EXCEPT !.parts = [p EXCEPT ![1] = z]]
  BY <1>2, <1>3 DEF Ocr!JoinPiece, Ocr!Shifted
<1> QED
  BY <1>1, <1>5, <1>6

(* The beginning of a sequence.                                            *)
Begins(p, P, S, k) ==
  p \in Seq(S) /\ Len(p) = k /\ \A i \in 1..k : p[i] = P[i]

LEMMA BeginsNowhere == ASSUME NEW P, NEW S PROVE Begins(<<>>, P, S, 0)
BY DEF Begins

LEMMA BeginsFurther ==
  ASSUME NEW P, NEW S, NEW p, NEW k \in Nat, Begins(p, P, S, k), P[k + 1] \in S
  PROVE  Begins(Append(p, P[k + 1]), P, S, k + 1)
<1>1. PICK x \in S : x = P[k + 1]
  OBVIOUS
<1>2. PICK q : q = Append(p, x)
  OBVIOUS
<1>3. p \in Seq(S) /\ Len(p) = k /\ \A i \in 1..k : p[i] = P[i]
  BY DEF Begins
<1>4. q \in Seq(S) /\ Len(q) = k + 1 /\ q[k + 1] = x /\ \A i \in 1..k : q[i] = p[i]
  BY <1>2, <1>3
<1>5. \A i \in 1..(k + 1) : q[i] = P[i]
  <2>1. \A i \in 1..(k + 1) : i = k + 1 \/ i \in 1..k
    OBVIOUS
  <2> QED
    BY <1>1, <1>3, <1>4, <2>1
<1> QED
  BY <1>1, <1>2, <1>4, <1>5 DEF Begins

LEMMA BeginsWhole ==
  ASSUME NEW S, NEW P \in Seq(S), NEW p, Begins(p, P, S, Len(P))
  PROVE  p = P
BY DEF Begins

(* Without unbreakable spaces nothing changes.                             *)
Comma == ","
Dot   == "."
Seps  == {"nbsp", Comma, Dot}

LEMMA UnspacedSame ==
  ASSUME NEW n, NEW P \in Seq(PartType), NEW S \in Seq(Seps), P = n.parts, S = n.seps,
         NEW m \in Nat, m >= 1, Len(P) = m, Len(S) = m - 1,
         \A k \in 1..(m - 1) : S[k] # "nbsp"
  PROVE  Ocr!Unspaced(n) = [parts |-> P, seps |-> S]
<1>1. DOMAIN P = 1..m /\ \A k \in 1..m : P[k] \in PartType
  OBVIOUS
<1>2. \A k \in 1..(m - 1) : S[k] \in Seps /\ S[k] # "nbsp" /\ S[k] # ""
  <2>1. ASSUME NEW k \in 1..(m - 1) PROVE S[k] \in Seps
    OBVIOUS
  <2>2. \A c \in Seps : c # ""
    BY DEF Seps, Comma, Dot
  <2> QED
    BY <2>1, <2>2, Zenon
<1>3. PICK h : /\ h[0] = [parts |-> <<>>, seps |-> <<>>]
               /\ \A k \in 1..m : h[k] = Ocr!JoinPiece(h[k - 1], Ocr!Pieces(n)[k])
               /\ Ocr!Unspaced(n) = h[m]
  BY <1>1, UnspacedRuns
<1>4. /\ Ocr!Pieces(n)[1] = [part |-> P[1], sep |-> ""]
      /\ \A k \in 2..m : Ocr!Pieces(n)[k] = [part |-> P[k], sep |-> S[k - 1]]
  <2>1. Ocr!Pieces(n) = [k \in 1..m |-> [part |-> P[k], sep |-> IF k = 1 THEN "" ELSE S[k - 1]]]
    BY <1>1 DEF Ocr!Pieces
  <2>2. 1 \in 1..m /\ \A k \in 2..m : k \in 1..m /\ k # 1
    OBVIOUS
  <2> QED
    BY <2>1, <2>2
<1> DEFINE Good(k) ==
             /\ h[k] = [parts |-> h[k].parts, seps |-> h[k].seps]
             /\ Begins(h[k].parts, P, PartType, k) /\ Begins(h[k].seps, S, Seps, k - 1)
           T == {k \in Nat : k + 1 <= m => Good(k + 1)}
<1>5. 0 \in T
  <2>1. h[1] = Ocr!JoinPiece(h[0], Ocr!Pieces(n)[1])
    BY <1>3
  <2>2. h[1] = [parts |-> Append(<<>>, P[1]), seps |-> <<>>]
    <3>1. Ocr!JoinPiece([parts |-> <<>>, seps |-> <<>>], [part |-> P[1], sep |-> ""]) =
            [parts |-> Append(<<>>, P[1]), seps |-> <<>>]
      BY JoinFirst
    <3> QED
      BY <1>3, <1>4, <2>1, <3>1
  <2>3. Begins(<<>>, P, PartType, 0) /\ Begins(<<>>, S, Seps, 0)
    BY BeginsNowhere
  <2>4. P[1] \in PartType
    BY <1>1
  <2>5. Begins(Append(<<>>, P[1]), P, PartType, 1)
    <3>1. \A k \in Nat : Begins(<<>>, P, PartType, k) /\ P[k + 1] \in PartType
            => Begins(Append(<<>>, P[k + 1]), P, PartType, k + 1)
      BY BeginsFurther
    <3>2. 0 \in Nat /\ 0 + 1 = 1
      OBVIOUS
    <3> QED
      BY <2>3, <2>4, <3>1, <3>2
  <2>6. Good(1)
    BY <2>2, <2>3, <2>5
  <2> HIDE DEF Good
  <2> QED
    BY <2>6
<1>6. ASSUME NEW k \in Nat, k \in T PROVE k + 1 \in T
  <2>1. ASSUME k + 2 <= m PROVE Good(k + 2)
    <3>1. PICK p, s : p = h[k + 1].parts /\ s = h[k + 1].seps
      OBVIOUS
    <3>2. h[k + 1] = [parts |-> p, seps |-> s] /\ Begins(p, P, PartType, k + 1) /\ Begins(s, S, Seps, k)
      BY <1>6, <2>1, <3>1
    <3>3. k + 2 \in 2..m /\ k + 2 \in 1..m /\ k + 1 \in 1..(m - 1) /\ k + 2 - 1 = k + 1 /\ k + 1 + 1 = k + 2
      BY <2>1
    <3>4. Ocr!Pieces(n)[k + 2] = [part |-> P[k + 2], sep |-> S[k + 1]]
      <4>1. \A i \in 2..m : Ocr!Pieces(n)[i] = [part |-> P[i], sep |-> S[i - 1]]
        BY <1>4
      <4>2. Ocr!Pieces(n)[k + 2] = [part |-> P[k + 2], sep |-> S[k + 2 - 1]]
        BY <3>3, <4>1
      <4> QED
        BY <3>3, <4>2
    <3>5. h[k + 2] = Ocr!JoinPiece(h[k + 1], Ocr!Pieces(n)[k + 2])
      <4>1. \A i \in 1..m : h[i] = Ocr!JoinPiece(h[i - 1], Ocr!Pieces(n)[i])
        BY <1>3
      <4> QED
        BY <3>3, <4>1
    <3>6. h[k + 2] = [parts |-> Append(p, P[k + 2]), seps |-> Append(s, S[k + 1])]
      <4>1. PICK x, c : x = P[k + 2] /\ c = S[k + 1]
        OBVIOUS
      <4>2. c # "nbsp" /\ c # ""
        BY <1>2, <3>3, <4>1
      <4>3. Ocr!JoinPiece([parts |-> p, seps |-> s], [part |-> x, sep |-> c]) =
              [parts |-> Append(p, x), seps |-> Append(s, c)]
        BY <4>2, JoinApart
      <4> QED
        BY <3>2, <3>4, <3>5, <4>1, <4>3
    <3>7. P[k + 1 + 1] \in PartType /\ S[k + 1] \in Seps
      BY <1>1, <1>2, <3>3
    <3>8. Begins(Append(p, P[k + 1 + 1]), P, PartType, k + 1 + 1)
      BY <3>2, <3>7, BeginsFurther
    <3>9. Begins(Append(s, S[k + 1]), S, Seps, k + 1)
      BY <3>2, <3>7, BeginsFurther
    <3> QED
      BY <3>3, <3>6, <3>8, <3>9
  <2> HIDE DEF Good
  <2> QED
    BY <2>1
<1>7. Good(m)
  <2> HIDE DEF T
  <2>1. m - 1 \in T
    BY <1>5, <1>6, NatSet
  <2> HIDE DEF Good
  <2> QED
    BY <2>1 DEF T
<1>8. h[m].parts = P /\ h[m].seps = S
  BY <1>7, BeginsWhole
<1> QED
  BY <1>3, <1>7, <1>8

(* Groups joined by unbreakable spaces become one.                         *)
Lumped(a, v) ==
  \E len \in Nat : a = [parts |-> <<[len |-> len, val |-> v]>>, seps |-> <<>>]

LumpsTo(n, P, S, l, m, v) ==
  \E a : /\ Lumped(a, v)
         /\ m = l => Ocr!Unspaced(n) = a
         /\ m = l + 1 => Ocr!Unspaced(n) = Ocr!JoinPiece(a, [part |-> P[l + 1], sep |-> S[l]])

LEMMA UnspacedLumps ==
  ASSUME NEW n, NEW W, NEW v \in Nat, Grouped(W, v), NEW l \in Nat, l = Len(W),
         NEW m \in Nat, m >= l, NEW P, NEW S, P = n.parts, S = n.seps, DOMAIN P = 1..m,
         \A k \in 1..l : P[k] = W[k], \A k \in 1..(l - 1) : S[k] = "nbsp"
  PROVE  LumpsTo(n, P, S, l, m, v)
<1>1. l >= 1 /\ \A k \in 1..l : W[k] \in PartType
  BY DEF Grouped
<1>2. PICK h : /\ h[0] = [parts |-> <<>>, seps |-> <<>>]
               /\ \A k \in 1..m : h[k] = Ocr!JoinPiece(h[k - 1], Ocr!Pieces(n)[k])
               /\ Ocr!Unspaced(n) = h[m]
  BY UnspacedRuns
<1>3. /\ Ocr!Pieces(n)[1] = [part |-> P[1], sep |-> ""]
      /\ \A k \in 2..m : Ocr!Pieces(n)[k] = [part |-> P[k], sep |-> S[k - 1]]
  <2>1. Ocr!Pieces(n) = [k \in 1..m |-> [part |-> P[k], sep |-> IF k = 1 THEN "" ELSE S[k - 1]]]
    BY DEF Ocr!Pieces
  <2>2. 1 \in 1..m /\ \A k \in 2..m : k \in 1..m /\ k # 1
    BY <1>1
  <2> QED
    BY <2>1, <2>2
<1>4. PICK g : Values(W, g) /\ g[l] = v
  BY DEF Grouped
<1> DEFINE T == {k \in Nat : k + 1 <= l => Lumped(h[k + 1], g[k + 1])}
<1>5. 0 \in T
  <2>1. h[1] = Ocr!JoinPiece(h[0], Ocr!Pieces(n)[1])
    <3>1. 1 \in 1..m /\ 1 - 1 = 0
      BY <1>1
    <3> QED
      BY <1>2, <3>1
  <2>2. P[1] = W[1] /\ W[1] \in PartType
    BY <1>1
  <2>3. h[1] = [parts |-> <<W[1]>>, seps |-> <<>>]
    <3>1. PICK x : x = W[1]
      OBVIOUS
    <3>2. Ocr!JoinPiece([parts |-> <<>>, seps |-> <<>>], [part |-> x, sep |-> ""]) =
            [parts |-> Append(<<>>, x), seps |-> <<>>]
      BY JoinFirst
    <3>3. Append(<<>>, x) = <<x>>
      OBVIOUS
    <3> QED
      BY <1>2, <1>3, <2>1, <2>2, <3>1, <3>2, <3>3
  <2>4. W[1] = [len |-> W[1].len, val |-> W[1].val] /\ W[1].len \in Nat
    BY <2>2 DEF PartType
  <2>5. g[1] = W[1].val
    BY <1>4 DEF Values
  <2>6. Lumped(h[1], g[1])
    BY <2>3, <2>4, <2>5 DEF Lumped
  <2> QED
    BY <2>6
<1>6. ASSUME NEW k \in Nat, k \in T PROVE k + 1 \in T
  <2>1. ASSUME k + 2 <= l PROVE Lumped(h[k + 2], g[k + 2])
    <3>1. PICK len \in Nat : h[k + 1] = [parts |-> <<[len |-> len, val |-> g[k + 1]]>>, seps |-> <<>>]
      BY <1>6, <2>1 DEF Lumped
    <3>2. k + 2 \in 2..m /\ k + 2 \in 1..m /\ k + 2 \in 2..l /\ k + 2 \in 1..l /\ k + 1 \in 1..(l - 1)
          /\ k + 2 - 1 = k + 1
      BY <2>1
    <3>3. PICK x, y : x = W[k + 2] /\ y = [len |-> len, val |-> g[k + 1]]
      OBVIOUS
    <3>4. x \in PartType /\ x.len = 3 /\ x = P[k + 2]
      BY <1>1, <3>2, <3>3 DEF Grouped
    <3>5. Ocr!Pieces(n)[k + 2] = [part |-> x, sep |-> "nbsp"]
      <4>1. \A i \in 2..m : Ocr!Pieces(n)[i] = [part |-> P[i], sep |-> S[i - 1]]
        BY <1>3
      <4>2. Ocr!Pieces(n)[k + 2] = [part |-> P[k + 2], sep |-> S[k + 2 - 1]]
        BY <3>2, <4>1
      <4> QED
        BY <3>2, <3>4, <4>2
    <3>6. h[k + 2] = Ocr!JoinPiece(h[k + 1], Ocr!Pieces(n)[k + 2])
      <4>1. \A i \in 1..m : h[i] = Ocr!JoinPiece(h[i - 1], Ocr!Pieces(n)[i])
        BY <1>2
      <4> QED
        BY <3>2, <4>1
    <3>7. Ocr!JoinPiece([parts |-> <<y>>, seps |-> <<>>], [part |-> x, sep |-> "nbsp"]) =
            [parts |-> <<[len |-> y.len + x.len, val |-> y.val * 10^x.len + x.val]>>, seps |-> <<>>]
      BY JoinSpaced
    <3>8. g[k + 2] = g[k + 1] * 1000 + x.val
      <4>1. \A i \in 2..l : g[i] = g[i - 1] * 1000 + W[i].val
        BY <1>4, SMTT(30) DEF Values
      <4> QED
        BY <3>2, <3>3, <4>1
    <3>9. 10^3 = 1000
      BY SMT
    <3>10. y.val * 10^x.len + x.val = g[k + 2] /\ y.len + x.len = len + 3
      BY <3>3, <3>4, <3>8, <3>9
    <3>11. h[k + 2] = [parts |-> <<[len |-> len + 3, val |-> g[k + 2]]>>, seps |-> <<>>]
      BY <3>1, <3>3, <3>5, <3>6, <3>7, <3>10
    <3> QED
      BY <3>11 DEF Lumped
  <2>2. k + 1 + 1 = k + 2
    OBVIOUS
  <2> QED
    BY <2>1, <2>2
<1> HIDE DEF T
<1>7. l - 1 \in T
  BY <1>1, <1>5, <1>6, NatSet
<1>8. Lumped(h[l], v)
  <2>1. l - 1 + 1 = l
    BY <1>1
  <2> QED
    BY <1>4, <1>7, <2>1 DEF T
<1>9. ASSUME m = l + 1
      PROVE  Ocr!Unspaced(n) = Ocr!JoinPiece(h[l], [part |-> P[l + 1], sep |-> S[l]])
  <2>1. m \in 1..m /\ m \in 2..m /\ m - 1 = l
    BY <1>1, <1>9
  <2>2. Ocr!Pieces(n)[m] = [part |-> P[m], sep |-> S[m - 1]]
    BY <1>3, <2>1
  <2>3. h[m] = Ocr!JoinPiece(h[m - 1], Ocr!Pieces(n)[m])
    BY <1>2, <2>1
  <2> QED
    BY <1>2, <1>9, <2>1, <2>2, <2>3
<1> QED
  BY <1>2, <1>8, <1>9 DEF LumpsTo

-----------------------------------------------------------------------------
(* The value of what is left.                                              *)
LEMMA OneGroupIsWorth ==
  ASSUME NEW p \in PartType
  PROVE  Ocr!Digits(<<p>>) = p.val
<1>1. PICK W : W = <<p>>
  OBVIOUS
<1>2. DOMAIN W = 1..1 /\ W[1] = p
  BY <1>1
<1>3. PICK h : Adding!Runs(0, W, 1, h)
  BY <1>2, Adding!FoldRuns
<1>4. Ocr!Digits(W) = Adding!Fold(0, W)
  BY DEF Adding!Fold, Ocr!Digits, Adding!FoldLeft, Ocr!FoldLeft, Adding!MapThenFoldSet, Ocr!MapThenFoldSet,
         Adding!Max, Ocr!Max
<1>5. h[0] = 0 /\ Ocr!Digits(W) = h[1] /\ h[1] = h[0] * 10^p.len + p.val
  BY <1>2, <1>3, <1>4 DEF Adding!Runs, Ocr!Shifted
<1>6. 10^p.len \in Int /\ p.val \in Nat
  BY DEF PartType
<1> QED
  BY <1>1, <1>5, <1>6

-----------------------------------------------------------------------------
(* The separators of a numeral, and how its value is chosen by them.       *)
ValueRead(x, minus) ==
  IF x > MaxAmount THEN NoAmount ELSE IF minus THEN -x ELSE x

LEMMA NoKinds == Ocr!ToSet(<<>>) = {}
BY DEF Ocr!ToSet

LEMMA OneKind ==
  ASSUME NEW s, NEW l \in Nat, l >= 1, DOMAIN s = 1..l, NEW t, \A k \in 1..l : s[k] = t
  PROVE  Ocr!ToSet(s) # {} /\ Ocr!Cardinality(Ocr!ToSet(s)) = 1
<1>1. Ocr!ToSet(s) = {t}
  <2>1. 1 \in DOMAIN s /\ s[1] = t
    OBVIOUS
  <2> QED
    BY <2>1 DEF Ocr!ToSet
<1>2. Cardinality({t}) = 1
  BY FS_Singleton
<1>3. Ocr!Cardinality({t}) = Cardinality({t})
  BY DEF Ocr!Cardinality, Cardinality
<1> QED
  BY <1>1, <1>2, <1>3

LEMMA TwoKinds ==
  ASSUME NEW s, NEW l \in Nat, l >= 1, DOMAIN s = 1..(l + 1), NEW t, NEW d, t # d,
         \A k \in 1..l : s[k] = t, s[l + 1] = d
  PROVE  Ocr!ToSet(s) # {} /\ Ocr!Cardinality(Ocr!ToSet(s)) # 1
<1>1. Ocr!ToSet(s) = {t} \cup {d}
  <2>1. 1 \in DOMAIN s /\ l + 1 \in DOMAIN s /\ s[1] = t
    OBVIOUS
  <2>2. \A k \in DOMAIN s : s[k] = t \/ s[k] = d
    <3>1. \A k \in DOMAIN s : k \in 1..l \/ k = l + 1
      OBVIOUS
    <3> QED
      BY <3>1
  <2> QED
    BY <2>1, <2>2 DEF Ocr!ToSet
<1>2. Ocr!Cardinality({t} \cup {d}) = Cardinality({t} \cup {d})
  BY DEF Ocr!Cardinality, Cardinality
<1>3. Cardinality({t} \cup {d}) = 2
  <2>1. IsFiniteSet({t}) /\ Cardinality({t}) = 1
    BY FS_Singleton
  <2>2. d \notin {t}
    OBVIOUS
  <2>3. Cardinality({t} \cup {d}) = Cardinality({t}) + 1
    BY <2>1, <2>2, FS_AddElement
  <2> QED
    BY <2>1, <2>3
<1>4. 2 # 1
  OBVIOUS
<1>5. Ocr!Cardinality(Ocr!ToSet(s)) # 1
  BY <1>1, <1>2, <1>3, <1>4, Zenon
<1>6. Ocr!ToSet(s) # {}
  BY <1>1
<1> QED
  BY <1>5, <1>6

LEMMA NormalOf ==
  ASSUME NEW n, NEW p, NEW s, Ocr!Unspaced(n) = [parts |-> p, seps |-> s], NEW x \in Int,
         NoAmount \notin Int,
         Ocr!ToSet(s) = {} => x = 100 * p[1].val,
         Ocr!ToSet(s) # {} /\ Ocr!Cardinality(Ocr!ToSet(s)) = 1 => x = Ocr!ParseWithSeparator(p),
         Ocr!ToSet(s) # {} /\ Ocr!Cardinality(Ocr!ToSet(s)) # 1 => x = Ocr!ParseWithBoth(p, s)
  PROVE  Ocr!NormalizeAmount(n) = ValueRead(x, n.minus)
<1>1. PICK u : u = Ocr!Unspaced(n)
  OBVIOUS
<1>2. u.parts = p /\ u.seps = s
  BY <1>1
<1>3. x # NoAmount
  OBVIOUS
<1>4. Ocr!NormalizeAmount(n) =
        LET value == IF Ocr!ToSet(u.seps) = {} THEN 100 * u.parts[1].val
                     ELSE IF Ocr!Cardinality(Ocr!ToSet(u.seps)) = 1 THEN Ocr!ParseWithSeparator(u.parts)
                     ELSE Ocr!ParseWithBoth(u.parts, u.seps)
        IN IF value = NoAmount \/ value > MaxAmount THEN NoAmount
           ELSE IF n.minus THEN -value ELSE value
  BY <1>1 DEF Ocr!NormalizeAmount
<1>5. x = IF Ocr!ToSet(u.seps) = {} THEN 100 * u.parts[1].val
          ELSE IF Ocr!Cardinality(Ocr!ToSet(u.seps)) = 1 THEN Ocr!ParseWithSeparator(u.parts)
          ELSE Ocr!ParseWithBoth(u.parts, u.seps)
  BY <1>2
<1>6. Ocr!NormalizeAmount(n) = IF x = NoAmount \/ x > MaxAmount THEN NoAmount ELSE IF n.minus THEN -x ELSE x
  BY <1>4, <1>5, Zenon
<1> QED
  BY <1>3, <1>6 DEF ValueRead

(* A numeral without decimals, its groups separated by t.                  *)
Separators == Seps \cup {Blank}
Between(t, l) == [k \in 1..(l - 1) |-> t]

(* A numeral the search stops at, by the number of its groups.             *)
Decimal(n, last) ==
  last > 1 /\ n.seps[last - 1] \in {Comma, Dot} /\ n.parts[last].len \in 1..2

LEMMA CandidateForm ==
  ASSUME NEW n, n.kind = "number", NEW last, last = Len(n.parts), NEW groups,
         groups = IF Decimal(n, last) THEN last - 1 ELSE last,
         \/ groups = 1 /\ (n.parts[1].len > 0 \/ Decimal(n, last))
         \/ n.parts[1].len \in 1..3 /\ \A k \in 2..groups : n.parts[k].len = 3
  PROVE  Ocr!IsCandidate(n)
<1>1. Decimal(n, last) <=> /\ last > 1
                           /\ n.seps[last - 1] \in {",", "."}
                           /\ n.parts[last].len \in 1..2
  BY Zenon DEF Decimal, Comma, Dot
<1>2. Ocr!IsNumeral(n)
  BY <1>1, Zenon DEF Ocr!IsNumeral
<1> QED
  BY <1>2, Zenon DEF Ocr!IsCandidate

LEMMA WholeIsRead ==
  ASSUME NoAmount \notin Int, NEW W, NEW v \in Nat, Grouped(W, v), NEW t \in Separators,
         t = Blank => Len(W) = 1, NEW neg \in BOOLEAN,
         NEW n, n = Ocr!Num(W, Between(t, Len(W)), neg)
  PROVE  Ocr!IsCandidate(n) /\ Ocr!NormalizeAmount(n) = ValueRead(100 * v, neg)
<1>1. PICK l \in Nat : l = Len(W) /\ l >= 1
  BY DEF Grouped
<1>2. /\ W \in Seq(PartType) /\ DOMAIN W = 1..l
      /\ W[1].len \in Nat /\ W[1].len >= 1 /\ (l > 1 => W[1].len <= 3)
      /\ \A k \in 2..l : W[k].len = 3
  <2>1. \A k \in 1..Len(W) : W[k] \in PartType
    BY DEF Grouped
  <2> QED
    BY <1>1, <2>1 DEF Grouped, PartType
<1>3. PICK S : S = Between(t, l)
  OBVIOUS
<1>4. /\ S \in Seq({t}) /\ Len(S) = l - 1 /\ DOMAIN S = 1..(l - 1) /\ \A k \in 1..(l - 1) : S[k] = t
  BY <1>1, <1>3 DEF Between
<1>5. n.kind = "number" /\ n.parts = W /\ n.seps = S /\ n.minus = neg
  BY <1>1, <1>3 DEF Ocr!Num, Ocr!Token
<1>6. Ocr!IsCandidate(n)
  <2>1. ~Decimal(n, l)
    BY <1>1, <1>2, <1>5 DEF Decimal
  <2>2. l = 1 => W[1].len > 0
    BY <1>1, <1>2
  <2>3. l > 1 => W[1].len \in 1..3
    BY <1>1, <1>2
  <2>4. \A k \in 2..l : W[k].len = 3
    BY <1>2
  <2>5. l = 1 \/ l > 1
    BY <1>1
  <2>6. n.kind = "number" /\ l = Len(n.parts)
    BY <1>1, <1>5
  <2>7. l = IF Decimal(n, l) THEN l - 1 ELSE l
    BY <2>1
  <2>8. \/ l = 1 /\ (n.parts[1].len > 0 \/ Decimal(n, l))
        \/ n.parts[1].len \in 1..3 /\ \A k \in 2..l : n.parts[k].len = 3
    BY <1>5, <2>2, <2>3, <2>4, <2>5, Zenon
  <2> QED
    BY <2>6, <2>7, <2>8, CandidateForm, Zenon
<1>7. CASE t = "nbsp" \/ l = 1
  <2>1. PICK a : Lumped(a, v) /\ Ocr!Unspaced(n) = a
    <3>1. \A k \in 1..(l - 1) : S[k] = "nbsp"
      BY <1>2, <1>4, <1>7
    <3>2. PICK P, m : P = W /\ m = l
      OBVIOUS
    <3>3. /\ P = n.parts /\ S = n.seps /\ DOMAIN P = 1..m /\ m \in Nat /\ m >= l
          /\ \A k \in 1..l : P[k] = W[k]
      BY <1>2, <1>5, <3>2
    <3>5. LumpsTo(n, P, S, l, m, v)
      BY <1>1, <3>1, <3>3, UnspacedLumps
    <3> QED
      BY <3>2, <3>5 DEF LumpsTo
  <2>2. PICK len \in Nat : Ocr!Unspaced(n) = [parts |-> <<[len |-> len, val |-> v]>>, seps |-> <<>>]
    BY <2>1 DEF Lumped
  <2>3. PICK p : p = <<[len |-> len, val |-> v]>>
    OBVIOUS
  <2>4. p[1].val = v
    BY <2>3
  <2> QED
    BY <1>5, <1>6, <2>2, <2>3, <2>4, NoKinds, NormalOf
<1>8. CASE t # "nbsp" /\ l # 1
  <2>1. t \in {Comma, Dot} /\ l > 1
    <3>1. t # "nbsp" /\ t # Blank
      BY <1>1, <1>8
    <3>2. t \in {Comma, Dot}
      BY <3>1 DEF Separators, Seps
    <3> QED
      BY <1>1, <1>8, <3>2
  <2>2. Ocr!Unspaced(n) = [parts |-> W, seps |-> S]
    <3>1. S \in Seq(Seps)
      <4>1. t \in Seps
        BY <2>1 DEF Seps
      <4> QED
        BY <1>4, <4>1
    <3>2. \A k \in 1..(l - 1) : S[k] # "nbsp"
      BY <1>4, <1>8
    <3> QED
      BY <1>1, <1>2, <1>4, <1>5, <3>1, <3>2, UnspacedSame
  <2>3. Ocr!ToSet(S) # {} /\ Ocr!Cardinality(Ocr!ToSet(S)) = 1
    <3>1. l - 1 \in Nat /\ l - 1 >= 1
      BY <2>1
    <3> QED
      BY <1>4, <3>1, OneKind
  <2>4. Ocr!ParseWithSeparator(W) = 100 * v
    <3>1. Ocr!Digits(W) = v
      BY GroupsAreWorth
    <3>2. ~(l = 2 /\ W[2].len \in 1..2)
      BY <1>2
    <3>3. W[1].len <= 3 /\ \A k \in 2..l : W[k].len = 3
      BY <1>2, <2>1
    <3> QED
      BY <1>1, <3>1, <3>2, <3>3 DEF Ocr!ParseWithSeparator
  <2>5. 100 * v \in Int
    OBVIOUS
  <2> QED
    BY <1>5, <1>6, <2>2, <2>3, <2>4, <2>5, NormalOf
<1> QED
  BY <1>7, <1>8

(* The integer part and its decimals.                                      *)
InCents(v, dec) == 100 * v + (IF dec.len = 1 THEN 10 * dec.val ELSE dec.val)

LEMMA TwoGroups ==
  ASSUME NEW x \in PartType, NEW dec \in PartType, dec.len \in 1..2
  PROVE  Ocr!ParseWithSeparator(Append(<<x>>, dec)) = InCents(x.val, dec)
<1>1. PICK p : p = Append(<<x>>, dec)
  OBVIOUS
<1>2. Len(p) = 2 /\ p[1] = x /\ p[2] = dec
  <2>1. PICK s : s = <<x>>
    OBVIOUS
  <2>2. s \in Seq(PartType) /\ Len(s) = 1 /\ s[1] = x
    BY <2>1
  <2>3. Len(p) = 1 + 1 /\ p[1] = x /\ p[1 + 1] = dec
    BY <1>1, <2>1, <2>2
  <2> QED
    BY <2>3
<1>3. Ocr!Digits(<<x>>) = x.val
  BY OneGroupIsWorth
<1>4. Ocr!ParseWithSeparator(p) = Ocr!Cents(<<p[1]>>, p[2])
  BY <1>2 DEF Ocr!ParseWithSeparator
<1> QED
  BY <1>1, <1>2, <1>3, <1>4 DEF Ocr!Cents, InCents

(* A numeral with decimals, which another separator than that of the       *)
(* thousands precedes.                                                     *)
LEMMA DecimalIsRead ==
  ASSUME NoAmount \notin Int, NEW W, NEW v \in Nat, Grouped(W, v), NEW t \in Separators,
         t = Blank => Len(W) = 1, NEW d \in {Comma, Dot}, d # t, NEW dec \in PartType, dec.len \in 1..2,
         NEW neg \in BOOLEAN,
         NEW n, n = Ocr!Num(Append(W, dec), Append(Between(t, Len(W)), d), neg)
  PROVE  Ocr!IsCandidate(n) /\ Ocr!NormalizeAmount(n) = ValueRead(InCents(v, dec), neg)
<1>1. PICK l \in Nat : l = Len(W) /\ l >= 1
  BY DEF Grouped
<1>2. /\ W \in Seq(PartType) /\ DOMAIN W = 1..l
      /\ W[1].len \in Nat /\ W[1].len >= 1 /\ (l > 1 => W[1].len <= 3)
      /\ \A k \in 2..l : W[k].len = 3
  <2>1. \A k \in 1..Len(W) : W[k] \in PartType
    BY DEF Grouped
  <2> QED
    BY <1>1, <2>1 DEF Grouped, PartType
<1>3. PICK P : P = Append(W, dec)
  OBVIOUS
<1>4. /\ P \in Seq(PartType) /\ Len(P) = l + 1 /\ DOMAIN P = 1..(l + 1) /\ P[l + 1] = dec
      /\ \A k \in 1..l : P[k] = W[k]
  BY <1>1, <1>2, <1>3
<1>5. PICK R : R = Between(t, l)
  OBVIOUS
<1>6. R \in Seq({t}) /\ Len(R) = l - 1 /\ DOMAIN R = 1..(l - 1) /\ \A k \in 1..(l - 1) : R[k] = t
  BY <1>1, <1>5 DEF Between
<1>7. PICK S : S = Append(R, d)
  OBVIOUS
<1>8. /\ S \in Seq({t, d}) /\ Len(S) = l /\ DOMAIN S = 1..l /\ S[l] = d
      /\ \A k \in 1..(l - 1) : S[k] = t
  BY <1>1, <1>6, <1>7
<1>9. n.kind = "number" /\ n.parts = P /\ n.seps = S /\ n.minus = neg
  BY <1>1, <1>3, <1>5, <1>7 DEF Ocr!Num, Ocr!Token
<1>10. InCents(v, dec) \in Int
  BY DEF InCents, PartType
<1>11. Ocr!IsCandidate(n)
  <2>1. PICK last : last = l + 1
    OBVIOUS
  <2>2. last > 1 /\ last - 1 = l /\ last = Len(n.parts)
    BY <1>1, <1>4, <1>9, <2>1
  <2>3. Decimal(n, last)
    BY <1>4, <1>8, <1>9, <2>1, <2>2 DEF Decimal
  <2>4. l = IF Decimal(n, last) THEN last - 1 ELSE last
    BY <2>2, <2>3
  <2>5. l = 1 \/ (W[1].len \in 1..3 /\ \A k \in 2..l : P[k].len = 3)
    <3>1. l > 1 => W[1].len \in 1..3
      BY <1>1, <1>2
    <3>2. \A k \in 2..l : P[k].len = 3
      BY <1>2, <1>4
    <3> QED
      BY <1>1, <3>1, <3>2
  <2>6. P[1] = W[1]
    BY <1>1, <1>4
  <2>7. \/ l = 1 /\ (n.parts[1].len > 0 \/ Decimal(n, last))
        \/ n.parts[1].len \in 1..3 /\ \A k \in 2..l : n.parts[k].len = 3
    BY <1>9, <2>3, <2>5, <2>6, Zenon
  <2> QED
    BY <1>9, <2>2, <2>4, <2>7, CandidateForm, Zenon
<1>12. CASE t = "nbsp" \/ l = 1
  <2>1. PICK a : Lumped(a, v) /\ Ocr!Unspaced(n) = Ocr!JoinPiece(a, [part |-> dec, sep |-> d])
    <3>1. \A k \in 1..(l - 1) : S[k] = "nbsp"
      BY <1>1, <1>8, <1>12
    <3>2. PICK m \in Nat : m = l + 1
      BY <1>1
    <3>3. /\ P = n.parts /\ S = n.seps /\ DOMAIN P = 1..m /\ m >= l /\ \A k \in 1..l : P[k] = W[k]
      BY <1>1, <1>4, <1>9, <3>2
    <3>4. LumpsTo(n, P, S, l, m, v)
      BY <1>1, <3>1, <3>2, <3>3, UnspacedLumps
    <3> QED
      BY <1>4, <1>8, <3>2, <3>4 DEF LumpsTo
  <2>2. PICK len \in Nat : a = [parts |-> <<[len |-> len, val |-> v]>>, seps |-> <<>>]
    BY <2>1 DEF Lumped
  <2>3. PICK x : x = [len |-> len, val |-> v]
    OBVIOUS
  <2>4. x \in PartType /\ x.val = v
    BY <2>3 DEF PartType
  <2>5. d # "nbsp" /\ d # ""
    BY Zenon DEF Comma, Dot
  <2>6. Ocr!Unspaced(n) = [parts |-> Append(<<x>>, dec), seps |-> Append(<<>>, d)]
    <3>1. PICK p, s : p = <<x>> /\ s = <<>>
      OBVIOUS
    <3>2. Ocr!JoinPiece([parts |-> p, seps |-> s], [part |-> dec, sep |-> d]) =
            [parts |-> Append(p, dec), seps |-> Append(s, d)]
      BY <2>5, JoinApart, ZenonT(30)
    <3> QED
      BY <2>1, <2>2, <2>3, <3>1, <3>2
  <2>7. Append(<<>>, d) = <<d>>
    OBVIOUS
  <2>8. Ocr!ToSet(<<d>>) # {} /\ Ocr!Cardinality(Ocr!ToSet(<<d>>)) = 1
    <3>1. PICK s : s = <<d>>
      OBVIOUS
    <3>2. PICK i \in Nat : i = 1
      OBVIOUS
    <3>3. i >= 1 /\ DOMAIN s = 1..i /\ \A k \in 1..i : s[k] = d
      BY <3>1, <3>2
    <3> QED
      BY <3>1, <3>3, OneKind
  <2>9. Ocr!ParseWithSeparator(Append(<<x>>, dec)) = InCents(v, dec)
    BY <2>4, TwoGroups
  <2> QED
    BY <1>9, <1>10, <1>11, <2>6, <2>7, <2>8, <2>9, NormalOf
<1>13. CASE t # "nbsp" /\ l # 1
  <2>1. t \in {Comma, Dot} /\ l > 1
    <3>1. t # "nbsp" /\ t # Blank
      BY <1>1, <1>13
    <3>2. t \in {Comma, Dot}
      BY <3>1 DEF Separators, Seps
    <3> QED
      BY <1>1, <1>13, <3>2
  <2>2. Ocr!Unspaced(n) = [parts |-> P, seps |-> S]
    <3>1. S \in Seq(Seps)
      <4>1. t \in Seps /\ d \in Seps
        BY <2>1 DEF Seps
      <4> QED
        BY <1>8, <4>1
    <3>2. d # "nbsp"
      BY Zenon DEF Comma, Dot
    <3>3. \A k \in 1..l : S[k] # "nbsp"
      <4>1. \A k \in 1..l : k = l \/ k \in 1..(l - 1)
        BY <1>1
      <4> QED
        BY <1>8, <1>13, <3>2, <4>1
    <3>4. PICK m \in Nat : m = l + 1 /\ m >= 1 /\ m - 1 = l
      BY <1>1
    <3> QED
      BY <1>4, <1>8, <1>9, <3>1, <3>3, <3>4, UnspacedSame, SMTT(30)
  <2>3. Ocr!ToSet(S) # {} /\ Ocr!Cardinality(Ocr!ToSet(S)) # 1
    <3>1. PICK i \in Nat : i = l - 1 /\ i >= 1 /\ i + 1 = l
      BY <1>1, <2>1
    <3> QED
      BY <1>8, <3>1, TwoKinds
  <2>4. Ocr!ParseWithBoth(P, S) = InCents(v, dec)
    <3>1. Ocr!Digits(W) = v
      BY GroupsAreWorth
    <3>2. Ocr!Front(P) = W
      <4>1. Ocr!Front(P) = SubSeq(P, 1, Len(P) - 1)
        BY DEF Ocr!Front
      <4>2. SubSeq(P, 1, l) = W
        BY <1>1, <1>2, <1>4
      <4> QED
        BY <1>1, <1>4, <4>1, <4>2
    <3>3. \A k \in 1..(l - 1) : S[k] # S[l]
      BY <1>8
    <3>4. Len(P) = l + 1 /\ l + 1 - 1 = l /\ l + 1 - 2 = l - 1 /\ P[l + 1].len \in 1..2
      BY <1>1, <1>4
    <3>5. Ocr!ParseWithBoth(P, S) = Ocr!Cents(Ocr!Front(P), P[l + 1])
      BY <3>3, <3>4 DEF Ocr!ParseWithBoth
    <3> QED
      BY <1>4, <3>1, <3>2, <3>5 DEF Ocr!Cents, InCents
  <2> QED
    BY <1>9, <1>10, <1>11, <2>2, <2>3, <2>4, NormalOf
<1> QED
  BY <1>12, <1>13

-----------------------------------------------------------------------------
(* What is printed.                                                        *)
StylesOf(T, D) ==
  {[thousands |-> t, decimal |-> d] : t \in T, d \in D} \ {[thousands |-> s, decimal |-> s] : s \in D}

LEMMA StylesAre == Styles = StylesOf({"nbsp", ".", ",", Blank}, {",", "."})
BY DEF Styles, StylesOf

LEMMA StyleParts ==
  ASSUME NEW style \in Styles
  PROVE  /\ style.thousands \in Separators /\ style.decimal \in {Comma, Dot}
         /\ style.decimal # style.thousands
<1>1. Styles = StylesOf({"nbsp", ".", ",", Blank}, {",", "."})
  BY StylesAre, Zenon
<1>2. {"nbsp", ".", ",", Blank} = Separators /\ {",", "."} = {Comma, Dot}
  BY Zenon DEF Separators, Seps, Comma, Dot, Blank
<1>3. style \in StylesOf(Separators, {Comma, Dot})
  BY <1>1, <1>2, Zenon
<1>4. PICK D : D = {Comma, Dot}
  OBVIOUS
<1>5. style.thousands \in Separators /\ style.decimal \in D /\ style.decimal # style.thousands
  BY <1>3, <1>4 DEF StylesOf
<1> QED
  BY <1>4, <1>5

DecimalsOf(rest) == IF rest % 10 = 0 THEN Part(1, rest \div 10) ELSE Part(2, rest)

PrintedAs(n, W, t, d, rest, neg) ==
  n = IF rest = 0 THEN Ocr!Num(W, Between(t, Len(W)), neg)
      ELSE Ocr!Num(Append(W, DecimalsOf(rest)), Append(Between(t, Len(W)), d), neg)

LEMMA PrintedForm ==
  ASSUME NEW c \in Int, NEW style \in Styles
  PROVE  \E W : /\ Grouped(W, Abs(c) \div 100)
                /\ style.thousands = Blank => Len(W) = 1
                /\ PrintedAs(Printed(c, style), W, style.thousands, style.decimal, Abs(c) % 100, c < 0)
<1>1. PICK units : units = Abs(c) \div 100
  OBVIOUS
<1>2. units \in Nat
  BY <1>1 DEF Abs
<1> DEFINE W == IF style.thousands = Blank THEN <<Part(Length(units), units)>> ELSE Thousands(units)
<1>3. PICK V : V = W
  OBVIOUS
<1>4. Grouped(V, units)
  <2>1. Grouped(<<Part(Length(units), units)>>, units) /\ Grouped(Thousands(units), units)
    BY <1>2, RunIsGrouped, ThousandsAreGrouped
  <2> QED
    BY <1>3, <2>1, Zenon
<1>5. style.thousands = Blank => Len(V) = 1
  <2>1. Len(<<Part(Length(units), units)>>) = 1
    OBVIOUS
  <2> QED
    BY <1>3, <2>1, Zenon DEF Blank
<1>6. PrintedAs(Printed(c, style), V, style.thousands, style.decimal, Abs(c) % 100, c < 0)
  BY <1>1, <1>3, SMTT(30) DEF PrintedAs, Printed, DecimalsOf, Between
<1> QED
  BY <1>1, <1>4, <1>5, <1>6

LEMMA Remainders ==
  ASSUME NEW a \in Nat
  PROVE  /\ a \div 100 \in Nat /\ a % 100 \in Nat /\ a % 100 < 100 /\ a = 100 * (a \div 100) + (a % 100)
         /\ a \div 10 \in Nat /\ a % 10 \in Nat /\ a % 10 < 10 /\ a = 10 * (a \div 10) + (a % 10)
OBVIOUS

LEMMA DecimalsAreRest ==
  ASSUME NEW v \in Nat, NEW rest \in Nat
  PROVE  /\ DecimalsOf(rest) \in PartType /\ DecimalsOf(rest).len \in 1..2
         /\ InCents(v, DecimalsOf(rest)) = 100 * v + rest
<1>1. rest \div 10 \in Nat /\ rest = 10 * (rest \div 10) + (rest % 10)
  BY Remainders
<1>2. CASE rest % 10 = 0
  <2>1. PICK x : x = DecimalsOf(rest)
    OBVIOUS
  <2>2. x = [len |-> 1, val |-> rest \div 10]
    BY <1>2, <2>1 DEF DecimalsOf, Part
  <2>3. x \in PartType /\ x.len = 1 /\ x.val = rest \div 10
    BY <1>1, <2>2 DEF PartType
  <2> QED
    BY <1>1, <1>2, <2>1, <2>3 DEF InCents
<1>3. CASE rest % 10 # 0
  <2>1. PICK x : x = DecimalsOf(rest)
    OBVIOUS
  <2>2. x = [len |-> 2, val |-> rest]
    BY <1>3, <2>1 DEF DecimalsOf, Part
  <2>3. x \in PartType /\ x.len = 2 /\ x.val = rest
    BY <2>2 DEF PartType
  <2> QED
    BY <2>1, <2>3 DEF InCents
<1> QED
  BY <1>2, <1>3

LEMMA PrintedNumeral ==
  ASSUME NoAmount \notin Int, NEW c \in Int, NEW style \in Styles
  PROVE  /\ Ocr!IsCandidate(Printed(c, style))
         /\ Ocr!NormalizeAmount(Printed(c, style)) = IF Abs(c) > MaxAmount THEN NoAmount ELSE c
<1>1. PICK a \in Nat : a = Abs(c)
  BY DEF Abs
<1>2. PICK v \in Nat, rest \in Nat : v = a \div 100 /\ rest = a % 100 /\ a = 100 * v + rest
  BY <1>1, Remainders
<1>3. PICK t, d : /\ t = style.thousands /\ d = style.decimal
                  /\ t \in Separators /\ d \in {Comma, Dot} /\ d # t
  BY StyleParts
<1>4. PICK n, neg : n = Printed(c, style) /\ neg = (c < 0)
  OBVIOUS
<1>5. PICK W : Grouped(W, v) /\ (t = Blank => Len(W) = 1) /\ PrintedAs(n, W, t, d, rest, neg)
  BY <1>1, <1>2, <1>3, <1>4, PrintedForm
<1>6. neg \in BOOLEAN
  BY <1>4
<1>7. Ocr!IsCandidate(n) /\ Ocr!NormalizeAmount(n) = ValueRead(a, neg)
  <2>1. CASE rest = 0
    <3>1. n = Ocr!Num(W, Between(t, Len(W)), neg)
      BY <1>5, <2>1 DEF PrintedAs
    <3>2. a = 100 * v
      BY <1>1, <1>2, <2>1
    <3> QED
      BY <1>2, <1>3, <1>5, <1>6, <3>1, <3>2, WholeIsRead
  <2>2. CASE rest # 0
    <3>1. PICK dec : dec = DecimalsOf(rest)
      OBVIOUS
    <3>2. n = Ocr!Num(Append(W, dec), Append(Between(t, Len(W)), d), neg)
      BY <1>5, <2>2, <3>1 DEF PrintedAs
    <3>3. dec \in PartType /\ dec.len \in 1..2 /\ InCents(v, dec) = a
      BY <1>2, <3>1, DecimalsAreRest, ZenonT(30)
    <3>4. Ocr!IsCandidate(n) /\ Ocr!NormalizeAmount(n) = ValueRead(InCents(v, dec), neg)
      BY <1>2, <1>3, <1>5, <1>6, <3>2, <3>3, DecimalIsRead
    <3> QED
      BY <3>3, <3>4
  <2> QED
    BY <2>1, <2>2
<1>8. (IF c < 0 THEN -a ELSE a) = c
  BY <1>1 DEF Abs
<1>9. ValueRead(a, neg) = IF a > MaxAmount THEN NoAmount ELSE c
  BY <1>4, <1>8, Zenon DEF ValueRead
<1> QED
  BY <1>1, <1>4, <1>7, <1>9

(* The amounts of a text of a word and a numeral.                          *)
LEMMA OneNumeral ==
  ASSUME NEW w, NEW n, Ocr!IsCandidate(n), NEW x, x = Ocr!NormalizeAmount(n)
  PROVE  Ocr!FindAmounts(<<Ocr!Word(w), n>>) = IF x = NoAmount THEN <<>> ELSE <<x>>
<1>1. PICK text : text = <<Ocr!Word(w), n>>
  OBVIOUS
<1>2. DOMAIN text = 1..2 /\ text[1] = Ocr!Word(w) /\ text[2] = n
  BY <1>1
<1>3. ~Ocr!IsCandidate(text[1])
  <2>1. Ocr!Word(w).kind # "number" /\ Ocr!Word(w).kind # "date"
    BY DEF Ocr!Word, Ocr!Token
  <2> QED
    BY <1>2, <2>1, Zenon DEF Ocr!IsCandidate, Ocr!IsNumeral, Ocr!IsSlashDate
<1>4. PICK spans : spans = Ocr!AmountSpans(text)
  OBVIOUS
<1>5. DOMAIN spans = 1..2 /\ spans[1] = NoAmount /\ spans[2] = x
  <2>1. 1 \in 1..2 /\ 2 \in 1..2
    OBVIOUS
  <2>2. spans = [k \in 1..2 |-> IF Ocr!IsCandidate(text[k]) THEN Ocr!NormalizeAmount(text[k]) ELSE NoAmount]
    BY <1>2, <1>4, Zenon DEF Ocr!AmountSpans
  <2> QED
    BY <1>2, <1>3, <2>1, <2>2, Zenon
<1>6. PICK g : Keeping!Runs(<<>>, spans, 2, g)
  BY <1>5, Keeping!FoldRuns
<1>7. Keeping!Fold(<<>>, spans) = Ocr!FindAmounts(text)
  BY <1>4 DEF Keeping!Fold, Ocr!FindAmounts, Keeping!FoldLeft, Ocr!FoldLeft, Keeping!MapThenFoldSet,
              Ocr!MapThenFoldSet, Keeping!Max, Ocr!Max
<1>8. /\ g[0] = <<>> /\ Ocr!FindAmounts(text) = g[2]
      /\ g[1] = Ocr!KeepRead(g[0], spans[1]) /\ g[2] = Ocr!KeepRead(g[1], spans[2])
  <2>1. 1 \in 1..2 /\ 2 \in 1..2 /\ 1 - 1 = 0 /\ 2 - 1 = 1
    OBVIOUS
  <2>2. \A k \in 1..2 : g[k] = Ocr!KeepRead(g[k - 1], spans[k])
    BY <1>6 DEF Keeping!Runs
  <2> QED
    BY <1>6, <1>7, <2>1, <2>2 DEF Keeping!Runs
<1>9. g[1] = <<>>
  BY <1>5, <1>8 DEF Ocr!KeepRead
<1>10. g[2] = IF x = NoAmount THEN <<>> ELSE <<x>>
  <2>1. Append(<<>>, x) = <<x>>
    OBVIOUS
  <2> QED
    BY <1>5, <1>8, <1>9, <2>1 DEF Ocr!KeepRead
<1> QED
  BY <1>1, <1>8, <1>10

(* Any amount printed in any of the styles, whatever its size, is read as  *)
(* it was meant, or not at all when it is implausibly large.  About        *)
(* normalize_amount and find_amounts.                                      *)
THEOREM PrintedIsRead ==
  ASSUME NEW c \in Int, NEW style \in Styles
  PROVE  Ocr!FindAmounts(<<Ocr!Word("prix"), Printed(c, style)>>) =
           IF Abs(c) > MaxAmount THEN <<>> ELSE <<c>>
<1>1. PICK n : n = Printed(c, style)
  OBVIOUS
<1>2. PICK x : x = Ocr!NormalizeAmount(n)
  OBVIOUS
<1>3. Ocr!IsCandidate(n) /\ x = IF Abs(c) > MaxAmount THEN NoAmount ELSE c
  BY <1>1, <1>2, AlgorithmsAssumption, PrintedNumeral
<1>4. Ocr!FindAmounts(<<Ocr!Word("prix"), n>>) = IF x = NoAmount THEN <<>> ELSE <<x>>
  BY <1>2, <1>3, OneNumeral
<1>5. c # NoAmount
  BY AlgorithmsAssumption
<1> QED
  BY <1>1, <1>3, <1>4, <1>5, Zenon

-----------------------------------------------------------------------------
(* Rows of any length.                                                     *)
SpanOf(token) == IF Ocr!IsCandidate(token) THEN Ocr!NormalizeAmount(token) ELSE NoAmount

LEMMA OneTokenMore ==
  ASSUME NEW S, NEW text \in Seq(S), NEW token
  PROVE  Ocr!FindAmounts(Append(text, token)) = Ocr!KeepRead(Ocr!FindAmounts(text), SpanOf(token))
<1>0. PICK more : more = Append(text, token)
  OBVIOUS
<1>1. PICK l \in Nat : l = Len(text)
  OBVIOUS
<1>2. /\ DOMAIN text = 1..l /\ DOMAIN more = 1..(l + 1) /\ more[l + 1] = token
      /\ \A k \in 1..l : more[k] = text[k]
  BY <1>0, <1>1
<1>3. PICK spans, span : spans = Ocr!AmountSpans(text) /\ span = SpanOf(token)
  OBVIOUS
<1>4. spans = [k \in 1..l |-> SpanOf(text[k])]
  BY <1>2, <1>3 DEF Ocr!AmountSpans, SpanOf
<1>5. PICK longer : longer = Ocr!AmountSpans(more)
  OBVIOUS
<1>6. longer = [k \in 1..(l + 1) |-> SpanOf(more[k])]
  BY <1>2, <1>5 DEF Ocr!AmountSpans, SpanOf
<1>7. PICK T : T = {SpanOf(text[k]) : k \in 1..l}
  OBVIOUS
<1>8. spans \in Seq(T) /\ Len(spans) = l /\ \A k \in 1..l : spans[k] = SpanOf(text[k])
  BY <1>1, <1>4, <1>7
<1>9. longer = Append(spans, span)
  <2>1. PICK a : a = Append(spans, span)
    OBVIOUS
  <2>2. DOMAIN a = 1..(l + 1) /\ a[l + 1] = span /\ \A k \in 1..l : a[k] = spans[k]
    BY <1>8, <2>1
  <2>3. \A k \in 1..(l + 1) : k = l + 1 \/ k \in 1..l
    BY <1>1
  <2>4. \A k \in 1..(l + 1) : a[k] = longer[k]
    BY <1>2, <1>3, <1>6, <1>8, <2>2, <2>3
  <2>5. a = [k \in 1..(l + 1) |-> a[k]]
    <3>1. PICK U : U = T \cup {span}
      OBVIOUS
    <3>2. spans \in Seq(U) /\ span \in U
      BY <1>8, <3>1
    <3>3. a \in Seq(U) /\ Len(a) = l + 1
      BY <1>8, <2>1, <3>2
    <3> QED
      BY <1>1, <3>3
  <2> QED
    BY <1>6, <2>1, <2>2, <2>4, <2>5
<1>10. Keeping!Fold(<<>>, Append(spans, span)) = Ocr!KeepRead(Keeping!Fold(<<>>, spans), span)
  BY <1>8, Keeping!FoldAppend
<1>11. Keeping!Fold(<<>>, spans) = Ocr!FindAmounts(text)
  BY <1>3 DEF Keeping!Fold, Ocr!FindAmounts, Keeping!FoldLeft, Ocr!FoldLeft, Keeping!MapThenFoldSet,
              Ocr!MapThenFoldSet, Keeping!Max, Ocr!Max
<1>12. Keeping!Fold(<<>>, longer) = Ocr!FindAmounts(more)
  BY <1>5 DEF Keeping!Fold, Ocr!FindAmounts, Keeping!FoldLeft, Ocr!FoldLeft, Keeping!MapThenFoldSet,
              Ocr!MapThenFoldSet, Keeping!Max, Ocr!Max
<1> QED
  BY <1>0, <1>3, <1>9, <1>10, <1>11, <1>12

LEMMA Single == ASSUME NEW part PROVE Len(<<part>>) = 1 /\ \A k \in DOMAIN <<part>> : k = 1
OBVIOUS

LEMMA WholesAreRead ==
  ASSUME NoAmount \notin Int, NEW W, NEW v \in Nat, Grouped(W, v)
  PROVE  \A t \in Separators, neg \in BOOLEAN : (t = Blank => Len(W) = 1) =>
            \A n : n = Ocr!Num(W, Between(t, Len(W)), neg) =>
                      Ocr!NormalizeAmount(n) = ValueRead(100 * v, neg)
<1>1. SUFFICES ASSUME NEW t \in Separators, NEW neg \in BOOLEAN, t = Blank => Len(W) = 1,
                      NEW n, n = Ocr!Num(W, Between(t, Len(W)), neg)
               PROVE  Ocr!NormalizeAmount(n) = ValueRead(100 * v, neg)
  BY Zenon
<1>2. PICK a \in Nat : a = 100 * v
  OBVIOUS
<1>3. Ocr!NormalizeAmount(n) = ValueRead(a, neg)
  BY <1>1, <1>2, WholeIsRead
<1> QED
  BY <1>2, <1>3

LEMMA OneGroupIsRead ==
  ASSUME NoAmount \notin Int, NEW W, Len(W) = 1, NEW v \in Nat, Grouped(W, v)
  PROVE  \E n : /\ n.parts = W /\ n.minus = FALSE
                /\ Ocr!NormalizeAmount(n) = ValueRead(100 * v, FALSE)
<1>1. PICK n : n = Ocr!Num(W, Between(Blank, Len(W)), FALSE)
  OBVIOUS
<1>2. n.parts = W /\ n.minus = FALSE
  BY <1>1, Zenon DEF Ocr!Num, Ocr!Token
<1>3. Blank \in Separators /\ FALSE \in BOOLEAN
  BY Zenon DEF Separators
<1>4. \A t \in Separators, neg \in BOOLEAN : (t = Blank => Len(W) = 1) =>
         \A m : m = Ocr!Num(W, Between(t, Len(W)), neg) =>
                   Ocr!NormalizeAmount(m) = ValueRead(100 * v, neg)
  BY WholesAreRead, Zenon
<1>5. Ocr!NormalizeAmount(n) = ValueRead(100 * v, FALSE)
  BY <1>1, <1>3, <1>4, Zenon
<1> QED
  BY <1>2, <1>5, Zenon

(* The year behind a slash is read like a numeral of one group.            *)
LEMMA YearIsRead ==
  ASSUME NoAmount \notin Int, NEW w, NEW year, NEW y \in Nat, Grouped(<<year>>, y),
         NEW day, day = Ocr!Day(w, year, "/")
  PROVE  Ocr!IsCandidate(day) /\ Ocr!NormalizeAmount(day) = ValueRead(100 * y, FALSE)
<1>1. PICK n : /\ n.parts = <<year>> /\ n.minus = FALSE
               /\ Ocr!NormalizeAmount(n) = ValueRead(100 * y, FALSE)
  BY OneGroupIsRead, Single, Zenon
<1>2. /\ day.parts = <<year>> /\ day.minus = FALSE
      /\ day.kind = "date" /\ day.seps = <<"/">>
  BY Zenon DEF Ocr!Day, Ocr!Token
<1>3. Ocr!Pieces(day) = Ocr!Pieces(n)
  <2>1. \A k \in DOMAIN <<year>> : k = 1
    BY Single, Zenon
  <2>2. \A k \in DOMAIN <<year>> :
          (IF k = 1 THEN "" ELSE day.seps[k - 1]) = (IF k = 1 THEN "" ELSE n.seps[k - 1])
    BY <2>1, Zenon
  <2> QED
    BY <1>1, <1>2, <2>2, Zenon DEF Ocr!Pieces
<1>4. Ocr!NormalizeAmount(day) = Ocr!NormalizeAmount(n)
  <2>1. Ocr!Unspaced(day) = Ocr!Unspaced(n)
    BY <1>3, Zenon DEF Ocr!Unspaced
  <2> QED
    BY <1>1, <1>2, <2>1, Zenon DEF Ocr!NormalizeAmount
<1>5. Ocr!IsCandidate(day)
  BY <1>2, Zenon DEF Ocr!IsCandidate, Ocr!IsSlashDate
<1> QED
  BY <1>1, <1>4, <1>5, Zenon

(* A row is read token by token, whatever stands before: a printed amount  *)
(* is found in whatever style it is printed, and a year behind a slash is  *)
(* taken for an amount; words, identifiers, percentages and the dates of   *)
(* dashes or dots add none.  About find_amounts, whose pattern looks for a *)
(* dash or a dot before the digits, not for a slash.                       *)
THEOREM RowIsRead ==
  ASSUME NEW S, NEW text \in Seq(S)
  PROVE  /\ \A c \in Int, style \in Styles : Abs(c) <= MaxAmount =>
              Ocr!FindAmounts(Append(text, Printed(c, style))) = Append(Ocr!FindAmounts(text), c)
         /\ \A w, year : \A y \in Nat : Grouped(<<year>>, y) /\ 100 * y <= MaxAmount =>
              Ocr!FindAmounts(Append(text, Ocr!Day(w, year, "/"))) = Append(Ocr!FindAmounts(text), 100 * y)
         /\ \A token : token.kind # "number" /\ ~Ocr!IsSlashDate(token) =>
              Ocr!FindAmounts(Append(text, token)) = Ocr!FindAmounts(text)
<1>1. PICK read : read = Ocr!FindAmounts(text)
  OBVIOUS
<1>2. ASSUME NEW token, NEW x \in Int, Ocr!IsCandidate(token), Ocr!NormalizeAmount(token) = x
      PROVE  Ocr!FindAmounts(Append(text, token)) = Append(read, x)
  <2>1. SpanOf(token) = x
    BY <1>2, Zenon DEF SpanOf
  <2>2. Ocr!FindAmounts(Append(text, token)) = Ocr!KeepRead(read, x)
    BY <1>1, <2>1, OneTokenMore
  <2>3. x # NoAmount
    BY AlgorithmsAssumption
  <2> QED
    BY <2>2, <2>3 DEF Ocr!KeepRead
<1>3. ASSUME NEW c \in Int, NEW style \in Styles, Abs(c) <= MaxAmount
      PROVE  Ocr!FindAmounts(Append(text, Printed(c, style))) = Append(read, c)
  <2>1. PICK n : n = Printed(c, style)
    OBVIOUS
  <2>2. ~(Abs(c) > MaxAmount)
    <3>1. Abs(c) \in Int /\ MaxAmount \in Int
      BY AlgorithmsAssumption DEF Abs
    <3> QED
      BY <1>3, <3>1
  <2>3. Ocr!IsCandidate(n) /\ Ocr!NormalizeAmount(n) = c
    BY <2>1, <2>2, AlgorithmsAssumption, PrintedNumeral
  <2> QED
    BY <1>2, <2>1, <2>3
<1>4. ASSUME NEW w, NEW year, NEW y \in Nat, Grouped(<<year>>, y), 100 * y <= MaxAmount
      PROVE  Ocr!FindAmounts(Append(text, Ocr!Day(w, year, "/"))) = Append(read, 100 * y)
  <2>1. PICK day : day = Ocr!Day(w, year, "/")
    BY Zenon
  <2>2. Ocr!IsCandidate(day) /\ Ocr!NormalizeAmount(day) = ValueRead(100 * y, FALSE)
    BY <1>4, <2>1, YearIsRead, AlgorithmsAssumption, Zenon
  <2>3. ValueRead(100 * y, FALSE) = 100 * y /\ 100 * y \in Int
    BY <1>4, AlgorithmsAssumption DEF ValueRead
  <2>4. Ocr!FindAmounts(Append(text, day)) = Append(read, 100 * y)
    BY <1>2, <2>2, <2>3
  <2> QED
    BY <2>1, <2>4, Zenon
<1>5. ASSUME NEW token, token.kind # "number", ~Ocr!IsSlashDate(token)
      PROVE  Ocr!FindAmounts(Append(text, token)) = read
  <2>1. ~Ocr!IsCandidate(token)
    BY <1>5, Zenon DEF Ocr!IsCandidate, Ocr!IsNumeral
  <2>2. SpanOf(token) = NoAmount
    BY <2>1, Zenon DEF SpanOf
  <2>3. Ocr!FindAmounts(Append(text, token)) = Ocr!KeepRead(read, NoAmount)
    BY <1>1, <2>2, OneTokenMore
  <2> QED
    BY <2>3 DEF Ocr!KeepRead
<1>6. \A c \in Int, style \in Styles : Abs(c) <= MaxAmount =>
        Ocr!FindAmounts(Append(text, Printed(c, style))) = Append(Ocr!FindAmounts(text), c)
  BY <1>1, <1>3
<1>7. \A w, year : \A y \in Nat : Grouped(<<year>>, y) /\ 100 * y <= MaxAmount =>
        Ocr!FindAmounts(Append(text, Ocr!Day(w, year, "/"))) = Append(Ocr!FindAmounts(text), 100 * y)
  BY <1>1, <1>4, Zenon
<1>8. \A token : token.kind # "number" /\ ~Ocr!IsSlashDate(token) =>
        Ocr!FindAmounts(Append(text, token)) = Ocr!FindAmounts(text)
  BY <1>1, <1>5
<1> QED
  BY <1>6, <1>7, <1>8, Zenon

-----------------------------------------------------------------------------
(* Rows of fragments.                                                      *)
(* The band of the first m fragments of a row, from the highest top to the *)
(* lowest bottom.                                                          *)
Band(row, m, b) ==
  /\ b.top \in Int /\ b.bottom \in Int
  /\ \A i \in 1..m : b.top <= row[i].top /\ row[i].bottom <= b.bottom
  /\ \E i \in 1..m : row[i].top = b.top
  /\ \E i \in 1..m : row[i].bottom = b.bottom

(* The rows are the pieces between the cuts of the first k fragments.      *)
Cut(fragments, rows, cuts, k) ==
  /\ cuts[0] = 0 /\ cuts[Len(rows)] = k
  /\ \A r \in 1..Len(rows) :
       /\ cuts[r - 1] \in Nat /\ cuts[r] \in Nat /\ cuts[r - 1] < cuts[r]
       /\ Len(rows[r]) = cuts[r] - cuts[r - 1]
       /\ \A i \in 1..Len(rows[r]) : rows[r][i] = fragments[cuts[r - 1] + i]

(* A fragment follows in a row whose band it overlaps.                     *)
Follows(row) ==
  \A i \in 1..Len(row) : i > 1 => \E b : Band(row, i - 1, b) /\ Ocr!SameRow(b, row[i])

(* A row begins where the band of the row before is left.                  *)
StartsRow(row, next) ==
  \E b : Band(row, Len(row), b) /\ ~Ocr!SameRow(b, next[1])

IsGrouping(fragments, rows, k) ==
  /\ \E cuts : Cut(fragments, rows, cuts, k)
  /\ \A r \in 1..Len(rows) : Follows(rows[r])
  /\ \A r \in 1..Len(rows) : r > 1 => StartsRow(rows[r - 1], rows[r])

(* What the fold has after k fragments.                                    *)
Grouping(fragments, acc, k) ==
  /\ acc.rows \in Seq(Seq({fragments[i] : i \in DOMAIN fragments}))
  /\ IsGrouping(fragments, acc.rows, k)
  /\ acc.rows # <<>> => Band(acc.rows[Len(acc.rows)], Len(acc.rows[Len(acc.rows)]), acc.band)
  /\ acc.rows = <<>> => k = 0

LEMMA WiderBand ==
  ASSUME NEW m \in Nat, NEW row, NEW b, Band(row, m, b), NEW more, NEW f, f.top \in Int, f.bottom \in Int,
         \A i \in 1..m : more[i] = row[i], more[m + 1] = f,
         \A i \in 1..m : row[i].top \in Int /\ row[i].bottom \in Int
  PROVE  Band(more, m + 1, [top    |-> Ocr!SmallerOf(b.top, f.top),
                            bottom |-> Ocr!LargerOf(b.bottom, f.bottom)])
<1>1. PICK t, u : t = Ocr!SmallerOf(b.top, f.top) /\ u = Ocr!LargerOf(b.bottom, f.bottom)
  OBVIOUS
<1>2. /\ t \in Int /\ u \in Int /\ t <= b.top /\ t <= f.top /\ u >= b.bottom /\ u >= f.bottom
      /\ t = b.top \/ t = f.top
      /\ u = b.bottom \/ u = f.bottom
  BY <1>1 DEF Band, Ocr!SmallerOf, Ocr!LargerOf
<1>3. \A i \in 1..(m + 1) : i \in 1..m \/ i = m + 1
  OBVIOUS
<1>4. 1..m \subseteq 1..(m + 1) /\ m + 1 \in 1..(m + 1)
  OBVIOUS
<1>5. \A i \in 1..(m + 1) : t <= more[i].top /\ more[i].bottom <= u
  BY <1>2, <1>3 DEF Band
<1>6. \E i \in 1..(m + 1) : more[i].top = t
  BY <1>2, <1>4 DEF Band
<1>7. \E i \in 1..(m + 1) : more[i].bottom = u
  BY <1>2, <1>4 DEF Band
<1> QED
  BY <1>1, <1>2, <1>5, <1>6, <1>7 DEF Band

LEMMA FragmentFollows ==
  ASSUME NEW fragments, NEW n \in Nat, DOMAIN fragments = 1..n,
         \A i \in 1..n : fragments[i].top \in Int /\ fragments[i].bottom \in Int,
         NEW k \in 1..n, NEW acc, Grouping(fragments, acc, k - 1),
         acc.rows # <<>>, Ocr!SameRow(acc.band, fragments[k])
  PROVE  Grouping(fragments, Ocr!JoinFragment(acc, fragments[k]), k)
<1>1. PICK rows, f, m, row, band :
        rows = acc.rows /\ f = fragments[k] /\ m = Len(rows) /\ row = rows[m] /\ band = acc.band
  OBVIOUS
<1>2. PICK S : S = {fragments[i] : i \in DOMAIN fragments}
  OBVIOUS
<1>3. f \in S /\ f.top \in Int /\ f.bottom \in Int
  BY <1>1, <1>2
<1>4. rows \in Seq(Seq(S)) /\ m \in Nat /\ m \in 1..m /\ rows # <<>>
  BY <1>1, <1>2 DEF Grouping
<1>5. row \in Seq(S)
  BY <1>1, <1>4
<1>6. PICK more : more = Append(row, f)
  OBVIOUS
<1>7. PICK l \in Nat : l = Len(row)
  BY <1>5
<1>8. /\ more \in Seq(S) /\ Len(more) = l + 1 /\ more[l + 1] = f
      /\ \A i \in 1..l : more[i] = row[i]
  BY <1>3, <1>5, <1>6, <1>7
<1>9. PICK joined : joined = [rows EXCEPT ![m] = more]
  OBVIOUS
<1>10. /\ joined \in Seq(Seq(S)) /\ Len(joined) = m /\ joined[m] = more
       /\ \A r \in 1..m : r < m => joined[r] = rows[r]
  BY <1>1, <1>4, <1>8, <1>9
<1>11. PICK wide : wide = [top |-> Ocr!SmallerOf(band.top, f.top), bottom |-> Ocr!LargerOf(band.bottom, f.bottom)]
  OBVIOUS
<1>12. Ocr!JoinFragment(acc, fragments[k]) = [rows |-> joined, band |-> wide]
  BY <1>1, <1>6, <1>9, <1>11 DEF Ocr!JoinFragment
<1>13. Band(row, l, band)
  BY <1>1, <1>7 DEF Grouping
<1>14. \A i \in 1..l : row[i].top \in Int /\ row[i].bottom \in Int
  <2>1. \A s \in S : s.top \in Int /\ s.bottom \in Int
    BY <1>2
  <2>2. \A i \in 1..l : row[i] \in S
    BY <1>5, <1>7
  <2> QED
    BY <2>1, <2>2
<1>15. Band(more, l + 1, wide)
  BY <1>3, <1>8, <1>11, <1>13, <1>14, WiderBand
<1>16. PICK cuts : Cut(fragments, rows, cuts, k - 1)
  BY <1>1 DEF Grouping, IsGrouping
<1>17. \E later : Cut(fragments, joined, later, k)
  <2> DEFINE later == [r \in 0..m |-> IF r = m THEN k ELSE cuts[r]]
  <2>1. later[m] = k /\ \A r \in 0..m : r < m => later[r] = cuts[r]
    BY <1>4
  <2>2. 0 \in 0..m /\ 0 < m
    BY <1>4
  <2>3. later[0] = 0
    BY <2>1, <2>2, <1>16 DEF Cut
  <2>4. ASSUME NEW r \in 1..m
        PROVE  /\ later[r - 1] \in Nat /\ later[r] \in Nat /\ later[r - 1] < later[r]
               /\ Len(joined[r]) = later[r] - later[r - 1]
               /\ \A i \in 1..Len(joined[r]) : joined[r][i] = fragments[later[r - 1] + i]
    <3> HIDE DEF later
    <3>1. later[r - 1] = cuts[r - 1]
      BY <1>4, <2>1
    <3>2. CASE r < m
      <4>1. later[r] = cuts[r] /\ joined[r] = rows[r]
        BY <1>10, <2>1, <3>2
      <4> QED
        BY <1>1, <1>16, <3>1, <4>1, SMTT(30) DEF Cut
    <3>3. CASE r = m
      <4>1. /\ cuts[m - 1] \in Nat /\ cuts[m] = k - 1 /\ cuts[m - 1] < cuts[m] /\ l = cuts[m] - cuts[m - 1]
            /\ \A i \in 1..l : row[i] = fragments[cuts[m - 1] + i]
        BY <1>1, <1>4, <1>7, <1>16 DEF Cut
      <4>2. later[r] = k /\ joined[r] = more
        BY <1>10, <2>1, <3>3
      <4>3. Len(joined[r]) = later[r] - later[r - 1]
        BY <1>8, <3>1, <3>3, <4>1, <4>2
      <4>4. \A i \in 1..(l + 1) : more[i] = fragments[cuts[m - 1] + i]
        <5>1. \A i \in 1..(l + 1) : i \in 1..l \/ i = l + 1
          OBVIOUS
        <5>2. cuts[m - 1] + (l + 1) = k
          BY <4>1
        <5>3. fragments[cuts[m - 1] + (l + 1)] = f
          BY <1>1, <5>2
        <5> QED
          BY <1>7, <1>8, <4>1, <5>1, <5>3
      <4> QED
        BY <1>8, <3>1, <3>3, <4>1, <4>2, <4>3, <4>4
    <3>4. r < m \/ r = m
      BY <1>4
    <3> QED
      BY <3>2, <3>3, <3>4, Zenon
  <2> HIDE DEF later
  <2>5. Cut(fragments, joined, later, k)
    BY <1>10, <2>1, <2>3, <2>4 DEF Cut
  <2> QED
    BY <2>5
<1>18. \A r \in 1..m : Follows(joined[r])
  <2>1. \A r \in 1..m : Follows(rows[r])
    BY <1>1 DEF Grouping, IsGrouping
  <2>2. ASSUME NEW i \in 1..(l + 1), i > 1 PROVE \E b : Band(more, i - 1, b) /\ Ocr!SameRow(b, more[i])
    <3>1. CASE i = l + 1
      <4>1. Band(more, l, band)
        BY <1>8, <1>13 DEF Band
      <4> QED
        BY <1>1, <1>8, <3>1, <4>1
    <3>2. CASE i \in 1..l
      <4>1. PICK b : Band(row, i - 1, b) /\ Ocr!SameRow(b, row[i])
        BY <1>1, <1>4, <1>7, <2>1, <2>2, <3>2 DEF Follows
      <4>2. \A j \in 1..(i - 1) : more[j] = row[j]
        BY <1>8, <3>2
      <4>3. Band(more, i - 1, b)
        BY <4>1, <4>2 DEF Band
      <4> QED
        BY <1>8, <3>2, <4>1, <4>3
    <3> QED
      BY <3>1, <3>2
  <2>3. Follows(more)
    BY <1>8, <2>2 DEF Follows
  <2>4. \A r \in 1..m : r < m \/ r = m
    BY <1>4
  <2> QED
    BY <1>10, <2>1, <2>3, <2>4
<1>19. \A r \in 1..m : r > 1 => StartsRow(joined[r - 1], joined[r])
  <2>1. ASSUME NEW r \in 1..m, r > 1 PROVE StartsRow(joined[r - 1], joined[r])
    <3>1. StartsRow(rows[r - 1], rows[r])
      BY <1>1, <2>1 DEF Grouping, IsGrouping
    <3>2. joined[r - 1] = rows[r - 1]
      BY <1>10, <2>1
    <3>3. joined[r][1] = rows[r][1]
      <4>1. CASE r < m
        BY <1>10, <4>1
      <4>2. CASE r = m
        <5>1. /\ cuts[m - 1] \in Nat /\ cuts[m] \in Nat /\ cuts[m - 1] < cuts[m] /\ l = cuts[m] - cuts[m - 1]
          BY <1>1, <1>4, <1>7, <1>16 DEF Cut
        <5>2. 1 \in 1..l
          BY <1>7, <5>1
        <5> QED
          BY <1>1, <1>8, <1>10, <4>2, <5>2
      <4> QED
        BY <1>4, <4>1, <4>2
    <3> QED
      BY <3>1, <3>2, <3>3 DEF StartsRow
  <2> QED
    BY <2>1
<1>20. joined # <<>>
  BY <1>4, <1>10
<1>21. IsGrouping(fragments, joined, k)
  BY <1>10, <1>17, <1>18, <1>19 DEF IsGrouping
<1> QED
  BY <1>2, <1>8, <1>10, <1>12, <1>15, <1>20, <1>21 DEF Grouping

LEMMA FragmentBegins ==
  ASSUME NEW fragments, NEW n \in Nat, DOMAIN fragments = 1..n,
         \A i \in 1..n : fragments[i].top \in Int /\ fragments[i].bottom \in Int,
         NEW k \in 1..n, NEW acc, Grouping(fragments, acc, k - 1),
         ~(acc.rows # <<>> /\ Ocr!SameRow(acc.band, fragments[k]))
  PROVE  Grouping(fragments, Ocr!JoinFragment(acc, fragments[k]), k)
<1>1. PICK rows, f, m : rows = acc.rows /\ f = fragments[k] /\ m = Len(rows)
  OBVIOUS
<1>2. PICK S : S = {fragments[i] : i \in DOMAIN fragments}
  OBVIOUS
<1>3. f \in S /\ f.top \in Int /\ f.bottom \in Int
  BY <1>1, <1>2
<1>4. rows \in Seq(Seq(S)) /\ m \in Nat
  BY <1>1, <1>2 DEF Grouping
<1>5. PICK row : row = <<f>>
  OBVIOUS
<1>6. row \in Seq(S) /\ Len(row) = 1 /\ row[1] = f
  BY <1>3, <1>5
<1>7. PICK longer : longer = Append(rows, row)
  OBVIOUS
<1>8. /\ longer \in Seq(Seq(S)) /\ Len(longer) = m + 1 /\ longer[m + 1] = row
      /\ \A r \in 1..m : longer[r] = rows[r]
  BY <1>1, <1>4, <1>6, <1>7
<1>9. PICK band : band = [top |-> f.top, bottom |-> f.bottom]
  OBVIOUS
<1>10. Ocr!JoinFragment(acc, fragments[k]) = [rows |-> longer, band |-> band]
  BY <1>1, <1>5, <1>7, <1>9 DEF Ocr!JoinFragment
<1>11. Band(row, 1, band)
  <2>1. 1 \in 1..1 /\ \A i \in 1..1 : i = 1
    OBVIOUS
  <2> QED
    BY <1>3, <1>6, <1>9, <2>1 DEF Band
<1>12. PICK cuts : Cut(fragments, rows, cuts, k - 1)
  BY <1>1 DEF Grouping, IsGrouping
<1>13. \E later : Cut(fragments, longer, later, k)
  <2> DEFINE later == [r \in 0..(m + 1) |-> IF r = m + 1 THEN k ELSE cuts[r]]
  <2>1. later[m + 1] = k /\ \A r \in 0..m : later[r] = cuts[r]
    BY <1>4
  <2>2. 0 \in 0..m /\ m \in 0..m
    BY <1>4
  <2>3. later[0] = 0
    BY <2>1, <2>2, <1>12 DEF Cut
  <2>4. later[m] = k - 1
    BY <1>1, <2>1, <2>2, <1>12 DEF Cut
  <2>5. ASSUME NEW r \in 1..(m + 1)
        PROVE  /\ later[r - 1] \in Nat /\ later[r] \in Nat /\ later[r - 1] < later[r]
               /\ Len(longer[r]) = later[r] - later[r - 1]
               /\ \A i \in 1..Len(longer[r]) : longer[r][i] = fragments[later[r - 1] + i]
    <3> HIDE DEF later
    <3>1. CASE r \in 1..m
      <4>1. r - 1 \in 0..m /\ r \in 0..m
        BY <1>4, <3>1
      <4>2. later[r - 1] = cuts[r - 1] /\ later[r] = cuts[r] /\ longer[r] = rows[r]
        BY <1>8, <2>1, <3>1, <4>1
      <4> QED
        BY <1>1, <1>12, <3>1, <4>2 DEF Cut
    <3>2. CASE r = m + 1
      <4>1. later[r - 1] = k - 1 /\ later[r] = k /\ longer[r] = row
        BY <1>4, <1>8, <2>1, <2>4, <3>2
      <4>2. later[r - 1] \in Nat /\ later[r] \in Nat /\ later[r - 1] < later[r] /\ later[r] - later[r - 1] = 1
        BY <4>1
      <4>3. \A i \in 1..1 : row[i] = fragments[later[r - 1] + i]
        <5>1. \A i \in 1..1 : i = 1
          OBVIOUS
        <5>2. fragments[later[r - 1] + 1] = f
          BY <1>1, <4>1
        <5> QED
          BY <1>6, <5>1, <5>2
      <4> QED
        BY <1>6, <4>1, <4>2, <4>3
    <3> QED
      BY <1>4, <3>1, <3>2
  <2> HIDE DEF later
  <2>6. Cut(fragments, longer, later, k)
    BY <1>8, <2>1, <2>3, <2>5 DEF Cut
  <2> QED
    BY <2>6
<1>14. \A r \in 1..(m + 1) : Follows(longer[r])
  <2>1. \A r \in 1..m : Follows(rows[r])
    BY <1>1 DEF Grouping, IsGrouping
  <2>2. Follows(row)
    BY <1>6 DEF Follows
  <2>3. \A r \in 1..(m + 1) : r \in 1..m \/ r = m + 1
    BY <1>4
  <2> QED
    BY <1>8, <2>1, <2>2, <2>3
<1>15. \A r \in 1..(m + 1) : r > 1 => StartsRow(longer[r - 1], longer[r])
  <2>1. ASSUME NEW r \in 1..(m + 1), r > 1 PROVE StartsRow(longer[r - 1], longer[r])
    <3>1. CASE r \in 1..m
      <4>1. longer[r - 1] = rows[r - 1] /\ longer[r] = rows[r]
        BY <1>4, <1>8, <2>1, <3>1
      <4> QED
        BY <1>1, <2>1, <3>1, <4>1 DEF Grouping, IsGrouping
    <3>2. CASE r = m + 1
      <4>1. m \in 1..m /\ rows # <<>>
        BY <1>4, <1>1, <2>1, <3>2
      <4>2. Band(rows[m], Len(rows[m]), acc.band)
        BY <1>1, <4>1 DEF Grouping
      <4>3. ~Ocr!SameRow(acc.band, f)
        BY <1>1, <4>1
      <4>4. longer[r - 1] = rows[m] /\ longer[r] = row
        BY <1>4, <1>8, <3>2, <4>1
      <4> QED
        BY <1>6, <4>2, <4>3, <4>4 DEF StartsRow
    <3> QED
      BY <1>4, <3>1, <3>2
  <2> QED
    BY <2>1
<1>16. longer # <<>>
  BY <1>4, <1>8
<1>17. IsGrouping(fragments, longer, k)
  BY <1>8, <1>13, <1>14, <1>15 DEF IsGrouping
<1>18. PICK after : after = [rows |-> longer, band |-> band]
  OBVIOUS
<1>19. after.rows = longer /\ after.band = band
  BY <1>18
<1>20. Grouping(fragments, after, k)
  BY <1>2, <1>6, <1>8, <1>11, <1>16, <1>17, <1>19 DEF Grouping
<1> QED
  BY <1>10, <1>18, <1>20

(* Any fragments are grouped into rows that are pieces of their sequence,  *)
(* none lost, repeated or out of its turn: a fragment follows in a row     *)
(* exactly when it overlaps the band of those before it in that row.       *)
(* About group_rows, whose band grows with the row.                        *)
THEOREM FragmentsAreGrouped ==
  ASSUME NEW n \in Nat, NEW fragments, DOMAIN fragments = 1..n,
         \A i \in 1..n : fragments[i].top \in Int /\ fragments[i].bottom \in Int
  PROVE  IsGrouping(fragments, Ocr!RowsOf(fragments), n)
<1> DEFINE none == [rows |-> <<>>, band |-> [top |-> 0, bottom |-> 0]]
<1>1. PICK g : Lining!Runs(none, fragments, n, g)
  BY Lining!FoldRuns
<1>2. /\ g[0] = none
      /\ \A k \in 1..n : g[k] = Ocr!JoinFragment(g[k - 1], fragments[k])
      /\ Lining!Fold(none, fragments) = g[n]
  BY <1>1 DEF Lining!Runs
<1>3. Ocr!RowsOf(fragments) = g[n].rows
  BY <1>2 DEF Ocr!RowsOf, Lining!Fold, Lining!FoldLeft, Ocr!FoldLeft, Lining!MapThenFoldSet,
              Ocr!MapThenFoldSet, Lining!Max, Ocr!Max
<1> DEFINE T == {k \in Nat : k <= n => Grouping(fragments, g[k], k)}
<1>4. 0 \in T
  <2>1. g[0].rows = <<>> /\ Len(<<>>) = 0
    BY <1>2
  <2>2. \A r \in 1..0 : FALSE
    OBVIOUS
  <2>3. Cut(fragments, <<>>, [r \in {0} |-> 0], 0)
    BY <2>1, <2>2 DEF Cut
  <2>4. IsGrouping(fragments, <<>>, 0)
    BY <2>1, <2>2, <2>3 DEF IsGrouping
  <2>5. PICK acc : acc = g[0]
    OBVIOUS
  <2>6. acc.rows \in Seq(Seq({fragments[i] : i \in DOMAIN fragments}))
    <3>1. \A S : <<>> \in Seq(S)
      OBVIOUS
    <3> QED
      BY <2>1, <2>5, <3>1
  <2>7. Grouping(fragments, acc, 0)
    BY <2>1, <2>4, <2>5, <2>6 DEF Grouping
  <2> QED
    BY <2>5, <2>7
<1>5. ASSUME NEW k \in Nat, k \in T PROVE k + 1 \in T
  <2>1. CASE k + 1 <= n
    <3>1. k + 1 \in 1..n /\ k + 1 - 1 = k
      BY <2>1
    <3>2. Grouping(fragments, g[k], k)
      BY <1>5, <2>1
    <3>3. Grouping(fragments, Ocr!JoinFragment(g[k], fragments[k + 1]), k + 1)
      <4>1. PICK acc, j : acc = g[k] /\ j = k + 1
        OBVIOUS
      <4>2. j \in 1..n /\ Grouping(fragments, acc, j - 1)
        BY <3>1, <3>2, <4>1
      <4>3. CASE acc.rows # <<>> /\ Ocr!SameRow(acc.band, fragments[j])
        BY <4>1, <4>2, <4>3, FragmentFollows
      <4>4. CASE ~(acc.rows # <<>> /\ Ocr!SameRow(acc.band, fragments[j]))
        BY <4>1, <4>2, <4>4, FragmentBegins
      <4> QED
        BY <4>3, <4>4
    <3>4. Grouping(fragments, g[k + 1], k + 1)
      BY <1>2, <3>1, <3>3
    <3> QED
      BY <3>4
  <2> QED
    BY <2>1
<1> HIDE DEF T
<1>6. n \in T
  BY <1>4, <1>5, Lining!Naturals
<1>7. Grouping(fragments, g[n], n)
  BY <1>6 DEF T
<1> QED
  BY <1>3, <1>7 DEF Grouping

-----------------------------------------------------------------------------
(* Totals.                                                                 *)
Fields == 1..5
NoTotals == [f \in Ocr!Range(Ocr!TotalFields) |-> NoAmount]

LEMMA FieldNames ==
  /\ DOMAIN Ocr!TotalFields = Fields
  /\ \A j, k \in Fields : Ocr!TotalFields[j] = Ocr!TotalFields[k] => j = k
  /\ \A k \in Fields : Ocr!TotalFields[k] = "ttc" <=> k = 5
  /\ \A k \in Fields : Ocr!TotalFields[k] \in Ocr!Range(Ocr!TotalFields)
<1>1. DOMAIN Ocr!TotalFields = Fields
  BY DEF Ocr!TotalFields, Fields
<1>2. /\ Ocr!TotalFields[1] = "ht" /\ Ocr!TotalFields[2] = "discount" /\ Ocr!TotalFields[3] = "shipping"
      /\ Ocr!TotalFields[4] = "tax" /\ Ocr!TotalFields[5] = "ttc"
  BY DEF Ocr!TotalFields
<1>3. \A k \in Fields : k = 1 \/ k = 2 \/ k = 3 \/ k = 4 \/ k = 5
  BY DEF Fields
<1>4. \A j, k \in Fields : Ocr!TotalFields[j] = Ocr!TotalFields[k] => j = k
  BY <1>2, <1>3
<1>5. \A k \in Fields : Ocr!TotalFields[k] = "ttc" <=> k = 5
  BY <1>2, <1>3
<1>6. \A k \in Fields : Ocr!TotalFields[k] \in Ocr!Range(Ocr!TotalFields)
  BY <1>1 DEF Ocr!Range
<1> QED
  BY <1>1, <1>4, <1>5, <1>6

(* A row that names a field without giving it anything: it announces       *)
(* columns, has no amount, gives its amount to a field that is tried       *)
(* earlier, or is a total that excludes tax.                               *)
PassedBy(rows, from, i, k) ==
  \/ Ocr!AnnouncesColumns(rows[i])
  \/ Ocr!AmountOrNext(rows, i) = NoAmount
  \/ \E j \in Fields : j < k /\ from[j] = i
  \/ k = 5 /\ Ocr!Labelled(rows[i].text, "ht")

(* The totals of the first m rows, and the row that gave each of them.     *)
GivenBy(rows, totals, from, m) ==
  /\ DOMAIN totals = Ocr!Range(Ocr!TotalFields)
  /\ \A k \in Fields :
       LET field == Ocr!TotalFields[k]
       IN /\ from[k] \in 0..m
          /\ from[k] = 0 <=> totals[field] = NoAmount
          /\ from[k] # 0 => /\ Ocr!Labelled(rows[from[k]].text, field)
                            /\ totals[field] = Ocr!AmountOrNext(rows, from[k])
          /\ \A j \in Fields : from[j] = from[k] /\ j # k => from[k] = 0
          /\ \A i \in 1..m : Ocr!Labelled(rows[i].text, field) /\ (from[k] = 0 \/ i < from[k])
                               => PassedBy(rows, from, i, k)

Given(rows, totals, m) == \E from : GivenBy(rows, totals, from, m)

(* The first of the fields that are open.                                  *)
LEMMA FirstOpen ==
  ASSUME NEW open, open \subseteq Fields, open # {}
  PROVE  /\ (CHOOSE k \in open : \A j \in open : k <= j) \in open
         /\ \A j \in open : (CHOOSE k \in open : \A i \in open : k <= i) <= j
<1>1. \E k \in open : \A j \in open : k <= j
  <2> DEFINE T == {m \in Nat : \A s \in SUBSET (1..m) : s # {} => \E k \in s : \A j \in s : k <= j}
  <2>1. 0 \in T
    <3>1. 1..0 = {}
      OBVIOUS
    <3> QED
      BY <3>1
  <2>2. ASSUME NEW m \in Nat, m \in T PROVE m + 1 \in T
    <3>1. ASSUME NEW s \in SUBSET (1..(m + 1)), s # {} PROVE \E k \in s : \A j \in s : k <= j
      <4>1. PICK t : t = s \ {m + 1}
        OBVIOUS
      <4>2. t \in SUBSET (1..m)
        BY <4>1
      <4>3. CASE t = {}
        <5>1. s = {m + 1}
          BY <3>1, <4>1, <4>3
        <5> QED
          BY <5>1
      <4>4. CASE t # {}
        <5>1. PICK k \in t : \A j \in t : k <= j
          BY <2>2, <4>2, <4>4
        <5>2. k <= m + 1 /\ k \in s
          BY <4>1, <4>2, <5>1
        <5>3. \A j \in s : j \in t \/ j = m + 1
          BY <4>1
        <5> QED
          BY <5>1, <5>2, <5>3
      <4> QED
        BY <4>3, <4>4
    <3> QED
      BY <3>1
  <2> HIDE DEF T
  <2>3. 5 \in T
    BY <2>1, <2>2, Lining!Naturals
  <2>4. open \in SUBSET (1..5)
    BY DEF Fields
  <2> QED
    BY <2>3, <2>4 DEF T
<1> QED
  BY <1>1

LEMMA RowGives ==
  ASSUME NEW rows, NEW totals, NEW m \in Nat, Given(rows, totals, m)
  PROVE  Given(rows, Ocr!TakeTotal(rows, totals, m + 1), m + 1)
<1>1. PICK from : GivenBy(rows, totals, from, m)
  BY DEF Given
<1>2. PICK i, open : i = m + 1 /\ open = Ocr!OpenFields(totals, rows[i].text)
  OBVIOUS
<1>3. \A k \in Fields : k \in open <=> /\ totals[Ocr!TotalFields[k]] = NoAmount
                                      /\ Ocr!Labelled(rows[i].text, Ocr!TotalFields[k])
  BY <1>2, FieldNames DEF Ocr!OpenFields
<1>4. open \subseteq Fields
  BY <1>2, FieldNames DEF Ocr!OpenFields
<1>5. PICK first : first = CHOOSE k \in open : \A j \in open : k <= j
  OBVIOUS
<1>6. open # {} => first \in open /\ \A j \in open : first <= j
  BY <1>4, <1>5, FirstOpen
<1>7. PICK field, a : field = Ocr!TotalFields[first] /\ a = Ocr!AmountOrNext(rows, i)
  OBVIOUS
<1>8. PICK taken : taken = Ocr!TakeTotal(rows, totals, i)
  OBVIOUS
<1>9. \A k \in Fields : from[k] \in 0..m /\ (from[k] = 0 <=> totals[Ocr!TotalFields[k]] = NoAmount)
  BY <1>1 DEF GivenBy
<1>10. \A j \in 1..i : j \in 1..m \/ j = i
  BY <1>2
<1>11. CASE \/ Ocr!AnnouncesColumns(rows[i])
            \/ open = {}
            \/ field = "ttc" /\ Ocr!Labelled(rows[i].text, "ht")
  <2>1. taken = totals
    BY <1>2, <1>5, <1>7, <1>8, <1>11 DEF Ocr!TakeTotal
  <2>2. ASSUME NEW k \in Fields, Ocr!Labelled(rows[i].text, Ocr!TotalFields[k]), from[k] = 0
        PROVE  PassedBy(rows, from, i, k)
    <3>1. k \in open
      BY <1>3, <1>9, <2>2
    <3>2. CASE Ocr!AnnouncesColumns(rows[i])
      BY <3>2 DEF PassedBy
    <3>3. CASE field = "ttc" /\ Ocr!Labelled(rows[i].text, "ht")
      <4>1. first = 5
        BY <1>4, <1>6, <1>7, <3>1, <3>3, FieldNames
      <4>2. k = 5
        BY <1>4, <1>6, <3>1, <4>1 DEF Fields
      <4> QED
        BY <3>3, <4>2 DEF PassedBy
    <3> QED
      BY <1>11, <3>1, <3>2, <3>3
  <2>3. \A k \in Fields : ~(i < from[k])
    BY <1>2, <1>9
  <2>4. GivenBy(rows, taken, from, i)
    <3>1. \A k \in Fields : from[k] \in 0..i
      BY <1>2, <1>9
    <3>2. \A k \in Fields : \A j \in 1..i :
            Ocr!Labelled(rows[j].text, Ocr!TotalFields[k]) /\ (from[k] = 0 \/ j < from[k])
              => PassedBy(rows, from, j, k)
      BY <1>1, <1>10, <2>2, <2>3 DEF GivenBy
    <3> QED
      BY <1>1, <2>1, <3>1, <3>2 DEF GivenBy
  <2> QED
    BY <1>2, <1>8, <2>4 DEF Given
<1>12. CASE ~ \/ Ocr!AnnouncesColumns(rows[i])
              \/ open = {}
              \/ field = "ttc" /\ Ocr!Labelled(rows[i].text, "ht")
  <2>1. taken = [totals EXCEPT ![field] = a]
    BY <1>2, <1>5, <1>7, <1>8, <1>12 DEF Ocr!TakeTotal
  <2>2. first \in Fields /\ first \in open /\ field \in DOMAIN totals
    BY <1>1, <1>4, <1>6, <1>7, <1>12, FieldNames DEF GivenBy
  <2>3. /\ taken[field] = a
        /\ \A k \in Fields : k # first => taken[Ocr!TotalFields[k]] = totals[Ocr!TotalFields[k]]
        /\ DOMAIN taken = DOMAIN totals
    BY <1>7, <2>1, <2>2, FieldNames
  <2>4. from[first] = 0 /\ Ocr!Labelled(rows[i].text, field)
    BY <1>3, <1>7, <1>9, <2>2
  <2>5. PICK later : later = [k \in Fields |-> IF k = first /\ a # NoAmount THEN i ELSE from[k]]
    OBVIOUS
  <2>6. /\ later[first] = IF a # NoAmount THEN i ELSE 0
        /\ \A k \in Fields : k # first => later[k] = from[k]
    BY <2>2, <2>4, <2>5
  <2>7. \A k \in Fields : /\ later[k] \in 0..i
                          /\ later[k] = 0 <=> taken[Ocr!TotalFields[k]] = NoAmount
    <3>1. ASSUME NEW k \in Fields PROVE later[k] \in 0..i /\ (later[k] = 0 <=> taken[Ocr!TotalFields[k]] = NoAmount)
      <4>1. CASE k = first
        BY <1>2, <1>7, <2>3, <2>6, <4>1
      <4>2. CASE k # first
        BY <1>2, <1>9, <2>3, <2>6, <4>2
      <4> QED
        BY <4>1, <4>2
    <3> QED
      BY <3>1
  <2>8. ASSUME NEW k \in Fields, later[k] # 0
        PROVE  /\ Ocr!Labelled(rows[later[k]].text, Ocr!TotalFields[k])
               /\ taken[Ocr!TotalFields[k]] = Ocr!AmountOrNext(rows, later[k])
    <3>1. CASE k = first
      BY <1>7, <2>3, <2>4, <2>6, <2>8, <3>1
    <3>2. CASE k # first
      <4>1. later[k] = from[k] /\ taken[Ocr!TotalFields[k]] = totals[Ocr!TotalFields[k]]
        BY <2>3, <2>6, <3>2
      <4> QED
        BY <1>1, <2>8, <4>1 DEF GivenBy
    <3> QED
      BY <3>1, <3>2
  <2>9. ASSUME NEW k \in Fields, NEW j \in Fields, later[j] = later[k], j # k PROVE later[k] = 0
    <3>1. \A x \in Fields : from[x] # i
      BY <1>2, <1>9
    <3>2. CASE k # first /\ j # first
      BY <1>1, <2>6, <2>9, <3>2 DEF GivenBy
    <3>3. CASE k = first
      BY <2>6, <2>9, <3>1, <3>3
    <3>4. CASE j = first
      BY <2>6, <2>9, <3>1, <3>4
    <3> QED
      BY <3>2, <3>3, <3>4
  <2>10. ASSUME NEW k \in Fields, NEW j \in 1..i, Ocr!Labelled(rows[j].text, Ocr!TotalFields[k]),
                later[k] = 0 \/ j < later[k]
         PROVE  PassedBy(rows, later, j, k)
    <3>1. from[k] = 0 \/ j < from[k]
      BY <2>4, <2>6, <2>10
    <3>2. CASE j \in 1..m
      <4>1. PassedBy(rows, from, j, k)
        BY <1>1, <2>10, <3>1, <3>2 DEF GivenBy
      <4>2. \A x \in Fields : from[x] = j => later[x] = j
        <5>1. j # 0
          BY <3>2
        <5> QED
          BY <2>4, <2>6, <5>1
      <4> QED
        BY <4>1, <4>2 DEF PassedBy
    <3>3. CASE j = i
      <4>1. k \in open
        BY <1>2, <1>3, <1>9, <2>10, <3>1, <3>3
      <4>2. first <= k
        BY <1>6, <2>2, <4>1
      <4>3. CASE a = NoAmount
        BY <1>7, <3>3, <4>3 DEF PassedBy
      <4>4. CASE a # NoAmount
        <5>1. later[first] = i
          BY <2>6, <4>4
        <5>2. i # 0 /\ ~(i < i)
          BY <1>2
        <5>3. k # first
          BY <2>10, <3>3, <5>1, <5>2
        <5>4. first < k
          BY <2>2, <4>2, <5>3 DEF Fields
        <5> QED
          BY <2>2, <3>3, <5>1, <5>4 DEF PassedBy
      <4> QED
        BY <4>3, <4>4
    <3> QED
      BY <1>10, <3>2, <3>3
  <2>11. DOMAIN taken = Ocr!Range(Ocr!TotalFields)
    BY <1>1, <2>3 DEF GivenBy
  <2>12. GivenBy(rows, taken, later, i)
    BY <2>7, <2>8, <2>9, <2>10, <2>11 DEF GivenBy
  <2> QED
    BY <1>2, <1>8, <2>12 DEF Given
<1> QED
  BY <1>11, <1>12

(* The totals after each row, as ExtractFinancial computes them.           *)
TotalsStep(f, rows, i) == IF i = 0 THEN NoTotals ELSE Ocr!TakeTotal(rows, f[i - 1], i)
TotalsUpTo(f, rows, m) == f = [i \in 0..m |-> TotalsStep(f, rows, i)]

LEMMA TotalsExist ==
  ASSUME NEW rows, NEW n \in Nat
  PROVE  \E f : TotalsUpTo(f, rows, n)
<1> DEFINE T == {m \in Nat : \E f : TotalsUpTo(f, rows, m)}
<1>1. 0 \in T
  <2> DEFINE f == [i \in 0..0 |-> NoTotals]
  <2>1. \A i \in 0..0 : f[i] = TotalsStep(f, rows, i)
    BY DEF TotalsStep
  <2>2. TotalsUpTo(f, rows, 0)
    BY <2>1 DEF TotalsUpTo
  <2> QED
    BY <2>2
<1>2. ASSUME NEW m \in Nat, m \in T PROVE m + 1 \in T
  <2>1. PICK f : f = [i \in 0..m |-> TotalsStep(f, rows, i)]
    BY <1>2 DEF TotalsUpTo
  <2> DEFINE g == [i \in 0..(m + 1) |-> TotalsStep(f, rows, i)]
  <2>2. \A i \in 0..m : g[i] = f[i]
    <3> HIDE DEF g
    <3>1. \A i \in 0..(m + 1) : g[i] = TotalsStep(f, rows, i)
      BY DEF g
    <3>2. \A i \in 0..m : i \in 0..(m + 1)
      OBVIOUS
    <3> QED
      BY <2>1, <3>1, <3>2
  <2>3. ASSUME NEW i \in 0..(m + 1) PROVE g[i] = TotalsStep(g, rows, i)
    <3>1. i # 0 => g[i - 1] = f[i - 1]
      <4>1. i # 0 => i - 1 \in 0..m
        OBVIOUS
      <4> QED
        BY <2>2, <4>1
    <3> HIDE DEF g
    <3>2. TotalsStep(g, rows, i) = TotalsStep(f, rows, i)
      BY <3>1 DEF TotalsStep
    <3> QED
      BY <3>2 DEF g
  <2>4. TotalsUpTo(g, rows, m + 1)
    BY <2>3 DEF TotalsUpTo
  <2> QED
    BY <2>4
<1> HIDE DEF T
<1>3. n \in T
  BY <1>1, <1>2, Lining!Naturals
<1> QED
  BY <1>3 DEF T

(* Each total is the amount of the first row that names it and gives it    *)
(* one, no row gives two, and a row passed by had no amount or gave it to  *)
(* a field that is tried earlier.  About _extract_financial, over any rows *)
(* and whatever amounts are read in them.                                  *)
THEOREM TotalsAreGiven ==
  ASSUME NEW S, NEW rows \in Seq(S)
  PROVE  Given(rows, Ocr!ExtractFinancial(rows), Len(rows))
<1>1. PICK n \in Nat : n = Len(rows)
  OBVIOUS
<1>2. PICK f : TotalsUpTo(f, rows, n) /\ Ocr!ExtractFinancial(rows) = f[n]
  <2> DEFINE f == CHOOSE f : TotalsUpTo(f, rows, n)
  <2>1. TotalsUpTo(f, rows, n)
    BY TotalsExist
  <2>2. Ocr!ExtractFinancial(rows) = f[n]
    BY <1>1 DEF Ocr!ExtractFinancial, TotalsUpTo, TotalsStep, NoTotals
  <2> QED
    BY <2>1, <2>2
<1>3. /\ f[0] = NoTotals
      /\ \A m \in 0 .. n - 1 : f[m + 1] = Ocr!TakeTotal(rows, f[m], m + 1)
  <2>1. \A i \in 0..n : f[i] = TotalsStep(f, rows, i)
    BY <1>2 DEF TotalsUpTo
  <2>2. 0 \in 0..n
    BY <1>1
  <2>3. f[0] = NoTotals
    BY <2>1, <2>2 DEF TotalsStep
  <2>4. ASSUME NEW m \in 0 .. n - 1 PROVE f[m + 1] = Ocr!TakeTotal(rows, f[m], m + 1)
    <3>1. PICK i \in 0..n : i = m + 1 /\ i # 0 /\ i - 1 = m
      BY <1>1
    <3> QED
      BY <2>1, <3>1 DEF TotalsStep
  <2> QED
    BY <2>3, <2>4
<1> DEFINE T == {m \in Nat : m <= n => Given(rows, f[m], m)}
<1>4. 0 \in T
  <2>1. PICK from : from = [k \in Fields |-> 0]
    OBVIOUS
  <2>2. \A k \in Fields : from[k] = 0 /\ NoTotals[Ocr!TotalFields[k]] = NoAmount
    BY <2>1, FieldNames DEF NoTotals
  <2>3. DOMAIN NoTotals = Ocr!Range(Ocr!TotalFields)
    BY DEF NoTotals
  <2>4. \A i \in 1..0 : FALSE
    OBVIOUS
  <2>5. GivenBy(rows, NoTotals, from, 0)
    BY <2>2, <2>3, <2>4 DEF GivenBy
  <2> QED
    BY <1>3, <2>5 DEF Given
<1>5. ASSUME NEW m \in Nat, m \in T PROVE m + 1 \in T
  <2>1. CASE m + 1 <= n
    <3>1. m \in 0 .. n - 1 /\ Given(rows, f[m], m)
      BY <1>5, <2>1
    <3> QED
      BY <1>3, <3>1, RowGives
  <2> QED
    BY <2>1
<1> HIDE DEF T
<1>6. n \in T
  BY <1>4, <1>5, Lining!Naturals
<1> QED
  BY <1>1, <1>2, <1>6 DEF T

-----------------------------------------------------------------------------
(* The inputs of the runs, by their kind.                                  *)
Inputs == AnyComparisons \cup Repetitions \cup PrintedAmounts \cup PrintedInvoices
IsInput(i) == i \in {[kind |-> "limiter"], [kind |-> "page"]} \cup Inputs

LEMMA Kinds ==
  /\ \A i \in AnyComparisons : i.kind = "compare"
  /\ \A i \in Repetitions : i.kind = "repeat"
  /\ \A i \in PrintedAmounts : i.kind = "amount"
  /\ \A i \in PrintedInvoices : i.kind = "document"
<1>1. \A i \in AnyComparisons : i.kind = "compare"
  BY DEF AnyComparisons
<1>2. \A i \in Repetitions : i.kind = "repeat"
  BY DEF Repetitions, Repeated
<1>3. \A i \in PrintedAmounts : i.kind = "amount"
  BY DEF PrintedAmounts
<1>4. \A i \in PrintedInvoices : i.kind = "document"
  BY DEF PrintedInvoices
<1> QED
  BY <1>1, <1>2, <1>3, <1>4

LEMMA KindTells ==
  ASSUME NEW i, IsInput(i)
  PROVE  /\ i.kind = "compare" => i \in AnyComparisons
         /\ i.kind = "repeat" => i \in Repetitions
         /\ i.kind = "amount" => i \in PrintedAmounts
BY Kinds DEF IsInput, Inputs

(* The input never changes.                                                *)
LEMMA InputStays == MCSpec => []IsInput(input)
<1>1. MCInit => IsInput(input)
  BY DEF MCInit, IsInput, Inputs
<1>2. IsInput(input) /\ [MCNext]_<<rvars, pvars, input>> => IsInput(input)'
  <2>1. [MCNext]_<<rvars, pvars, input>> => input' = input
    BY DEF MCNext
  <2> QED
    BY <2>1 DEF IsInput
<1> QED
  BY <1>1, <1>2, PTL DEF MCSpec

(* What AmountsReadAsPrinted says, in every state: see PrintedIsRead.      *)
THEOREM AmountsRead == MCSpec => []AmountsReadAsPrinted
<1>1. ASSUME IsInput(input) PROVE AmountsReadAsPrinted
  <2> SUFFICES ASSUME input.kind = "amount"
               PROVE  Ocr!FindAmounts(<<Ocr!Word("prix"), Printed(input.cents, input.style)>>) =
                        IF Abs(input.cents) > MaxAmount THEN <<>> ELSE <<input.cents>>
    BY DEF AmountsReadAsPrinted
  <2>1. input \in PrintedAmounts
    BY <1>1, KindTells
  <2>2. input.cents \in Amounts /\ input.style \in Styles
    BY <2>1 DEF PrintedAmounts
  <2>3. input.cents \in Int
    BY <2>2 DEF Amounts
  <2> QED
    BY <2>2, <2>3, PrintedIsRead
<1> QED
  BY <1>1, InputStays, PTL

-----------------------------------------------------------------------------
(* The lines of the catalogue.                                             *)
LEMMA CatalogueLines ==
  /\ DOMAIN Catalogue = 1..3
  /\ Catalogue[1] = Item(1, "R1", "compressor", 2, 10, 20)
  /\ Catalogue[2] = Item(2, "R2", "valve", 3, 20, 60)
  /\ Catalogue[3] = Item(3, Blank, "pipe", 0, 5, NoAmount)
<1>1. PICK x, y, z : /\ x = Item(1, "R1", "compressor", 2, 10, 20)
                     /\ y = Item(2, "R2", "valve", 3, 20, 60)
                     /\ z = Item(3, Blank, "pipe", 0, 5, NoAmount)
  OBVIOUS
<1>2. Catalogue = <<x, y, z>>
  BY <1>1 DEF Catalogue
<1>3. PICK c : c = Catalogue
  OBVIOUS
<1>4. DOMAIN c = 1..3 /\ c[1] = x /\ c[2] = y /\ c[3] = z
  BY <1>2, <1>3
<1> QED
  BY <1>1, <1>3, <1>4, Zenon

LEMMA CatalogueNames ==
  \A k \in DOMAIN Catalogue : Catalogue[k].name \in Names \ {"compressors", "other"}
<1>1. PICK c : c = Catalogue
  OBVIOUS
<1>2. /\ DOMAIN c = 1..3
      /\ c[1].name = "compressor" /\ c[2].name = "valve" /\ c[3].name = "pipe"
  <2>1. \A id, ref, name, q, p, a : Item(id, ref, name, q, p, a).name = name
    BY DEF Item
  <2>2. /\ DOMAIN c = 1..3
        /\ c[1] = Item(1, "R1", "compressor", 2, 10, 20)
        /\ c[2] = Item(2, "R2", "valve", 3, 20, 60)
        /\ c[3] = Item(3, Blank, "pipe", 0, 5, NoAmount)
    BY <1>1, CatalogueLines, Zenon
  <2>3. /\ c[1].name = "compressor"
        /\ c[2].name = "valve"
        /\ c[3].name = "pipe"
    BY <2>1, <2>2
  <2> QED
    BY <2>2, <2>3
<1>3. \A k \in 1..3 : k = 1 \/ k = 2 \/ k = 3
  OBVIOUS
<1>4. \A k \in 1..3 : c[k].name \in Names \ {"compressors", "other"}
  BY <1>2, <1>3 DEF Names
<1> QED
  BY <1>1, <1>2, <1>4

LEMMA NamedComparable ==
  ASSUME NEW ls, NEW n \in Nat, DOMAIN ls = 1..n, Len(ls) = n, \A k \in 1..n : ls[k].name \in Names,
         NEW orderLines, DOMAIN orderLines \subseteq 1..3,
         \A k \in DOMAIN orderLines : orderLines[k].name \in Names
  PROVE  Comparable(ls, orderLines)
<1>1. \A a, b \in Names : Ratio(a, b) \in 0..100
  BY AlgorithmsAssumption
<1>2. \A k \in DOMAIN ls, j \in DOMAIN orderLines : Ratio(ls[k].name, orderLines[j].name) \in 0..100
  BY <1>1
<1>3. DOMAIN orderLines \subseteq Nat
  OBVIOUS
<1>4. Len(ls) \in Nat /\ DOMAIN ls = 1..Len(ls)
  OBVIOUS
<1> QED
  BY <1>2, <1>3, <1>4 DEF Comparable

LEMMA AnyLineNamed == \A l \in AnyLine : l.name \in Names
<1>1. ASSUME NEW l \in AnyLine PROVE l.name \in {"compressors", "valve"}
  BY <1>1 DEF AnyLine, Line
<1> QED
  BY <1>1 DEF Names

(* Of the comparisons with a part of the catalogue.                        *)
LEMMA ComparedLines ==
  ASSUME NEW i \in AnyComparisons, i.lines # <<>>
  PROVE  Comparable(i.lines, i.orderLines) /\ Len(i.lines) \in 1..2
<1>1. PICK ol : ol = i.orderLines
  OBVIOUS
<1>2. ol = SubSeq(Catalogue, 1, 2)
  BY <1>1 DEF AnyComparisons
<1>3. DOMAIN ol = 1..2 /\ \A k \in 1..2 : ol[k] = Catalogue[k]
  <2>1. PICK x, y, z : Catalogue = <<x, y, z>>
    BY DEF Catalogue
  <2>2. Catalogue \in Seq({x, y, z}) /\ Len(Catalogue) = 3
    BY <2>1
  <2>3. Len(ol) = 2 /\ ol \in Seq({x, y, z})
    <3>1. PICK c : c = Catalogue
      OBVIOUS
    <3>2. ol = SubSeq(c, 1, 2) /\ c \in Seq({x, y, z}) /\ Len(c) = 3
      BY <1>2, <2>2, <3>1
    <3> QED
      BY <3>2
  <2>4. PICK c : c = Catalogue
    OBVIOUS
  <2>5. ol = SubSeq(c, 1, 2) /\ c \in Seq({x, y, z}) /\ Len(c) = 3
    BY <1>2, <2>2, <2>4
  <2>6. \A k \in 1..2 : ol[k] = c[k]
    BY <2>5
  <2> QED
    BY <2>3, <2>4, <2>6
<1>4. \A k \in DOMAIN ol : ol[k].name \in Names
  <2>1. \A k \in 1..2 : k \in DOMAIN Catalogue
    <3>1. DOMAIN Catalogue = 1..3
      BY CatalogueLines, Zenon
    <3> QED
      BY <3>1
  <2> QED
    BY <1>3, <2>1, CatalogueNames
<1>5. PICK ls : ls = i.lines
  OBVIOUS
<1>6. \/ ls = <<>> \/ (\E l \in AnyLine : ls = <<l>>) \/ (\E l, m \in AnyLine : ls = <<l, m>>)
  BY <1>5 DEF AnyComparisons
<1>7. \A l \in AnyLine : l.name \in Names
  BY AnyLineNamed
<1>8. PICK n \in 1..2 : DOMAIN ls = 1..n /\ Len(ls) = n /\ \A k \in 1..n : ls[k].name \in Names
  <2>1. CASE \E l \in AnyLine : ls = <<l>>
    <3>1. PICK l \in AnyLine : ls = <<l>>
      BY <2>1
    <3>2. DOMAIN ls = 1..1 /\ Len(ls) = 1 /\ ls[1] = l
      BY <3>1
    <3> QED
      BY <1>7, <3>2
  <2>2. CASE \E l, m \in AnyLine : ls = <<l, m>>
    <3>1. PICK l \in AnyLine, m \in AnyLine : ls = <<l, m>>
      BY <2>2
    <3>2. DOMAIN ls = 1..2 /\ Len(ls) = 2 /\ ls[1] = l /\ ls[2] = m
      BY <3>1
    <3>3. \A k \in 1..2 : k = 1 \/ k = 2
      OBVIOUS
    <3> QED
      BY <1>7, <3>2, <3>3
  <2> QED
    BY <1>5, <1>6, <2>1, <2>2
<1>9. n \in Nat
  BY <1>8
<1>10. DOMAIN ol \subseteq 1..3
  BY <1>3
<1>11. Comparable(ls, ol)
  BY <1>4, <1>8, <1>9, <1>10, NamedComparable
<1> QED
  BY <1>1, <1>5, <1>8, <1>11

(* What FullScoreIffNoGap says, in every state.                            *)
THEOREM FullScoreOnlyWithoutGap == MCSpec => []FullScoreIffNoGap
<1>1. ASSUME IsInput(input) PROVE FullScoreIffNoGap
  <2> SUFFICES ASSUME input.kind = "compare", input.lines # <<>>
               PROVE  Compared(input).score = 10000 <=> \A g \in Compared(input).gaps : g[1] = "DUPLICATE"
    BY DEF FullScoreIffNoGap
  <2>1. input \in AnyComparisons
    BY <1>1, KindTells
  <2>2. PICK ls, ol, n : ls = input.lines /\ ol = input.orderLines /\ n = Len(ls)
    OBVIOUS
  <2>3. Comparable(ls, ol) /\ n \in 1..2
    BY <2>1, <2>2, ComparedLines
  <2>4. 0 < Len(ls) /\ Len(ls) < 3000
    <3>1. 0 < n /\ n < 3000
      BY <2>3
    <3> QED
      BY <2>2, <3>1
  <2>5. PICK m : m = Match(input.invoice, ls, input.order, ol, Others, Rates, "USD", Tol)
    OBVIOUS
  <2>6. m.score = FullScore <=> \A g \in m.gaps : g[1] = "DUPLICATE"
    BY <2>3, <2>4, <2>5, FullScoreTellsGaps
  <2>7. m = Compared(input)
    BY <2>2, <2>5 DEF Compared
  <2> QED
    BY <2>6, <2>7 DEF FullScore
<1> QED
  BY <1>1, InputStays, PTL

-----------------------------------------------------------------------------
(* Invoices that repeat the catalogue.                                     *)
LEMMA FindsByRef ==
  ASSUME NEW line, NEW ls, NEW k, line.ref # Blank, {j \in DOMAIN ls : ls[j].ref = line.ref} = {k}
  PROVE  FindsOwn(line, ls, k)
BY Zenon DEF FindsOwn, Blank

LEMMA FindsByName ==
  ASSUME NEW line, NEW ls, NEW k, line.ref = Blank, line.name # Blank,
         {j \in DOMAIN ls : ls[j].name = line.name} = {k}
  PROVE  FindsOwn(line, ls, k)
BY Zenon DEF FindsOwn, Blank

LEMMA FindsByLikeness ==
  ASSUME NEW line, NEW ls, NEW k, line.ref = Blank, Blank \notin {line.name, ls[k].name},
         \A j \in DOMAIN ls : ls[j].name # line.name, Similar(line.name, ls[k].name),
         \A j \in DOMAIN ls \ {k} : Ratio(line.name, ls[j].name) < Ratio(line.name, ls[k].name)
  PROVE  FindsOwn(line, ls, k)
BY Zenon DEF FindsOwn, Blank

LEMMA Named ==
  /\ \A name \in Names : name # Blank
  /\ "R1" # Blank /\ "R2" # Blank
BY Zenon DEF Names, Blank

LEMMA ItemFields ==
  \A id, ref, name, q, p, a :
    /\ Item(id, ref, name, q, p, a).ref = ref /\ Item(id, ref, name, q, p, a).name = name
    /\ Item(id, ref, name, q, p, a).quantity = q /\ Item(id, ref, name, q, p, a).price = p
    /\ Item(id, ref, name, q, p, a).amount = a
BY DEF Item

LEMMA CatalogueFields ==
  /\ Catalogue[1].ref = "R1" /\ Catalogue[1].name = "compressor" /\ Catalogue[1].quantity = 2
  /\ Catalogue[1].price = 10 /\ Catalogue[1].amount = 20
  /\ Catalogue[2].ref = "R2" /\ Catalogue[2].name = "valve" /\ Catalogue[2].quantity = 3
  /\ Catalogue[2].price = 20 /\ Catalogue[2].amount = 60
  /\ Catalogue[3].ref = Blank /\ Catalogue[3].name = "pipe" /\ Catalogue[3].quantity = 0
  /\ Catalogue[3].price = 5 /\ Catalogue[3].amount = NoAmount
BY CatalogueLines, ItemFields

(* How a line of the catalogue is spelled.                                 *)
LEMMA SpelledLine ==
  ASSUME NEW p \in 1..3, NEW how \in Spellings, p = 3 => how = "name",
         NEW line, line = Spelling(Catalogue[p], how)
  PROVE  /\ line.quantity = Catalogue[p].quantity /\ line.price = Catalogue[p].price
         /\ line.name \in Names
         /\ \/ line.ref = Catalogue[p].ref /\ p # 3
            \/ line.ref = Blank /\ line.name = Catalogue[p].name
            \/ line.ref = Blank /\ line.name = "compressors" /\ p = 1
<1>1. PICK item : item = Catalogue[p]
  OBVIOUS
<1>2. \/ p = 1 /\ item = Item(1, "R1", "compressor", 2, 10, 20)
      \/ p = 2 /\ item = Item(2, "R2", "valve", 3, 20, 60)
      \/ p = 3 /\ item = Item(3, Blank, "pipe", 0, 5, NoAmount)
  <2>1. p = 1 \/ p = 2 \/ p = 3
    OBVIOUS
  <2> QED
    BY <1>1, <2>1, CatalogueLines, Zenon
<1>3. \E id, ref, name, q, u, a : item = [id |-> id, ref |-> ref, name |-> name, quantity |-> q,
                                          price |-> u, amount |-> a]
  BY <1>2 DEF Item
<1>4. item.name \in Names /\ (p = 1 <=> item.name = "compressor")
  BY <1>2, ItemFields DEF Names
<1>5. CASE how = "ref"
  <2>1. line = [item EXCEPT !.name = "other"]
    BY <1>1, <1>5 DEF Spelling
  <2> QED
    BY <1>1, <1>3, <1>5, <2>1 DEF Names
<1>6. CASE how = "name"
  <2>1. line = [item EXCEPT !.ref = Blank]
    BY <1>1, <1>6 DEF Spelling
  <2> QED
    BY <1>1, <1>3, <1>4, <2>1
<1>7. CASE how = "near"
  <2>1. line = [item EXCEPT !.ref = Blank, !.name = IF item.name = "compressor" THEN "compressors" ELSE item.name]
    BY <1>1, <1>7 DEF Spelling
  <2> QED
    BY <1>1, <1>3, <1>4, <2>1 DEF Names
<1> QED
  BY <1>5, <1>6, <1>7 DEF Spellings

LEMMA CatalogueApart ==
  ASSUME NEW p \in 1..3
  PROVE  /\ p # 3 => {j \in DOMAIN Catalogue : Catalogue[j].ref = Catalogue[p].ref} = {p}
         /\ {j \in DOMAIN Catalogue : Catalogue[j].name = Catalogue[p].name} = {p}
<1>1. PICK c : c = Catalogue
  OBVIOUS
<1>2. DOMAIN c = 1..3 /\ \A j \in 1..3 : j = 1 \/ j = 2 \/ j = 3
  BY <1>1, CatalogueLines
<1>3. /\ c[1].ref = "R1" /\ c[2].ref = "R2" /\ c[3].ref = Blank
      /\ c[1].name = "compressor" /\ c[2].name = "valve" /\ c[3].name = "pipe"
  BY <1>1, CatalogueFields
<1>4. \A j \in 1..3 : /\ p # 3 => (c[j].ref = c[p].ref <=> j = p)
                      /\ c[j].name = c[p].name <=> j = p
  BY <1>2, <1>3, Named
<1> QED
  BY <1>1, <1>2, <1>4

LEMMA SpelledFindsOwn ==
  ASSUME NEW p \in 1..3, NEW line, line.name \in Names,
         \/ line.ref = Catalogue[p].ref /\ p # 3
         \/ line.ref = Blank /\ line.name = Catalogue[p].name
         \/ line.ref = Blank /\ line.name = "compressors" /\ p = 1
  PROVE  FindsOwn(line, Catalogue, p)
<1>1. CASE line.ref = Catalogue[p].ref /\ p # 3
  <2>1. Catalogue[p].ref # Blank
    <3>1. p = 1 \/ p = 2
      BY <1>1
    <3> QED
      BY <3>1, CatalogueFields, Named
  <2> QED
    BY <1>1, <2>1, CatalogueApart, FindsByRef
<1>2. CASE line.ref = Blank /\ line.name = Catalogue[p].name
  BY <1>2, CatalogueApart, Named, FindsByName
<1>3. CASE line.ref = Blank /\ line.name = "compressors" /\ p = 1
  <2>1. PICK c : c = Catalogue
    OBVIOUS
  <2>2. DOMAIN c = 1..3 /\ c[1].name = "compressor" /\ c[2].name = "valve" /\ c[3].name = "pipe"
    BY <2>1, CatalogueLines, CatalogueFields
  <2>3. /\ Similar("compressors", "compressor")
        /\ ~Similar("compressors", "valve") /\ ~Similar("compressors", "pipe")
        /\ Ratio("compressors", "valve") \in 0..100 /\ Ratio("compressors", "pipe") \in 0..100
        /\ Ratio("compressors", "compressor") \in 0..100
    BY AlgorithmsAssumption DEF Names
  <2>4. \A j \in 1..3 : j = 1 \/ j = 2 \/ j = 3
    OBVIOUS
  <2>5. \A j \in DOMAIN c : c[j].name # line.name
    BY <1>3, <2>2, <2>4
  <2>6. \A j \in DOMAIN c \ {1} : Ratio(line.name, c[j].name) < Ratio(line.name, c[1].name)
    BY <1>3, <2>2, <2>3, <2>4 DEF Similar, NameMatchThreshold
  <2>7. Blank \notin {line.name, c[1].name}
    BY <2>2, Named DEF Names
  <2>8. FindsOwn(line, c, 1)
    BY <1>3, <2>2, <2>3, <2>5, <2>6, <2>7, FindsByLikeness
  <2> QED
    BY <1>3, <2>1, <2>8
<1> QED
  BY <1>1, <1>2, <1>3

(* The amounts of two lines, the others without one, add up.               *)
LEMMA SumOfTwo ==
  ASSUME NEW ls, NEW S, NEW i, NEW j, i # j, {k \in S : ls[k].amount # NoAmount} = {i, j},
         ls[i].amount \in Int, ls[j].amount \in Int
  PROVE  SumAmounts(ls, S) = ls[i].amount + ls[j].amount
<1>1. PICK A : A = {i, j}
  OBVIOUS
<1>2. IsFiniteSet(A)
  <2>1. IsFiniteSet({i})
    BY FS_Singleton
  <2>2. IsFiniteSet({i} \cup {j})
    BY <2>1, FS_AddElement
  <2>3. A = {i} \cup {j}
    BY <1>1
  <2> QED
    BY <2>2, <2>3
<1>3. PICK f : PartialSums(ls, SUBSET A, f) /\ SumAmounts(ls, S) = f[A]
  <2> DEFINE f == CHOOSE f : PartialSums(ls, SUBSET A, f)
  <2>1. SumAmounts(ls, S) = f[A]
    BY <1>1 DEF SumAmounts, MapThenSumSet, MapThenFoldSet, PartialSums, PartialSum
  <2>2. Upto(A, Cardinality(A)) = SUBSET A
    BY <1>2, FS_Subset DEF Upto
  <2>3. \E g : PartialSums(ls, Upto(A, Cardinality(A)), g)
    <3>1. Cardinality(A) \in Nat
      BY <1>2, FS_CardinalityType
    <3> HIDE DEF f
    <3> QED
      BY <1>2, <3>1, PartialSumsExist
  <2>4. PartialSums(ls, SUBSET A, f)
    BY <2>2, <2>3
  <2> QED
    BY <2>1, <2>4
<1>4. \A s \in SUBSET A : f[s] = PartialSum(ls, f, s)
  BY <1>3 DEF PartialSums
<1>5. f[{}] = 0
  BY <1>4 DEF PartialSum
<1>6. \A k \in A : f[{k}] = ls[k].amount
  <2>1. ASSUME NEW k \in A PROVE f[{k}] = ls[k].amount
    <3>1. (CHOOSE x \in {k} : TRUE) = k /\ {k} \ {k} = {} /\ {k} # {} /\ {k} \in SUBSET A
      OBVIOUS
    <3>2. f[{k}] = ls[k].amount + f[{}]
      BY <1>4, <3>1 DEF PartialSum
    <3>3. ls[k].amount \in Int
      BY <1>1
    <3> QED
      BY <1>5, <3>2, <3>3
  <2> QED
    BY <2>1
<1>7. PICK k : k = CHOOSE x \in A : TRUE
  OBVIOUS
<1>8. k \in A
  BY <1>1, <1>7
<1>9. f[A] = ls[k].amount + f[A \ {k}]
  BY <1>4, <1>7, <1>8 DEF PartialSum
<1>10. (k = i /\ A \ {k} = {j}) \/ (k = j /\ A \ {k} = {i})
  BY <1>1, <1>8
<1>11. PICK x \in Int, y \in Int : x = ls[i].amount /\ y = ls[j].amount
  OBVIOUS
<1>12. f[{i}] = x /\ f[{j}] = y
  BY <1>1, <1>6, <1>11
<1>13. f[A] = x + y
  <2>1. CASE k = i /\ A \ {k} = {j}
    BY <1>9, <1>11, <1>12, <2>1
  <2>2. CASE k = j /\ A \ {k} = {i}
    <3>1. f[A] = y + x
      BY <1>9, <1>11, <1>12, <2>2
    <3> QED
      BY <3>1
  <2> QED
    BY <1>10, <2>1, <2>2
<1> QED
  BY <1>3, <1>11, <1>13

LEMMA CatalogueSum == SumAmounts(Catalogue, DOMAIN Catalogue) = 80
<1>1. PICK c : c = Catalogue
  OBVIOUS
<1>2. DOMAIN c = 1..3 /\ c[1].amount = 20 /\ c[2].amount = 60 /\ c[3].amount = NoAmount
  BY <1>1, CatalogueLines, CatalogueFields
<1>3. \A k \in 1..3 : k = 1 \/ k = 2 \/ k = 3
  OBVIOUS
<1>4. 20 # NoAmount /\ 60 # NoAmount
  BY AlgorithmsAssumption
<1>5. {k \in 1..3 : c[k].amount # NoAmount} = {1, 2}
  BY <1>2, <1>3, <1>4
<1>6. 1 # 2 /\ c[1].amount \in Int /\ c[2].amount \in Int
  BY <1>2
<1>7. SumAmounts(c, 1..3) = c[1].amount + c[2].amount
  <2>1. PICK S, i, j : S = 1..3 /\ i = 1 /\ j = 2
    OBVIOUS
  <2>2. i # j /\ {k \in S : c[k].amount # NoAmount} = {i, j} /\ c[i].amount \in Int /\ c[j].amount \in Int
    BY <1>5, <1>6, <2>1
  <2>3. SumAmounts(c, S) = c[i].amount + c[j].amount
    BY <2>2, SumOfTwo
  <2> QED
    BY <2>1, <2>3
<1> QED
  BY <1>1, <1>2, <1>7

(* The factor between the currencies of the order and of the invoice.      *)
LEMMA FactorUndone ==
  ASSUME NEW c \in {"EUR", "USD", "GBP"}, NEW invoice, invoice.currency = c,
         NEW order, order.currency = "EUR", NEW fx, fx = FxFactor(invoice, order, Rates, "USD")
  PROVE  fx.num \in Int /\ fx.den \in Int /\ Factor(c) \in Int /\ Factor(c) * fx.num = fx.den
<1>1. Rate(Rates, "EUR", "USD") = 2 /\ Rate(Rates, "USD", "USD") = 1 /\ Rate(Rates, "GBP", "USD") = NoAmount
  BY DEF Rate, Rates
<1>2. NoAmount # 1 /\ NoAmount # 2
  BY AlgorithmsAssumption
<1>3. CASE c = "USD"
  <2>1. fx = [num |-> 1, den |-> 2]
    BY <1>1, <1>2, <1>3 DEF FxFactor
  <2> QED
    BY <1>3, <2>1 DEF Factor
<1>4. CASE c # "USD"
  <2>1. fx = [num |-> 1, den |-> 1]
    BY <1>1, <1>4 DEF FxFactor
  <2> QED
    BY <1>4, <2>1 DEF Factor
<1> QED
  BY <1>3, <1>4

(* A gap of the category of duplicates shows one.                          *)
LEMMA DuplicateShows ==
  ASSUME NEW invoice, NEW ls, NEW order, NEW orderLines, NEW others, NEW fx, NEW base, NEW tol,
         ~IsDuplicate(invoice, others),
         NEW g \in Match(invoice, ls, order, orderLines, others, fx, base, tol).gaps
  PROVE  g[1] # "DUPLICATE"
<1> DEFINE conform == OrderConforms(invoice, order)
           factor  == IF order # NoOrder THEN FxFactor(invoice, order, fx, base)
                      ELSE [num |-> 1, den |-> 1]
           pairs   == IF conform THEN MatchLines(ls, orderLines)
                      ELSE IF order # NoOrder THEN [n \in DOMAIN ls |-> 0]
                      ELSE <<>>
<1>1. \/ g \in Gap(~IsDuplicate(invoice, others), "DUPLICATE", "invoice", 0)
      \/ g \in Gap(SupplierConforms(invoice), "SUPPLIER", "invoice", 0)
      \/ g \in Gap(conform, "PURCHASE_ORDER", "invoice", 0)
      \/ g \in LineGaps(ls, orderLines, pairs, factor, tol)
      \/ g \in AmountGaps(invoice, order, orderLines, pairs, factor, tol)
  BY DEF Match
<1>2. Gap(~IsDuplicate(invoice, others), "DUPLICATE", "invoice", 0) = {}
  BY DEF Gap
<1> HIDE DEF conform, factor, pairs
<1> QED
  BY <1>1, <1>2, GapShows, NoLineGap, NoDuplicateGap

(* What an invoice that repeats the catalogue consists of.                 *)
LEMMA RepeatedFields ==
  ASSUME NEW perm, NEW how, NEW c, NEW i, i = Repeated(perm, how, c)
  PROVE  /\ i.orderLines = Catalogue /\ i.perm = perm /\ i.order = Order("EUR", 1, "purchase", 96)
         /\ i.invoice = Invoice(c, "acme", 80 * Factor(c), 16 * Factor(c), 96 * Factor(c), "F1")
         /\ i.lines = LinesOf(perm, how, c)
BY DEF Repeated

LEMMA InvoiceFields ==
  ASSUME NEW c, NEW s, NEW ht, NEW tax, NEW ttc, NEW number,
         NEW inv, inv = Invoice(c, s, ht, tax, ttc, number)
  PROVE  /\ inv.currency = c /\ inv.readSupplier = s /\ inv.supplierName = "acme" /\ inv.supplier = 1
         /\ inv.ht = ht /\ inv.tax = tax /\ inv.ttc = ttc /\ inv.number = number /\ inv.readNumber = Blank
BY DEF Invoice

LEMMA OrderFields ==
  ASSUME NEW c, NEW s, NEW st, NEW total, NEW o, o = Order(c, s, st, total)
  PROVE  o.currency = c /\ o.supplier = s /\ o.state = st /\ o.total = total
BY DEF Order

LEMMA NoOther ==
  ASSUME NEW inv, inv.number = "F1", inv.readNumber = Blank
  PROVE  ~IsDuplicate(inv, Others)
<1>1. \A o \in Others : o.number = "F9"
  BY DEF Others
<1>2. "F9" \notin {"F1", Blank}
  BY Zenon DEF Blank
<1> QED
  BY <1>1, <1>2, Zenon DEF IsDuplicate

LEMMA LineFields ==
  ASSUME NEW k, NEW ref, NEW name, NEW q, NEW price, NEW l, l = Line(k, ref, name, q, price)
  PROVE  l.ref = ref /\ l.name = name /\ l.quantity = q /\ l.price = price
BY DEF Line

LEMMA RepeatedLine ==
  ASSUME NEW perm \in [1..3 -> 1..3], NEW how \in [1..3 -> Spellings], NEW c \in {"EUR", "USD", "GBP"},
         NEW ls, ls = LinesOf(perm, how, c),
         NEW k \in 1..3
  PROVE  /\ ls[k].name \in Names /\ FindsOwn(ls[k], Catalogue, perm[k])
         /\ ls[k].quantity = Catalogue[perm[k]].quantity
         /\ ls[k].price = Catalogue[perm[k]].price * Factor(c)
<1>1. PICK p \in 1..3 : p = perm[k]
  OBVIOUS
<1>2. PICK h \in Spellings : h = IF p = 3 THEN "name" ELSE how[k]
  BY DEF Spellings
<1>3. PICK l : l = Spelling(Catalogue[p], h)
  OBVIOUS
<1>4. /\ l.quantity = Catalogue[p].quantity /\ l.price = Catalogue[p].price /\ l.name \in Names
      /\ \/ l.ref = Catalogue[p].ref /\ p # 3
         \/ l.ref = Blank /\ l.name = Catalogue[p].name
         \/ l.ref = Blank /\ l.name = "compressors" /\ p = 1
  BY <1>1, <1>2, <1>3, SpelledLine
<1>5. PICK line : line = Line(k, l.ref, l.name, l.quantity, l.price * Factor(c))
  OBVIOUS
<1>6. ls[k] = line
  BY <1>1, <1>2, <1>3, <1>5 DEF LinesOf
<1>7. /\ line.ref = l.ref /\ line.name = l.name /\ line.quantity = l.quantity
      /\ line.price = l.price * Factor(c)
  BY <1>5, LineFields
<1>8. FindsOwn(line, Catalogue, p)
  BY <1>1, <1>4, <1>7, SpelledFindsOwn
<1> QED
  BY <1>1, <1>4, <1>6, <1>7, <1>8

LEMMA OntoIsOneToOne ==
  ASSUME NEW perm \in [1..3 -> 1..3], ToSet(perm) = 1..3
  PROVE  (\A i, j \in 1..3 : perm[i] = perm[j] => i = j) /\ Range(perm) = 1..3
<1>1. ToSet(perm) = {perm[k] : k \in 1..3}
  BY DEF ToSet
<1>2. Range(perm) = {perm[k] : k \in 1..3}
  BY DEF Range
<1>3. PICK x \in 1..3, y \in 1..3, z \in 1..3 : x = perm[1] /\ y = perm[2] /\ z = perm[3]
  OBVIOUS
<1>4. \A k \in 1..3 : k = 1 \/ k = 2 \/ k = 3
  OBVIOUS
<1>5. 1 \in {x, y, z} /\ 2 \in {x, y, z} /\ 3 \in {x, y, z}
  <2>1. \A v \in 1..3 : \E k \in 1..3 : perm[k] = v
    BY <1>1
  <2>2. \A v \in 1..3 : v \in {x, y, z}
    BY <1>3, <1>4, <2>1
  <2> QED
    BY <2>2
<1>6. x # y /\ x # z /\ y # z
  BY <1>3, <1>5
<1> QED
  BY <1>1, <1>2, <1>3, <1>4, <1>6

LEMMA RepetitionMatches ==
  ASSUME NEW i \in Repetitions, NEW m, m = Compared(i)
  PROVE  m.gaps = {} /\ m.score = 10000 /\ m.pairs = i.perm
<1>1. PICK perm \in [1..3 -> 1..3], how \in [1..3 -> Spellings], c \in {"EUR", "USD", "GBP"} :
        ToSet(perm) = 1..3 /\ i = Repeated(perm, how, c)
  BY DEF Repetitions
<1>2. PICK inv, order, ls : inv = i.invoice /\ order = i.order /\ ls = i.lines
  OBVIOUS
<1>3. PICK k : k = Factor(c)
  OBVIOUS
<1>4. /\ inv.currency = c /\ inv.readSupplier = "acme" /\ inv.supplierName = "acme" /\ inv.supplier = 1
      /\ inv.ht = 80 * k /\ inv.tax = 16 * k /\ inv.ttc = 96 * k /\ inv.number = "F1"
      /\ inv.readNumber = Blank
  BY <1>1, <1>2, <1>3, RepeatedFields, InvoiceFields
<1>5. /\ order = Order("EUR", 1, "purchase", 96)
      /\ order.currency = "EUR" /\ order.supplier = 1 /\ order.state = "purchase" /\ order.total = 96
  BY <1>1, <1>2, RepeatedFields, OrderFields
<1>6. \A n \in 1..3 : /\ ls[n].name \in Names /\ FindsOwn(ls[n], Catalogue, perm[n])
                      /\ ls[n].quantity = Catalogue[perm[n]].quantity
                      /\ ls[n].price = Catalogue[perm[n]].price * k
  <2>1. ls = LinesOf(perm, how, c)
    BY <1>1, <1>2, RepeatedFields
  <2> QED
    BY <1>1, <1>3, <2>1, RepeatedLine
<1>7. ls \in Seq(Range(ls)) /\ DOMAIN ls = 1..3 /\ Len(ls) = 3
  <2>1. ls = LinesOf(perm, how, c)
    BY <1>1, <1>2, RepeatedFields
  <2>2. DOMAIN ls = 1..3 /\ ls = [n \in 1..3 |-> ls[n]]
    BY <1>1, <2>1 DEF LinesOf
  <2> QED
    BY <2>2 DEF Range
<1>8. Comparable(ls, Catalogue)
  <2>1. DOMAIN Catalogue \subseteq 1..3 /\ \A n \in DOMAIN Catalogue : Catalogue[n].name \in Names
    BY CatalogueLines, CatalogueNames
  <2>2. PICK n \in Nat : n = 3
    OBVIOUS
  <2> QED
    BY <1>6, <1>7, <2>1, <2>2, NamedComparable
<1>9. SupplierConforms(inv)
  BY <1>4, Zenon DEF SupplierConforms
<1>10. OrderConforms(inv, order)
  <2>1. order # NoOrder
    BY <1>5, AlgorithmsAssumption DEF AnyOrder
  <2> QED
    BY <1>4, <1>5, <2>1 DEF OrderConforms, UnmatchableStates
<1>11. PICK fx : /\ fx = FxFactor(inv, order, Rates, "USD")
                 /\ fx.num \in Int /\ fx.den \in Int /\ k \in Int /\ k * fx.num = fx.den
  BY <1>1, <1>3, <1>4, <1>5, FactorUndone
<1>12. PICK num \in Int, den \in Int : num = fx.num /\ den = fx.den /\ k * num = den
  BY <1>11
<1>13. \A n \in 1..3 : perm[n] \in DOMAIN Catalogue /\ perm[n] \in 1..3
  BY <1>1, CatalogueLines
<1>14. RepeatsLines(ls, Catalogue, perm, fx)
  <2>1. perm \in [DOMAIN ls -> DOMAIN Catalogue] /\ Range(perm) = DOMAIN Catalogue
        /\ \A a, b \in DOMAIN ls : perm[a] = perm[b] => a = b
    BY <1>1, <1>7, CatalogueLines, OntoIsOneToOne
  <2>2. \A p \in 1..3 : Catalogue[p].quantity \in Int /\ Catalogue[p].price \in Int
    <3>1. \A p \in 1..3 : p = 1 \/ p = 2 \/ p = 3
      OBVIOUS
    <3> QED
      BY <3>1, CatalogueFields
  <2>3. ASSUME NEW n \in 1..3 PROVE Repeats(ls[n].price, fx, Catalogue[perm[n]].price)
    <3>1. PICK u \in Int : u = Catalogue[perm[n]].price
      BY <1>13, <2>2
    <3>2. ls[n].price = u * k
      BY <1>6, <3>1
    <3>3. (u * k) * num \in Int /\ (u * k) * num = u * den
      BY <1>11, <1>12
    <3> QED
      BY <1>12, <3>1, <3>2, <3>3 DEF Repeats
  <2>4. \A n \in 1..3 : ls[n].quantity \in Int /\ ls[n].quantity = Catalogue[perm[n]].quantity
    BY <1>6, <1>13, <2>2
  <2> QED
    BY <1>6, <1>7, <2>1, <2>3, <2>4 DEF RepeatsLines
<1>15. RepeatsTotals(inv, order, SumAmounts(Catalogue, DOMAIN Catalogue), fx)
  <2>1. PICK sum : sum = SumAmounts(Catalogue, DOMAIN Catalogue) /\ sum = 80
    BY CatalogueSum
  <2>2. (80 * k) * num = 80 * den /\ (96 * k) * num = 96 * den
    BY <1>11, <1>12
  <2>3. 80 * k \in Int /\ 96 * k \in Int /\ 16 * k = 96 * k - 80 * k
    BY <1>11
  <2>4. RepeatsTotals(inv, order, sum, fx)
    BY <1>4, <1>5, <1>11, <1>12, <2>1, <2>2, <2>3 DEF RepeatsTotals
  <2> QED
    BY <2>1, <2>4
<1>16. \A n \in DOMAIN Catalogue : Catalogue[n].amount \in Int \cup {NoAmount}
  <2>1. \A p \in 1..3 : p = 1 \/ p = 2 \/ p = 3
    OBVIOUS
  <2> QED
    BY <2>1, CatalogueLines, CatalogueFields
<1>17. m = Match(inv, ls, order, Catalogue, Others, Rates, "USD", Tol)
  <2>1. i.orderLines = Catalogue
    BY <1>1, RepeatedFields
  <2> QED
    BY <1>2, <2>1 DEF Compared
<1>18. Tol.amount \in Nat /\ Tol.tax \in Nat /\ Tol.quantity \in Nat /\ Tol.price \in Nat
  BY DEF Tol
<1>19. 0 < Len(ls) /\ Len(ls) < 3000 /\ 0 \notin DOMAIN Catalogue
  BY <1>7, CatalogueLines
<1>20. m.pairs = perm /\ m.score = FullScore /\ \A g \in m.gaps : g[1] = "DUPLICATE"
  BY <1>8, <1>9, <1>10, <1>11, <1>14, <1>15, <1>16, <1>17, <1>18, <1>19, RepeatedOrderIsMatched, SMTT(30)
<1>21. \A g \in m.gaps : g[1] # "DUPLICATE"
  BY <1>4, <1>17, NoOther, DuplicateShows
<1>22. i.perm = perm
  BY <1>1, RepeatedFields
<1> QED
  BY <1>20, <1>21, <1>22 DEF FullScore

(* What RepeatedOrderMatches says, in every state.                         *)
THEOREM RepetitionIsMatched == MCSpec => []RepeatedOrderMatches
<1>1. ASSUME IsInput(input) PROVE RepeatedOrderMatches
  <2>1. CASE input.kind = "repeat"
    <3>1. input \in Repetitions
      BY <1>1, <2>1, KindTells
    <3> QED
      BY <3>1, RepetitionMatches DEF RepeatedOrderMatches
  <2>2. CASE input.kind # "repeat"
    BY <2>2 DEF RepeatedOrderMatches
  <2> QED
    BY <2>1, <2>2
<1> QED
  BY <1>1, InputStays, PTL
=============================================================================
