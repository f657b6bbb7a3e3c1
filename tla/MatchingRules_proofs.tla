------------------------ MODULE MatchingRules_proofs ------------------------
(***************************************************************************)
(* What the rules of MatchingRules compute, for any lines, order, rates,   *)
(* tolerances and likeness of texts.  Lemmas about the pairing, the gaps   *)
(* and the score, which is recursive over the lines, are proved by         *)
(* induction over sets of numbers.                                         *)
(***************************************************************************)
EXTENDS MatchingRules, FiniteSetTheorems, WellFoundedInduction, TLAPS

-----------------------------------------------------------------------------
(* Induction, for the recursive functions over positions.                  *)
LEMMA NatSet == ASSUME NEW T, 0 \in T, \A n \in Nat : n \in T => n + 1 \in T PROVE Nat \subseteq T
<1> DEFINE R == OpToRel(<, Nat)
<1> SUFFICES ASSUME Nat \ T # {} PROVE FALSE
  OBVIOUS
<1>1. IsWellFoundedOn(R, Nat)
  BY NatLessThanWellFounded
<1>2. \A x, y \in Nat : y < x => <<y, x>> \in R
  BY DEF OpToRel
<1> HIDE DEF R
<1>3. PICK x \in Nat \ T : \A y \in Nat \ T : ~(<<y, x>> \in R)
  BY <1>1, WFMin
<1>4. x - 1 \in Nat /\ x - 1 < x /\ x - 1 + 1 = x
  BY <1>3
<1> QED
  BY <1>2, <1>3, <1>4

Pairings(ls, orderLines, N, f) ==
  f = [n \in 0..N |->
         IF n = 0 THEN <<>>
         ELSE Append(f[n - 1], MatchOne(ls[n], orderLines, Range(f[n - 1])))]

LEMMA PairingsExist ==
  ASSUME NEW ls, NEW orderLines, NEW N \in Nat
  PROVE  \E f : Pairings(ls, orderLines, N, f)
<1> DEFINE T == {k \in Nat : \E f : Pairings(ls, orderLines, k, f)}
           Step(f, n) == Append(f[n - 1], MatchOne(ls[n], orderLines, Range(f[n - 1])))
<1>1. 0 \in T
  <2> DEFINE f == [n \in 0..0 |-> <<>>]
  <2>1. Pairings(ls, orderLines, 0, f)
    BY DEF Pairings
  <2> QED
    BY <2>1
<1>2. ASSUME NEW k \in Nat, k \in T PROVE k + 1 \in T
  <2>1. PICK f : f = [n \in 0..k |-> IF n = 0 THEN <<>> ELSE Step(f, n)]
    BY <1>2 DEF Pairings
  <2> DEFINE g == [n \in 0..(k + 1) |-> IF n = k + 1 THEN Step(f, n) ELSE f[n]]
  <2>2. \A n \in 0..k : g[n] = f[n]
    OBVIOUS
  <2>3. \A n \in 1..(k + 1) : n - 1 \in 0..k
    OBVIOUS
  <2>4. \A n \in 1..(k + 1) : Step(g, n) = Step(f, n)
    BY <2>2, <2>3
  <2> HIDE DEF Step
  <2>6. ASSUME NEW n \in 0..(k + 1) PROVE g[n] = IF n = 0 THEN <<>> ELSE Step(g, n)
    <3>1. CASE n = k + 1
      BY <2>4, <3>1
    <3>2. CASE n \in 0..k
      <4>1. g[n] = f[n] /\ f[n] = IF n = 0 THEN <<>> ELSE Step(f, n)
        BY <2>1, <2>2, <3>2
      <4> QED
        BY <2>4, <3>2, <4>1
    <3> QED
      BY <3>1, <3>2
  <2>7. \E h : h = [n \in 0..(k + 1) |-> IF n = 0 THEN <<>> ELSE Step(h, n)]
    <3>1. g = [n \in 0..(k + 1) |-> IF n = 0 THEN <<>> ELSE Step(g, n)]
      BY <2>6
    <3> QED
      BY <3>1
  <2>8. \E h : Pairings(ls, orderLines, k + 1, h)
    BY <2>7 DEF Step, Pairings
  <2> QED
    BY <2>8
<1> HIDE DEF T
<1>3. N \in T
  BY <1>1, <1>2, NatSet
<1> QED
  BY <1>3 DEF T

LEMMA PairsByStep ==
  ASSUME NEW ls, NEW orderLines, Len(ls) \in Nat
  PROVE  \E f : /\ f[0] = <<>>
                /\ \A n \in 1..Len(ls) :
                     f[n] = Append(f[n - 1], MatchOne(ls[n], orderLines, Range(f[n - 1])))
                /\ MatchLines(ls, orderLines) = f[Len(ls)]
<1>1. PICK f : /\ Pairings(ls, orderLines, Len(ls), f)
               /\ MatchLines(ls, orderLines) = f[Len(ls)]
  <2> DEFINE f == CHOOSE f : Pairings(ls, orderLines, Len(ls), f)
  <2>1. MatchLines(ls, orderLines) = f[Len(ls)]
    BY DEF MatchLines, Pairings
  <2>2. Pairings(ls, orderLines, Len(ls), f)
    BY PairingsExist
  <2> QED
    BY <2>1, <2>2
<1>2. f[0] = <<>>
  BY <1>1 DEF Pairings
<1>3. ASSUME NEW n \in 1..Len(ls)
      PROVE  f[n] = Append(f[n - 1], MatchOne(ls[n], orderLines, Range(f[n - 1])))
  <2> DEFINE Step(k) == Append(f[k - 1], MatchOne(ls[k], orderLines, Range(f[k - 1])))
  <2>1. f = [k \in 0..Len(ls) |-> IF k = 0 THEN <<>> ELSE Step(k)]
    BY <1>1 DEF Pairings
  <2>2. n \in 0..Len(ls) /\ n # 0
    OBVIOUS
  <2> HIDE DEF Step
  <2>3. f[n] = Step(n)
    BY <2>1, <2>2
  <2> QED
    BY <2>3 DEF Step
<1> QED
  BY <1>1, <1>2, <1>3

LEMMA LeastIsIn ==
  ASSUME NEW S \in SUBSET Nat, S # {} PROVE Min(S) \in S /\ \A k \in S : Min(S) <= k
<1> DEFINE T == {n \in Nat : \A k \in S : n < k}
<1>1. PICK k \in S : TRUE
  OBVIOUS
<1>2. k \notin T
  OBVIOUS
<1>3. \E x \in S : \A y \in S : x <= y
  <2> SUFFICES ASSUME ~(\E x \in S : \A y \in S : x <= y) PROVE FALSE
    OBVIOUS
  <2>1. 0 \in T
    OBVIOUS
  <2>2. ASSUME NEW n \in Nat, n \in T PROVE n + 1 \in T
    BY <2>2
  <2> HIDE DEF T
  <2> QED
    BY <1>1, <1>2, <2>1, <2>2, NatSet
<1> QED
  BY <1>3 DEF Min

LEMMA MatchOneResult ==
  ASSUME NEW line, NEW orderLines, NEW used, DOMAIN orderLines \subseteq Nat,
         \A k \in DOMAIN orderLines : Ratio(line.name, orderLines[k].name) \in 0..100
  PROVE  MatchOne(line, orderLines, used) \in (DOMAIN orderLines \ used) \cup {0}
<1> DEFINE free == DOMAIN orderLines \ used
           likeness(k) == Ratio(line.name, orderLines[k].name)
           near == {k \in free : /\ "" \notin {line.name, orderLines[k].name}
                                 /\ Similar(line.name, orderLines[k].name)}
           best == {k \in near : \A j \in near : likeness(k) >= likeness(j)}
           byRef  == {k \in free : line.ref # "" /\ orderLines[k].ref = line.ref}
           byName == {k \in free : line.name # "" /\ orderLines[k].name = line.name}
<1>1. ASSUME near # {} PROVE best # {}
  <2>1. \A k \in near : likeness(k) \in 0..100
    OBVIOUS
  <2> HIDE DEF likeness, near
  <2> DEFINE distance(k) == 100 - likeness(k)
  <2>2. \A k \in near : distance(k) \in Nat
    BY <2>1
  <2>3. {distance(k) : k \in near} \in SUBSET Nat /\ {distance(k) : k \in near} # {}
    BY <1>1, <2>2
  <2>4. PICK k \in near : \A j \in near : distance(k) <= distance(j)
    <3>1. PICK d \in {distance(k) : k \in near} : \A e \in {distance(k) : k \in near} : d <= e
      BY <2>3, LeastIsIn
    <3> HIDE DEF distance
    <3> QED
      BY <3>1
  <2>5. \A j \in near : likeness(k) >= likeness(j)
    BY <2>1, <2>4
  <2> QED
    BY <2>5
<1>2. byRef \subseteq free /\ byName \subseteq free /\ best \subseteq free /\ free \in SUBSET Nat
  OBVIOUS
<1>3. MatchOne(line, orderLines, used) = IF byRef # {} THEN Min(byRef)
                                         ELSE IF byName # {} THEN Min(byName)
                                         ELSE IF near # {} THEN Min(best) ELSE 0
  BY DEF MatchOne
<1> HIDE DEF byRef, byName, best, near, free
<1>4. \A S \in SUBSET free : S # {} => Min(S) \in free
  BY <1>2, LeastIsIn
<1>5. MatchOne(line, orderLines, used) \in free \cup {0}
  BY <1>1, <1>2, <1>3, <1>4
<1> QED
  BY <1>5 DEF free

Comparable(ls, orderLines) ==
  /\ Len(ls) \in Nat /\ DOMAIN ls = 1..Len(ls) /\ DOMAIN orderLines \subseteq Nat
  /\ \A n \in DOMAIN ls, k \in DOMAIN orderLines :
       Ratio(ls[n].name, orderLines[k].name) \in 0..100

LEMMA MatchLinesResult ==
  ASSUME NEW ls, NEW orderLines, Comparable(ls, orderLines)
  PROVE  /\ MatchLines(ls, orderLines) \in Seq(DOMAIN orderLines \cup {0})
         /\ Len(MatchLines(ls, orderLines)) = Len(ls)
         /\ \A i, j \in 1..Len(ls) :
              MatchLines(ls, orderLines)[i] = MatchLines(ls, orderLines)[j]
                => i = j \/ MatchLines(ls, orderLines)[i] = 0
<1> DEFINE Places == DOMAIN orderLines \cup {0}
           Once(s) == \A i, j \in 1..Len(s) : s[i] = s[j] => i = j \/ s[i] = 0
           Good(s, n) == s \in Seq(Places) /\ Len(s) = n /\ Once(s)
<1>1. PICK f : /\ f[0] = <<>>
               /\ \A n \in 1..Len(ls) :
                    f[n] = Append(f[n - 1], MatchOne(ls[n], orderLines, Range(f[n - 1])))
               /\ MatchLines(ls, orderLines) = f[Len(ls)]
  BY PairsByStep DEF Comparable
<1> DEFINE T == {n \in Nat : n <= Len(ls) => Good(f[n], n)}
<1>2. 0 \in T
  <2>1. PICK s : s = f[0]
    OBVIOUS
  <2>2. s = <<>>
    BY <1>1, <2>1
  <2>3. s \in Seq(Places) /\ Len(s) = 0
    BY <2>2
  <2> QED
    BY <2>1, <2>3
<1>3. ASSUME NEW n \in Nat, n \in T PROVE n + 1 \in T
  <2> SUFFICES ASSUME n + 1 <= Len(ls) PROVE Good(f[n + 1], n + 1)
    OBVIOUS
  <2>1. n + 1 \in 1..Len(ls) /\ n + 1 - 1 = n /\ n <= Len(ls)
    BY DEF Comparable
  <2>2. Good(f[n], n)
    BY <1>3, <2>1
  <2>3. PICK k : k = MatchOne(ls[n + 1], orderLines, Range(f[n]))
    OBVIOUS
  <2>4. f[n + 1] = Append(f[n], k)
    BY <1>1, <2>1, <2>3
  <2>5. k \in Places /\ (k # 0 => k \notin Range(f[n]))
    BY <2>1, <2>3, MatchOneResult DEF Comparable
  <2>6. PICK s : s = f[n]
    OBVIOUS
  <2>7. s \in Seq(Places) /\ Len(s) = n /\ Once(s)
    BY <2>2, <2>6
  <2>8. Append(s, k) \in Seq(Places) /\ Len(Append(s, k)) = n + 1
    BY <2>5, <2>7
  <2>9. \A i \in 1..(n + 1) : Append(s, k)[i] = IF i = n + 1 THEN k ELSE s[i]
    BY <2>5, <2>7
  <2>10. \A i \in 1..n : k # 0 => s[i] # k
    BY <2>5, <2>6, <2>7 DEF Range
  <2>11. Once(Append(s, k))
    BY <2>7, <2>8, <2>9, <2>10
  <2> QED
    BY <2>4, <2>6, <2>8, <2>11
<1> HIDE DEF T
<1>4. Len(ls) \in T
  BY <1>2, <1>3, NatSet DEF Comparable
<1> USE DEF T
<1>5. Good(f[Len(ls)], Len(ls))
  BY <1>4 DEF Comparable
<1> QED
  BY <1>1, <1>5

(* A finite set can be put in the order of its members' positions.         *)
LEMMA SortedExists ==
  ASSUME NEW S, IsFiniteSet(S), NEW pos, \A x \in S : pos[x] \in Nat
  PROVE  \E s \in [1..Cardinality(S) -> S] :
           \A i, j \in DOMAIN s : i < j => s[i] # s[j] /\ pos[s[i]] <= pos[s[j]]
<1> DEFINE Sorted(s, n, R) ==
             /\ s \in [1..n -> R]
             /\ \A i, j \in 1..n : i < j => s[i] # s[j] /\ pos[s[i]] <= pos[s[j]]
           T == {n \in Nat : \A R \in SUBSET S : Cardinality(R) = n => \E s : Sorted(s, n, R)}
<1>1. 0 \in T
  <2> SUFFICES ASSUME NEW R \in SUBSET S PROVE \E s : Sorted(s, 0, R)
    OBVIOUS
  <2>1. Sorted([i \in 1..0 |-> 0], 0, R)
    OBVIOUS
  <2> QED
    BY <2>1
<1>2. ASSUME NEW n \in Nat, n \in T PROVE n + 1 \in T
  <2> SUFFICES ASSUME NEW R \in SUBSET S, Cardinality(R) = n + 1
               PROVE  \E s : Sorted(s, n + 1, R)
    OBVIOUS
  <2>1. IsFiniteSet(R) /\ R # {}
    BY FS_Subset, FS_EmptySet
  <2>2. PICK m \in R : \A x \in R : pos[m] <= pos[x]
    <3>1. {pos[x] : x \in R} \in SUBSET Nat /\ {pos[x] : x \in R} # {}
      BY <2>1
    <3>2. PICK p \in {pos[x] : x \in R} : \A q \in {pos[x] : x \in R} : p <= q
      BY <3>1, LeastIsIn
    <3> QED
      BY <3>2
  <2>3. Cardinality(R \ {m}) = n
    <3>1. Cardinality(R \ {m}) = Cardinality(R) - 1
      BY <2>1, <2>2, FS_RemoveElement
    <3> QED
      BY <3>1
  <2>4. PICK s : Sorted(s, n, R \ {m})
    BY <1>2, <2>3
  <2> DEFINE t == [i \in 1..(n + 1) |-> IF i = 1 THEN m ELSE s[i - 1]]
  <2>5. \A i \in 1..(n + 1) : i # 1 => i - 1 \in 1..n /\ t[i] = s[i - 1] /\ s[i - 1] \in R \ {m}
    BY <2>4
  <2>6. t[1] = m /\ t \in [1..(n + 1) -> R]
    BY <2>5
  <2>7. ASSUME NEW i \in 1..(n + 1), NEW j \in 1..(n + 1), i < j
        PROVE  t[i] # t[j] /\ pos[t[i]] <= pos[t[j]]
    <3>1. j # 1 /\ t[j] = s[j - 1] /\ s[j - 1] \in R \ {m} /\ j - 1 \in 1..n
      BY <2>5, <2>7
    <3>2. CASE i = 1
      BY <2>2, <2>6, <3>1, <3>2
    <3>3. CASE i # 1
      <4>1. i - 1 \in 1..n /\ t[i] = s[i - 1] /\ i - 1 < j - 1
        BY <2>5, <2>7, <3>3
      <4> HIDE DEF t
      <4> QED
        BY <2>4, <3>1, <4>1
    <3> QED
      BY <3>2, <3>3
  <2> HIDE DEF t
  <2>8. Sorted(t, n + 1, R)
    BY <2>6, <2>7
  <2> QED
    BY <2>8
<1> HIDE DEF T
<1>3. Cardinality(S) \in Nat
  BY FS_CardinalityType
<1>4. Cardinality(S) \in T
  BY <1>1, <1>2, <1>3, NatSet
<1> USE DEF T
<1>5. PICK s : Sorted(s, Cardinality(S), S)
  BY <1>4
<1> QED
  BY <1>5

-----------------------------------------------------------------------------
(* The score.                                                              *)
LEMMA Products ==
  ASSUME NEW x \in Nat, NEW y \in Nat, NEW z \in Nat, x <= y
  PROVE  x * z \in Nat /\ x * z <= y * z
OBVIOUS

LEMMA Quotients ==
  ASSUME NEW x \in Nat, NEW d \in Nat, d > 0, NEW k \in Nat, x < (k + 1) * d
  PROVE  x \div d \in 0..k
<1>1. x \div d \in Int
  OBVIOUS
<1>2. d * (x \div d) <= x /\ x < d * (x \div d) + d
  OBVIOUS
<1> QED
  BY <1>1, <1>2

LEMMA Distribution ==
  ASSUME NEW a \in Nat, NEW b \in Nat, NEW c \in Nat, NEW d \in Nat, NEW e \in Nat
  PROVE  25 * a * b + (15 * c + 15 * d) * e = 25 * (a * b) + 15 * (c * e) + 15 * (d * e)
OBVIOUS

LEMMA Shares ==
  ASSUME NEW n \in Nat, NEW d \in Nat, n <= d, NEW none \in {0, 1}
  PROVE  /\ Share(n, d, none).num \in Nat /\ Share(n, d, none).den \in Nat
         /\ Share(n, d, none).num <= Share(n, d, none).den /\ Share(n, d, none).den > 0
BY DEF Share

(* Of fewer than 3000 lines, one that is not right costs the score more    *)
(* than what rounding gives back.                                          *)
LEMMA OneLineCounts ==
  ASSUME NEW L \in Nat, NEW m \in Nat, NEW x \in Nat, NEW y \in Nat,
         m <= L, 0 < m, x <= m, y <= m, L < 3000,
         NEW parts, parts = 25 * (m * m) + 15 * (x * L) + 15 * (y * L)
  PROVE  /\ parts \in Nat /\ L * m \in Nat
         /\ m = L /\ x = m /\ y = m => parts = 55 * (L * m)
         /\ ~(m = L /\ x = m /\ y = m) => L * m < 200 * (55 * (L * m) - parts)
<1>1. /\ m * m \in Nat /\ m * m <= L * m
      /\ x * L \in Nat /\ x * L <= m * L
      /\ y * L \in Nat /\ y * L <= m * L
      /\ m * L = L * m /\ L * m \in Nat
  BY Products
<1>2. CASE m = L /\ x = m /\ y = m
  <2>1. m * m = L * m /\ x * L = L * m /\ y * L = L * m
    BY <1>2
  <2> QED
    BY <1>1, <1>2, <2>1
<1>3. CASE m # L
  <2>1. m * m <= (L - 1) * m /\ (L - 1) * m = L * m - m
    BY <1>3, Products
  <2>2. L * m <= 2999 * m
    BY Products
  <2> QED
    BY <1>1, <1>3, <2>1, <2>2
<1>4. CASE m = L /\ x # m
  <2>1. x * L <= (m - 1) * L /\ (m - 1) * L = m * L - L
    BY <1>4, Products
  <2>2. m * L <= 2999 * L
    BY Products
  <2> QED
    BY <1>1, <1>4, <2>1, <2>2
<1>5. CASE m = L /\ y # m
  <2>1. y * L <= (m - 1) * L /\ (m - 1) * L = m * L - L
    BY <1>5, Products
  <2>2. m * L <= 2999 * L
    BY Products
  <2> QED
    BY <1>1, <1>5, <2>1, <2>2
<1> QED
  BY <1>2, <1>3, <1>4, <1>5

Rounded(num, den) == (2 * num + den) \div (2 * den)

FullScore == 10000

(* Every line found its own, with the right quantity and price.            *)
AllRight(pairs, quantityOk, priceOk) ==
  \A n \in DOMAIN pairs : pairs[n] # 0 /\ n \in quantityOk /\ n \in priceOk

(* The score is a share: the weights of the supplier, the order and the    *)
(* amounts, and those of the lines over a common denominator.              *)
ScoreParts(score, supplierOk, orderOk, orderFound, pairs, quantityOk, priceOk, amountOk, den, parts, whole) ==
  /\ parts <= 55 * den
  /\ whole = 45 <=> supplierOk /\ orderOk /\ orderFound /\ amountOk
  /\ whole # 45 => whole <= 35
  /\ score = Rounded(100 * (whole * den + (IF orderFound THEN parts ELSE 0)), den)
  /\ 0 < Len(pairs) /\ Len(pairs) < 3000 =>
       IF AllRight(pairs, quantityOk, priceOk) THEN parts = 55 * den
       ELSE den < 200 * (55 * den - parts)

LEMMA ScoreForm ==
  ASSUME NEW supplierOk, NEW orderOk, NEW orderFound, NEW amountOk,
         NEW S, NEW pairs \in Seq(S),
         NEW quantityOk, \A n \in quantityOk : n \in DOMAIN pairs /\ pairs[n] # 0,
         NEW priceOk, \A n \in priceOk : n \in DOMAIN pairs /\ pairs[n] # 0,
         NEW s, s = Score(supplierOk, orderOk, orderFound, pairs, quantityOk, priceOk, amountOk)
  PROVE  \E den \in Nat \ {0}, parts \in Nat, whole \in 0..45 :
           ScoreParts(s, supplierOk, orderOk, orderFound, pairs, quantityOk, priceOk, amountOk,
                      den, parts, whole)
<1> DEFINE paired == {n \in DOMAIN pairs : pairs[n] # 0}
           matched == Cardinality(paired)
           right   == Cardinality(quantityOk)
           priced  == Cardinality(priceOk)
           product  == Share(matched, Len(pairs), 1)
           quantity == Share(right, matched, 0)
           price    == Share(priced, matched, 0)
           den      == product.den * quantity.den
           whole    == (IF supplierOk THEN Weight.supplier ELSE 0)
                       + (IF orderOk THEN Weight.purchase_order ELSE 0)
                       + (IF orderFound /\ amountOk THEN Weight.amount ELSE 0)
           parts    == Weight.product * product.num * quantity.den
                       + (Weight.quantity * quantity.num + Weight.price * price.num) * product.den
           num      == 100 * (whole * den + (IF orderFound THEN parts ELSE 0))
<1>0. Score(supplierOk, orderOk, orderFound, pairs, quantityOk, priceOk, amountOk)
        = (2 * num + den) \div (2 * den)
  BY Zenon DEF Score
<1>1. /\ IsFiniteSet(1..Len(pairs)) /\ Cardinality(1..Len(pairs)) = Len(pairs)
      /\ Len(pairs) \in Nat /\ DOMAIN pairs = 1..Len(pairs)
  <2>1. Len(pairs) \in Nat /\ DOMAIN pairs = 1..Len(pairs)
    OBVIOUS
  <2> QED
    BY <2>1, FS_Interval
<1>2. /\ IsFiniteSet(paired) /\ matched \in Nat /\ matched <= Len(pairs)
      /\ matched = Len(pairs) => paired = 1..Len(pairs)
  BY <1>1, FS_Subset, FS_CardinalityType
<1>3. /\ right \in Nat /\ right <= matched /\ (right = matched => quantityOk = paired)
      /\ priced \in Nat /\ priced <= matched /\ (priced = matched => priceOk = paired)
  <2>1. quantityOk \in SUBSET paired /\ priceOk \in SUBSET paired
    OBVIOUS
  <2> HIDE DEF paired
  <2>2. IsFiniteSet(quantityOk) /\ IsFiniteSet(priceOk)
    BY <1>2, <2>1, FS_Subset
  <2> QED
    BY <1>2, <2>1, <2>2, FS_Subset, FS_CardinalityType
<1>4. AllRight(pairs, quantityOk, priceOk) <=> matched = Len(pairs) /\ right = matched /\ priced = matched
  <2>1. ASSUME AllRight(pairs, quantityOk, priceOk)
        PROVE  paired = 1..Len(pairs) /\ quantityOk = paired /\ priceOk = paired
    BY <1>1, <2>1 DEF AllRight
  <2>2. ASSUME matched = Len(pairs), right = matched, priced = matched
        PROVE  AllRight(pairs, quantityOk, priceOk)
    BY <1>1, <1>2, <1>3, <2>2 DEF AllRight
  <2> QED
    BY <1>1, <2>1, <2>2
<1> HIDE DEF paired, matched, right, priced
<1>5. /\ product.num \in Nat /\ product.den \in Nat /\ product.num <= product.den /\ product.den > 0
      /\ quantity.num \in Nat /\ quantity.den \in Nat /\ quantity.num <= quantity.den /\ quantity.den > 0
      /\ price.num \in Nat /\ price.den \in Nat /\ price.num <= price.den
  BY <1>1, <1>2, <1>3, Shares
<1>6. /\ price.den = quantity.den
      /\ Len(pairs) # 0 => product.num = matched /\ product.den = Len(pairs)
      /\ matched # 0 => quantity.num = right /\ price.num = priced /\ quantity.den = matched
      /\ matched = 0 => quantity.num = 0 /\ price.num = 0 /\ quantity.den = 1
  BY DEF Share
<1> HIDE DEF product, quantity, price
<1>7. den \in Nat /\ den > 0
  BY <1>5
<1>8. /\ whole \in 0..45 /\ (whole # 45 => whole <= 35)
      /\ whole = 45 <=> supplierOk /\ orderOk /\ orderFound /\ amountOk
  BY DEF Weight
<1>9. parts = 25 * (product.num * quantity.den) + 15 * (quantity.num * product.den)
              + 15 * (price.num * product.den)
  <2>1. Weight.product = 25 /\ Weight.quantity = 15 /\ Weight.price = 15
    BY DEF Weight
  <2>2. PICK a, b, c, d, e : /\ a = product.num /\ b = quantity.den /\ c = quantity.num
                             /\ d = price.num /\ e = product.den
    OBVIOUS
  <2>3. a \in Nat /\ b \in Nat /\ c \in Nat /\ d \in Nat /\ e \in Nat
    BY <1>5, <2>2
  <2>4. 25 * a * b + (15 * c + 15 * d) * e = 25 * (a * b) + 15 * (c * e) + 15 * (d * e)
    BY ONLY <2>3, Distribution
  <2> QED
    BY <2>1, <2>2, <2>4
<1>10. parts \in Nat /\ parts <= 55 * den
  <2>1. product.num * quantity.den \in Nat /\ product.num * quantity.den <= den
    BY <1>5, Products
  <2>2. quantity.num * product.den \in Nat /\ quantity.num * product.den <= den
    BY <1>5, Products
  <2>3. price.num * product.den \in Nat /\ price.num * product.den <= den
    BY <1>5, <1>6, Products
  <2> HIDE DEF den, parts
  <2> QED
    BY <1>7, <1>9, <2>1, <2>2, <2>3
<1>11. ASSUME 0 < Len(pairs), Len(pairs) < 3000
       PROVE  IF AllRight(pairs, quantityOk, priceOk) THEN parts = 55 * den
              ELSE den < 200 * (55 * den - parts)
  <2>1. PICK L, m, x, y : L = Len(pairs) /\ m = matched /\ x = right /\ y = priced
    OBVIOUS
  <2>2. /\ L \in Nat /\ m \in Nat /\ x \in Nat /\ y \in Nat /\ m <= L /\ x <= m /\ y <= m
        /\ 0 < L /\ L < 3000
    BY <1>1, <1>2, <1>3, <1>11, <2>1
  <2> HIDE DEF parts
  <2>3. CASE m = 0
    <3>1. den = L
      BY <1>6, <2>1, <2>2, <2>3
    <3>2. /\ product.num = 0 /\ quantity.num = 0 /\ price.num = 0
          /\ product.den \in Nat /\ quantity.den \in Nat
      BY <1>5, <1>6, <2>1, <2>2, <2>3
    <3>3. 25 * (0 * quantity.den) + 15 * (0 * product.den) + 15 * (0 * product.den) = 0
      BY <3>2
    <3>4. parts = 0
      BY <1>9, <3>2, <3>3
    <3> HIDE DEF den
    <3> QED
      BY <1>4, <2>1, <2>2, <2>3, <3>1, <3>4
  <2>4. CASE m # 0
    <3>1. den = L * m
      BY <1>6, <2>1, <2>2, <2>4
    <3>2. parts = 25 * (m * m) + 15 * (x * L) + 15 * (y * L)
      <4>1. /\ product.num = m /\ product.den = L /\ quantity.den = m
            /\ quantity.num = x /\ price.num = y
        BY <1>6, <2>1, <2>2, <2>4
      <4> QED
        BY <1>9, <4>1
    <3> HIDE DEF den
    <3>3. 0 < m
      BY <2>2, <2>4
    <3>4. /\ m = L /\ x = m /\ y = m => parts = 55 * (L * m)
          /\ ~(m = L /\ x = m /\ y = m) => L * m < 200 * (55 * (L * m) - parts)
      BY <2>2, <3>2, <3>3, OneLineCounts
    <3> QED
      BY <1>4, <2>1, <3>1, <3>4
  <2> QED
    BY <2>3, <2>4
<1>12. s = Rounded(num, den)
  BY <1>0, Zenon DEF Rounded
<1> HIDE DEF den, whole, parts
<1>13. ScoreParts(s, supplierOk, orderOk, orderFound, pairs, quantityOk, priceOk, amountOk,
                  den, parts, whole)
  BY <1>8, <1>10, <1>11, <1>12 DEF ScoreParts
<1>14. den \in Nat \ {0} /\ parts \in Nat /\ whole \in 0..45
  BY <1>7, <1>8, <1>10
<1> QED
  BY <1>13, <1>14, Zenon

(* Whatever was found, the score lies between none and all of its weight.  *)
LEMMA RoundedBounds ==
  ASSUME NEW den \in Nat \ {0}, NEW num \in Nat
  PROVE  /\ num <= 10000 * den => Rounded(num, den) \in Scores
         /\ num = 10000 * den => Rounded(num, den) = FullScore
         /\ 2 * num + den < 10000 * (2 * den) => Rounded(num, den) # FullScore
<1>1. PICK x \in Nat, d \in Nat : x = 2 * num + den /\ d = 2 * den
  OBVIOUS
<1>2. d > 0
  BY <1>1
<1>3. ASSUME num <= 10000 * den PROVE Rounded(num, den) \in Scores
  <2>1. x < (10000 + 1) * d
    BY <1>1, <1>3
  <2>2. PICK s : s = x \div d
    OBVIOUS
  <2>3. s \in 0..10000
    BY <1>2, <2>1, <2>2, Quotients
  <2>4. Rounded(num, den) = s
    BY <1>1, <2>2 DEF Rounded
  <2>5. s \in Scores
    BY <2>3 DEF Scores
  <2> QED
    BY <2>4, <2>5
<1>4. ASSUME num = 10000 * den PROVE Rounded(num, den) = FullScore
  <2>1. PICK s : s = x \div d
    OBVIOUS
  <2>2. s \in Int /\ d * s <= x /\ x < d * s + d
    BY <1>2, <2>1
  <2>3. s = 10000
    <3>1. 20000 * den + den = x /\ 2 * den = d
      BY <1>1, <1>4
    <3>2. CASE s <= 9999
      <4>1. d * s <= d * 9999
        BY <2>2, <3>2
      <4> QED
        BY <2>2, <3>1, <4>1
    <3>3. CASE s >= 10001
      <4>1. d * 10001 <= d * s
        BY <2>2, <3>3
      <4> QED
        BY <2>2, <3>1, <4>1
    <3> QED
      BY <2>2, <3>2, <3>3
  <2> QED
    BY <1>1, <2>1, <2>3 DEF FullScore, Rounded
<1>5. ASSUME 2 * num + den < 10000 * (2 * den) PROVE Rounded(num, den) # FullScore
  <2>1. x < (9999 + 1) * d
    BY <1>1, <1>5
  <2>2. PICK s : s = x \div d
    OBVIOUS
  <2>3. s \in 0..9999
    BY <1>2, <2>1, <2>2, Quotients
  <2>4. s # 10000
    BY <2>3
  <2> QED
    BY <1>1, <2>2, <2>4 DEF FullScore, Rounded
<1> QED
  BY <1>3, <1>4, <1>5

(* What a score tells of the parts it is made from.                        *)
Tells(s, supplierOk, orderOk, orderFound, pairs, quantityOk, priceOk, amountOk) ==
  /\ s \in Scores
  /\ s = FullScore => supplierOk /\ orderOk /\ orderFound /\ amountOk
  /\ 0 < Len(pairs) /\ Len(pairs) < 3000 =>
       (s = FullScore <=> /\ supplierOk /\ orderOk /\ orderFound /\ amountOk
                          /\ AllRight(pairs, quantityOk, priceOk))

LEMMA ScoreTells ==
  ASSUME NEW supplierOk, NEW orderOk, NEW orderFound, NEW amountOk,
         NEW S, NEW pairs \in Seq(S),
         NEW quantityOk, \A n \in quantityOk : n \in DOMAIN pairs /\ pairs[n] # 0,
         NEW priceOk, \A n \in priceOk : n \in DOMAIN pairs /\ pairs[n] # 0,
         NEW s, s = Score(supplierOk, orderOk, orderFound, pairs, quantityOk, priceOk, amountOk)
  PROVE  Tells(s, supplierOk, orderOk, orderFound, pairs, quantityOk, priceOk, amountOk)
<1>0. PICK den \in Nat \ {0}, parts \in Nat, whole \in 0..45 :
        ScoreParts(s, supplierOk, orderOk, orderFound, pairs, quantityOk, priceOk, amountOk,
                   den, parts, whole)
  BY ScoreForm
<1>1. /\ parts <= 55 * den
      /\ whole = 45 <=> supplierOk /\ orderOk /\ orderFound /\ amountOk
      /\ whole # 45 => whole <= 35
      /\ s = Rounded(100 * (whole * den + (IF orderFound THEN parts ELSE 0)), den)
      /\ 0 < Len(pairs) /\ Len(pairs) < 3000 =>
           IF AllRight(pairs, quantityOk, priceOk) THEN parts = 55 * den
           ELSE den < 200 * (55 * den - parts)
  BY <1>0 DEF ScoreParts
<1>2. PICK num : num = 100 * (whole * den + (IF orderFound THEN parts ELSE 0))
  OBVIOUS
<1>3. whole * den \in Nat /\ whole * den <= 45 * den /\ (whole # 45 => whole * den <= 35 * den)
  BY <1>1, Products
<1>4. num \in Nat /\ num <= 10000 * den
  BY <1>1, <1>2, <1>3
<1>5. whole # 45 => 2 * num + den < 10000 * (2 * den)
  BY <1>1, <1>2, <1>3
<1>6. s = Rounded(num, den)
  BY <1>1, <1>2
<1>7. s \in Scores /\ (whole # 45 => s # FullScore)
  BY <1>4, <1>5, <1>6, RoundedBounds
<1>8. CASE whole = 45
  <2>1. orderFound /\ whole * den = 45 * den
    BY <1>1, <1>8
  <2>2. num = 100 * (45 * den + parts)
    BY <1>2, <2>1
  <2>3. parts = 55 * den => s = FullScore
    BY <1>4, <1>6, <2>2, RoundedBounds
  <2>4. den < 200 * (55 * den - parts) => s # FullScore
    BY <1>4, <1>6, <2>2, RoundedBounds
  <2> QED
    BY <1>1, <1>7, <1>8, <2>3, <2>4 DEF Tells
<1>9. CASE whole # 45
  BY <1>1, <1>7, <1>9 DEF Tells
<1> QED
  BY <1>8, <1>9

-----------------------------------------------------------------------------
(* The whole comparison.                                                   *)
Judged(result, invoice, ls, order, orderLines) ==
  /\ result.pairs \in Seq(DOMAIN orderLines \cup {0})
  /\ DOMAIN result.pairs \subseteq DOMAIN ls
  /\ result.score \in Scores
  /\ result.order = IF OrderConforms(invoice, order) THEN order.id ELSE invoice.order

LEMMA MatchResult ==
  ASSUME NEW invoice, NEW ls, NEW order, NEW orderLines, NEW others, NEW fx, NEW base, NEW tol,
         Comparable(ls, orderLines),
         NEW result, result = Match(invoice, ls, order, orderLines, others, fx, base, tol)
  PROVE  Judged(result, invoice, ls, order, orderLines)
<1> DEFINE found   == order # NoOrder
           conform == OrderConforms(invoice, order)
           factor  == IF found THEN FxFactor(invoice, order, fx, base) ELSE [num |-> 1, den |-> 1]
           pairs   == IF conform THEN MatchLines(ls, orderLines)
                      ELSE IF found THEN [n \in DOMAIN ls |-> 0]
                      ELSE <<>>
           paired  == {n \in DOMAIN pairs : pairs[n] # 0}
           amounts == IF conform THEN AmountGaps(invoice, order, orderLines, pairs, factor, tol) ELSE {}
           right   == {n \in paired : QuantityConforms(ls[n], orderLines[pairs[n]], tol)}
           priced  == {n \in paired : PriceConforms(ls[n], orderLines[pairs[n]], factor, tol)}
<1>0. PICK whole : whole = (conform /\ amounts = {})
  OBVIOUS
<1>1. /\ result.pairs = pairs
      /\ result.score = Score(SupplierConforms(invoice), conform, found, pairs, right, priced, whole)
      /\ result.order = IF conform THEN order.id ELSE invoice.order
  BY <1>0 DEF Match
<1>2. pairs \in Seq(DOMAIN orderLines \cup {0}) /\ DOMAIN pairs \subseteq DOMAIN ls
  <2>1. CASE conform
    <3>1. pairs = MatchLines(ls, orderLines)
      BY <2>1
    <3>2. /\ MatchLines(ls, orderLines) \in Seq(DOMAIN orderLines \cup {0})
          /\ Len(MatchLines(ls, orderLines)) = Len(ls) /\ DOMAIN ls = 1..Len(ls)
      BY MatchLinesResult DEF Comparable
    <3> HIDE DEF pairs
    <3> QED
      BY <3>1, <3>2
  <2>2. CASE ~conform /\ found
    <3>1. pairs = [n \in 1..Len(ls) |-> 0] /\ Len(ls) \in Nat /\ DOMAIN ls = 1..Len(ls)
      BY <2>2 DEF Comparable
    <3> HIDE DEF pairs
    <3> QED
      BY <3>1
  <2>3. CASE ~conform /\ ~found
    <3>1. pairs = <<>>
      BY <2>3
    <3> HIDE DEF pairs
    <3> QED
      BY <3>1
  <2> QED
    BY <2>1, <2>2, <2>3
<1>3. /\ \A n \in right : n \in DOMAIN pairs /\ pairs[n] # 0
      /\ \A n \in priced : n \in DOMAIN pairs /\ pairs[n] # 0
  OBVIOUS
<1> HIDE DEF pairs, right, priced, amounts, found, conform, factor
<1>4. PICK a, b, c, p, q, r : /\ a = SupplierConforms(invoice) /\ b = conform /\ c = found
                              /\ p = pairs /\ q = right /\ r = priced
  OBVIOUS
<1>5. Score(a, b, c, p, q, r, whole) \in Scores
  <2>1. p \in Seq(DOMAIN orderLines \cup {0})
    BY <1>2, <1>4
  <2>2. /\ \A n \in q : n \in DOMAIN p /\ p[n] # 0
        /\ \A n \in r : n \in DOMAIN p /\ p[n] # 0
    BY <1>3, <1>4
  <2> QED
    BY <2>1, <2>2, ScoreTells DEF Tells
<1>6. result.score \in Scores
  BY <1>1, <1>4, <1>5
<1> QED
  BY <1>1, <1>2, <1>6 DEF conform, Judged

-----------------------------------------------------------------------------
(* The comparison finds gaps of the matching categories only.              *)
LEMMA GapCategory ==
  ASSUME NEW conforms, NEW category \in MatchingCategories, NEW subject, NEW n,
         NEW g \in Gap(conforms, category, subject, n)
  PROVE  g[1] \in MatchingCategories
BY DEF Gap

LEMMA LineGapCategories ==
  ASSUME NEW ls, NEW orderLines, NEW pairs, NEW fx, NEW tol,
         NEW g \in LineGaps(ls, orderLines, pairs, fx, tol)
  PROVE  g[1] \in MatchingCategories
<1>1. PICK n \in DOMAIN pairs :
        \/ g \in Gap(FALSE, "PRODUCT_MISSING", "line", n)
        \/ g \in Gap(QuantityConforms(ls[n], orderLines[pairs[n]], tol), "QUANTITY", "line", n)
        \/ g \in Gap(PriceConforms(ls[n], orderLines[pairs[n]], fx, tol), "AMOUNT", "line", n)
  BY DEF LineGaps
<1> QED
  BY <1>1, GapCategory DEF MatchingCategories

LEMMA AmountGapCategories ==
  ASSUME NEW invoice, NEW order, NEW orderLines, NEW pairs, NEW fx, NEW tol,
         NEW g \in AmountGaps(invoice, order, orderLines, pairs, fx, tol)
  PROVE  g[1] \in MatchingCategories
<1>1. \/ g \in Gap(ExclTaxConforms(invoice, orderLines, pairs, fx, tol), "AMOUNT", "HT", 0)
      \/ g \in Gap(InclTaxConforms(invoice, order, fx, tol), "AMOUNT", "TTC", 0)
      \/ g \in Gap(OrderTaxConforms(invoice, order, orderLines, fx, tol), "TAX", "order", 0)
      \/ g \in Gap(InternalTaxConforms(invoice, tol), "TAX", "invoice", 0)
  BY DEF AmountGaps
<1> QED
  BY <1>1, GapCategory DEF MatchingCategories

LEMMA MatchGapCategories ==
  ASSUME NEW invoice, NEW ls, NEW order, NEW orderLines, NEW others, NEW fx, NEW base, NEW tol,
         NEW g \in Match(invoice, ls, order, orderLines, others, fx, base, tol).gaps
  PROVE  g[1] \in MatchingCategories
<1> DEFINE conform == OrderConforms(invoice, order)
           factor  == IF order # NoOrder THEN FxFactor(invoice, order, fx, base)
                      ELSE [num |-> 1, den |-> 1]
           pairs   == IF conform THEN MatchLines(ls, orderLines)
                      ELSE IF order # NoOrder THEN [n \in DOMAIN ls |-> 0]
                      ELSE <<>>
<1>1. \/ g \in Gap(~IsDuplicate(invoice, others), "DUPLICATE", "invoice", 0)
      \/ g \in Gap(SupplierConforms(invoice), "SUPPLIER", "invoice", 0)
      \/ g \in Gap(conform, "PURCHASE_ORDER", "invoice", 0)
      \/ g \in LineGaps(ls, orderLines, pairs, factor, tol)
      \/ g \in AmountGaps(invoice, order, orderLines, pairs, factor, tol)
  BY DEF Match
<1> QED
  BY <1>1, GapCategory, LineGapCategories, AmountGapCategories DEF MatchingCategories

-----------------------------------------------------------------------------
(* Full scores, and orders that are repeated.                              *)
(* The gaps of lines are those of a line that found none of its own, or    *)
(* whose quantity or price differs.                                        *)
LEMMA NoLineGap ==
  ASSUME NEW ls, NEW orderLines, NEW pairs, NEW fx, NEW tol
  PROVE  /\ LineGaps(ls, orderLines, pairs, fx, tol) = {}
              <=> \A n \in DOMAIN pairs :
                    /\ pairs[n] # 0
                    /\ QuantityConforms(ls[n], orderLines[pairs[n]], tol)
                    /\ PriceConforms(ls[n], orderLines[pairs[n]], fx, tol)
         /\ \A g \in LineGaps(ls, orderLines, pairs, fx, tol) : g[1] # "DUPLICATE"
<1> DEFINE Gaps(n) == IF pairs[n] = 0
                      THEN Gap(FALSE, "PRODUCT_MISSING", "line", n)
                      ELSE Gap(QuantityConforms(ls[n], orderLines[pairs[n]], tol), "QUANTITY", "line", n)
                           \cup Gap(PriceConforms(ls[n], orderLines[pairs[n]], fx, tol), "AMOUNT", "line", n)
<1>1. LineGaps(ls, orderLines, pairs, fx, tol) = UNION {Gaps(n) : n \in DOMAIN pairs}
  BY DEF LineGaps
<1>2. \A n \in DOMAIN pairs :
        Gaps(n) = {} <=> /\ pairs[n] # 0
                         /\ QuantityConforms(ls[n], orderLines[pairs[n]], tol)
                         /\ PriceConforms(ls[n], orderLines[pairs[n]], fx, tol)
  BY DEF Gap
<1>3. \A n \in DOMAIN pairs : \A g \in Gaps(n) : g[1] # "DUPLICATE"
  BY DEF Gap
<1> HIDE DEF Gaps
<1>4. UNION {Gaps(n) : n \in DOMAIN pairs} = {} <=> \A n \in DOMAIN pairs : Gaps(n) = {}
  OBVIOUS
<1> QED
  BY <1>1, <1>2, <1>3, <1>4

LEMMA NoDuplicateGap ==
  ASSUME NEW invoice, NEW order, NEW orderLines, NEW pairs, NEW fx, NEW tol
  PROVE  \A g \in AmountGaps(invoice, order, orderLines, pairs, fx, tol) : g[1] # "DUPLICATE"
BY DEF AmountGaps, Gap

LEMMA PairsLength ==
  ASSUME NEW ls, NEW orderLines, Comparable(ls, orderLines)
  PROVE  Len(MatchLines(ls, orderLines)) = Len(ls)
BY MatchLinesResult

LEMMA GapShows ==
  ASSUME NEW conforms, NEW category, category # "DUPLICATE", NEW subject, NEW n
  PROVE  /\ conforms => Gap(conforms, category, subject, n) = {}
         /\ ~conforms => Gap(conforms, category, subject, n) # {}
         /\ \A g \in Gap(conforms, category, subject, n) : g[1] # "DUPLICATE"
<1>1. CASE conforms
  <2>1. Gap(conforms, category, subject, n) = {}
    BY <1>1 DEF Gap
  <2> QED
    BY <1>1, <2>1
<1>2. CASE ~conforms
  <2>1. Gap(conforms, category, subject, n) = {<<category, subject, n>>}
    BY <1>2 DEF Gap
  <2> QED
    BY <1>2, <2>1
<1> QED
  BY <1>1, <1>2

(* The score is full exactly when no gap is found but that of a duplicate, *)
(* in an invoice of fewer than 3000 lines; beyond, the rounding to four    *)
(* digits hides one wrong quantity or price.  About _compute_score, whose  *)
(* shares are computed apart from the anomalies.                           *)
THEOREM FullScoreTellsGaps ==
  ASSUME NEW invoice, NEW ls, NEW order, NEW orderLines, NEW others, NEW fx, NEW base, NEW tol,
         Comparable(ls, orderLines), 0 < Len(ls), Len(ls) < 3000,
         NEW result, result = Match(invoice, ls, order, orderLines, others, fx, base, tol)
  PROVE  result.score = FullScore <=> \A g \in result.gaps : g[1] = "DUPLICATE"
<1>0. Len(MatchLines(ls, orderLines)) = Len(ls)
  BY PairsLength
<1> DEFINE found   == order # NoOrder
           conform == OrderConforms(invoice, order)
           factor  == IF found THEN FxFactor(invoice, order, fx, base) ELSE [num |-> 1, den |-> 1]
           pairs   == IF conform THEN MatchLines(ls, orderLines)
                      ELSE IF found THEN [n \in DOMAIN ls |-> 0]
                      ELSE <<>>
           paired  == {n \in DOMAIN pairs : pairs[n] # 0}
           amounts == IF conform THEN AmountGaps(invoice, order, orderLines, pairs, factor, tol) ELSE {}
           right   == {n \in paired : QuantityConforms(ls[n], orderLines[pairs[n]], tol)}
           priced  == {n \in paired : PriceConforms(ls[n], orderLines[pairs[n]], factor, tol)}
           lineGaps == IF conform THEN LineGaps(ls, orderLines, pairs, factor, tol) ELSE {}
           d == conform /\ amounts = {}
<1>1. PICK a, b, c : a = SupplierConforms(invoice) /\ b = conform /\ c = found
  OBVIOUS
<1>2. /\ result.pairs = pairs
      /\ result.score = Score(a, b, c, pairs, right, priced, d)
      /\ result.gaps = UNION {Gap(~IsDuplicate(invoice, others), "DUPLICATE", "invoice", 0),
                              Gap(SupplierConforms(invoice), "SUPPLIER", "invoice", 0),
                              Gap(conform, "PURCHASE_ORDER", "invoice", 0), lineGaps, amounts}
  BY <1>1 DEF Match
<1>3. pairs \in Seq(DOMAIN orderLines \cup {0})
  BY <1>2, MatchResult DEF Judged
<1>4. conform => Len(pairs) = Len(ls)
  <2>1. conform => pairs = MatchLines(ls, orderLines)
    OBVIOUS
  <2> HIDE DEF pairs, conform
  <2> QED
    BY <1>0, <2>1
<1>5. conform => found
  BY DEF OrderConforms
<1>6. /\ \A n \in right : n \in DOMAIN pairs /\ pairs[n] # 0
      /\ \A n \in priced : n \in DOMAIN pairs /\ pairs[n] # 0
  OBVIOUS
<1>7. conform => (lineGaps = {} <=> AllRight(pairs, right, priced))
  BY NoLineGap DEF AllRight
<1>8. (\A g \in result.gaps : g[1] = "DUPLICATE")
        <=> SupplierConforms(invoice) /\ conform /\ lineGaps = {} /\ amounts = {}
  <2>1. /\ \A g \in lineGaps : g[1] # "DUPLICATE"
        /\ \A g \in amounts : g[1] # "DUPLICATE"
    BY NoLineGap, NoDuplicateGap
  <2>2. \A s, t : \A g \in Gap(~IsDuplicate(invoice, others), "DUPLICATE", s, t) : g[1] = "DUPLICATE"
    BY DEF Gap
  <2> HIDE DEF lineGaps, amounts, conform
  <2>3. PICK u, v, w : /\ u = Gap(~IsDuplicate(invoice, others), "DUPLICATE", "invoice", 0)
                       /\ v = Gap(SupplierConforms(invoice), "SUPPLIER", "invoice", 0)
                       /\ w = Gap(conform, "PURCHASE_ORDER", "invoice", 0)
    OBVIOUS
  <2>4. /\ SupplierConforms(invoice) => v = {}
        /\ ~SupplierConforms(invoice) => v # {}
        /\ conform => w = {}
        /\ ~conform => w # {}
        /\ \A g \in v : g[1] # "DUPLICATE"
        /\ \A g \in w : g[1] # "DUPLICATE"
    <3>1. v = Gap(a, "SUPPLIER", "invoice", 0) /\ w = Gap(b, "PURCHASE_ORDER", "invoice", 0)
      BY <1>1, <2>3
    <3> QED
      BY <1>1, <3>1, GapShows
  <2>5. result.gaps = UNION {u, v, w, lineGaps, amounts}
    BY <1>2, <2>3
  <2> QED
    BY <2>1, <2>2, <2>3, <2>4, <2>5
<1> HIDE DEF pairs, right, priced, amounts, lineGaps, d
<1>9. PICK p, q, r : p = pairs /\ q = right /\ r = priced
  OBVIOUS
<1>10. PICK s : s = Score(a, b, c, p, q, r, d)
  OBVIOUS
<1>11. Tells(s, a, b, c, p, q, r, d)
  <2>1. p \in Seq(DOMAIN orderLines \cup {0})
    BY <1>3, <1>9
  <2>2. /\ \A n \in q : n \in DOMAIN p /\ p[n] # 0
        /\ \A n \in r : n \in DOMAIN p /\ p[n] # 0
    BY <1>6, <1>9
  <2> QED
    BY <1>10, <2>1, <2>2, ScoreTells
<1>12. result.score = s
  BY <1>2, <1>9, <1>10
<1> HIDE DEF conform, found
<1>13. CASE ~conform
  BY <1>1, <1>8, <1>11, <1>12, <1>13 DEF Tells
<1>14. CASE conform
  <2>1. 0 < Len(p) /\ Len(p) < 3000
    BY <1>4, <1>9, <1>14
  <2>2. s = FullScore <=> a /\ b /\ c /\ d /\ AllRight(p, q, r)
    BY <1>11, <2>1 DEF Tells
  <2>3. AllRight(p, q, r) <=> lineGaps = {}
    BY <1>7, <1>9, <1>14
  <2>4. a /\ b /\ c /\ d <=> SupplierConforms(invoice) /\ amounts = {}
    <3>1. (a <=> SupplierConforms(invoice)) /\ b /\ c /\ (d <=> amounts = {})
      <4>1. a <=> SupplierConforms(invoice)
        BY <1>1
      <4>2. b /\ c
        BY <1>1, <1>5, <1>14
      <4>3. d <=> amounts = {}
        BY <1>14 DEF d
      <4> QED
        BY <4>1, <4>2, <4>3
    <3> QED
      BY <3>1
  <2> QED
    BY <1>8, <1>12, <1>14, <2>2, <2>3, <2>4
<1> QED
  BY <1>13, <1>14

(* A line that can only mean one line of the order: by its reference, else *)
(* by its name, else by a name that is more like it than any other.        *)
FindsOwn(line, orderLines, k) ==
  \/ line.ref # "" /\ {j \in DOMAIN orderLines : orderLines[j].ref = line.ref} = {k}
  \/ /\ line.ref = "" \/ \A j \in DOMAIN orderLines : orderLines[j].ref # line.ref
     /\ \/ line.name # "" /\ {j \in DOMAIN orderLines : orderLines[j].name = line.name} = {k}
        \/ /\ \A j \in DOMAIN orderLines : orderLines[j].name # line.name
           /\ "" \notin {line.name, orderLines[k].name} /\ Similar(line.name, orderLines[k].name)
           /\ \A j \in DOMAIN orderLines \ {k} :
                Ratio(line.name, orderLines[j].name) < Ratio(line.name, orderLines[k].name)

LEMMA LeastOfOne == ASSUME NEW k \in Nat PROVE Min({k}) = k
BY LeastIsIn

LEMMA OneFindsOwn ==
  ASSUME NEW line, NEW orderLines, NEW used, NEW k \in DOMAIN orderLines \ used,
         DOMAIN orderLines \subseteq Nat,
         \A j \in DOMAIN orderLines : Ratio(line.name, orderLines[j].name) \in 0..100,
         FindsOwn(line, orderLines, k)
  PROVE  MatchOne(line, orderLines, used) = k
<1> DEFINE free == DOMAIN orderLines \ used
           byRef  == {j \in free : line.ref # "" /\ orderLines[j].ref = line.ref}
           byName == {j \in free : line.name # "" /\ orderLines[j].name = line.name}
           likeness(j) == Ratio(line.name, orderLines[j].name)
           near == {j \in free : /\ "" \notin {line.name, orderLines[j].name}
                                 /\ Similar(line.name, orderLines[j].name)}
           best == {j \in near : \A i \in near : likeness(j) >= likeness(i)}
<1>1. MatchOne(line, orderLines, used) = IF byRef # {} THEN Min(byRef)
                                         ELSE IF byName # {} THEN Min(byName)
                                         ELSE IF near # {} THEN Min(best) ELSE 0
  BY DEF MatchOne
<1>2. Min({k}) = k
  BY LeastOfOne
<1>3. CASE line.ref # "" /\ {j \in DOMAIN orderLines : orderLines[j].ref = line.ref} = {k}
  <2>1. byRef = {k}
    BY <1>3
  <2> HIDE DEF byRef, byName, near, best
  <2> QED
    BY <1>1, <1>2, <2>1
<1>4. CASE line.ref = "" \/ \A j \in DOMAIN orderLines : orderLines[j].ref # line.ref
  <2>1. byRef = {}
    BY <1>4
  <2>2. CASE line.name # "" /\ {j \in DOMAIN orderLines : orderLines[j].name = line.name} = {k}
    <3>1. byName = {k}
      BY <2>2
    <3> HIDE DEF byRef, byName, near, best
    <3> QED
      BY <1>1, <1>2, <2>1, <3>1
  <2>3. CASE /\ \A j \in DOMAIN orderLines : orderLines[j].name # line.name
             /\ "" \notin {line.name, orderLines[k].name} /\ Similar(line.name, orderLines[k].name)
             /\ \A j \in DOMAIN orderLines \ {k} : likeness(j) < likeness(k)
    <3>1. byName = {}
      BY <2>3
    <3>2. k \in near
      BY <2>3
    <3>3. near \subseteq DOMAIN orderLines
      OBVIOUS
    <3>4. \A j \in near : likeness(j) \in Int
      <4>1. \A j \in DOMAIN orderLines : likeness(j) \in 0..100
        OBVIOUS
      <4> HIDE DEF likeness, near
      <4>2. \A x \in 0..100 : x \in Int
        OBVIOUS
      <4> QED
        BY <3>3, <4>1, <4>2, Zenon
    <3>5. \A j \in near : j # k => likeness(j) < likeness(k)
      BY <2>3, <3>3
    <3> HIDE DEF likeness, near
    <3>6. best = {k}
      BY <3>2, <3>4, <3>5
    <3> HIDE DEF byRef, byName, best
    <3> QED
      BY <1>1, <1>2, <2>1, <3>1, <3>2, <3>6
  <2>4. \/ line.name # "" /\ {j \in DOMAIN orderLines : orderLines[j].name = line.name} = {k}
        \/ /\ \A j \in DOMAIN orderLines : orderLines[j].name # line.name
           /\ "" \notin {line.name, orderLines[k].name} /\ Similar(line.name, orderLines[k].name)
           /\ \A j \in DOMAIN orderLines \ {k} : likeness(j) < likeness(k)
    <3>1. ~(line.ref # "" /\ {j \in DOMAIN orderLines : orderLines[j].ref = line.ref} = {k})
      BY <1>4
    <3> QED
      BY <3>1 DEF FindsOwn
  <2> QED
    BY <2>2, <2>3, <2>4
<1> QED
  BY <1>3, <1>4 DEF FindsOwn

(* Lines that each mean one line of the order, no two the same, find their *)
(* own, in whatever order they come.  About _match_lines, which takes the  *)
(* lines of the order greedily.                                            *)
THEOREM LinesFindTheirOwn ==
  ASSUME NEW ls, NEW orderLines, Comparable(ls, orderLines), 0 \notin DOMAIN orderLines,
         NEW perm \in [DOMAIN ls -> DOMAIN orderLines],
         \A i, j \in DOMAIN ls : perm[i] = perm[j] => i = j,
         \A n \in DOMAIN ls : FindsOwn(ls[n], orderLines, perm[n])
  PROVE  MatchLines(ls, orderLines) = perm
<1> DEFINE Places == DOMAIN orderLines \cup {0}
           Good(s, n) == s \in Seq(Places) /\ Len(s) = n /\ \A i \in 1..n : s[i] = perm[i]
<1>1. PICK f : /\ f[0] = <<>>
               /\ \A n \in 1..Len(ls) :
                    f[n] = Append(f[n - 1], MatchOne(ls[n], orderLines, Range(f[n - 1])))
               /\ MatchLines(ls, orderLines) = f[Len(ls)]
  BY PairsByStep DEF Comparable
<1> DEFINE T == {n \in Nat : n <= Len(ls) => Good(f[n], n)}
<1>2. 0 \in T
  <2>1. PICK s : s = f[0]
    OBVIOUS
  <2>2. s = <<>>
    BY <1>1, <2>1
  <2>3. s \in Seq(Places) /\ Len(s) = 0
    BY <2>2
  <2> QED
    BY <2>1, <2>3
<1>3. ASSUME NEW n \in Nat, n \in T PROVE n + 1 \in T
  <2> SUFFICES ASSUME n + 1 <= Len(ls) PROVE Good(f[n + 1], n + 1)
    OBVIOUS
  <2>1. n + 1 \in 1..Len(ls) /\ n + 1 - 1 = n /\ n <= Len(ls) /\ DOMAIN ls = 1..Len(ls)
    BY DEF Comparable
  <2>2. Good(f[n], n)
    BY <1>3, <2>1
  <2>3. PICK s : s = f[n]
    OBVIOUS
  <2>4. s \in Seq(Places) /\ Len(s) = n /\ \A i \in 1..n : s[i] = perm[i]
    BY <2>2, <2>3
  <2>5. PICK k : k = perm[n + 1]
    OBVIOUS
  <2>6. k \in DOMAIN orderLines /\ FindsOwn(ls[n + 1], orderLines, k)
    BY <2>1, <2>5
  <2>7. k \notin Range(s)
    <3>1. \A i \in DOMAIN s : i \in DOMAIN ls /\ i # n + 1 /\ s[i] = perm[i]
      BY <2>1, <2>4
    <3>2. \A i \in DOMAIN s : s[i] # k
      BY <2>1, <2>5, <3>1
    <3> QED
      BY <3>2 DEF Range
  <2>8. MatchOne(ls[n + 1], orderLines, Range(s)) = k
    BY <2>1, <2>6, <2>7, OneFindsOwn DEF Comparable
  <2>9. f[n + 1] = Append(s, k)
    BY <1>1, <2>1, <2>3, <2>8
  <2>10. Append(s, k) \in Seq(Places) /\ Len(Append(s, k)) = n + 1
    BY <2>4, <2>6
  <2>11. \A i \in 1..(n + 1) : Append(s, k)[i] = IF i = n + 1 THEN k ELSE s[i]
    BY <2>4, <2>6
  <2>12. \A i \in 1..(n + 1) : Append(s, k)[i] = perm[i]
    BY <2>4, <2>5, <2>11
  <2> QED
    BY <2>9, <2>10, <2>12
<1> HIDE DEF T
<1>4. Len(ls) \in T
  BY <1>2, <1>3, NatSet DEF Comparable
<1> USE DEF T
<1>5. PICK s : s = MatchLines(ls, orderLines)
  OBVIOUS
<1>6. s \in Seq(Places) /\ Len(s) = Len(ls) /\ \A i \in 1..Len(ls) : s[i] = perm[i]
  BY <1>1, <1>4, <1>5 DEF Comparable
<1>7. DOMAIN s = DOMAIN ls /\ s = [i \in DOMAIN s |-> s[i]]
  BY <1>6 DEF Comparable
<1>8. s = perm
  BY <1>6, <1>7 DEF Comparable
<1> QED
  BY <1>5, <1>8

(* An amount and the one it repeats, in another currency; either may be    *)
(* missing.                                                                *)
Repeats(value, factor, expected) ==
  \/ NoAmount \in {value, expected}
  \/ value * factor.num \in Int /\ value * factor.num = expected * factor.den

LEMMA SameIsWithin ==
  ASSUME NEW x \in Int, NEW tol \in Nat PROVE WithinTolerance(x, x, tol)
<1>1. PICK a : a = Abs(x)
  OBVIOUS
<1>2. a \in Nat
  BY <1>1 DEF Abs
<1>3. Max({a}) = a
  BY <1>2 DEF Max
<1>4. {Abs(x), Abs(x)} = {a} /\ x - x = 0
  BY <1>1
<1>5. 1000 * Abs(0) = 0 /\ tol * a >= 0
  BY <1>2 DEF Abs
<1>6. 1000 * Abs(x - x) <= tol * Max({Abs(x), Abs(x)})
  BY <1>2, <1>3, <1>4, <1>5
<1> QED
  BY <1>6 DEF WithinTolerance

LEMMA RepeatedConforms ==
  ASSUME NEW value, NEW factor, NEW expected, NEW tol \in Nat, Repeats(value, factor, expected)
  PROVE  Conforms(value, factor, expected, tol)
<1>1. CASE NoAmount \in {value, expected}
  BY <1>1 DEF Conforms
<1>2. CASE value * factor.num \in Int /\ value * factor.num = expected * factor.den
  <2>1. PICK x \in Int : x = value * factor.num /\ x = expected * factor.den
    BY <1>2
  <2>2. WithinTolerance(x, x, tol)
    BY SameIsWithin
  <2> QED
    BY <2>1, <2>2 DEF Conforms
<1> QED
  BY <1>1, <1>2 DEF Repeats

(* The partial sums of the amounts over the subsets of S, of at most N     *)
(* elements, that SumAmounts runs through.                                 *)
Upto(S, N) == {s \in SUBSET S : Cardinality(s) <= N}

PartialSum(orderLines, f, s) ==
  IF s = {} THEN 0
  ELSE LET k == CHOOSE x \in s : TRUE IN orderLines[k].amount + f[s \ {k}]

PartialSums(orderLines, D, f) == f = [s \in D |-> PartialSum(orderLines, f, s)]

LEMMA OneLess ==
  ASSUME NEW S, IsFiniteSet(S), NEW s \in SUBSET S, s # {}, NEW k \in s
  PROVE  s \ {k} \in SUBSET S /\ Cardinality(s \ {k}) = Cardinality(s) - 1 /\ Cardinality(s) \in Nat
BY FS_Subset, FS_RemoveElement, FS_CardinalityType

LEMMA PartialSumsExist ==
  ASSUME NEW orderLines, NEW S, IsFiniteSet(S), NEW N \in Nat
  PROVE  \E f : PartialSums(orderLines, Upto(S, N), f)
<1> DEFINE T == {n \in Nat : \E f : PartialSums(orderLines, Upto(S, n), f)}
<1>1. 0 \in T
  <2> DEFINE f == [s \in Upto(S, 0) |-> 0]
  <2>1. \A s \in Upto(S, 0) : s = {}
    <3>1. ASSUME NEW s \in SUBSET S, Cardinality(s) <= 0 PROVE s = {}
      <4>1. IsFiniteSet(s) /\ Cardinality(s) \in Nat
        BY FS_Subset, FS_CardinalityType
      <4>2. Cardinality(s) = 0
        BY <3>1, <4>1
      <4> QED
        BY <4>1, <4>2, FS_EmptySet
    <3> QED
      BY <3>1 DEF Upto
  <2>2. \A s \in Upto(S, 0) : f[s] = PartialSum(orderLines, f, s)
    BY <2>1 DEF PartialSum
  <2>3. PartialSums(orderLines, Upto(S, 0), f)
    BY <2>2 DEF PartialSums
  <2> QED
    BY <2>3
<1>2. ASSUME NEW n \in Nat, n \in T PROVE n + 1 \in T
  <2>1. PICK f : f = [s \in Upto(S, n) |-> PartialSum(orderLines, f, s)]
    BY <1>2 DEF PartialSums
  <2> DEFINE g == [s \in Upto(S, n + 1) |-> PartialSum(orderLines, f, s)]
  <2>2. \A s \in Upto(S, n) : s \in Upto(S, n + 1) /\ g[s] = f[s]
    <3>1. \A s \in Upto(S, n) : s \in Upto(S, n + 1)
      BY FS_Subset, FS_CardinalityType DEF Upto
    <3> QED
      BY <2>1, <3>1
  <2>3. ASSUME NEW s \in Upto(S, n + 1) PROVE g[s] = PartialSum(orderLines, g, s)
    <3>1. CASE s = {}
      BY <3>1 DEF PartialSum
    <3>2. CASE s # {}
      <4>1. PICK k \in s : k = CHOOSE x \in s : TRUE
        BY <3>2
      <4>2. s \ {k} \in Upto(S, n)
        BY <3>2, OneLess DEF Upto
      <4>3. g[s \ {k}] = f[s \ {k}]
        BY <2>2, <4>2
      <4> HIDE DEF g
      <4>4. PartialSum(orderLines, g, s) = PartialSum(orderLines, f, s)
        BY <3>2, <4>1, <4>3 DEF PartialSum
      <4> QED
        BY <4>4 DEF g
    <3> QED
      BY <3>1, <3>2
  <2>4. g = [s \in Upto(S, n + 1) |-> PartialSum(orderLines, g, s)]
    BY <2>3
  <2>5. PartialSums(orderLines, Upto(S, n + 1), g)
    BY <2>4 DEF PartialSums
  <2> QED
    BY <2>5
<1> HIDE DEF T
<1>3. N \in T
  BY <1>1, <1>2, NatSet
<1> QED
  BY <1>3 DEF T

LEMMA PartialSumsAreWhole ==
  ASSUME NEW orderLines, NEW S, IsFiniteSet(S), \A k \in S : orderLines[k].amount \in Int,
         NEW f, PartialSums(orderLines, SUBSET S, f)
  PROVE  \A s \in SUBSET S : f[s] \in Int
<1> DEFINE T == {n \in Nat : \A s \in SUBSET S : Cardinality(s) = n => f[s] \in Int}
<1>0. \A s \in SUBSET S : f[s] = PartialSum(orderLines, f, s)
  BY DEF PartialSums
<1>1. 0 \in T
  <2>1. ASSUME NEW s \in SUBSET S, Cardinality(s) = 0 PROVE f[s] \in Int
    <3>1. s = {}
      BY <2>1, FS_Subset, FS_EmptySet
    <3>2. PartialSum(orderLines, f, s) = 0
      BY <3>1 DEF PartialSum
    <3> QED
      BY <1>0, <3>2
  <2> QED
    BY <2>1
<1>2. ASSUME NEW n \in Nat, n \in T PROVE n + 1 \in T
  <2>1. ASSUME NEW s \in SUBSET S, Cardinality(s) = n + 1 PROVE f[s] \in Int
    <3>1. s # {}
      <4>1. Cardinality(s) # 0
        BY <2>1
      <4> QED
        BY <4>1, FS_EmptySet
    <3>2. PICK k \in s : k = CHOOSE x \in s : TRUE
      BY <3>1
    <3>3. s \ {k} \in SUBSET S /\ Cardinality(s \ {k}) = n
      BY <2>1, <3>1, OneLess
    <3>4. f[s] = orderLines[k].amount + f[s \ {k}]
      BY <1>0, <3>1, <3>2 DEF PartialSum
    <3> QED
      BY <1>2, <3>3, <3>4
  <2> QED
    BY <2>1
<1> HIDE DEF T
<1>3. \A s \in SUBSET S : Cardinality(s) \in T
  BY <1>1, <1>2, NatSet, FS_Subset, FS_CardinalityType
<1> QED
  BY <1>3 DEF T

(* The sum of the amounts of a finite set of order lines, those without an *)
(* amount left out, is a whole number.                                     *)
LEMMA SumIsWhole ==
  ASSUME NEW orderLines, NEW S, IsFiniteSet(S),
         \A k \in S : orderLines[k].amount \in Int \cup {NoAmount}
  PROVE  SumAmounts(orderLines, S) \in Int
<1>1. PICK A : A = {k \in S : orderLines[k].amount # NoAmount}
  OBVIOUS
<1>2. A \subseteq S /\ IsFiniteSet(A) /\ \A k \in A : orderLines[k].amount \in Int
  BY <1>1, FS_Subset
<1>3. PICK f : PartialSums(orderLines, SUBSET A, f) /\ SumAmounts(orderLines, S) = f[A]
  <2> DEFINE f == CHOOSE f : PartialSums(orderLines, SUBSET A, f)
  <2>1. SumAmounts(orderLines, S) = f[A]
    BY <1>1 DEF SumAmounts, MapThenSumSet, MapThenFoldSet, PartialSums, PartialSum
  <2>2. Upto(A, Cardinality(A)) = SUBSET A
    BY <1>2, FS_Subset DEF Upto
  <2>3. \E g : PartialSums(orderLines, Upto(A, Cardinality(A)), g)
    <3>1. Cardinality(A) \in Nat
      BY <1>2, FS_CardinalityType
    <3> HIDE DEF f
    <3> QED
      BY <1>2, <3>1, PartialSumsExist
  <2>4. PartialSums(orderLines, SUBSET A, f)
    BY <2>2, <2>3
  <2> QED
    BY <2>1, <2>4
<1> QED
  BY <1>2, <1>3, PartialSumsAreWhole

(* An invoice that repeats its order: its supplier and its order conform,  *)
(* each of its lines means one line of the order and repeats its quantity  *)
(* and price, and so do its totals, with the tax between them.             *)
RepeatsLines(ls, orderLines, perm, factor) ==
  /\ perm \in [DOMAIN ls -> DOMAIN orderLines]
  /\ \A i, j \in DOMAIN ls : perm[i] = perm[j] => i = j
  /\ Range(perm) = DOMAIN orderLines
  /\ \A n \in DOMAIN ls :
       /\ FindsOwn(ls[n], orderLines, perm[n])
       /\ \/ NoAmount \in {ls[n].quantity, orderLines[perm[n]].quantity}
          \/ ls[n].quantity \in Int /\ ls[n].quantity = orderLines[perm[n]].quantity
       /\ Repeats(ls[n].price, factor, orderLines[perm[n]].price)

RepeatsTotals(invoice, order, sum, factor) ==
  /\ factor.num \in Int /\ factor.den \in Int
  /\ invoice.ht \in Int /\ invoice.ttc \in Int /\ invoice.tax = invoice.ttc - invoice.ht
  /\ invoice.ht * factor.num = sum * factor.den
  /\ order.total \in Int /\ invoice.ttc * factor.num = order.total * factor.den

LEMMA RepeatedTotals ==
  ASSUME NEW invoice, NEW order, NEW orderLines, NEW pairs, NEW factor, NEW tol,
         tol.amount \in Nat, tol.tax \in Nat, Range(pairs) = DOMAIN orderLines,
         SumAmounts(orderLines, DOMAIN orderLines) \in Int,
         RepeatsTotals(invoice, order, SumAmounts(orderLines, DOMAIN orderLines), factor)
  PROVE  AmountGaps(invoice, order, orderLines, pairs, factor, tol) = {}
<1>1. PICK sum : sum = SumAmounts(orderLines, DOMAIN orderLines)
  OBVIOUS
<1>2. PICK ht, ttc, tax, total, a, b : /\ ht = invoice.ht /\ ttc = invoice.ttc /\ tax = invoice.tax
                                       /\ total = order.total /\ a = factor.num /\ b = factor.den
  OBVIOUS
<1>3. /\ sum \in Int /\ a \in Int /\ b \in Int /\ ht \in Int /\ ttc \in Int /\ tax = ttc - ht
      /\ total \in Int /\ ht * a = sum * b /\ ttc * a = total * b
  BY <1>1, <1>2 DEF RepeatsTotals
<1>4. (ttc - ht) * a = (total - sum) * b /\ (ttc - ht) * a \in Int
  <2>1. (ttc - ht) * a = ttc * a - ht * a /\ (total - sum) * b = total * b - sum * b
    BY ONLY <1>3
  <2>2. ttc * a \in Int /\ ht * a \in Int
    BY <1>3
  <2> QED
    BY <1>3, <2>1, <2>2
<1>5. ExclTaxConforms(invoice, orderLines, pairs, factor, tol)
  <2>1. ht * a \in Int
    BY <1>3
  <2>2. Repeats(invoice.ht, factor, sum)
    BY <1>2, <1>3, <2>1 DEF Repeats
  <2>3. Conforms(invoice.ht, factor, sum, tol.amount)
    BY <2>2, RepeatedConforms
  <2> QED
    BY <1>1, <2>3 DEF ExclTaxConforms
<1>6. InclTaxConforms(invoice, order, factor, tol)
  <2>1. ttc * a \in Int
    BY <1>3
  <2>2. Repeats(invoice.ttc, factor, order.total)
    BY <1>2, <1>3, <2>1 DEF Repeats
  <2> QED
    BY <2>2, RepeatedConforms DEF InclTaxConforms
<1>7. OrderTaxConforms(invoice, order, orderLines, factor, tol)
  <2>1. Repeats(invoice.tax, factor, order.total - sum)
    BY <1>2, <1>3, <1>4 DEF Repeats
  <2>2. Conforms(invoice.tax, factor, order.total - sum, tol.tax)
    BY <2>1, RepeatedConforms
  <2> QED
    BY <1>1, <2>2 DEF OrderTaxConforms
<1>8. InternalTaxConforms(invoice, tol)
  <2>1. tax \in Int
    BY <1>3
  <2>2. WithinTolerance(tax, tax, tol.tax)
    BY <2>1, SameIsWithin
  <2> QED
    BY <1>2, <1>3, <2>2 DEF InternalTaxConforms
<1> QED
  BY <1>5, <1>6, <1>7, <1>8 DEF AmountGaps, Gap

LEMMA RepeatedLines ==
  ASSUME NEW ls, NEW orderLines, NEW perm, NEW factor, NEW tol,
         tol.quantity \in Nat, tol.price \in Nat, 0 \notin DOMAIN orderLines,
         RepeatsLines(ls, orderLines, perm, factor)
  PROVE  LineGaps(ls, orderLines, perm, factor, tol) = {}
<1>1. SUFFICES ASSUME NEW n \in DOMAIN perm
               PROVE  /\ perm[n] # 0
                      /\ QuantityConforms(ls[n], orderLines[perm[n]], tol)
                      /\ PriceConforms(ls[n], orderLines[perm[n]], factor, tol)
  BY NoLineGap
<1>2. n \in DOMAIN ls /\ perm[n] \in DOMAIN orderLines
  BY DEF RepeatsLines
<1>3. PICK q, e : q = ls[n].quantity /\ e = orderLines[perm[n]].quantity
  OBVIOUS
<1>4. NoAmount \in {q, e} \/ (q \in Int /\ q = e)
  BY <1>2, <1>3 DEF RepeatsLines
<1>5. WithinTolerance(q, e, tol.quantity)
  BY <1>4, SameIsWithin DEF WithinTolerance
<1>6. QuantityConforms(ls[n], orderLines[perm[n]], tol)
  BY <1>3, <1>5 DEF QuantityConforms
<1>7. Repeats(ls[n].price, factor, orderLines[perm[n]].price)
  BY <1>2 DEF RepeatsLines
<1>8. PriceConforms(ls[n], orderLines[perm[n]], factor, tol)
  BY <1>7, RepeatedConforms DEF PriceConforms
<1> QED
  BY <1>2, <1>6, <1>8

(* An invoice that repeats its order, its lines in any order and each of   *)
(* them telling which line it means, in any currency, finds each line its  *)
(* own, no gap but that of a duplicate, and the full score.  About         *)
(* MatchingService.compare, for any tolerances and likeness of texts.      *)
THEOREM RepeatedOrderIsMatched ==
  ASSUME NEW invoice, NEW ls, NEW order, NEW orderLines, NEW others, NEW rates, NEW base, NEW tol,
         NEW perm,
         tol.amount \in Nat, tol.tax \in Nat, tol.quantity \in Nat, tol.price \in Nat,
         Comparable(ls, orderLines), 0 < Len(ls), Len(ls) < 3000, 0 \notin DOMAIN orderLines,
         SupplierConforms(invoice), OrderConforms(invoice, order),
         RepeatsLines(ls, orderLines, perm, FxFactor(invoice, order, rates, base)),
         \A k \in DOMAIN orderLines : orderLines[k].amount \in Int \cup {NoAmount},
         RepeatsTotals(invoice, order, SumAmounts(orderLines, DOMAIN orderLines),
                       FxFactor(invoice, order, rates, base)),
         NEW result, result = Match(invoice, ls, order, orderLines, others, rates, base, tol)
  PROVE  /\ result.pairs = perm
         /\ \A g \in result.gaps : g[1] = "DUPLICATE"
         /\ result.score = FullScore
<1>1. PICK factor : factor = FxFactor(invoice, order, rates, base)
  OBVIOUS
<1>2. MatchLines(ls, orderLines) = perm
  BY LinesFindTheirOwn DEF RepeatsLines
<1>3. order # NoOrder
  BY DEF OrderConforms
<1>4. LineGaps(ls, orderLines, perm, factor, tol) = {}
  BY <1>1, RepeatedLines
<1>5. Range(perm) = DOMAIN orderLines
  BY DEF RepeatsLines
<1>6. AmountGaps(invoice, order, orderLines, perm, factor, tol) = {}
  <2>1. IsFiniteSet(DOMAIN ls)
    BY FS_Interval DEF Comparable
  <2>2. perm \in Surjection(DOMAIN ls, DOMAIN orderLines)
    BY <1>5 DEF RepeatsLines, Surjection, Range
  <2>3. IsFiniteSet(DOMAIN orderLines)
    BY <2>1, <2>2, FS_Surjection
  <2>4. SumAmounts(orderLines, DOMAIN orderLines) \in Int
    BY <2>3, SumIsWhole
  <2> QED
    BY <1>1, <1>5, <2>4, RepeatedTotals
<1>7. /\ result.pairs = perm
      /\ result.gaps = UNION {Gap(~IsDuplicate(invoice, others), "DUPLICATE", "invoice", 0),
                              Gap(SupplierConforms(invoice), "SUPPLIER", "invoice", 0),
                              Gap(OrderConforms(invoice, order), "PURCHASE_ORDER", "invoice", 0),
                              LineGaps(ls, orderLines, perm, factor, tol),
                              AmountGaps(invoice, order, orderLines, perm, factor, tol)}
  BY <1>1, <1>2, <1>3 DEF Match
<1>8. \A g \in result.gaps : g[1] = "DUPLICATE"
  <2>1. \A g \in Gap(~IsDuplicate(invoice, others), "DUPLICATE", "invoice", 0) : g[1] = "DUPLICATE"
    BY DEF Gap
  <2>2. /\ Gap(SupplierConforms(invoice), "SUPPLIER", "invoice", 0) = {}
        /\ Gap(OrderConforms(invoice, order), "PURCHASE_ORDER", "invoice", 0) = {}
    BY DEF Gap
  <2>3. PICK u : u = Gap(~IsDuplicate(invoice, others), "DUPLICATE", "invoice", 0)
    OBVIOUS
  <2>4. result.gaps = u
    BY ONLY <1>4, <1>6, <1>7, <2>2, <2>3
  <2> QED
    BY ONLY <2>1, <2>3, <2>4
<1>9. result.score = FullScore
  BY <1>8, FullScoreTellsGaps
<1> QED
  BY ONLY <1>7, <1>8, <1>9
=============================================================================
