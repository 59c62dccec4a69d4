--------------------------- MODULE InductionLemmas ----------------------------
(***************************************************************************)
(* Induction over the natural numbers, over sets of numbers and over       *)
(* sequences, stated without an operator parameter: the predicate of an    *)
(* induction is the set of the numbers it holds of.  With it, what the     *)
(* folds and the recursive functions of the models compute can be proved   *)
(* for every input.                                                        *)
(***************************************************************************)
EXTENDS Integers, Sequences, SequencesExt, SequenceTheorems, WellFoundedInduction, TLAPS
-----------------------------------------------------------------------------
(* Induction, with a set in the place of the predicate                     *)

\* A set of natural numbers that is not empty has a least element.
LEMMA LeastNumber ==
    ASSUME NEW T \in SUBSET Nat, T # {}
    PROVE  \E n \in T : \A m \in T : n <= m
<1> DEFINE R == {ss \in Nat \X Nat : ss[1] < ss[2]}
<1>1. IsWellFoundedOn(R, Nat)
  BY NatLessThanWellFounded DEF OpToRel
<1>2. PICK n \in T : \A m \in T : ~(<<m, n>> \in R)
  BY <1>1, WFMin
<1>3. ASSUME NEW m \in T PROVE n <= m
  <2>1. <<m, n>> \in Nat \X Nat /\ <<m, n>>[1] = m /\ <<m, n>>[2] = n
    OBVIOUS
  <2>2. ~(m < n)
    BY <1>2, <2>1
  <2> QED BY <2>2
<1> QED BY <1>3

\* A set that has 0, and the successor of each number it has, has them all.
LEMMA NatSetInduction ==
    ASSUME NEW S, 0 \in S, \A n \in Nat : n \in S => n + 1 \in S
    PROVE  Nat \subseteq S
<1> SUFFICES ASSUME Nat \ S # {} PROVE FALSE
  OBVIOUS
<1>1. PICK n \in Nat \ S : \A m \in Nat \ S : n <= m
  <2>1. Nat \ S \in SUBSET Nat
    OBVIOUS
  <2> QED BY <2>1, LeastNumber
<1>2. n # 0 /\ n - 1 \in Nat /\ (n - 1) + 1 = n /\ ~(n <= n - 1)
  BY <1>1
<1>3. n - 1 \in S
  BY <1>1, <1>2
<1> QED BY <1>1, <1>2, <1>3

\* Numbers up to a bound have a greatest one, which is what Max chooses,
LEMMA GreatestNumber ==
    ASSUME NEW bound \in Nat, NEW T \in SUBSET (0 .. bound), T # {}
    PROVE  Max(T) \in T /\ \A m \in T : m <= Max(T)
<1> DEFINE D == {bound - m : m \in T}
<1>1. PICK least \in D : \A n \in D : least <= n
  <2>1. \A m \in T : bound - m \in Nat
    OBVIOUS
  <2>2. D \in SUBSET Nat /\ D # {}
    BY <2>1
  <2> QED BY <2>2, LeastNumber
<1>2. PICK x \in T : least = bound - x
  OBVIOUS
<1>3. ASSUME NEW m \in T PROVE x >= m
  <2>1. bound - m \in D
    OBVIOUS
  <2>2. bound - x <= bound - m
    BY <1>1, <1>2, <2>1
  <2> QED BY <2>2
<1>4. \A y \in T : x >= y
  BY <1>3
<1>5. Max(T) \in T /\ \A y \in T : Max(T) >= y
  BY <1>4 DEF Max
<1> QED BY <1>5

\* and numbers have a least one, which is what Min chooses.
LEMMA SmallestNumber ==
    ASSUME NEW T \in SUBSET Nat, T # {}
    PROVE  Min(T) \in T /\ \A m \in T : Min(T) <= m
<1>1. PICK x \in T : \A m \in T : x <= m
  BY LeastNumber
<1> QED BY <1>1 DEF Min

-----------------------------------------------------------------------------
(* A sequence of sequences, flattened                                      *)

\* The recursive function of FlattenSeq exists, for every number of parts.
LEMMA FlattenExists ==
    ASSUME NEW r, NEW n \in Nat
    PROVE  \E f : f = [i \in 1 .. n |-> IF i = 1 THEN r[i] ELSE f[i - 1] \o r[i]]
<1> DEFINE Makes(f, k) == f = [i \in 1 .. k |-> IF i = 1 THEN r[i] ELSE f[i - 1] \o r[i]]
           S == {k \in Nat : \E f : Makes(f, k)}
<1>1. 0 \in S
  <2> DEFINE f == [i \in 1 .. 0 |-> 0]
  <2>1. f = [i \in 1 .. 0 |-> IF i = 1 THEN r[i] ELSE f[i - 1] \o r[i]]
    OBVIOUS
  <2>2. Makes(f, 0)
    BY <2>1
  <2> QED BY <2>2
<1>2. ASSUME NEW k \in Nat, k \in S PROVE k + 1 \in S
  <2>0. PICK f : Makes(f, k)
    BY <1>2
  <2>1. \A i \in 1 .. k : f[i] = IF i = 1 THEN r[i] ELSE f[i - 1] \o r[i]
    <3>1. f = [i \in 1 .. k |-> IF i = 1 THEN r[i] ELSE f[i - 1] \o r[i]]
      BY <2>0
    <3> QED BY <3>1
  <2> DEFINE g == [i \in 1 .. k + 1 |-> IF i <= k THEN f[i]
                                       ELSE IF i = 1 THEN r[i] ELSE f[k] \o r[i]]
  <2>2. ASSUME NEW i \in 1 .. k + 1
        PROVE  g[i] = IF i = 1 THEN r[i] ELSE g[i - 1] \o r[i]
    <3>1. CASE i <= k
      <4>1. i \in 1 .. k /\ f[i] = IF i = 1 THEN r[i] ELSE f[i - 1] \o r[i]
        BY <2>1, <3>1
      <4>2. i # 1 => g[i - 1] = f[i - 1]
        BY <4>1
      <4> QED BY <4>1, <4>2
    <3>2. CASE ~(i <= k)
      <4>1. i = k + 1
        BY <3>2
      <4>2. i # 1 => i - 1 = k /\ g[i - 1] = f[k]
        BY <4>1
      <4> QED BY <3>2, <4>2
    <3> QED BY <3>1, <3>2
  <2>3. g = [i \in 1 .. k + 1 |-> IF i = 1 THEN r[i] ELSE g[i - 1] \o r[i]]
    BY <2>2
  <2>4. Makes(g, k + 1)
    BY <2>3
  <2> HIDE DEF g, Makes
  <2>5. \E h : Makes(h, k + 1)
    BY <2>4
  <2> QED BY <2>5
<1>3. n \in S
  <2> HIDE DEF S
  <2> QED BY <1>1, <1>2, NatSetInduction
<1> QED BY <1>3

\* What a sequence of parts adds up to, step by step, is its flattened form.
LEMMA FlattenIs ==
    ASSUME NEW X, NEW r \in Seq(Seq(X)), NEW sum \in [0 .. Len(r) -> Seq(X)],
           sum[0] = <<>>, \A i \in 1 .. Len(r) : sum[i] = sum[i - 1] \o r[i]
    PROVE  FlattenSeq(r) = sum[Len(r)]
<1> DEFINE f == CHOOSE f : f = [i \in 1 .. Len(r) |->
                                  IF i = 1 THEN r[i] ELSE f[i - 1] \o r[i]]
<1>1. Len(r) \in Nat /\ DOMAIN r = 1 .. Len(r)
  OBVIOUS
<1>2. f = [i \in 1 .. Len(r) |-> IF i = 1 THEN r[i] ELSE f[i - 1] \o r[i]]
  BY <1>1, FlattenExists
<1> HIDE DEF f
<1> DEFINE S == {k \in Nat : k \in 1 .. Len(r) => f[k] = sum[k]}
<1>3. 0 \in S
  OBVIOUS
<1>4. ASSUME NEW k \in Nat, k \in S PROVE k + 1 \in S
  <2>1. ASSUME k + 1 \in 1 .. Len(r) PROVE f[k + 1] = sum[k + 1]
    <3>0. (k + 1) - 1 = k /\ r[k + 1] \in Seq(X)
      BY <1>1, <2>1
    <3>1. f[k + 1] = IF k + 1 = 1 THEN r[k + 1] ELSE f[k] \o r[k + 1]
      BY <1>2, <2>1, <3>0
    <3>2. sum[k + 1] = sum[k] \o r[k + 1]
      <4>1. \A i \in 1 .. Len(r) : sum[i] = sum[i - 1] \o r[i]
        OBVIOUS
      <4>2. sum[k + 1] = sum[(k + 1) - 1] \o r[k + 1]
        BY <2>1, <4>1
      <4> QED BY <3>0, <4>2
    <3>3. CASE k = 0
      <4>1. sum[k + 1] = <<>> \o r[k + 1]
        BY <3>2, <3>3
      <4>2. sum[k + 1] = r[k + 1]
        BY <3>0, <4>1
      <4> QED BY <3>1, <3>3, <4>2
    <3>4. CASE k # 0
      <4>1. k \in 1 .. Len(r) /\ f[k] = sum[k]
        BY <1>4, <2>1, <3>4
      <4>2. k + 1 # 1
        BY <3>4
      <4>3. f[k + 1] = f[k] \o r[k + 1]
        BY <3>1, <4>2
      <4> QED BY <3>2, <4>1, <4>3
    <3> QED BY <3>3, <3>4
  <2> QED BY <2>1
<1>5. Nat \subseteq S
  <2> HIDE DEF S
  <2> QED BY <1>3, <1>4, NatSetInduction
<1>6. CASE Len(r) = 0
  <2>1. r = <<>> /\ FlattenSeq(r) = r
    BY <1>6 DEF FlattenSeq
  <2> QED BY <1>6, <2>1
<1>7. CASE Len(r) # 0
  <2>1. FlattenSeq(r) = f[Len(r)]
    BY <1>7 DEF FlattenSeq, f
  <2>2. Len(r) \in 1 .. Len(r) /\ Len(r) \in Nat
    BY <1>1, <1>7
  <2>3. f[Len(r)] = sum[Len(r)]
    BY <1>5, <2>2
  <2> QED BY <2>1, <2>3
<1> QED BY <1>6, <1>7

\* What a concatenation is made of, and a sequence cut in two.
LEMMA ConcatParts ==
    ASSUME NEW X, NEW s \in Seq(X), NEW t \in Seq(X)
    PROVE  /\ s \o t \in Seq(X) /\ Len(s \o t) = Len(s) + Len(t)
           /\ DOMAIN (s \o t) = 1 .. Len(s) + Len(t)
           /\ \A i \in 1 .. Len(s) : (s \o t)[i] = s[i]
           /\ \A i \in 1 .. Len(t) : (s \o t)[Len(s) + i] = t[i]
OBVIOUS

LEMMA CutInTwo ==
    ASSUME NEW X, NEW s \in Seq(X), NEW k \in 0 .. Len(s)
    PROVE  SubSeq(s, 1, k) \o SubSeq(s, k + 1, Len(s)) = s
<1>1. Len(s) \in Nat /\ 1 \in 1 .. Len(s) + 1 /\ k \in 1 - 1 .. Len(s) /\ Len(s) \in k .. Len(s)
  OBVIOUS
<1>2. SubSeq(s, 1, k) \o SubSeq(s, k + 1, Len(s)) = SubSeq(s, 1, Len(s))
  BY <1>1, ConcatAdjacentSubSeq
<1>3. SubSeq(s, 1, Len(s)) = s
  BY SubSeqFull
<1> QED BY <1>2, <1>3

\* The sums of the parts exist.
LEMMA FlattenSums ==
    ASSUME NEW X, NEW r \in Seq(Seq(X))
    PROVE  \E sum \in [0 .. Len(r) -> Seq(X)] :
              sum[0] = <<>> /\ \A i \in 1 .. Len(r) : sum[i] = sum[i - 1] \o r[i]
<1> DEFINE Sums(sum, k) == /\ sum \in [0 .. k -> Seq(X)] /\ sum[0] = <<>>
                           /\ \A i \in 1 .. k : sum[i] = sum[i - 1] \o r[i]
           S == {k \in Nat : k <= Len(r) => \E sum : Sums(sum, k)}
<1> HIDE DEF Sums
<1>1. 0 \in S
  <2> DEFINE sum == [i \in 0 .. 0 |-> <<>>]
  <2>1. sum \in [0 .. 0 -> Seq(X)] /\ sum[0] = <<>>
    OBVIOUS
  <2>2. Sums(sum, 0)
    BY <2>1 DEF Sums
  <2> QED BY <2>2
<1>2. ASSUME NEW k \in Nat, k \in S, k + 1 <= Len(r) PROVE \E sum : Sums(sum, k + 1)
  <2>0. k <= Len(r)
    BY <1>2
  <2>1. PICK sum : Sums(sum, k)
    BY <1>2, <2>0
  <2>2. sum \in [0 .. k -> Seq(X)] /\ sum[0] = <<>> /\ \A i \in 1 .. k : sum[i] = sum[i - 1] \o r[i]
    BY <2>1 DEF Sums
  <2> DEFINE more == [i \in 0 .. k + 1 |-> IF i <= k THEN sum[i] ELSE sum[k] \o r[k + 1]]
  <2>3. r[k + 1] \in Seq(X) /\ sum[k] \in Seq(X)
    BY <1>2, <2>2
  <2>4. more \in [0 .. k + 1 -> Seq(X)]
    BY <2>2, <2>3
  <2>5. more[0] = <<>>
    BY <2>2
  <2>6. ASSUME NEW i \in 1 .. k + 1 PROVE more[i] = more[i - 1] \o r[i]
    <3>1. CASE i <= k
      <4>1. more[i] = sum[i] /\ more[i - 1] = sum[i - 1] /\ i \in 1 .. k
        BY <3>1
      <4> QED BY <2>2, <4>1
    <3>2. CASE ~(i <= k)
      <4>1. i = k + 1 /\ i - 1 = k /\ i \in 0 .. k + 1 /\ k \in 0 .. k + 1 /\ k <= k
        BY <3>2
      <4>2. more[i] = sum[k] \o r[k + 1]
        BY <3>2, <4>1
      <4>3. more[i - 1] = sum[k]
        BY <4>1
      <4> QED BY <4>1, <4>2, <4>3
    <3> QED BY <3>1, <3>2
  <2> HIDE DEF more
  <2>7. Sums(more, k + 1)
    BY <2>4, <2>5, <2>6 DEF Sums
  <2> QED BY <2>7
<1>3. Len(r) \in S
  <2>1. ASSUME NEW k \in Nat, k \in S PROVE k + 1 \in S
    <3>1. CASE k + 1 <= Len(r)
      BY <1>2, <2>1, <3>1
    <3>2. CASE ~(k + 1 <= Len(r))
      BY <3>2
    <3> QED BY <3>1, <3>2
  <2>2. Len(r) \in Nat
    OBVIOUS
  <2> HIDE DEF S
  <2> QED BY <1>1, <2>1, <2>2, NatSetInduction
<1>4. PICK sum : Sums(sum, Len(r))
  <2>1. Len(r) <= Len(r)
    OBVIOUS
  <2> QED BY <1>3, <2>1
<1> QED BY <1>4 DEF Sums

LEMMA FlattenType ==
    ASSUME NEW X, NEW r \in Seq(Seq(X))
    PROVE  FlattenSeq(r) \in Seq(X)
<1>1. PICK sum \in [0 .. Len(r) -> Seq(X)] :
         sum[0] = <<>> /\ \A i \in 1 .. Len(r) : sum[i] = sum[i - 1] \o r[i]
  BY FlattenSums
<1>2. FlattenSeq(r) = sum[Len(r)]
  BY <1>1, FlattenIs
<1> QED BY <1>2

\* Flattening goes through concatenation.
LEMMA FlattenConcat ==
    ASSUME NEW X, NEW r \in Seq(Seq(X)), NEW q \in Seq(Seq(X))
    PROVE  FlattenSeq(r \o q) = FlattenSeq(r) \o FlattenSeq(q)
<1>0. \A a, b, c \in Seq(X) : a \o (b \o c) = (a \o b) \o c
  <2> TAKE a, b, c \in Seq(X)
  <2> DEFINE left == a \o (b \o c)
             right == (a \o b) \o c
  <2>1. /\ left \in Seq(X) /\ right \in Seq(X)
        /\ Len(left) = Len(a) + Len(b) + Len(c) /\ Len(right) = Len(a) + Len(b) + Len(c)
    OBVIOUS
  <2>2. \A i \in 1 .. Len(a) + Len(b) + Len(c) : left[i] = right[i]
    OBVIOUS
  <2> HIDE DEF left, right
  <2>3. left = right
    BY <2>1, <2>2
  <2> QED BY <2>3 DEF left, right
<1> DEFINE n == Len(r)
           m == Len(q)
           all == r \o q
<1>1. PICK sr \in [0 .. n -> Seq(X)] :
         sr[0] = <<>> /\ \A i \in 1 .. n : sr[i] = sr[i - 1] \o r[i]
  BY FlattenSums
<1>2. PICK sq \in [0 .. m -> Seq(X)] :
         sq[0] = <<>> /\ \A i \in 1 .. m : sq[i] = sq[i - 1] \o q[i]
  BY FlattenSums
<1>3. /\ all \in Seq(Seq(X)) /\ Len(all) = n + m /\ n \in Nat /\ m \in Nat
      /\ \A i \in 1 .. n : all[i] = r[i] /\ r[i] \in Seq(X)
      /\ \A i \in 1 .. m : all[n + i] = q[i] /\ q[i] \in Seq(X)
  OBVIOUS
<1>4. FlattenSeq(r) = sr[n] /\ FlattenSeq(q) = sq[m]
  BY <1>1, <1>2, FlattenIs
<1> HIDE DEF n, m, all
<1>5. (\A i \in 0 .. n : sr[i] \in Seq(X)) /\ (\A i \in 0 .. m : sq[i] \in Seq(X))
  OBVIOUS
<1>6. sr[n] \in Seq(X)
  BY <1>3, <1>5
<1>7. sr[n] \o <<>> = sr[n]
  BY <1>6
\* The sums of r, and from there on those of q.
<1> DEFINE sum == [i \in 0 .. n + m |-> IF i <= n THEN sr[i] ELSE sr[n] \o sq[i - n]]
<1>8. \A i \in 0 .. n : sum[i] = sr[i]
  BY <1>3
<1>9. ASSUME NEW j \in 0 .. m PROVE sum[n + j] = sr[n] \o sq[j]
  <2>1. CASE j = 0
    <3>1. sum[n + j] = sr[n]
      BY <1>3, <1>8, <2>1
    <3> QED BY <1>2, <1>7, <2>1, <3>1
  <2>2. CASE j # 0
    <3>1. ~(n + j <= n) /\ (n + j) - n = j /\ n + j \in 0 .. n + m
      BY <1>3, <2>2
    <3> QED BY <3>1
  <2> QED BY <2>1, <2>2
<1>10. sum \in [0 .. n + m -> Seq(X)]
  <2>1. ASSUME NEW i \in 0 .. n + m PROVE sum[i] \in Seq(X)
    <3>1. CASE i <= n
      <4>1. i \in 0 .. n
        BY <1>3, <3>1
      <4> QED BY <1>5, <1>8, <4>1
    <3>2. CASE ~(i <= n)
      <4>1. i - n \in 0 .. m /\ n + (i - n) = i
        BY <1>3, <3>2
      <4>2. sum[i] = sr[n] \o sq[i - n]
        BY <1>9, <4>1
      <4>3. sq[i - n] \in Seq(X)
        BY <1>5, <4>1
      <4> HIDE DEF sum
      <4> QED BY <1>6, <4>2, <4>3
    <3> QED BY <3>1, <3>2
  <2> QED BY <2>1
<1> HIDE DEF sum
<1>11. sum[0] = <<>>
  <2>1. 0 \in 0 .. n
    BY <1>3
  <2> QED BY <1>1, <1>8, <2>1
<1>12. ASSUME NEW i \in 1 .. n + m PROVE sum[i] = sum[i - 1] \o all[i]
  <2>1. CASE i <= n
    <3>1. i \in 1 .. n /\ i \in 0 .. n /\ i - 1 \in 0 .. n
      BY <1>3, <2>1
    <3> QED BY <1>1, <1>3, <1>8, <3>1
  <2>2. CASE ~(i <= n)
    <3> DEFINE j == i - n
    <3>1. j \in 1 .. m /\ j \in 0 .. m /\ j - 1 \in 0 .. m /\ i = n + j /\ i - 1 = n + (j - 1)
      BY <1>3, <2>2
    <3> HIDE DEF j
    <3>2. sum[i] = sr[n] \o sq[j] /\ sum[i - 1] = sr[n] \o sq[j - 1] /\ all[i] = q[j]
      BY <1>3, <1>9, <3>1
    <3>3. sq[j] = sq[j - 1] \o q[j] /\ sq[j - 1] \in Seq(X) /\ q[j] \in Seq(X)
      BY <1>2, <1>3, <1>5, <3>1
    <3>4. sr[n] \o (sq[j - 1] \o q[j]) = (sr[n] \o sq[j - 1]) \o q[j]
      BY <1>0, <1>6, <3>3
    <3> QED BY <3>2, <3>3, <3>4
  <2> QED BY <2>1, <2>2
<1>13. FlattenSeq(all) = sum[Len(all)]
  <2>1. sum \in [0 .. Len(all) -> Seq(X)]
    BY <1>3, <1>10
  <2>2. \A i \in 1 .. Len(all) : sum[i] = sum[i - 1] \o all[i]
    BY <1>3, <1>12
  <2> QED BY <1>3, <1>11, <2>1, <2>2, FlattenIs, Zenon
<1>14. sum[Len(all)] = sr[n] \o sq[m]
  BY <1>3, <1>9
<1> QED BY <1>4, <1>13, <1>14 DEF all

LEMMA FlattenEmpty == FlattenSeq(<<>>) = <<>>
BY DEF FlattenSeq

LEMMA FlattenOne ==
    ASSUME NEW X, NEW s \in Seq(X)
    PROVE  FlattenSeq(<<s>>) = s
<1> DEFINE sum == [i \in 0 .. 1 |-> IF i = 0 THEN <<>> ELSE s]
<1>1. <<s>> \in Seq(Seq(X)) /\ Len(<<s>>) = 1 /\ <<s>>[1] = s
  OBVIOUS
<1>2. sum \in [0 .. 1 -> Seq(X)] /\ sum[0] = <<>> /\ sum[1] = s
  OBVIOUS
<1> HIDE DEF sum
<1>3. <<>> \o s = s
  OBVIOUS
<1>4. \A i \in 1 .. 1 : sum[i] = sum[i - 1] \o <<s>>[i]
  BY <1>1, <1>2, <1>3
<1> QED BY <1>1, <1>2, <1>4, FlattenIs

\* A sequence is its elements, one by one.
LEMMA FlattenUnits ==
    ASSUME NEW X, NEW s \in Seq(X)
    PROVE  FlattenSeq([i \in DOMAIN s |-> <<s[i]>>]) = s
<1> DEFINE r == [i \in DOMAIN s |-> <<s[i]>>]
           sum == [i \in 0 .. Len(s) |-> SubSeq(s, 1, i)]
<1>1. DOMAIN s = 1 .. Len(s) /\ Len(s) \in Nat /\ \A i \in 1 .. Len(s) : s[i] \in X
  OBVIOUS
<1>2. r \in Seq(Seq(X)) /\ Len(r) = Len(s)
  BY <1>1
<1>3. sum \in [0 .. Len(s) -> Seq(X)] /\ sum[0] = <<>>
  BY <1>1
<1>4. ASSUME NEW i \in 1 .. Len(s) PROVE sum[i] = sum[i - 1] \o r[i]
  <2>1. r[i] = <<s[i]>> /\ sum[i] = SubSeq(s, 1, i) /\ sum[i - 1] = SubSeq(s, 1, i - 1)
    BY <1>1
  <2>2. SubSeq(s, 1, i) = SubSeq(s, 1, i - 1) \o <<s[i]>>
    BY <1>1
  <2> QED BY <2>1, <2>2
<1>5. sum[Len(s)] = s
  BY <1>1
<1> HIDE DEF r, sum
<1>6. FlattenSeq(r) = sum[Len(r)]
  BY <1>2, <1>3, <1>4, FlattenIs
<1> QED BY <1>2, <1>5, <1>6 DEF r
====
