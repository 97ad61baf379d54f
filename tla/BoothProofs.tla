---------------------------- MODULE BoothProofs ----------------------------
(***************************************************************************)
(* TLAPS proofs about BoothMul, for all operands: the multiplier of        *)
(* Mul.scala multiplies.                                                   *)
(*                                                                         *)
(* A carry is worth two in its own column, so that the argument goes from  *)
(* column to column and needs no powers of two.  The tree keeps the sum of *)
(* what goes in (TreeAdds).  A digit b2 b1 b0 of the multiplier is worth   *)
(* b1 + b0 - 2 b2, though its summand puts bits of the multiplicand in the *)
(* columns as if it were worth something else: what is missing in a column *)
(* is there in the next ones.  Debt is how much of it is still to come,    *)
(* and BoothInvariant balances it with the carries of the tree, those of   *)
(* the multiplication by hand and the ones that negative summands need.    *)
(***************************************************************************)
EXTENDS BoothMul, FiniteSetTheorems, SequenceTheorems, WellFoundedInduction, TLAPS

\* What is not true of all numbers has a least one of which it is not.
LEMMA LeastNumber ==
  ASSUME NEW T, T \subseteq Nat, T # {}
  PROVE  \E x \in T : \A y \in T : ~(y < x)
<1>1. \E x \in T : \A y \in T : ~(<<y, x>> \in OpToRel(<, Nat))
  BY NatLessThanWellFounded, WFMin
<1>. QED
  BY <1>1 DEF OpToRel

\* Induction up to n, with the set of the numbers for which something holds.
LEMMA UpTo ==
  ASSUME NEW n \in Nat, NEW P, 0 \in P, \A k \in 0 .. n - 1 : k \in P => k + 1 \in P
  PROVE  \A k \in 0 .. n : k \in P
<1>. DEFINE T == {k \in 0 .. n : k \notin P}
<1>. SUFFICES ASSUME T # {} PROVE FALSE
  OBVIOUS
<1>1. PICK k \in T : \A j \in T : ~(j < k)
  <2>1. T \subseteq Nat
    OBVIOUS
  <2>. HIDE DEF T
  <2>. QED
    BY <2>1, LeastNumber
<1>2. k \in 1 .. n /\ k \notin P
  BY <1>1
<1>3. k - 1 \in 0 .. n /\ k - 1 < k /\ k - 1 \in 0 .. n - 1 /\ (k - 1) + 1 = k
  BY <1>2
<1>4. k - 1 \in P
  BY <1>1, <1>3
<1>. HIDE DEF T
<1>. QED
  BY <1>2, <1>3, <1>4
-----------------------------------------------------------------------------
(***************************************************************************)
(* Sums.                                                                   *)
(***************************************************************************)

Sums(s, f, n) == s = [k \in 0 .. n |-> IF k = 0 THEN 0 ELSE s[k - 1] + f[k]]

\* f[1] + ... + f[n].
SumTo(f, n) == (CHOOSE s : Sums(s, f, n))[n]

LEMMA SumsExist ==
  ASSUME NEW f, NEW n \in Nat
  PROVE  \E s : Sums(s, f, n)
<1>. DEFINE P == {k \in Nat : \E s : Sums(s, f, k)}
<1>1. 0 \in P
  <2>1. Sums([k \in 0 .. 0 |-> 0], f, 0)
    BY DEF Sums
  <2>. QED
    BY <2>1
<1>2. ASSUME NEW k \in 0 .. n - 1, k \in P PROVE k + 1 \in P
  <2>1. PICK s : Sums(s, f, k)
    BY <1>2
  <2>. DEFINE t == [j \in 0 .. k + 1 |-> IF j = k + 1 THEN s[k] + f[k + 1] ELSE s[j]]
  <2>2. \A j \in 0 .. k : s[j] = IF j = 0 THEN 0 ELSE s[j - 1] + f[j]
    BY <2>1 DEF Sums
  <2>3. ASSUME NEW j \in 0 .. k + 1 PROVE t[j] = IF j = 0 THEN 0 ELSE t[j - 1] + f[j]
    <3>1. CASE j = k + 1
      <4>1. t[j] = s[k] + f[j] /\ j # 0
        BY <3>1
      <4>2. t[j - 1] = s[k]
        BY <3>1
      <4>. QED
        BY <4>1, <4>2
    <3>2. CASE j = 0
      BY <2>2, <3>2
    <3>3. CASE j \in 1 .. k
      <4>1. j \in 0 .. k /\ j - 1 \in 0 .. k /\ j - 1 # k + 1 /\ j # k + 1 /\ j # 0
        BY <3>3
      <4>2. t[j] = s[j] /\ t[j - 1] = s[j - 1]
        BY <4>1
      <4>. HIDE DEF t
      <4>. QED
        BY <2>2, <4>1, <4>2
    <3>. QED
      BY <3>1, <3>2, <3>3
  <2>4. t = [j \in 0 .. k + 1 |-> t[j]]
    OBVIOUS
  <2>5. Sums(t, f, k + 1)
    <3>. HIDE DEF t
    <3>. QED
      BY <2>3, <2>4 DEF Sums
  <2>. HIDE DEF t
  <2>6. k + 1 \in Nat
    OBVIOUS
  <2>. QED
    BY <2>5, <2>6
<1>. HIDE DEF P
<1>3. n \in P
  BY <1>1, <1>2, UpTo
<1>. QED
  BY <1>3 DEF P

LEMMA SumsAt ==
  ASSUME NEW f, NEW n \in Nat, NEW m \in Nat, m <= n, NEW s, Sums(s, f, n)
  PROVE  s[m] = SumTo(f, m)
<1>. DEFINE t == CHOOSE t : Sums(t, f, m)
            P == {k \in 0 .. m : s[k] = t[k]}
<1>1. Sums(t, f, m)
  BY SumsExist
<1>. HIDE DEF t
<1>2. 0 \in P
  BY <1>1 DEF Sums
<1>3. ASSUME NEW k \in 0 .. m - 1, k \in P PROVE k + 1 \in P
  <2>1. k + 1 \in 0 .. n /\ k + 1 \in 0 .. m /\ k + 1 # 0 /\ (k + 1) - 1 = k
    OBVIOUS
  <2>2. s[k + 1] = s[k] + f[k + 1] /\ t[k + 1] = t[k] + f[k + 1]
    BY <1>1, <2>1 DEF Sums
  <2>. QED
    BY <1>3, <2>1, <2>2
<1>. HIDE DEF P
<1>4. m \in P
  BY <1>2, <1>3, UpTo
<1>. QED
  BY <1>4 DEF P, t, SumTo

LEMMA SumZero == \A f : SumTo(f, 0) = 0
<1>. SUFFICES ASSUME NEW f PROVE SumTo(f, 0) = 0
  OBVIOUS
<1>1. PICK s : Sums(s, f, 0)
  BY SumsExist
<1>2. s[0] = SumTo(f, 0)
  BY <1>1, SumsAt
<1>3. s[0] = 0
  BY <1>1 DEF Sums
<1>. QED
  BY <1>2, <1>3

LEMMA SumStep ==
  ASSUME NEW f, NEW n \in Nat
  PROVE  SumTo(f, n + 1) = SumTo(f, n) + f[n + 1]
<1>1. PICK s : Sums(s, f, n + 1)
  BY SumsExist
<1>2. s[n + 1] = SumTo(f, n + 1) /\ s[n] = SumTo(f, n)
  BY <1>1, SumsAt
<1>3. s[n + 1] = s[n] + f[n + 1]
  <2>1. n + 1 \in 0 .. n + 1 /\ n + 1 # 0 /\ (n + 1) - 1 = n
    OBVIOUS
  <2>. QED
    BY <1>1, <2>1 DEF Sums
<1>. QED
  BY <1>2, <1>3

LEMMA SumType ==
  ASSUME NEW f, NEW n \in Nat, \A k \in 1 .. n : f[k] \in Int
  PROVE  \A m \in 0 .. n : SumTo(f, m) \in Int
<1>. DEFINE P == {k \in 0 .. n : SumTo(f, k) \in Int}
<1>1. 0 \in P
  BY SumZero
<1>2. ASSUME NEW k \in 0 .. n - 1, k \in P PROVE k + 1 \in P
  BY <1>2, SumStep
<1>. HIDE DEF P
<1>3. \A m \in 0 .. n : m \in P
  BY <1>1, <1>2, UpTo
<1>. QED
  BY <1>3 DEF P

LEMMA SumSame ==
  ASSUME NEW f, NEW g, NEW n \in Nat, \A k \in 1 .. n : f[k] = g[k]
  PROVE  SumTo(f, n) = SumTo(g, n)
<1>. DEFINE P == {k \in 0 .. n : SumTo(f, k) = SumTo(g, k)}
<1>1. 0 \in P
  BY SumZero
<1>2. ASSUME NEW k \in 0 .. n - 1, k \in P PROVE k + 1 \in P
  <2>1. SumTo(f, k + 1) = SumTo(f, k) + f[k + 1] /\ SumTo(g, k + 1) = SumTo(g, k) + g[k + 1]
    BY SumStep
  <2>. QED
    BY <1>2, <2>1
<1>. HIDE DEF P
<1>3. n \in P
  BY <1>1, <1>2, UpTo
<1>. QED
  BY <1>3 DEF P

LEMMA SumNothing ==
  ASSUME NEW f, NEW n \in Nat, \A k \in 1 .. n : f[k] = 0
  PROVE  SumTo(f, n) = 0
<1>. DEFINE P == {k \in 0 .. n : SumTo(f, k) = 0}
<1>1. 0 \in P
  BY SumZero
<1>2. ASSUME NEW k \in 0 .. n - 1, k \in P PROVE k + 1 \in P
  BY <1>2, SumStep
<1>. HIDE DEF P
<1>3. n \in P
  BY <1>1, <1>2, UpTo
<1>. QED
  BY <1>3 DEF P

\* f behind its first m.
LEMMA SumSplit ==
  ASSUME NEW f, NEW g, NEW m \in Nat, NEW n \in Nat,
         \A k \in 1 .. m + n : f[k] \in Int,
         \A k \in 1 .. n : g[k] = f[m + k]
  PROVE  SumTo(f, m + n) = SumTo(f, m) + SumTo(g, n)
<1>. DEFINE P == {k \in 0 .. n : SumTo(f, m + k) = SumTo(f, m) + SumTo(g, k)}
<1>0. SumTo(f, m) \in Int /\ \A k \in 0 .. n : SumTo(g, k) \in Int
  <2>1. \A k \in 1 .. n : g[k] \in Int
    OBVIOUS
  <2>2. m \in 0 .. m + n /\ m + n \in Nat
    OBVIOUS
  <2>. QED
    BY <2>1, <2>2, SumType
<1>1. 0 \in P
  <2>1. m + 0 = m /\ SumTo(g, 0) = 0
    BY SumZero
  <2>. QED
    BY <1>0, <2>1
<1>2. ASSUME NEW k \in 0 .. n - 1, k \in P PROVE k + 1 \in P
  <2>1. m + (k + 1) = (m + k) + 1 /\ m + k \in Nat /\ k \in Nat /\ k + 1 \in 1 .. n /\ k + 1 \in 0 .. n
    OBVIOUS
  <2>2. SumTo(f, m + (k + 1)) = SumTo(f, m + k) + f[m + (k + 1)]
    BY <2>1, SumStep
  <2>3. SumTo(g, k + 1) = SumTo(g, k) + g[k + 1]
    BY <2>1, SumStep
  <2>4. g[k + 1] = f[m + (k + 1)] /\ g[k + 1] \in Int
    BY <2>1
  <2>5. SumTo(f, m + k) = SumTo(f, m) + SumTo(g, k) /\ SumTo(g, k) \in Int
    BY <1>0, <1>2
  <2>. QED
    BY <1>0, <2>1, <2>2, <2>3, <2>4, <2>5
<1>. HIDE DEF P
<1>3. n \in P
  BY <1>1, <1>2, UpTo
<1>. QED
  BY <1>3 DEF P

LEMMA SumPlus ==
  ASSUME NEW f, NEW g, NEW h, NEW n \in Nat,
         \A k \in 1 .. n : g[k] \in Int /\ h[k] \in Int /\ f[k] = g[k] + h[k]
  PROVE  SumTo(f, n) = SumTo(g, n) + SumTo(h, n)
<1>. DEFINE P == {k \in 0 .. n : SumTo(f, k) = SumTo(g, k) + SumTo(h, k)}
<1>0. \A k \in 0 .. n : SumTo(g, k) \in Int /\ SumTo(h, k) \in Int
  BY SumType
<1>1. 0 \in P
  BY SumZero
<1>2. ASSUME NEW k \in 0 .. n - 1, k \in P PROVE k + 1 \in P
  <2>1. k \in Nat /\ k \in 0 .. n /\ k + 1 \in 1 .. n /\ k + 1 \in 0 .. n
    OBVIOUS
  <2>2. /\ SumTo(f, k + 1) = SumTo(f, k) + f[k + 1]
        /\ SumTo(g, k + 1) = SumTo(g, k) + g[k + 1]
        /\ SumTo(h, k + 1) = SumTo(h, k) + h[k + 1]
    BY <2>1, SumStep
  <2>3. SumTo(f, k) = SumTo(g, k) + SumTo(h, k)
    BY <1>2
  <2>4. SumTo(g, k) \in Int /\ SumTo(h, k) \in Int /\ g[k + 1] \in Int /\ h[k + 1] \in Int
        /\ f[k + 1] = g[k + 1] + h[k + 1]
    BY <1>0, <2>1
  <2>. QED
    BY <2>1, <2>2, <2>3, <2>4
<1>. HIDE DEF P
<1>3. n \in P
  <2>1. \A k \in 0 .. n : k \in P
    BY <1>1, <1>2, UpTo, Zenon
  <2>. QED
    BY <2>1
<1>. QED
  BY <1>3 DEF P
-----------------------------------------------------------------------------
(***************************************************************************)
(* A level of the tree, and the tree, keep the sum of what goes in.        *)
(***************************************************************************)

BitSeq(n) == [1 .. n -> {0, 1}]

Total(s) == SumTo(s, Len(s))

LEMMA BitSeqs ==
  ASSUME NEW n \in Nat, NEW s \in BitSeq(n)
  PROVE  s \in Seq({0, 1}) /\ Len(s) = n /\ (\A k \in 1 .. n : s[k] \in {0, 1}) /\ Total(s) = SumTo(s, n)
<1>1. s \in Seq({0, 1}) /\ Len(s) = n
  <2>1. s \in Seq({0, 1})
    BY DEF BitSeq
  <2>2. DOMAIN s = 1 .. n
    BY DEF BitSeq
  <2>. QED
    BY <2>1, <2>2, LenProperties
<1>2. \A k \in 1 .. n : s[k] \in {0, 1}
  BY DEF BitSeq
<1>. QED
  BY <1>1, <1>2 DEF Total

LEMMA SeqBits ==
  ASSUME NEW s \in Seq({0, 1})
  PROVE  s \in BitSeq(Len(s))
BY LenProperties DEF BitSeq

LEMMA TotalConcat ==
  ASSUME NEW m \in Nat, NEW n \in Nat, NEW s \in BitSeq(m), NEW t \in BitSeq(n)
  PROVE  s \o t \in BitSeq(m + n) /\ Total(s \o t) = Total(s) + Total(t)
<1>. DEFINE st == s \o t
<1>1. s \in Seq({0, 1}) /\ Len(s) = m /\ t \in Seq({0, 1}) /\ Len(t) = n
      /\ Total(s) = SumTo(s, m) /\ Total(t) = SumTo(t, n)
  BY BitSeqs
<1>2. /\ st \in Seq({0, 1})
      /\ Len(st) = m + n
      /\ \A i \in 1 .. m + n : st[i] = IF i <= m THEN s[i] ELSE t[i - m]
  BY <1>1, ConcatProperties
<1>. HIDE DEF st
<1>3. /\ \A i \in 1 .. m : st[i] = s[i]
      /\ \A i \in 1 .. n : t[i] = st[m + i]
  <2>1. ASSUME NEW i \in 1 .. m PROVE st[i] = s[i]
    BY <1>2
  <2>2. ASSUME NEW i \in 1 .. n PROVE t[i] = st[m + i]
    <3>1. m + i \in 1 .. m + n /\ ~(m + i <= m) /\ (m + i) - m = i
      OBVIOUS
    <3>. QED
      BY <1>2, <3>1
  <2>. QED
    BY <2>1, <2>2
<1>4. st \in BitSeq(m + n) /\ Total(st) = SumTo(st, m + n)
  BY <1>2, SeqBits DEF Total
<1>5. \A k \in 1 .. m + n : st[k] \in Int
  <2>1. \A k \in 1 .. m + n : st[k] \in {0, 1}
    BY <1>4 DEF BitSeq
  <2>. QED
    BY <2>1
<1>6. SumTo(st, m + n) = SumTo(st, m) + SumTo(t, n)
  BY <1>3, <1>5, SumSplit
<1>7. SumTo(st, m) = SumTo(s, m)
  BY <1>3, SumSame
<1>. QED
  BY <1>1, <1>4, <1>6, <1>7 DEF st

\* A carry-save adder: the sum of three bits in two.
LEMMA AdderAdds ==
  ASSUME NEW x \in {0, 1}, NEW y \in {0, 1}, NEW z \in {0, 1}
  PROVE  /\ Sum(<<x, y, z>>) \in {0, 1} /\ Majority(<<x, y, z>>) \in {0, 1}
         /\ x + y + z = Sum(<<x, y, z>>) + 2 * Majority(<<x, y, z>>)
<1>. DEFINE n == x + y + z
<1>1. n \in 0 .. 3
  OBVIOUS
<1>2. Sum(<<x, y, z>>) = n % 2 /\ Majority(<<x, y, z>>) = n \div 2
  BY DEF Sum, Majority
<1>. HIDE DEF n
<1>3. n % 2 \in {0, 1} /\ n \div 2 \in {0, 1} /\ n = (n % 2) + 2 * (n \div 2)
  BY <1>1
<1>. QED
  BY <1>2, <1>3 DEF n

\* A row of adders: the sum of three bits of each, in two.
LEMMA AddersAdd ==
  ASSUME NEW n \in Nat, NEW s \in BitSeq(3 * n)
  PROVE  /\ AdderSums(s) \in BitSeq(n) /\ AdderCarrys(s) \in BitSeq(n)
         /\ Total(s) = Total(AdderSums(s)) + 2 * Total(AdderCarrys(s))
<1>. DEFINE t == AdderSums(s)
            c == AdderCarrys(s)
<1>0. /\ t = [j \in 1 .. n |-> Sum(<<s[3 * j - 2], s[3 * j - 1], s[3 * j]>>)]
      /\ c = [j \in 1 .. n |-> Majority(<<s[3 * j - 2], s[3 * j - 1], s[3 * j]>>)]
  <2>1. 3 * n \in Nat /\ Len(s) = 3 * n /\ Len(s) \div 3 = n
    <3>1. 3 * n \in Nat /\ Len(s) = 3 * n
      BY 3 * n \in Nat, BitSeqs
    <3>. QED
      BY <3>1
  <2>. QED
    BY <2>1 DEF AdderSums, AdderCarrys, ThreeBits
<1>. HIDE DEF t, c
<1>1. ASSUME NEW j \in 1 .. n
      PROVE  /\ s[3 * j - 2] \in {0, 1} /\ s[3 * j - 1] \in {0, 1} /\ s[3 * j] \in {0, 1}
             /\ t[j] \in {0, 1} /\ c[j] \in {0, 1}
             /\ s[3 * j - 2] + s[3 * j - 1] + s[3 * j] = t[j] + 2 * c[j]
  <2>1. 3 * j - 2 \in 1 .. 3 * n /\ 3 * j - 1 \in 1 .. 3 * n /\ 3 * j \in 1 .. 3 * n
    OBVIOUS
  <2>2. s[3 * j - 2] \in {0, 1} /\ s[3 * j - 1] \in {0, 1} /\ s[3 * j] \in {0, 1}
    BY <2>1 DEF BitSeq
  <2>3. /\ t[j] = Sum(<<s[3 * j - 2], s[3 * j - 1], s[3 * j]>>)
        /\ c[j] = Majority(<<s[3 * j - 2], s[3 * j - 1], s[3 * j]>>)
    BY <1>0
  <2>. QED
    BY <2>2, <2>3, AdderAdds
<1>2. t \in BitSeq(n) /\ c \in BitSeq(n)
  <2>1. t = [j \in 1 .. n |-> t[j]] /\ c = [j \in 1 .. n |-> c[j]]
    BY <1>0
  <2>. QED
    BY <1>1, <2>1 DEF BitSeq
<1>3. Total(s) = SumTo(s, 3 * n) /\ Total(t) = SumTo(t, n) /\ Total(c) = SumTo(c, n)
  <2>1. 3 * n \in Nat
    OBVIOUS
  <2>. QED
    BY <1>2, <2>1, BitSeqs
<1>4. /\ \A k \in 0 .. 3 * n : SumTo(s, k) \in Int
      /\ \A k \in 0 .. n : SumTo(t, k) \in Int /\ SumTo(c, k) \in Int
  <2>1. 3 * n \in Nat /\ (\A k \in 1 .. 3 * n : s[k] \in Int)
        /\ (\A k \in 1 .. n : t[k] \in Int) /\ (\A k \in 1 .. n : c[k] \in Int)
    BY <1>2 DEF BitSeq
  <2>. QED
    BY <2>1, SumType
<1>. DEFINE P == {k \in 0 .. n : SumTo(s, 3 * k) = SumTo(t, k) + 2 * SumTo(c, k)}
<1>5. 0 \in P
  <2>1. SumTo(s, 3 * 0) = 0 /\ SumTo(t, 0) = 0 /\ SumTo(c, 0) = 0
    <3>1. 3 * 0 = 0
      OBVIOUS
    <3>. QED
      BY <3>1, SumZero
  <2>. QED
    BY <2>1
<1>6. ASSUME NEW k \in 0 .. n - 1, k \in P PROVE k + 1 \in P
  <2>1. /\ k \in Nat /\ k \in 0 .. n /\ k + 1 \in 1 .. n /\ k + 1 \in 0 .. n /\ 3 * k \in Nat
        /\ (3 * k) + 1 \in Nat /\ (3 * k) + 2 \in Nat /\ 3 * k \in 0 .. 3 * n
        /\ ((3 * k) + 1) + 1 = (3 * k) + 2 /\ ((3 * k) + 2) + 1 = (3 * k) + 3
        /\ 3 * (k + 1) = (3 * k) + 3 /\ 3 * (k + 1) - 1 = (3 * k) + 2 /\ 3 * (k + 1) - 2 = (3 * k) + 1
    OBVIOUS
  <2>2. /\ SumTo(s, (3 * k) + 1) = SumTo(s, 3 * k) + s[(3 * k) + 1]
        /\ SumTo(s, (3 * k) + 2) = SumTo(s, (3 * k) + 1) + s[(3 * k) + 2]
        /\ SumTo(s, (3 * k) + 3) = SumTo(s, (3 * k) + 2) + s[(3 * k) + 3]
    <3>. HIDE DEF P
    <3>1. SumTo(s, (3 * k) + 1) = SumTo(s, 3 * k) + s[(3 * k) + 1]
      BY <2>1, SumStep
    <3>2. SumTo(s, ((3 * k) + 1) + 1) = SumTo(s, (3 * k) + 1) + s[((3 * k) + 1) + 1]
      BY <2>1, SumStep
    <3>3. SumTo(s, ((3 * k) + 2) + 1) = SumTo(s, (3 * k) + 2) + s[((3 * k) + 2) + 1]
      BY <2>1, SumStep
    <3>. QED
      BY <2>1, <3>1, <3>2, <3>3
  <2>3. SumTo(t, k + 1) = SumTo(t, k) + t[k + 1] /\ SumTo(c, k + 1) = SumTo(c, k) + c[k + 1]
    BY <2>1, SumStep
  <2>4. /\ s[(3 * k) + 1] \in {0, 1} /\ s[(3 * k) + 2] \in {0, 1} /\ s[(3 * k) + 3] \in {0, 1}
        /\ t[k + 1] \in {0, 1} /\ c[k + 1] \in {0, 1}
        /\ s[(3 * k) + 1] + s[(3 * k) + 2] + s[(3 * k) + 3] = t[k + 1] + 2 * c[k + 1]
    <3>. DEFINE j == k + 1
    <3>1. /\ s[3 * j - 2] \in {0, 1} /\ s[3 * j - 1] \in {0, 1} /\ s[3 * j] \in {0, 1}
          /\ t[j] \in {0, 1} /\ c[j] \in {0, 1}
          /\ s[3 * j - 2] + s[3 * j - 1] + s[3 * j] = t[j] + 2 * c[j]
      <4>1. j \in 1 .. n
        BY <2>1
      <4>. HIDE DEF j, P
      <4>. QED
        BY <1>1, <4>1
    <3>. QED
      BY <2>1, <3>1
  <2>5. SumTo(s, 3 * k) = SumTo(t, k) + 2 * SumTo(c, k)
    BY <1>6
  <2>6. SumTo(s, 3 * k) \in Int /\ SumTo(t, k) \in Int /\ SumTo(c, k) \in Int
    BY <1>4, <2>1
  <2>7. SumTo(s, (3 * k) + 3) = SumTo(t, k + 1) + 2 * SumTo(c, k + 1)
    BY ONLY <2>2, <2>3, <2>4, <2>5, <2>6
  <2>. QED
    BY <2>1, <2>7
<1>. HIDE DEF P
<1>7. n \in P
  BY <1>5, <1>6, UpTo
<1>8. SumTo(s, 3 * n) = SumTo(t, n) + 2 * SumTo(c, n)
  BY <1>7 DEF P
<1>. QED
  BY <1>2, <1>3, <1>8 DEF t, c

\* Behind a level: n sums, c carrys, and u carrys of the column below taken.
Behind(acc, inputs, carrysIn, n, c, u) ==
  /\ acc.sums \in BitSeq(n)
  /\ acc.carrys \in BitSeq(c)
  /\ acc.used = u
  /\ Total(inputs) + SumTo(carrysIn, u) = Total(acc.sums) + 2 * Total(acc.carrys)

LEMMA LevelAdds ==
  ASSUME NEW inputs, Total(inputs) \in Int, NEW carrysIn \in BitSeq(31), NEW level \in 1 .. 8,
         NEW n \in Nat, NEW c \in Nat, NEW u \in Nat, NEW k \in Nat, NEW x \in Nat,
         NEW acc, Behind(acc, inputs, carrysIn, n, c, u),
         carrysInAt[level] = x, u + x <= 31,
         3 * k = n + x + (IF level = 6 THEN 1 ELSE 0),
         NEW d, d = c + k, NEW v, v = u + x
  PROVE  Behind(TreeLevel(acc, level, carrysIn), inputs, carrysIn, k, d, v)
<1>. DEFINE taken == SubSeq(carrysIn, u + 1, u + x)
            pad == IF level = 6 THEN <<0>> ELSE <<>>
            p == IF level = 6 THEN 1 ELSE 0
            row == LevelInputs(acc, level, carrysIn)
            sums == AdderSums(row)
            carrys == AdderCarrys(row)
<1>1. taken \in BitSeq(x) /\ SumTo(carrysIn, u + x) = SumTo(carrysIn, u) + Total(taken)
      /\ SumTo(carrysIn, u) \in Int
  <2>1. carrysIn \in Seq({0, 1}) /\ Len(carrysIn) = 31
    BY BitSeqs
  <2>2. /\ taken \in Seq({0, 1}) /\ Len(taken) = x
        /\ \A i \in 1 .. x : taken[i] = carrysIn[u + i]
    <3>1. x = IF u + 1 <= u + x THEN ((u + x) - (u + 1)) + 1 ELSE 0
      OBVIOUS
    <3>2. ((u + x) - (u + 1)) + 1 = x /\ u + 1 \in Int /\ u + x \in Int
      OBVIOUS
    <3>3. \A i \in u + 1 .. u + x : carrysIn[i] \in {0, 1}
      <4>1. \A i \in u + 1 .. u + x : i \in 1 .. 31
        OBVIOUS
      <4>. QED
        BY <4>1 DEF BitSeq
    <3>4. /\ taken \in Seq({0, 1})
          /\ Len(taken) = IF u + 1 <= u + x THEN (u + x) - (u + 1) + 1 ELSE 0
          /\ \A i \in 1 .. (u + x) - (u + 1) + 1 : taken[i] = carrysIn[(u + 1) + i - 1]
      <4>. HIDE DEF taken
      <4>. QED
        BY <3>2, <3>3, SubSeqProperties DEF taken
    <3>5. ASSUME NEW i \in 1 .. x PROVE taken[i] = carrysIn[u + i]
      <4>. HIDE DEF taken
      <4>1. (u + 1) + i - 1 = u + i
        OBVIOUS
      <4>. QED
        BY <3>2, <3>4, <4>1
    <3>. HIDE DEF taken
    <3>. QED
      BY <3>1, <3>4, <3>5
  <2>5. \A i \in 1 .. 31 : carrysIn[i] \in {0, 1}
    BY DEF BitSeq
  <2>. HIDE DEF taken
  <2>6. taken \in BitSeq(x)
    BY <2>2, SeqBits
  <2>7. Total(taken) = SumTo(taken, x)
    BY <2>6, BitSeqs
  <2>8. SumTo(carrysIn, u + x) = SumTo(carrysIn, u) + SumTo(taken, x)
    <3>1. \A i \in 1 .. u + x : carrysIn[i] \in Int
      BY <2>5
    <3>2. \A i \in 1 .. x : taken[i] = carrysIn[u + i]
      BY <2>2
    <3>. QED
      BY <3>1, <3>2, SumSplit
  <2>9. SumTo(carrysIn, u) \in Int
    <3>1. \A i \in 1 .. u : carrysIn[i] \in Int
      BY <2>5
    <3>. QED
      BY <3>1, SumType
  <2>. QED
    BY <2>6, <2>7, <2>8, <2>9
<1>2. pad \in BitSeq(p) /\ Total(pad) = 0
  <2>1. CASE level = 6
    <3>1. pad = [i \in 1 .. 1 |-> 0]
      BY <2>1
    <3>2. [i \in 1 .. 1 |-> 0] \in BitSeq(1)
      BY DEF BitSeq
    <3>3. pad \in BitSeq(1) /\ pad[1] = 0 /\ p = 1
      BY <2>1, <3>1, <3>2
    <3>. HIDE DEF pad
    <3>4. Total(pad) = SumTo(pad, 1)
      BY <3>3, BitSeqs
    <3>5. SumTo(pad, 0 + 1) = SumTo(pad, 0) + pad[0 + 1]
      BY SumStep
    <3>. QED
      BY <3>3, <3>4, <3>5, SumZero
  <2>2. CASE level # 6
    <3>1. pad = <<>> /\ p = 0
      BY <2>2
    <3>2. <<>> \in BitSeq(0)
      BY DEF BitSeq
    <3>3. pad \in BitSeq(0)
      BY <3>1, <3>2
    <3>. HIDE DEF pad
    <3>4. Total(pad) = SumTo(pad, 0)
      BY <3>3, BitSeqs
    <3>. QED
      BY <3>1, <3>3, <3>4, SumZero
  <2>. QED
    BY <2>1, <2>2
<1>3. acc.sums \in BitSeq(n) /\ acc.carrys \in BitSeq(c) /\ acc.used = u
      /\ Total(inputs) + SumTo(carrysIn, u) = Total(acc.sums) + 2 * Total(acc.carrys)
  BY DEF Behind
<1>4. row \in BitSeq(3 * k) /\ Total(row) = Total(acc.sums) + Total(taken) + Total(pad)
  <2>. HIDE DEF taken, pad
  <2>. DEFINE both == acc.sums \o taken
  <2>. HIDE DEF row
  <2>1. both \in BitSeq(n + x) /\ Total(both) = Total(acc.sums) + Total(taken)
    BY <1>1, <1>3, TotalConcat
  <2>. HIDE DEF both
  <2>4. row = both \o pad
    BY <1>3 DEF LevelInputs, both, taken, pad, row
  <2>2. n + x \in Nat /\ p \in Nat /\ (n + x) + p = 3 * k
    OBVIOUS
  <2>3. both \o pad \in BitSeq((n + x) + p) /\ Total(both \o pad) = Total(both) + Total(pad)
    <3>. HIDE DEF p
    <3>. QED
      BY <1>2, <2>1, <2>2, TotalConcat
  <2>. QED
    BY <2>1, <2>2, <2>3, <2>4
<1>5. sums \in BitSeq(k) /\ carrys \in BitSeq(k) /\ Total(row) = Total(sums) + 2 * Total(carrys)
  <2>. HIDE DEF row
  <2>. QED
    BY <1>4, AddersAdd
<1>6. TreeLevel(acc, level, carrysIn)
        = [sums |-> sums, carrys |-> acc.carrys \o carrys, used |-> u + x]
  BY <1>3 DEF TreeLevel
<1>7. acc.carrys \o carrys \in BitSeq(c + k) /\ Total(acc.carrys \o carrys) = Total(acc.carrys) + Total(carrys)
  <2>. HIDE DEF carrys
  <2>. QED
    BY <1>3, <1>5, TotalConcat
<1>8. /\ Total(sums) \in Int /\ Total(carrys) \in Int /\ Total(acc.sums) \in Int
      /\ Total(acc.carrys) \in Int /\ Total(taken) \in Int
  <2>1. ASSUME NEW m \in Nat, NEW s \in BitSeq(m) PROVE Total(s) \in Int
    <3>1. \A i \in 1 .. m : s[i] \in Int
      BY DEF BitSeq
    <3>2. SumTo(s, m) \in Int
      BY <3>1, m \in 0 .. m, SumType
    <3>. QED
      BY <3>2, BitSeqs
  <2>. HIDE DEF taken, sums, carrys
  <2>. QED
    BY <1>1, <1>3, <1>5, <2>1
<1>. HIDE DEF taken, pad, row, sums, carrys
<1>9. Total(inputs) + SumTo(carrysIn, u + x) = Total(sums) + 2 * Total(acc.carrys \o carrys)
  BY <1>1, <1>2, <1>3, <1>4, <1>5, <1>7, <1>8
<1>. QED
  BY <1>5, <1>6, <1>7, <1>9 DEF Behind

\* The whole tree: 33 bits and 31 carrys in, a bit and 32 carrys out.
LEMMA TreeAdds ==
  ASSUME NEW inputs \in BitSeq(33), NEW carrysIn \in BitSeq(31)
  PROVE  LET tree == WallaceTree(inputs, carrysIn)
         IN /\ tree.output \in {0, 1} /\ tree.carryOut \in {0, 1} /\ tree.carrysOut \in BitSeq(31)
            /\ Total(inputs) + Total(carrysIn)
                 = tree.output + 2 * (Total(tree.carrysOut) + tree.carryOut)
<1>. DEFINE level0 == [sums |-> inputs, carrys |-> <<>>, used |-> 0]
            level1 == TreeLevel(level0, 1, carrysIn)
            level2 == TreeLevel(level1, 2, carrysIn)
            level3 == TreeLevel(level2, 3, carrysIn)
            level4 == TreeLevel(level3, 4, carrysIn)
            level5 == TreeLevel(level4, 5, carrysIn)
            level6 == TreeLevel(level5, 6, carrysIn)
            level7 == TreeLevel(level6, 7, carrysIn)
            level8 == TreeLevel(level7, 8, carrysIn)
<1>1. Total(inputs) \in Int /\ Total(inputs) = SumTo(inputs, 33) /\ Total(carrysIn) = SumTo(carrysIn, 31)
  <2>1. Total(inputs) = SumTo(inputs, 33) /\ Total(carrysIn) = SumTo(carrysIn, 31)
    BY BitSeqs
  <2>2. \A k \in 1 .. 33 : inputs[k] \in Int
    BY DEF BitSeq
  <2>3. SumTo(inputs, 33) \in Int
    BY <2>2, 33 \in 0 .. 33, SumType
  <2>. QED
    BY <2>1, <2>3
<1>2. Behind(level0, inputs, carrysIn, 33, 0, 0)
  <2>1. <<>> \in BitSeq(0) /\ Total(<<>>) = 0
    <3>1. <<>> \in BitSeq(0)
      BY DEF BitSeq
    <3>2. Total(<<>>) = SumTo(<<>>, 0)
      BY <3>1, BitSeqs
    <3>. QED
      BY <3>1, <3>2, SumZero
  <2>2. level0.sums = inputs /\ level0.carrys = <<>> /\ level0.used = 0
    OBVIOUS
  <2>. HIDE DEF level0
  <2>. QED
    BY <1>1, <2>1, <2>2, SumZero DEF Behind
<1>. HIDE DEF level0
<1>3. Behind(level1, inputs, carrysIn, 11, 11, 0)
  <2>1. /\ carrysInAt[1] = 0 /\ 0 + 0 <= 31 /\ 3 * 11 = 33 + 0 + (IF 1 = 6 THEN 1 ELSE 0)
        /\ 11 = 0 + 11 /\ 0 = 0 + 0 /\ 1 \in 1 .. 8
        /\ 33 \in Nat /\ 0 \in Nat /\ 0 \in Nat /\ 11 \in Nat /\ 0 \in Nat
    BY DEF carrysInAt
  <2>. QED
    BY ONLY carrysIn \in BitSeq(31), <1>1, <1>2, <2>1, LevelAdds, Zenon DEF level1
<1>. HIDE DEF level1
<1>4. Behind(level2, inputs, carrysIn, 7, 18, 10)
  <2>1. /\ carrysInAt[2] = 10 /\ 0 + 10 <= 31 /\ 3 * 7 = 11 + 10 + (IF 2 = 6 THEN 1 ELSE 0)
        /\ 18 = 11 + 7 /\ 10 = 0 + 10 /\ 2 \in 1 .. 8
        /\ 11 \in Nat /\ 11 \in Nat /\ 0 \in Nat /\ 7 \in Nat /\ 10 \in Nat
    BY DEF carrysInAt
  <2>. QED
    BY ONLY carrysIn \in BitSeq(31), <1>1, <1>3, <2>1, LevelAdds, Zenon DEF level2
<1>. HIDE DEF level2
<1>5. Behind(level3, inputs, carrysIn, 5, 23, 18)
  <2>1. /\ carrysInAt[3] = 8 /\ 10 + 8 <= 31 /\ 3 * 5 = 7 + 8 + (IF 3 = 6 THEN 1 ELSE 0)
        /\ 23 = 18 + 5 /\ 18 = 10 + 8 /\ 3 \in 1 .. 8
        /\ 7 \in Nat /\ 18 \in Nat /\ 10 \in Nat /\ 5 \in Nat /\ 8 \in Nat
    BY DEF carrysInAt
  <2>. QED
    BY ONLY carrysIn \in BitSeq(31), <1>1, <1>4, <2>1, LevelAdds, Zenon DEF level3
<1>. HIDE DEF level3
<1>6. Behind(level4, inputs, carrysIn, 3, 26, 22)
  <2>1. /\ carrysInAt[4] = 4 /\ 18 + 4 <= 31 /\ 3 * 3 = 5 + 4 + (IF 4 = 6 THEN 1 ELSE 0)
        /\ 26 = 23 + 3 /\ 22 = 18 + 4 /\ 4 \in 1 .. 8
        /\ 5 \in Nat /\ 23 \in Nat /\ 18 \in Nat /\ 3 \in Nat /\ 4 \in Nat
    BY DEF carrysInAt
  <2>. QED
    BY ONLY carrysIn \in BitSeq(31), <1>1, <1>5, <2>1, LevelAdds, Zenon DEF level4
<1>. HIDE DEF level4
<1>7. Behind(level5, inputs, carrysIn, 2, 28, 25)
  <2>1. /\ carrysInAt[5] = 3 /\ 22 + 3 <= 31 /\ 3 * 2 = 3 + 3 + (IF 5 = 6 THEN 1 ELSE 0)
        /\ 28 = 26 + 2 /\ 25 = 22 + 3 /\ 5 \in 1 .. 8
        /\ 3 \in Nat /\ 26 \in Nat /\ 22 \in Nat /\ 2 \in Nat /\ 3 \in Nat
    BY DEF carrysInAt
  <2>. QED
    BY ONLY carrysIn \in BitSeq(31), <1>1, <1>6, <2>1, LevelAdds, Zenon DEF level5
<1>. HIDE DEF level5
<1>8. Behind(level6, inputs, carrysIn, 2, 30, 28)
  <2>1. /\ carrysInAt[6] = 3 /\ 25 + 3 <= 31 /\ 3 * 2 = 2 + 3 + (IF 6 = 6 THEN 1 ELSE 0)
        /\ 30 = 28 + 2 /\ 28 = 25 + 3 /\ 6 \in 1 .. 8
        /\ 2 \in Nat /\ 28 \in Nat /\ 25 \in Nat /\ 2 \in Nat /\ 3 \in Nat
    BY DEF carrysInAt
  <2>. QED
    BY ONLY carrysIn \in BitSeq(31), <1>1, <1>7, <2>1, LevelAdds, Zenon DEF level6
<1>. HIDE DEF level6
<1>9. Behind(level7, inputs, carrysIn, 1, 31, 29)
  <2>1. /\ carrysInAt[7] = 1 /\ 28 + 1 <= 31 /\ 3 * 1 = 2 + 1 + (IF 7 = 6 THEN 1 ELSE 0)
        /\ 31 = 30 + 1 /\ 29 = 28 + 1 /\ 7 \in 1 .. 8
        /\ 2 \in Nat /\ 30 \in Nat /\ 28 \in Nat /\ 1 \in Nat /\ 1 \in Nat
    BY DEF carrysInAt
  <2>. QED
    BY ONLY carrysIn \in BitSeq(31), <1>1, <1>8, <2>1, LevelAdds, Zenon DEF level7
<1>. HIDE DEF level7
<1>10. Behind(level8, inputs, carrysIn, 1, 32, 31)
  <2>1. /\ carrysInAt[8] = 2 /\ 29 + 2 <= 31 /\ 3 * 1 = 1 + 2 + (IF 8 = 6 THEN 1 ELSE 0)
        /\ 32 = 31 + 1 /\ 31 = 29 + 2 /\ 8 \in 1 .. 8
        /\ 1 \in Nat /\ 31 \in Nat /\ 29 \in Nat /\ 1 \in Nat /\ 2 \in Nat
    BY DEF carrysInAt
  <2>. QED
    BY ONLY carrysIn \in BitSeq(31), <1>1, <1>9, <2>1, LevelAdds, Zenon DEF level8
<1>. HIDE DEF level8
<1>11. level8.sums \in BitSeq(1) /\ level8.carrys \in BitSeq(32)
      /\ Total(inputs) + SumTo(carrysIn, 31) = Total(level8.sums) + 2 * Total(level8.carrys)
  BY <1>10 DEF Behind
<1>. DEFINE carrys == level8.carrys
            out == SubSeq(carrys, 1, 31)
<1>12. level8.sums[1] \in {0, 1} /\ Total(level8.sums) = level8.sums[1]
  <2>1. level8.sums[1] \in {0, 1} /\ Total(level8.sums) = SumTo(level8.sums, 1)
    <3>1. Total(level8.sums) = SumTo(level8.sums, 1)
      BY <1>11, BitSeqs
    <3>. QED
      BY <1>11, <3>1 DEF BitSeq
  <2>2. SumTo(level8.sums, 0 + 1) = SumTo(level8.sums, 0) + level8.sums[0 + 1]
    BY SumStep
  <2>. QED
    BY <2>1, <2>2, SumZero
<1>13. carrys[32] \in {0, 1} /\ out \in BitSeq(31) /\ Total(out) \in Int
       /\ Total(carrys) = Total(out) + carrys[32]
  <2>1. \A k \in 1 .. 32 : carrys[k] \in {0, 1}
    BY <1>11 DEF BitSeq
  <2>. HIDE DEF carrys
  <2>2. /\ out \in Seq({0, 1}) /\ Len(out) = 31
        /\ \A k \in 1 .. 31 : out[k] = carrys[k]
    <3>1. /\ out \in Seq({0, 1})
          /\ Len(out) = IF 1 <= 31 THEN 31 - 1 + 1 ELSE 0
          /\ \A k \in 1 .. 31 - 1 + 1 : out[k] = carrys[1 + k - 1]
      <4>1. \A k \in 1 .. 31 : carrys[k] \in {0, 1}
        BY <2>1
      <4>. HIDE DEF out
      <4>. QED
        BY <4>1, SubSeqProperties DEF out
    <3>2. ASSUME NEW k \in 1 .. 31 PROVE out[k] = carrys[k]
      <4>. HIDE DEF out
      <4>1. 1 + k - 1 = k /\ 31 - 1 + 1 = 31
        OBVIOUS
      <4>. QED
        BY <3>1, <4>1
    <3>. HIDE DEF out
    <3>. QED
      BY <3>1, <3>2
  <2>. HIDE DEF out
  <2>3. out \in BitSeq(31)
    BY <2>2, SeqBits
  <2>4. Total(out) = SumTo(out, 31) /\ Total(carrys) = SumTo(carrys, 32)
    <3>1. Total(out) = SumTo(out, 31)
      BY <2>3, BitSeqs
    <3>2. Total(carrys) = SumTo(carrys, 32)
      BY <1>11, BitSeqs DEF carrys
    <3>. QED
      BY <3>1, <3>2
  <2>5. SumTo(carrys, 31 + 1) = SumTo(carrys, 31) + carrys[31 + 1]
    BY SumStep
  <2>8. \A k \in 1 .. 31 : carrys[k] = out[k]
    BY <2>2, Zenon
  <2>6. SumTo(carrys, 31) = SumTo(out, 31)
    BY <2>8, 31 \in Nat, SumSame, Zenon
  <2>7. SumTo(out, 31) \in Int
    <3>1. \A k \in 1 .. 31 : out[k] \in Int
      BY <2>3 DEF BitSeq
    <3>. QED
      BY <3>1, 31 \in 0 .. 31, SumType
  <2>. QED
    BY <2>1, <2>3, <2>4, <2>5, <2>6, <2>7
<1>14. WallaceTree(inputs, carrysIn) = [output |-> level8.sums[1], carryOut |-> carrys[32], carrysOut |-> out]
  BY DEF WallaceTree, level0, level1, level2, level3, level4, level5, level6, level7, level8
<1>. HIDE DEF carrys, out
<1>15. Total(inputs) + Total(carrysIn) = level8.sums[1] + 2 * (Total(out) + carrys[32])
  BY <1>1, <1>11, <1>12, <1>13 DEF carrys
<1>. QED
  BY <1>12, <1>13, <1>14, <1>15
-----------------------------------------------------------------------------
(***************************************************************************)
(* A digit: the summand it selects, and what it leaves for the columns     *)
(* above.                                                                  *)
(***************************************************************************)

Bit(a, k) == IF k < 0 THEN 0 ELSE Extended(a, k)

LEMMA BitIsBit ==
  ASSUME NEW a \in Factor, NEW k \in Int
  PROVE  Bit(a, k) \in {0, 1}
BY DEF Bit, Extended, Factor, LEN

Once(b2, b1, b0) == IF b1 = b0 THEN 0 ELSE 1 - 2 * b2
Twice(b2, b1, b0) == IF b1 = b0 THEN b1 - b2 ELSE 0

OnceOf(b, d) == Once(Bit(b, 2 * d), Bit(b, 2 * d - 1), Bit(b, 2 * d - 2))
TwiceOf(b, d) == Twice(Bit(b, 2 * d), Bit(b, 2 * d - 1), Bit(b, 2 * d - 2))

\* The multiple of the multiplicand that a digit selects, without its Carry.
Selected(a, b, d, i) == OnceOf(b, d) * Bit(a, (i + 1) - 2 * d) + TwiceOf(b, d) * Bit(a, i - 2 * d)

LEMMA SummandValue ==
  ASSUME NEW a \in Factor, NEW b \in Factor, NEW d \in 0 .. 32, NEW i \in Nat
  PROVE  /\ Summand(a, b, d, i) \in {0, 1} /\ Carry(b, d) \in {0, 1}
         /\ Selected(a, b, d, i) \in Int
         /\ Summand(a, b, d, i) = Selected(a, b, d, i) + Carry(b, d)
<1>. DEFINE b2 == Bit(b, 2 * d)
            b1 == Bit(b, 2 * d - 1)
            b0 == Bit(b, 2 * d - 2)
            up == Bit(a, (i + 1) - 2 * d)
            at == Bit(a, i - 2 * d)
<1>1. Booth(b, d)[0] = b0 /\ Booth(b, d)[1] = b1 /\ Booth(b, d)[2] = b2
  <2>1. /\ Booth(b, d)[0] = multiplierBit(b, 2 * d)
        /\ Booth(b, d)[1] = multiplierBit(b, 2 * d + 1)
        /\ Booth(b, d)[2] = multiplierBit(b, 2 * d + 2)
    BY DEF Booth
  <2>2. ASSUME NEW k \in 0 .. 66 PROVE multiplierBit(b, k) = Bit(b, k - 2)
    BY DEF multiplierBit, Bit, Extended, LEN
  <2>3. /\ multiplierBit(b, 2 * d) = Bit(b, 2 * d - 2)
        /\ multiplierBit(b, 2 * d + 1) = Bit(b, (2 * d + 1) - 2)
        /\ multiplierBit(b, 2 * d + 2) = Bit(b, (2 * d + 2) - 2)
    <3>1. 2 * d \in 0 .. 66 /\ 2 * d + 1 \in 0 .. 66 /\ 2 * d + 2 \in 0 .. 66
      OBVIOUS
    <3>. QED
      BY <2>2, <3>1
  <2>4. (2 * d + 1) - 2 = 2 * d - 1 /\ (2 * d + 2) - 2 = 2 * d
    OBVIOUS
  <2>. QED
    BY <2>1, <2>3, <2>4
<1>2. /\ multiplicandBit(a, LEN - 1 - 2 * d + (i + 1)) = up
      /\ multiplicandBit(a, LEN - 1 - 2 * d + i) = at
  <2>1. ASSUME NEW k \in Nat PROVE multiplicandBit(a, LEN - 1 - 2 * d + k) = Bit(a, k - 2 * d)
    <3>1. LEN - 1 - 2 * d + k = 64 + (k - 2 * d)
      BY DEF LEN
    <3>2. ASSUME NEW x \in Int PROVE multiplicandBit(a, 64 + x) = Bit(a, x)
      <4>1. (64 + x) - (LEN - 1) = x
        BY DEF LEN
      <4>. QED
        BY <4>1 DEF multiplicandBit, Bit, Extended, LEN
    <3>. QED
      BY <3>1, <3>2
  <2>. QED
    BY <2>1
<1>3. b2 \in {0, 1} /\ b1 \in {0, 1} /\ b0 \in {0, 1} /\ up \in {0, 1} /\ at \in {0, 1}
  BY BitIsBit
<1>4. Carry(b, d) = b2 * (1 - b1 * b0)
  BY <1>1 DEF Carry
<1>5. Summand(a, b, d, i)
        = IF Xor(b1, b0) = 1 THEN (IF b2 = 1 THEN 1 - up ELSE up)
          ELSE IF b1 = b0 /\ b2 # b1 THEN (IF b2 = 1 THEN 1 - at ELSE at) ELSE 0
  BY <1>1, <1>2 DEF Summand
<1>6. Selected(a, b, d, i) = Once(b2, b1, b0) * up + Twice(b2, b1, b0) * at
  BY DEF Selected, OnceOf, TwiceOf
<1>. HIDE DEF b2, b1, b0, up, at
<1>7. Xor(b1, b0) = 1 <=> b1 # b0
  BY <1>3 DEF Xor
<1>. QED
  BY <1>3, <1>4, <1>5, <1>6, <1>7 DEF Once, Twice

\* The ones of the multiplicand in the columns above digit 32, which the
\* sign of the multiplier multiplies.
Rest(a, i) == SumTo([k \in 1 .. 67 |-> Bit(a, i - 63 - k)], 67)

LEMMA RestStep ==
  ASSUME NEW a \in Factor, NEW i \in 0 .. 129
  PROVE  Rest(a, i) \in Int /\ Rest(a, i + 1) = Rest(a, i) + Bit(a, i - 63)
<1>. DEFINE h == [k \in 1 .. 67 |-> Bit(a, i - 63 - k)]
            g == [k \in 1 .. 67 |-> Bit(a, (i + 1) - 63 - k)]
<1>1. \A k \in 1 .. 67 : h[k] = Bit(a, i - 63 - k) /\ g[k] = Bit(a, (i + 1) - 63 - k)
  OBVIOUS
<1>2. Rest(a, i) = SumTo(h, 67) /\ Rest(a, i + 1) = SumTo(g, 67)
  BY DEF Rest
<1>. HIDE DEF h, g
<1>3. \A k \in 1 .. 67 : h[k] \in {0, 1} /\ g[k] \in {0, 1}
  <2>1. ASSUME NEW k \in 1 .. 67 PROVE h[k] \in {0, 1} /\ g[k] \in {0, 1}
    <3>1. i - 63 - k \in Int /\ (i + 1) - 63 - k \in Int
      OBVIOUS
    <3>. QED
      BY <1>1, <3>1, BitIsBit
  <2>. QED
    BY <2>1
<1>4. SumTo(g, 1 + 66) = SumTo(g, 1) + SumTo(h, 66)
  <2>1. \A k \in 1 .. 1 + 66 : g[k] \in Int
    BY <1>3
  <2>2. \A k \in 1 .. 66 : h[k] = g[1 + k]
    <3>1. ASSUME NEW k \in 1 .. 66 PROVE h[k] = g[1 + k]
      <4>1. 1 + k \in 1 .. 67 /\ k \in 1 .. 67 /\ (i + 1) - 63 - (1 + k) = i - 63 - k
        OBVIOUS
      <4>. QED
        BY <1>1, <4>1
    <3>. QED
      BY <3>1
  <2>. QED
    <3>. DEFINE m == 1
                n == 66
    <3>1. m \in Nat /\ n \in Nat /\ (\A k \in 1 .. m + n : g[k] \in Int) /\ (\A k \in 1 .. n : h[k] = g[m + k])
      BY <2>1, <2>2
    <3>. HIDE DEF m, n
    <3>2. SumTo(g, m + n) = SumTo(g, m) + SumTo(h, n)
      BY <3>1, SumSplit
    <3>. QED
      BY <3>2 DEF m, n
<1>5. SumTo(g, 0 + 1) = SumTo(g, 0) + g[0 + 1] /\ SumTo(h, 66 + 1) = SumTo(h, 66) + h[66 + 1]
  BY SumStep
<1>6. g[1] = Bit(a, i - 63) /\ h[67] = 0
  <2>1. (i + 1) - 63 - 1 = i - 63 /\ i - 63 - 67 < 0
    OBVIOUS
  <2>2. g[1] = Bit(a, (i + 1) - 63 - 1) /\ h[67] = Bit(a, i - 63 - 67)
    BY <1>1
  <2>. QED
    BY <2>1, <2>2 DEF Bit
<1>7. SumTo(h, 66) \in Int /\ SumTo(h, 67) \in Int
  <2>1. \A k \in 1 .. 67 : h[k] \in Int
    BY <1>3
  <2>. QED
    BY <2>1, 66 \in 0 .. 67, 67 \in 0 .. 67, SumType
<1>8. Bit(a, i - 63) \in Int
  BY i - 63 \in Int, BitIsBit
<1>. QED
  BY <1>2, <1>4, <1>5, <1>6, <1>7, <1>8, SumZero

\* What the digits below have taken from the columns above column i.
Debt(a, b, d, i) ==
  IF d < 32
  THEN TwiceOf(b, d) * Bit(a, i - 2 * d) + Bit(b, 2 * d) * (Bit(a, i - 2 * d) + Bit(a, i - 1 - 2 * d))
  ELSE TwiceOf(b, d) * Bit(a, i - 2 * d) + Bit(b, 2 * d) * Rest(a, i)

\* Booth's recoding: a digit is b1 + b0 - 2 b2.
LEMMA DigitIs ==
  ASSUME NEW b \in Factor, NEW d \in 0 .. 32
  PROVE  /\ OnceOf(b, d) \in -1 .. 1 /\ TwiceOf(b, d) \in -1 .. 1
         /\ OnceOf(b, d) + 2 * TwiceOf(b, d) = Bit(b, 2 * d - 1) + Bit(b, 2 * d - 2) - 2 * Bit(b, 2 * d)
<1>1. Bit(b, 2 * d) \in {0, 1} /\ Bit(b, 2 * d - 1) \in {0, 1} /\ Bit(b, 2 * d - 2) \in {0, 1}
  BY BitIsBit
<1>. QED
  BY <1>1 DEF OnceOf, TwiceOf, Once, Twice

\* The bits of the product in a column, by the bits of the multiplier.
ProductBits(a, b, i) == [k \in 1 .. 132 |-> Bit(b, k - 2) * Bit(a, (i + 2) - k)]

LEMMA BitProduct ==
  ASSUME NEW x \in {0, 1}, NEW y \in {0, 1}
  PROVE  x * y \in {0, 1} /\ (x * y = 1 <=> x = 1 /\ y = 1)
OBVIOUS

LEMMA OnesBits ==
  ASSUME NEW a \in Factor, NEW b \in Factor, NEW i \in 0 .. 129, NEW k \in 1 .. 132
  PROVE  /\ Bit(b, k - 2) \in {0, 1} /\ Bit(a, (i + 2) - k) \in {0, 1}
         /\ ProductBits(a, b, i)[k] = Bit(b, k - 2) * Bit(a, (i + 2) - k)
         /\ ProductBits(a, b, i)[k] \in {0, 1}
         /\ ProductBits(a, b, i)[k] = 1 <=> Bit(b, k - 2) = 1 /\ Bit(a, (i + 2) - k) = 1
<1>1. Bit(b, k - 2) \in {0, 1} /\ Bit(a, (i + 2) - k) \in {0, 1}
  <2>1. k - 2 \in Int /\ (i + 2) - k \in Int
    OBVIOUS
  <2>. QED
    BY <2>1, BitIsBit
<1>2. ProductBits(a, b, i)[k] = Bit(b, k - 2) * Bit(a, (i + 2) - k)
  BY DEF ProductBits
<1>. QED
  BY <1>1, <1>2, BitProduct

LEMMA OnesAreSum ==
  ASSUME NEW a \in Factor, NEW b \in Factor, NEW i \in 0 .. 129
  PROVE  Ones(a, b, i) = SumTo(ProductBits(a, b, i), 132)
<1>. DEFINE w == ProductBits(a, b, i)
            one(j) == Extended(a, j) = 1 /\ Extended(b, i - j) = 1
            Low(n) == {j \in 0 .. i : (i - j) + 2 <= n /\ one(j)}
            P == {n \in 0 .. 132 : IsFiniteSet(Low(n)) /\ Cardinality(Low(n)) = SumTo(w, n)}
<1>1. 0 \in P
  <2>1. Low(0) = {}
    OBVIOUS
  <2>2. IsFiniteSet({}) /\ Cardinality({}) = 0
    BY FS_EmptySet
  <2>. HIDE DEF Low
  <2>. QED
    BY <2>1, <2>2, SumZero
<1>2. ASSUME NEW n \in 0 .. 132 - 1, n \in P PROVE n + 1 \in P
  <2>1. IsFiniteSet(Low(n)) /\ Cardinality(Low(n)) = SumTo(w, n)
    BY <1>2
  <2>2. SumTo(w, n + 1) = SumTo(w, n) + w[n + 1]
    BY n \in Nat, SumStep
  <2>3. Cardinality(Low(n)) \in Nat
    BY <2>1, FS_CardinalityType
  <2>4. /\ n + 1 \in 0 .. 132 /\ n + 1 \in 1 .. 132
        /\ (n + 1) - 2 = n - 1 /\ (i + 2) - (n + 1) = (i + 1) - n
    OBVIOUS
  <2>5. w[n + 1] \in {0, 1} /\ (w[n + 1] = 1 <=> Bit(b, n - 1) = 1 /\ Bit(a, (i + 1) - n) = 1)
    <3>1. /\ ProductBits(a, b, i)[n + 1] \in {0, 1}
          /\ ProductBits(a, b, i)[n + 1] = 1
               <=> Bit(b, (n + 1) - 2) = 1 /\ Bit(a, (i + 2) - (n + 1)) = 1
      BY <2>4, OnesBits, Zenon
    <3>. QED
      BY <2>4, <3>1
  <2>. DEFINE e == (i + 1) - n
  <2>6. (w[n + 1] = 1) <=> (e \in 0 .. i /\ one(e))
    <3>1. CASE e \in 0 .. i
      <4>1. i - e = n - 1 /\ ~(n - 1 < 0) /\ ~(e < 0)
        BY <3>1
      <4>. HIDE DEF w
      <4>. QED
        BY <2>5, <3>1, <4>1 DEF Bit
    <3>2. CASE e \notin 0 .. i
      <4>1. e < 0 \/ n - 1 < 0
        BY <3>2
      <4>2. Bit(a, e) = 0 \/ Bit(b, n - 1) = 0
        BY <4>1 DEF Bit
      <4>. HIDE DEF w, one
      <4>. QED
        BY <2>5, <3>2, <4>2
    <3>. QED
      BY <3>1, <3>2
  <2>7. Low(n + 1) = Low(n) \cup {j \in {e} : j \in 0 .. i /\ one(j)}
    <3>1. \A j \in 0 .. i : (i - j) + 2 <= n + 1 <=> (i - j) + 2 <= n \/ j = e
      OBVIOUS
    <3>. HIDE DEF one, e
    <3>. QED
      BY <3>1
  <2>8. e \notin Low(n)
    OBVIOUS
  <2>9. IsFiniteSet(Low(n + 1)) /\ Cardinality(Low(n + 1)) = Cardinality(Low(n)) + w[n + 1]
    <3>1. CASE e \in 0 .. i /\ one(e)
      <4>1. Low(n + 1) = Low(n) \cup {e}
        <5>. HIDE DEF Low, one, e
        <5>. QED
          BY <2>7, <3>1
      <4>2. w[n + 1] = 1
        <5>. HIDE DEF w, one, e
        <5>. QED
          BY <2>6, <3>1
      <4>. HIDE DEF Low, one, e, w
      <4>. QED
        BY <2>1, <2>8, <4>1, <4>2, FS_AddElement
    <3>2. CASE ~(e \in 0 .. i /\ one(e))
      <4>1. Low(n + 1) = Low(n)
        <5>. HIDE DEF Low, one, e
        <5>. QED
          BY <2>7, <3>2
      <4>2. w[n + 1] = 0
        <5>. HIDE DEF w, one, e
        <5>. QED
          BY <2>5, <2>6, <3>2
      <4>. HIDE DEF Low, one, e, w
      <4>. QED
        BY <2>1, <2>3, <4>1, <4>2
    <3>. QED
      BY <3>1, <3>2
  <2>. HIDE DEF Low, w
  <2>. QED
    BY <2>1, <2>2, <2>4, <2>9
<1>3. Low(132) = {j \in 0 .. i : one(j)}
  <2>1. \A j \in 0 .. i : (i - j) + 2 <= 132
    OBVIOUS
  <2>. HIDE DEF one
  <2>. QED
    BY <2>1
<1>4. Ones(a, b, i) = Cardinality({j \in 0 .. i : one(j)})
  BY DEF Ones
<1>. HIDE DEF P
<1>5. 132 \in P
  <2>1. \A n \in 0 .. 132 : n \in P
    BY <1>1, <1>2, 132 \in Nat, UpTo
  <2>. QED
    BY <2>1
<1>6. Cardinality(Low(132)) = SumTo(w, 132)
  BY <1>5 DEF P
<1>. HIDE DEF Low, w, one
<1>. QED
  BY <1>3, <1>4, <1>6 DEF w

LEMMA OnesAreInt ==
  ASSUME NEW a \in Factor, NEW b \in Factor, NEW i \in 0 .. 129
  PROVE  Ones(a, b, i) \in Int
<1>1. IsFiniteSet({j \in 0 .. i : Extended(a, j) = 1 /\ Extended(b, i - j) = 1})
  <2>1. IsFiniteSet(0 .. i)
    BY FS_Interval
  <2>2. {j \in 0 .. i : Extended(a, j) = 1 /\ Extended(b, i - j) = 1} \subseteq 0 .. i
    OBVIOUS
  <2>. QED
    BY <2>1, <2>2, FS_Subset, Zenon
<1>2. Ones(a, b, i) \in Nat
  BY <1>1, FS_CardinalityType DEF Ones
<1>. QED
  BY <1>2

\* The digits, each at the place of its number and one.
SelectedAt(a, b, i) == [k \in 1 .. 33 |-> Selected(a, b, k - 1, i)]
DebtAt(a, b, i) == [k \in 1 .. 33 |-> Debt(a, b, k - 1, i)]

LEMMA DigitValues ==
  ASSUME NEW a \in Factor, NEW b \in Factor, NEW d \in 0 .. 32, NEW i \in 0 .. 130
  PROVE  /\ SelectedAt(a, b, i)[d + 1] = Selected(a, b, d, i)
         /\ DebtAt(a, b, i)[d + 1] = Debt(a, b, d, i)
<1>1. d + 1 \in 1 .. 33 /\ (d + 1) - 1 = d
  OBVIOUS
<1>. QED
  BY <1>1 DEF SelectedAt, DebtAt

LEMMA RestType ==
  ASSUME NEW a \in Factor, NEW i \in 0 .. 130
  PROVE  Rest(a, i) \in Int
<1>1. CASE i \in 0 .. 129
  BY <1>1, RestStep
<1>2. CASE i = 130
  <2>1. Rest(a, 129) \in Int /\ Rest(a, 129 + 1) = Rest(a, 129) + Bit(a, 129 - 63)
    BY RestStep
  <2>2. Bit(a, 129 - 63) \in Int
    BY 129 - 63 \in Int, BitIsBit
  <2>. QED
    BY <1>2, <2>1, <2>2
<1>. QED
  BY <1>1, <1>2

LEMMA DigitTypes ==
  ASSUME NEW a \in Factor, NEW b \in Factor, NEW d \in 0 .. 32, NEW i \in 0 .. 130
  PROVE  Selected(a, b, d, i) \in Int /\ Debt(a, b, d, i) \in Int
<1>1. /\ OnceOf(b, d) \in -1 .. 1 /\ TwiceOf(b, d) \in -1 .. 1
  BY DigitIs
<1>2. /\ Bit(a, (i + 1) - 2 * d) \in {0, 1} /\ Bit(a, i - 2 * d) \in {0, 1}
      /\ Bit(a, i - 1 - 2 * d) \in {0, 1} /\ Bit(b, 2 * d) \in {0, 1}
  <2>1. (i + 1) - 2 * d \in Int /\ i - 2 * d \in Int /\ i - 1 - 2 * d \in Int /\ 2 * d \in Int
    OBVIOUS
  <2>. QED
    BY <2>1, BitIsBit
<1>3. Rest(a, i) \in Int
  BY RestType
<1>4. ASSUME NEW x \in Int, NEW y \in Int PROVE x * y \in Int /\ x + y \in Int
  OBVIOUS
<1>5. /\ OnceOf(b, d) \in Int /\ TwiceOf(b, d) \in Int /\ Bit(a, (i + 1) - 2 * d) \in Int
      /\ Bit(a, i - 2 * d) \in Int /\ Bit(a, i - 1 - 2 * d) \in Int /\ Bit(b, 2 * d) \in Int
  BY <1>1, <1>2
<1>6. Selected(a, b, d, i) \in Int
  BY <1>4, <1>5 DEF Selected
<1>7. Debt(a, b, d, i) \in Int
  <2>1. /\ TwiceOf(b, d) * Bit(a, i - 2 * d) \in Int
        /\ Bit(b, 2 * d) * (Bit(a, i - 2 * d) + Bit(a, i - 1 - 2 * d)) \in Int
        /\ Bit(b, 2 * d) * Rest(a, i) \in Int
    BY ONLY <1>3, <1>4, <1>5
  <2>. QED
    BY <1>4, <2>1 DEF Debt
<1>. QED
  BY <1>6, <1>7

\* A digit in a column: what it selects, and what it owes less and more.
LEMMA DigitStep ==
  ASSUME NEW e \in -1 .. 1, NEW t \in -1 .. 1, NEW b2 \in {0, 1}, NEW b1 \in {0, 1}, NEW b0 \in {0, 1},
         e + 2 * t = b1 + b0 - 2 * b2,
         NEW up \in {0, 1}, NEW at \in {0, 1}, NEW down \in {0, 1}
  PROVE  (e * up + t * at) + 2 * (t * up + b2 * (up + at)) + b2 * down
           = (t * at + b2 * (at + down)) + b1 * up + b2 * at + b0 * up
<1>1. e * up + 2 * (t * up) + 2 * (b2 * up) = b1 * up + b0 * up
  <2>1. CASE up = 0
    BY <2>1
  <2>2. CASE up = 1
    BY <2>2
  <2>. QED
    BY <2>1, <2>2
<1>2. b2 * (up + at) = b2 * up + b2 * at /\ b2 * (at + down) = b2 * at + b2 * down
  OBVIOUS
<1>. DEFINE eu == e * up
            tu == t * up
            ta == t * at
            b2u == b2 * up
            b2a == b2 * at
            b2d == b2 * down
            b1u == b1 * up
            b0u == b0 * up
<1>3. eu \in Int /\ tu \in Int /\ ta \in Int /\ b2u \in Int /\ b2a \in Int /\ b2d \in Int
      /\ b1u \in Int /\ b0u \in Int
  OBVIOUS
<1>4. eu + 2 * tu + 2 * b2u = b1u + b0u
  BY <1>1
<1>5. (eu + ta) + 2 * (tu + (b2u + b2a)) + b2d = (ta + (b2a + b2d)) + b1u + b2a + b0u
  <2>. HIDE DEF eu, tu, ta, b2u, b2a, b2d, b1u, b0u
  <2>. QED
    BY ONLY <1>3, <1>4
<1>. QED
  BY <1>2, <1>5

LEMMA LastDigitStep ==
  ASSUME NEW e \in -1 .. 1, NEW t \in -1 .. 1, NEW b2 \in {0, 1}, NEW b1 \in {0, 1}, NEW b0 \in {0, 1},
         e + 2 * t = b1 + b0 - 2 * b2,
         NEW up \in {0, 1}, NEW at \in {0, 1}, NEW rest \in Int
  PROVE  (e * up + t * at) + 2 * (t * up + b2 * (rest + up))
           = (t * at + b2 * rest) + b1 * up + b2 * rest + b0 * up
<1>1. CASE up = 0
  <2>1. CASE b2 = 0
    BY <1>1, <2>1
  <2>2. CASE b2 = 1
    BY <1>1, <2>2
  <2>. QED
    BY <2>1, <2>2
<1>2. CASE up = 1
  <2>1. CASE b2 = 0
    BY <1>2, <2>1
  <2>2. CASE b2 = 1
    BY <1>2, <2>2
  <2>. QED
    BY <2>1, <2>2
<1>. QED
  BY <1>1, <1>2

\* Digits 0 to 31: what they select and what they owe, below and above.
LEMMA LowDigits ==
  ASSUME NEW a \in Factor, NEW b \in Factor, NEW i \in 0 .. 129
  PROVE  SumTo(SelectedAt(a, b, i), 32) + 2 * SumTo(DebtAt(a, b, i + 1), 32)
           + Bit(b, 62) * Bit(a, i - 63)
         = SumTo(DebtAt(a, b, i), 32) + SumTo(ProductBits(a, b, i), 64)
<1>. DEFINE s == SelectedAt(a, b, i)
            above == DebtAt(a, b, i + 1)
            below == DebtAt(a, b, i)
            w == ProductBits(a, b, i)
            carried(n) == Bit(b, 2 * n - 2) * Bit(a, (i + 1) - 2 * n)
            Claim(n) == SumTo(s, n) + 2 * SumTo(above, n) + carried(n) = SumTo(below, n) + SumTo(w, 2 * n)
            P == {n \in 0 .. 32 : Claim(n)}
<1>0. i \in 0 .. 130 /\ i + 1 \in 0 .. 130
  OBVIOUS
<1>1. ASSUME NEW k \in 1 .. 33 PROVE s[k] \in Int /\ above[k] \in Int /\ below[k] \in Int
  <2>1. k - 1 \in 0 .. 32 /\ (k - 1) + 1 = k
    OBVIOUS
  <2>2. /\ s[(k - 1) + 1] = Selected(a, b, k - 1, i)
        /\ below[(k - 1) + 1] = Debt(a, b, k - 1, i)
        /\ above[(k - 1) + 1] = Debt(a, b, k - 1, i + 1)
    BY <1>0, <2>1, DigitValues, Zenon
  <2>3. Selected(a, b, k - 1, i) \in Int /\ Debt(a, b, k - 1, i) \in Int /\ Debt(a, b, k - 1, i + 1) \in Int
    BY <1>0, <2>1, DigitTypes, Zenon
  <2>. QED
    BY <2>1, <2>2, <2>3
<1>2. ASSUME NEW k \in 1 .. 132
      PROVE  w[k] \in Int
  <2>1. w[k] \in {0, 1}
    BY OnesBits, Zenon
  <2>. QED
    BY <2>1
<1>3. \A n \in 0 .. 33 : SumTo(s, n) \in Int /\ SumTo(above, n) \in Int /\ SumTo(below, n) \in Int
  <2>1. /\ \A k \in 1 .. 33 : s[k] \in Int
        /\ \A k \in 1 .. 33 : above[k] \in Int
        /\ \A k \in 1 .. 33 : below[k] \in Int
    BY <1>1
  <2>. HIDE DEF s, above, below
  <2>. QED
    BY <2>1, 33 \in Nat, SumType
<1>4. \A n \in 0 .. 132 : SumTo(w, n) \in Int
  <2>1. \A k \in 1 .. 132 : w[k] \in Int
    BY <1>2
  <2>. HIDE DEF w
  <2>. QED
    BY <2>1, 132 \in Nat, SumType
<1>5. Claim(0)
  <2>1. carried(0) = 0
    <3>1. Bit(b, 2 * 0 - 2) = 0
      BY DEF Bit
    <3>2. Bit(a, (i + 1) - 2 * 0) \in {0, 1}
      BY (i + 1) - 2 * 0 \in Int, BitIsBit
    <3>. QED
      BY <3>1, <3>2
  <2>2. 2 * 0 = 0
    OBVIOUS
  <2>. HIDE DEF carried, s, above, below, w
  <2>. QED
    BY <2>1, <2>2, SumZero
<1>6. ASSUME NEW n \in 0 .. 31, Claim(n) PROVE Claim(n + 1)
  <2>. DEFINE e == OnceOf(b, n)
              t == TwiceOf(b, n)
              b2 == Bit(b, 2 * n)
              b1 == Bit(b, 2 * n - 1)
              b0 == Bit(b, 2 * n - 2)
              up == Bit(a, (i + 1) - 2 * n)
              at == Bit(a, i - 2 * n)
              down == Bit(a, i - 1 - 2 * n)
  <2>0. n \in 0 .. 32 /\ n + 1 \in 0 .. 33 /\ n \in 0 .. 33 /\ n \in Nat /\ 2 * n \in Nat /\ (2 * n) + 1 \in Nat /\ n < 32
        /\ 2 * n \in 0 .. 132 /\ (2 * n) + 1 \in 1 .. 132 /\ (2 * n) + 2 \in 1 .. 132 /\ ((2 * n) + 1) + 1 = (2 * n) + 2
        /\ 2 * (n + 1) = (2 * n) + 2 /\ 2 * (n + 1) - 2 = 2 * n /\ (i + 1) - 2 * (n + 1) = i - 1 - 2 * n
        /\ ((2 * n) + 1) - 2 = 2 * n - 1 /\ ((2 * n) + 2) - 2 = 2 * n
        /\ (i + 2) - ((2 * n) + 1) = (i + 1) - 2 * n /\ (i + 2) - ((2 * n) + 2) = i - 2 * n
        /\ (i + 1) - 1 - 2 * n = i - 2 * n
    OBVIOUS
  <2>1. /\ e \in -1 .. 1 /\ t \in -1 .. 1 /\ e + 2 * t = b1 + b0 - 2 * b2
    BY <2>0, DigitIs, Zenon
  <2>2. b2 \in {0, 1} /\ b1 \in {0, 1} /\ b0 \in {0, 1} /\ up \in {0, 1} /\ at \in {0, 1} /\ down \in {0, 1}
    <3>1. 2 * n - 1 \in Int /\ 2 * n - 2 \in Int /\ 2 * n \in Int /\ (i + 1) - 2 * n \in Int
          /\ i - 2 * n \in Int /\ i - 1 - 2 * n \in Int
      OBVIOUS
    <3>. QED
      BY <3>1, BitIsBit, Zenon
  <2>3. /\ s[n + 1] = e * up + t * at
        /\ above[n + 1] = t * up + b2 * (up + at)
        /\ below[n + 1] = t * at + b2 * (at + down)
    <3>1. /\ s[n + 1] = Selected(a, b, n, i) /\ below[n + 1] = Debt(a, b, n, i)
          /\ above[n + 1] = Debt(a, b, n, i + 1)
      BY <1>0, <2>0, DigitValues, Zenon
    <3>2. Selected(a, b, n, i) = e * up + t * at
      BY DEF Selected
    <3>3. Debt(a, b, n, i) = t * at + b2 * (at + down)
      BY <2>0 DEF Debt
    <3>4. Debt(a, b, n, i + 1) = t * up + b2 * (up + at)
      BY <2>0 DEF Debt
    <3>. QED
      BY <3>1, <3>2, <3>3, <3>4, Zenon
  <2>4. w[(2 * n) + 1] = b1 * up /\ w[(2 * n) + 2] = b2 * at
    <3>1. /\ w[(2 * n) + 1] = Bit(b, ((2 * n) + 1) - 2) * Bit(a, (i + 2) - ((2 * n) + 1))
          /\ w[(2 * n) + 2] = Bit(b, ((2 * n) + 2) - 2) * Bit(a, (i + 2) - ((2 * n) + 2))
      BY <2>0, OnesBits, Zenon
    <3>. QED
      BY <2>0, <3>1, Zenon
  <2>5. carried(n) = b0 * up /\ carried(n + 1) = b2 * down
    BY <2>0, Zenon
  <2>. HIDE DEF e, t, b2, b1, b0, up, at, down, s, above, below, w, carried
  <2>6. /\ SumTo(s, n + 1) = SumTo(s, n) + s[n + 1]
        /\ SumTo(above, n + 1) = SumTo(above, n) + above[n + 1]
        /\ SumTo(below, n + 1) = SumTo(below, n) + below[n + 1]
        /\ SumTo(w, (2 * n) + 1) = SumTo(w, 2 * n) + w[(2 * n) + 1]
        /\ SumTo(w, ((2 * n) + 1) + 1) = SumTo(w, (2 * n) + 1) + w[((2 * n) + 1) + 1]
    BY <2>0, SumStep, Zenon
  <2>7. (e * up + t * at) + 2 * (t * up + b2 * (up + at)) + b2 * down
           = (t * at + b2 * (at + down)) + b1 * up + b2 * at + b0 * up
    BY <2>1, <2>2, DigitStep
  <2>. DEFINE s1 == e * up + t * at
              a1 == t * up + b2 * (up + at)
              d1 == t * at + b2 * (at + down)
              w1 == b1 * up
              w2 == b2 * at
              c0 == b0 * up
              c1 == b2 * down
  <2>8. s1 \in Int /\ a1 \in Int /\ d1 \in Int /\ w1 \in Int /\ w2 \in Int /\ c0 \in Int /\ c1 \in Int
    <3>1. ASSUME NEW x \in Int, NEW y \in Int PROVE x * y \in Int /\ x + y \in Int
      OBVIOUS
    <3>2. e \in Int /\ t \in Int /\ b2 \in Int /\ b1 \in Int /\ b0 \in Int /\ up \in Int /\ at \in Int /\ down \in Int
      BY <2>1, <2>2
    <3>. QED
      BY ONLY <3>1, <3>2
  <2>9. s1 + 2 * a1 + c1 = d1 + w1 + w2 + c0
    BY <2>7
  <2>10. /\ SumTo(s, n + 1) = SumTo(s, n) + s1
         /\ SumTo(above, n + 1) = SumTo(above, n) + a1
         /\ SumTo(below, n + 1) = SumTo(below, n) + d1
         /\ SumTo(w, (2 * n) + 1) = SumTo(w, 2 * n) + w1
         /\ SumTo(w, (2 * n) + 2) = SumTo(w, (2 * n) + 1) + w2
    BY <2>0, <2>3, <2>4, <2>6
  <2>11. SumTo(s, n) + 2 * SumTo(above, n) + c0 = SumTo(below, n) + SumTo(w, 2 * n)
    BY <1>6, <2>5
  <2>12. SumTo(s, n) \in Int /\ SumTo(above, n) \in Int /\ SumTo(below, n) \in Int /\ SumTo(w, 2 * n) \in Int
    BY <1>3, <1>4, <2>0
  <2>. HIDE DEF s1, a1, d1, w1, w2, c0, c1
  <2>13. SumTo(s, n + 1) + 2 * SumTo(above, n + 1) + c1 = SumTo(below, n + 1) + SumTo(w, (2 * n) + 2)
    BY ONLY <2>8, <2>9, <2>10, <2>11, <2>12
  <2>14. carried(n + 1) = c1 /\ 2 * (n + 1) = (2 * n) + 2
    BY <2>0, <2>5 DEF c1
  <2>. QED
    BY <2>13, <2>14
<1>7. Claim(32)
  <2>. HIDE DEF Claim
  <2>1. 0 \in P
    BY <1>5
  <2>2. \A n \in 0 .. 32 - 1 : n \in P => n + 1 \in P
    BY <1>6
  <2>. HIDE DEF P
  <2>3. \A n \in 0 .. 32 : n \in P
    BY <2>1, <2>2, 32 \in Nat, UpTo
  <2>. QED
    BY <2>3 DEF P
<1>8. 2 * 32 = 64 /\ 2 * 32 - 2 = 62 /\ (i + 1) - 2 * 32 = i - 63
  OBVIOUS
<1>9. carried(32) = Bit(b, 62) * Bit(a, i - 63)
  BY <1>8
<1>. HIDE DEF s, above, below, w, carried
<1>. QED
  BY <1>7, <1>8, <1>9 DEF s, above, below, w

\* A column: what the digits select in it is the column of the product and
\* what they owe there, without twice what they owe above.
LEMMA ColumnOfDigits ==
  ASSUME NEW a \in Factor, NEW b \in Factor, NEW i \in 0 .. 129
  PROVE  SumTo(SelectedAt(a, b, i), 33) + 2 * SumTo(DebtAt(a, b, i + 1), 33)
         = SumTo(DebtAt(a, b, i), 33) + Ones(a, b, i)
<1>. DEFINE s == SelectedAt(a, b, i)
            above == DebtAt(a, b, i + 1)
            below == DebtAt(a, b, i)
            w == ProductBits(a, b, i)
            h == [k \in 1 .. 67 |-> Bit(a, i - 63 - k)]
            tail == [k \in 1 .. 67 |-> w[65 + k]]
            e == OnceOf(b, 32)
            t == TwiceOf(b, 32)
            b2 == Bit(b, 64)
            b1 == Bit(b, 63)
            b0 == Bit(b, 62)
            up == Bit(a, i - 63)
            at == Bit(a, i - 64)
            rest == Rest(a, i)
<1>0. i \in 0 .. 130 /\ i + 1 \in 0 .. 130
  OBVIOUS
<1>1. /\ 2 * 32 = 64 /\ 2 * 32 - 1 = 63 /\ 2 * 32 - 2 = 62 /\ 32 \in 0 .. 32 /\ ~(32 < 32) /\ 32 \in Nat
      /\ (i + 1) - 2 * 32 = i - 63 /\ i - 2 * 32 = i - 64 /\ (i + 1) - 64 = i - 63
      /\ i \in 0 .. 130 /\ i + 1 \in 0 .. 130
      /\ i - 63 \in Int /\ i - 64 \in Int /\ 64 \in Int /\ 63 \in Int /\ 62 \in Int
  OBVIOUS
<1>2. e \in -1 .. 1 /\ t \in -1 .. 1 /\ e + 2 * t = b1 + b0 - 2 * b2
  <2>1. /\ OnceOf(b, 32) \in -1 .. 1 /\ TwiceOf(b, 32) \in -1 .. 1
        /\ OnceOf(b, 32) + 2 * TwiceOf(b, 32) = Bit(b, 2 * 32 - 1) + Bit(b, 2 * 32 - 2) - 2 * Bit(b, 2 * 32)
    BY 32 \in 0 .. 32, DigitIs
  <2>. QED
    BY <1>1, <2>1
<1>3. b2 \in {0, 1} /\ b1 \in {0, 1} /\ b0 \in {0, 1} /\ up \in {0, 1} /\ at \in {0, 1}
  BY <1>1, BitIsBit
<1>4. rest \in Int /\ Rest(a, i + 1) = rest + up
  BY RestStep
<1>5. /\ s[33] = e * up + t * at
      /\ above[33] = t * up + b2 * (rest + up)
      /\ below[33] = t * at + b2 * rest
  <2>1. /\ s[32 + 1] = Selected(a, b, 32, i) /\ below[32 + 1] = Debt(a, b, 32, i)
        /\ above[32 + 1] = Debt(a, b, 32, i + 1)
    <3>. DEFINE d == 32
    <3>1. d \in 0 .. 32
      OBVIOUS
    <3>. HIDE DEF d
    <3>2. /\ SelectedAt(a, b, i)[d + 1] = Selected(a, b, d, i) /\ DebtAt(a, b, i)[d + 1] = Debt(a, b, d, i)
          /\ DebtAt(a, b, i + 1)[d + 1] = Debt(a, b, d, i + 1)
      BY <1>0, <3>1, DigitValues, Zenon
    <3>. QED
      BY <3>2 DEF d
  <2>2. Selected(a, b, 32, i) = e * up + t * at
    BY <1>1 DEF Selected
  <2>3. Debt(a, b, 32, i) = t * at + b2 * rest
    BY <1>1 DEF Debt
  <2>4. Debt(a, b, 32, i + 1) = t * up + b2 * (rest + up)
    BY <1>1, <1>4 DEF Debt
  <2>5. 32 + 1 = 33
    OBVIOUS
  <2>. HIDE DEF s, above, below, e, t, b2, up, at, rest
  <2>. QED
    BY <2>1, <2>2, <2>3, <2>4, <2>5
<1>6. \A k \in 1 .. 132 : w[k] \in {0, 1} /\ w[k] = Bit(b, k - 2) * Bit(a, (i + 2) - k)
  BY OnesBits, Zenon
<1>7. w[65] = b1 * up
  <2>1. w[65] = Bit(b, 65 - 2) * Bit(a, (i + 2) - 65)
    <3>. HIDE DEF w
    <3>. QED
      BY <1>6
  <2>2. 65 - 2 = 63 /\ (i + 2) - 65 = i - 63
    OBVIOUS
  <2>. QED
    BY <2>1, <2>2
<1>8. SumTo(w, 132) = SumTo(w, 65) + b2 * rest
  <2>1. ASSUME NEW k \in 1 .. 67 PROVE tail[k] = b2 * h[k] /\ h[k] \in {0, 1} /\ tail[k] = w[65 + k]
    <3>1. /\ 65 + k \in 1 .. 132 /\ (65 + k) - 2 = 63 + k /\ (i + 2) - (65 + k) = i - 63 - k
          /\ ~(63 + k < 0) /\ 63 + k >= 64 /\ i - 63 - k \in Int
      OBVIOUS
    <3>2. tail[k] = w[65 + k] /\ h[k] = Bit(a, i - 63 - k)
      OBVIOUS
    <3>3. w[65 + k] = Bit(b, (65 + k) - 2) * Bit(a, (i + 2) - (65 + k))
      BY <1>6, <3>1, Zenon
    <3>4. Bit(b, 63 + k) = b2
      BY <3>1 DEF Bit, Extended, LEN
    <3>5. Bit(a, i - 63 - k) \in {0, 1}
      BY <3>1, BitIsBit
    <3>. HIDE DEF w, tail, h, b2
    <3>. QED
      BY <3>1, <3>2, <3>3, <3>4, <3>5
  <2>2. SumTo(w, 65 + 67) = SumTo(w, 65) + SumTo(tail, 67)
    <3>1. \A k \in 1 .. 65 + 67 : w[k] \in Int
      <4>. HIDE DEF w
      <4>. QED
        BY <1>6
    <3>2. \A k \in 1 .. 67 : tail[k] = w[65 + k]
      BY <2>1
    <3>. DEFINE m == 65
                n == 67
    <3>3. m \in Nat /\ n \in Nat /\ (\A k \in 1 .. m + n : w[k] \in Int) /\ (\A k \in 1 .. n : tail[k] = w[m + k])
      <4>. HIDE DEF w, tail
      <4>. QED
        BY <3>1, <3>2
    <3>. HIDE DEF w, tail, m, n
    <3>4. SumTo(w, m + n) = SumTo(w, m) + SumTo(tail, n)
      BY <3>3, SumSplit
    <3>. QED
      BY <3>4 DEF m, n
  <2>3. rest = SumTo(h, 67)
    BY DEF Rest
  <2>4. SumTo(tail, 67) = b2 * rest
    <3>. HIDE DEF w, tail, h, rest, b2
    <3>1. CASE b2 = 1
      <4>1. \A k \in 1 .. 67 : tail[k] = h[k]
        BY <2>1, <3>1
      <4>2. SumTo(tail, 67) = SumTo(h, 67)
        BY <4>1, 67 \in Nat, SumSame
      <4>. QED
        BY <1>4, <2>3, <3>1, <4>2
    <3>2. CASE b2 = 0
      <4>1. \A k \in 1 .. 67 : tail[k] = 0
        BY <2>1, <3>2
      <4>2. SumTo(tail, 67) = 0
        BY <4>1, 67 \in Nat, SumNothing
      <4>. QED
        BY <1>4, <3>2, <4>2
    <3>. QED
      BY <1>3, <3>1, <3>2
  <2>. HIDE DEF w, tail, h, rest, b2
  <2>. QED
    BY <2>2, <2>4
<1>9. SumTo(s, 32) + 2 * SumTo(above, 32) + b0 * up = SumTo(below, 32) + SumTo(w, 64)
  BY LowDigits
<1>10. Ones(a, b, i) = SumTo(w, 132)
  BY OnesAreSum
<1>11. /\ \A n \in 0 .. 33 : SumTo(s, n) \in Int /\ SumTo(above, n) \in Int /\ SumTo(below, n) \in Int
       /\ SumTo(w, 64) \in Int
  <2>1. ASSUME NEW k \in 1 .. 33 PROVE s[k] \in Int /\ above[k] \in Int /\ below[k] \in Int
    <3>1. k - 1 \in 0 .. 32 /\ (k - 1) + 1 = k
      OBVIOUS
    <3>2. /\ s[(k - 1) + 1] = Selected(a, b, k - 1, i)
          /\ below[(k - 1) + 1] = Debt(a, b, k - 1, i)
          /\ above[(k - 1) + 1] = Debt(a, b, k - 1, i + 1)
      BY <1>0, <3>1, DigitValues, Zenon
    <3>3. Selected(a, b, k - 1, i) \in Int /\ Debt(a, b, k - 1, i) \in Int /\ Debt(a, b, k - 1, i + 1) \in Int
      BY <1>0, <3>1, DigitTypes, Zenon
    <3>. HIDE DEF s, above, below
    <3>. QED
      BY <3>1, <3>2, <3>3
  <2>2. \A k \in 1 .. 132 : w[k] \in Int
    <3>. HIDE DEF w
    <3>. QED
      BY <1>6
  <2>. HIDE DEF s, above, below, w
  <2>3. SumTo(w, 64) \in Int
    BY <2>2, 64 \in 0 .. 132, 132 \in Nat, SumType
  <2>4. (\A k \in 1 .. 33 : s[k] \in Int) /\ (\A k \in 1 .. 33 : above[k] \in Int) /\ (\A k \in 1 .. 33 : below[k] \in Int)
    BY <2>1
  <2>. QED
    BY <2>3, <2>4, 33 \in Nat, SumType
<1>. HIDE DEF s, above, below, w, e, t, b2, b1, b0, up, at, rest
<1>12. /\ SumTo(s, 33) = SumTo(s, 32) + (e * up + t * at)
       /\ SumTo(above, 33) = SumTo(above, 32) + (t * up + b2 * (rest + up))
       /\ SumTo(below, 33) = SumTo(below, 32) + (t * at + b2 * rest)
       /\ SumTo(w, 65) = SumTo(w, 64) + b1 * up
  <2>1. /\ SumTo(s, 32 + 1) = SumTo(s, 32) + s[32 + 1]
        /\ SumTo(above, 32 + 1) = SumTo(above, 32) + above[32 + 1]
        /\ SumTo(below, 32 + 1) = SumTo(below, 32) + below[32 + 1]
        /\ SumTo(w, 64 + 1) = SumTo(w, 64) + w[64 + 1]
    BY 32 \in Nat, 64 \in Nat, SumStep
  <2>2. 32 + 1 = 33 /\ 64 + 1 = 65
    OBVIOUS
  <2>. QED
    BY <1>5, <1>7, <2>1, <2>2
<1>13. (e * up + t * at) + 2 * (t * up + b2 * (rest + up)) = (t * at + b2 * rest) + b1 * up + b2 * rest + b0 * up
  BY <1>2, <1>3, <1>4, LastDigitStep
<1>. DEFINE s1 == e * up + t * at
            a1 == t * up + b2 * (rest + up)
            d1 == t * at + b2 * rest
            w1 == b1 * up
            r1 == b2 * rest
            c1 == b0 * up
<1>14. s1 \in Int /\ a1 \in Int /\ d1 \in Int /\ w1 \in Int /\ r1 \in Int /\ c1 \in Int
  <2>1. ASSUME NEW x \in Int, NEW y \in Int PROVE x * y \in Int /\ x + y \in Int
    OBVIOUS
  <2>2. e \in Int /\ t \in Int /\ b2 \in Int /\ b1 \in Int /\ b0 \in Int /\ up \in Int /\ at \in Int /\ rest \in Int
    BY <1>2, <1>3, <1>4
  <2>. QED
    BY ONLY <2>1, <2>2
<1>15. s1 + 2 * a1 = d1 + w1 + r1 + c1
  BY <1>13
<1>16. /\ SumTo(s, 33) = SumTo(s, 32) + s1 /\ SumTo(above, 33) = SumTo(above, 32) + a1
       /\ SumTo(below, 33) = SumTo(below, 32) + d1 /\ SumTo(w, 132) = (SumTo(w, 64) + w1) + r1
       /\ SumTo(s, 32) + 2 * SumTo(above, 32) + c1 = SumTo(below, 32) + SumTo(w, 64)
  BY <1>8, <1>9, <1>12
<1>17. SumTo(s, 32) \in Int /\ SumTo(above, 32) \in Int /\ SumTo(below, 32) \in Int /\ SumTo(w, 64) \in Int
  BY <1>11
<1>. HIDE DEF s1, a1, d1, w1, r1, c1
<1>18. SumTo(s, 33) + 2 * SumTo(above, 33) = SumTo(below, 33) + SumTo(w, 132)
  <2>1. (SumTo(s, 32) + s1) + 2 * (SumTo(above, 32) + a1) = (SumTo(below, 32) + d1) + ((SumTo(w, 64) + w1) + r1)
    <3>. DEFINE S == SumTo(s, 32)
                A == SumTo(above, 32)
                B == SumTo(below, 32)
                W == SumTo(w, 64)
    <3>1. S \in Int /\ A \in Int /\ B \in Int /\ W \in Int /\ S + 2 * A + c1 = B + W
      BY <1>16, <1>17
    <3>. HIDE DEF S, A, B, W
    <3>2. (S + s1) + 2 * (A + a1) = (B + d1) + ((W + w1) + r1)
      BY <1>14, <1>15, <3>1
    <3>. QED
      BY <3>2 DEF S, A, B, W
  <2>. QED
    BY <1>16, <2>1, Zenon
<1>19. SumTo(s, 33) + 2 * SumTo(above, 33) = SumTo(below, 33) + Ones(a, b, i)
  BY <1>10, <1>18
<1>. QED
  BY <1>19, Zenon DEF s, above, below
-----------------------------------------------------------------------------
(***************************************************************************)
(* The invariant: what the rows still hold, and what the digits owe above, *)
(* is what the product by hand carries and the Carrys of the digits.       *)
(***************************************************************************)
CarryAt(b) == [k \in 1 .. 33 |-> Carry(b, k - 1)]

BoothInvariant ==
  /\ multiplicand \in Factor /\ multiplier \in Factor
  /\ column \in 0 .. 130
  /\ wallaceTreesCarrys \in BitSeq(31) /\ src1 \in {0, 1} /\ adderCarry \in {0, 1}
  /\ productCarry \in Int
  /\ Total(wallaceTreesCarrys) + src1 + adderCarry + SumTo(DebtAt(multiplicand, multiplier, column), 33)
       = SumTo(CarryAt(multiplier), 33) + productCarry
  /\ MultipliesSigned

LEMMA CarryBits ==
  ASSUME NEW b \in Factor
  PROVE  \A k \in 1 .. 33 : CarryAt(b)[k] = Carry(b, k - 1) /\ CarryAt(b)[k] \in {0, 1}
<1>1. SUFFICES ASSUME NEW k \in 1 .. 33
               PROVE  CarryAt(b)[k] = Carry(b, k - 1) /\ CarryAt(b)[k] \in {0, 1}
  OBVIOUS
<1>2. CarryAt(b)[k] = Carry(b, k - 1)
  BY DEF CarryAt
<1>3. k - 1 \in 0 .. 32 /\ 0 \in Nat
  OBVIOUS
<1>4. Carry(b, k - 1) \in {0, 1}
  BY <1>3, SummandValue, Zenon
<1>. QED
  BY <1>2, <1>4

LEMMA SumsOfDigits ==
  ASSUME NEW a \in Factor, NEW b \in Factor, NEW i \in 0 .. 130
  PROVE  /\ SumTo(SelectedAt(a, b, i), 33) \in Int
         /\ SumTo(DebtAt(a, b, i), 33) \in Int
         /\ SumTo(CarryAt(b), 33) \in Int
<1>1. ASSUME NEW k \in 1 .. 33
      PROVE  SelectedAt(a, b, i)[k] \in Int /\ DebtAt(a, b, i)[k] \in Int
  <2>1. k - 1 \in 0 .. 32 /\ (k - 1) + 1 = k
    OBVIOUS
  <2>2. SelectedAt(a, b, i)[(k - 1) + 1] = Selected(a, b, k - 1, i) /\ DebtAt(a, b, i)[(k - 1) + 1] = Debt(a, b, k - 1, i)
    BY <2>1, DigitValues, Zenon
  <2>3. Selected(a, b, k - 1, i) \in Int /\ Debt(a, b, k - 1, i) \in Int
    BY <2>1, DigitTypes, Zenon
  <2>. QED
    BY <2>1, <2>2, <2>3
<1>. DEFINE s == SelectedAt(a, b, i)
            d == DebtAt(a, b, i)
            c == CarryAt(b)
<1>2. /\ \A k \in 1 .. 33 : s[k] \in Int
      /\ \A k \in 1 .. 33 : d[k] \in Int
      /\ \A k \in 1 .. 33 : c[k] \in Int
  BY <1>1, CarryBits
<1>. HIDE DEF s, d, c
<1>3. SumTo(s, 33) \in Int /\ SumTo(d, 33) \in Int /\ SumTo(c, 33) \in Int
  BY <1>2, 33 \in 0 .. 33, 33 \in Nat, SumType
<1>. QED
  BY <1>3 DEF s, d, c

\* The bits that the digits put into a column.
LEMMA InputsAre ==
  ASSUME NEW a \in Factor, NEW b \in Factor, NEW i \in 0 .. 129
  PROVE  /\ wallaceInputs(a, b, i) \in BitSeq(33)
         /\ Total(wallaceInputs(a, b, i)) = SumTo(SelectedAt(a, b, i), 33) + SumTo(CarryAt(b), 33)
<1>. DEFINE f == wallaceInputs(a, b, i)
            s == SelectedAt(a, b, i)
            c == CarryAt(b)
<1>1. ASSUME NEW k \in 1 .. 33
      PROVE  f[k] \in {0, 1} /\ s[k] \in Int /\ c[k] \in Int /\ f[k] = s[k] + c[k]
  <2>1. k - 1 \in 0 .. 32 /\ i \in Nat
    OBVIOUS
  <2>2. f[k] = Summand(a, b, k - 1, i) /\ s[k] = Selected(a, b, k - 1, i) /\ c[k] = Carry(b, k - 1)
    BY DEF wallaceInputs, SelectedAt, CarryAt
  <2>3. /\ Summand(a, b, k - 1, i) \in {0, 1} /\ Carry(b, k - 1) \in {0, 1}
        /\ Selected(a, b, k - 1, i) \in Int
        /\ Summand(a, b, k - 1, i) = Selected(a, b, k - 1, i) + Carry(b, k - 1)
    BY <2>1, SummandValue, Zenon
  <2>. HIDE DEF f, s, c
  <2>. QED
    BY <2>2, <2>3
<1>2. f \in BitSeq(33)
  <2>1. f = [k \in 1 .. 33 |-> f[k]]
    BY DEF wallaceInputs
  <2>2. \A k \in 1 .. 33 : f[k] \in {0, 1}
    BY <1>1
  <2>. HIDE DEF f
  <2>. QED
    BY <2>1, <2>2 DEF BitSeq
<1>3. Total(f) = SumTo(f, 33)
  BY <1>2, BitSeqs
<1>4. SumTo(f, 33) = SumTo(s, 33) + SumTo(c, 33)
  <2>1. \A k \in 1 .. 33 : s[k] \in Int /\ c[k] \in Int /\ f[k] = s[k] + c[k]
    BY <1>1
  <2>. HIDE DEF f, s, c
  <2>. QED
    BY <2>1, 33 \in Nat, SumPlus
<1>. QED
  BY <1>2, <1>3, <1>4

LEMMA BoothStarts == MulInit => BoothInvariant
<1>. SUFFICES ASSUME MulInit PROVE BoothInvariant
  OBVIOUS
<1>. DEFINE a == multiplicand
            b == multiplier
            c == CarryAt(b)
            d == DebtAt(a, b, 0)
<1>1. a \in Factor /\ b \in Factor
  BY FactorsAssumption DEF MulInit
<1>2. \A k \in 1 .. 33 : c[k] = Carry(b, k - 1) /\ c[k] \in {0, 1}
  BY <1>1, CarryBits, Zenon
<1>3. /\ column = 0 /\ wallaceTreesCarrys = [k \in 1 .. 31 |-> Carry(b, k - 1)]
      /\ src1 = Carry(b, 31) /\ adderCarry = Carry(b, 32) /\ answerBit = 0 /\ productCarry = 0 /\ productBit = 0
  BY DEF MulInit
<1>4. SumTo(d, 33) = 0
  <2>1. ASSUME NEW k \in 1 .. 33 PROVE d[k] = 0
    <3>. DEFINE n == k - 1
    <3>1. n \in 0 .. 32 /\ n + 1 = k
      OBVIOUS
    <3>2. d[n + 1] = Debt(a, b, n, 0)
      BY <1>1, <3>1, 0 \in 0 .. 130, DigitValues, Zenon
    <3>3. Debt(a, b, n, 0) = 0
      <4>1. Bit(a, 0 - 1 - 2 * n) = 0
        <5>1. 0 - 1 - 2 * n < 0
          BY <3>1
        <5>. QED
          BY <5>1 DEF Bit
      <4>2. TwiceOf(b, n) \in -1 .. 1
        BY <1>1, <3>1, DigitIs
      <4>3. Bit(b, 2 * n) \in {0, 1} /\ Bit(a, 0 - 2 * n) \in {0, 1}
        <5>1. 2 * n \in Int /\ 0 - 2 * n \in Int
          BY <3>1
        <5>. QED
          BY <1>1, <5>1, BitIsBit
      <4>4. n > 0 => Bit(a, 0 - 2 * n) = 0
        <5>1. n > 0 => 0 - 2 * n < 0
          BY <3>1
        <5>. QED
          BY <5>1 DEF Bit
      <4>5. n = 0 => TwiceOf(b, n) = 0 - Bit(b, 2 * n)
        <5>1. n = 0 => 2 * n - 1 < 0 /\ 2 * n - 2 < 0
          OBVIOUS
        <5>2. n = 0 => Bit(b, 2 * n - 1) = 0 /\ Bit(b, 2 * n - 2) = 0
          BY <5>1 DEF Bit
        <5>. QED
          BY <5>2 DEF TwiceOf, Twice
      <4>6. Rest(a, 0) = 0
        <5>. DEFINE h == [j \in 1 .. 67 |-> Bit(a, 0 - 63 - j)]
        <5>1. \A j \in 1 .. 67 : h[j] = 0
          <6>1. ASSUME NEW j \in 1 .. 67 PROVE h[j] = 0
            <7>1. 0 - 63 - j < 0
              OBVIOUS
            <7>. QED
              BY <7>1 DEF Bit
          <6>. QED
            BY <6>1
        <5>2. Rest(a, 0) = SumTo(h, 67)
          BY DEF Rest
        <5>. HIDE DEF h
        <5>. QED
          BY <5>1, <5>2, 67 \in Nat, SumNothing
      <4>. DEFINE t == TwiceOf(b, n)
                  b2 == Bit(b, 2 * n)
                  at == Bit(a, 0 - 2 * n)
      <4>7. Debt(a, b, n, 0) = IF n < 32 THEN t * at + b2 * (at + 0) ELSE t * at + b2 * 0
        BY <4>1, <4>6 DEF Debt
      <4>8. /\ t \in -1 .. 1 /\ b2 \in {0, 1} /\ at \in {0, 1} /\ (n > 0 => at = 0) /\ (n = 0 => t = 0 - b2)
        BY <4>2, <4>3, <4>4, <4>5
      <4>. HIDE DEF t, b2, at, n
      <4>9. CASE n = 0
        <5>1. Debt(a, b, n, 0) = (0 - b2) * at + b2 * (at + 0)
          BY <4>7, <4>8, <4>9
        <5>. QED
          BY <4>8, <5>1
      <4>10. CASE n # 0
        <5>1. at = 0
          BY <3>1, <4>8, <4>10
        <5>. QED
          BY <4>7, <4>8, <5>1
      <4>. QED
        BY <4>9, <4>10
    <3>. HIDE DEF d, n
    <3>. QED
      BY <3>1, <3>2, <3>3
  <2>2. \A k \in 1 .. 33 : d[k] = 0
    BY <2>1
  <2>. HIDE DEF d
  <2>. QED
    BY <2>2, 33 \in Nat, SumNothing
<1>5. wallaceTreesCarrys \in BitSeq(31) /\ src1 = c[32] /\ adderCarry = c[33]
      /\ \A k \in 1 .. 31 : wallaceTreesCarrys[k] = c[k]
  <2>1. \A k \in 1 .. 33 : Carry(b, k - 1) = c[k] /\ Carry(b, k - 1) \in {0, 1}
    BY <1>2
  <2>. HIDE DEF c, b
  <2>2. Carry(b, 32 - 1) = c[32] /\ Carry(b, 33 - 1) = c[33]
    BY <2>1
  <2>3. \A k \in 1 .. 31 : Carry(b, k - 1) \in {0, 1}
    BY <2>1
  <2>4. wallaceTreesCarrys \in BitSeq(31)
    BY <1>3, <2>3 DEF BitSeq
  <2>5. \A k \in 1 .. 31 : wallaceTreesCarrys[k] = c[k]
    BY <1>3, <2>1
  <2>6. 32 - 1 = 31 /\ 33 - 1 = 32
    OBVIOUS
  <2>. QED
    BY <1>3, <2>2, <2>4, <2>5, <2>6
<1>. HIDE DEF c
<1>6. Total(wallaceTreesCarrys) = SumTo(c, 31)
  <2>1. Total(wallaceTreesCarrys) = SumTo(wallaceTreesCarrys, 31)
    BY <1>5, BitSeqs
  <2>2. SumTo(wallaceTreesCarrys, 31) = SumTo(c, 31)
    BY <1>5, 31 \in Nat, SumSame
  <2>. QED
    BY <2>1, <2>2
<1>7. SumTo(c, 33) = (SumTo(c, 31) + c[32]) + c[33] /\ SumTo(c, 31) \in Int
  <2>1. SumTo(c, 31 + 1) = SumTo(c, 31) + c[31 + 1] /\ SumTo(c, 32 + 1) = SumTo(c, 32) + c[32 + 1]
    BY 31 \in Nat, 32 \in Nat, SumStep
  <2>2. \A k \in 1 .. 33 : c[k] \in Int
    BY <1>2
  <2>3. SumTo(c, 31) \in Int
    BY <2>2, 31 \in 0 .. 33, 33 \in Nat, SumType
  <2>4. 31 + 1 = 32 /\ 32 + 1 = 33
    OBVIOUS
  <2>. QED
    BY <2>1, <2>3, <2>4
<1>8. c[32] \in {0, 1} /\ c[33] \in {0, 1}
  BY <1>2
<1>. HIDE DEF d
<1>9. Total(wallaceTreesCarrys) + src1 + adderCarry + SumTo(d, 33) = SumTo(c, 33) + productCarry
  BY <1>3, <1>4, <1>5, <1>6, <1>7, <1>8
<1>10. Total(wallaceTreesCarrys) + src1 + adderCarry + SumTo(DebtAt(multiplicand, multiplier, column), 33)
         = SumTo(CarryAt(multiplier), 33) + productCarry
  BY <1>3, <1>9 DEF c, d
<1>. QED
  BY <1>1, <1>3, <1>5, <1>8, <1>10 DEF BoothInvariant, MultipliesSigned

\* Two numbers that differ by an even number have the same last bit, and
\* their halves differ by its half.
LEMMA SameParity ==
  ASSUME NEW x \in Int, NEW y \in Int, NEW z \in Int, x = y + 2 * z
  PROVE  x % 2 = y % 2 /\ x \div 2 = (y \div 2) + z
OBVIOUS

LEMMA BoothSteps == BoothInvariant /\ [NextColumn]_mulVars => BoothInvariant'
<1>. SUFFICES ASSUME BoothInvariant, [NextColumn]_mulVars PROVE BoothInvariant'
  OBVIOUS
<1>1. CASE UNCHANGED mulVars
  BY <1>1, Zenon DEF BoothInvariant, MultipliesSigned, mulVars, Total, DebtAt, CarryAt, Debt
<1>2. CASE NextColumn
  <2>. DEFINE a == multiplicand
              b == multiplier
              i == column
              inputs == wallaceInputs(a, b, i)
              tree == WallaceTree(inputs, wallaceTreesCarrys)
              s == SumTo(SelectedAt(a, b, i), 33)
              c == SumTo(CarryAt(b), 33)
              below == SumTo(DebtAt(a, b, i), 33)
              above == SumTo(DebtAt(a, b, i + 1), 33)
              ones == Ones(a, b, i)
              held == Total(wallaceTreesCarrys)
              total == src1 + tree.output + adderCarry
              byHand == ones + productCarry
  <2>1. /\ a \in Factor /\ b \in Factor /\ i \in 0 .. 129 /\ i \in 0 .. 130 /\ i + 1 \in 0 .. 130
        /\ wallaceTreesCarrys \in BitSeq(31) /\ src1 \in {0, 1} /\ adderCarry \in {0, 1} /\ productCarry \in Int
        /\ held + src1 + adderCarry + below = c + productCarry
    BY <1>2 DEF BoothInvariant, NextColumn, LEN
  <2>2. /\ column' = i + 1 /\ a' = a /\ b' = b
        /\ wallaceTreesCarrys' = tree.carrysOut /\ src1' = tree.carryOut
        /\ answerBit' = total % 2 /\ adderCarry' = total \div 2
        /\ productBit' = byHand % 2 /\ productCarry' = byHand \div 2
    BY <1>2, Zenon DEF NextColumn
  <2>3. inputs \in BitSeq(33) /\ Total(inputs) = s + c
    BY <2>1, InputsAre, Zenon
  <2>4. /\ tree.output \in {0, 1} /\ tree.carryOut \in {0, 1} /\ tree.carrysOut \in BitSeq(31)
        /\ Total(inputs) + held = tree.output + 2 * (Total(tree.carrysOut) + tree.carryOut)
    <3>. HIDE DEF inputs
    <3>. QED
      BY <2>1, <2>3, TreeAdds, Zenon
  <2>5. s + 2 * above = below + ones
    BY <2>1, ColumnOfDigits, Zenon
  <2>6. s \in Int /\ c \in Int /\ below \in Int /\ above \in Int
    BY <2>1, SumsOfDigits, Zenon
  <2>7. held \in Int /\ Total(tree.carrysOut) \in Int
    <3>1. ASSUME NEW v \in BitSeq(31) PROVE Total(v) \in Int
      <4>1. \A k \in 1 .. 31 : v[k] \in Int
        BY DEF BitSeq
      <4>2. SumTo(v, 31) \in Int
        BY <4>1, 31 \in 0 .. 31, 31 \in Nat, SumType
      <4>. QED
        BY <4>2, BitSeqs
    <3>. HIDE DEF tree
    <3>. QED
      BY <2>1, <2>4, <3>1, Zenon
  <2>. DEFINE out == tree.output
              up == Total(tree.carrysOut)
              cout == tree.carryOut
  <2>8. /\ out \in {0, 1} /\ cout \in {0, 1} /\ up \in Int
        /\ (s + c) + held = out + 2 * (up + cout) /\ total = src1 + out + adderCarry
    BY <2>3, <2>4, <2>7, Zenon
  <2>. HIDE DEF a, b, i, inputs, tree, s, c, below, above, ones, held, out, up, cout
  <2>9. ones \in Int
    BY <2>5, <2>6, SumsOfDigits, OnesAreInt, <2>1 DEF ones
  <2>10. byHand = total + 2 * ((up + cout + above) - c)
    BY <2>1, <2>5, <2>6, <2>7, <2>8, <2>9
  <2>11. total \in 0 .. 3 /\ byHand \in Int
    BY <2>1, <2>8, <2>9
  <2>. HIDE DEF total, byHand
  <2>12. byHand % 2 = total % 2 /\ byHand \div 2 = (total \div 2) + ((up + cout + above) - c)
    <3>1. (up + cout + above) - c \in Int /\ total \in Int
      BY <2>6, <2>8, <2>11
    <3>. QED
      BY <2>10, <2>11, <3>1, SameParity
  <2>13. total \div 2 \in {0, 1}
    BY <2>11
  <2>14. (up + cout + (total \div 2)) + above = c + (byHand \div 2) /\ byHand \div 2 \in Int
    BY <2>6, <2>8, <2>12, <2>13
  <2>15. /\ multiplicand' \in Factor /\ multiplier' \in Factor /\ column' \in 0 .. 130
         /\ wallaceTreesCarrys' \in BitSeq(31) /\ src1' \in {0, 1} /\ adderCarry' \in {0, 1}
         /\ productCarry' \in Int
    BY <2>1, <2>2, <2>4, <2>13, <2>14 DEF a, b
  <2>16. Total(wallaceTreesCarrys') + src1' + adderCarry' + SumTo(DebtAt(multiplicand', multiplier', column'), 33)
           = SumTo(CarryAt(multiplier'), 33) + productCarry'
    <3>1. /\ Total(wallaceTreesCarrys') = up /\ src1' = cout /\ adderCarry' = total \div 2
          /\ SumTo(DebtAt(multiplicand', multiplier', column'), 33) = above
          /\ SumTo(CarryAt(multiplier'), 33) = c /\ productCarry' = byHand \div 2
      BY <2>2, Zenon DEF up, cout, above, c, a, b
    <3>2. up + cout + (total \div 2) + above = c + (byHand \div 2)
      BY <2>14
    <3>. QED
      BY <3>1, <3>2, Zenon
  <2>17. answerBit' = productBit'
    BY <2>2, <2>12
  <2>. QED
    BY <2>15, <2>16, <2>17, Zenon DEF BoothInvariant, MultipliesSigned, Total, DebtAt, CarryAt, Debt
<1>. QED
  BY <1>1, <1>2

\* The bits of the answer are those of the product of the signed operands,
\* whatever the operands are (Mul.scala).
THEOREM Multiplies == MulSpec => []MultipliesSigned
<1>1. BoothInvariant => MultipliesSigned
  BY DEF BoothInvariant
<1>. QED
  BY <1>1, BoothStarts, BoothSteps, PTL DEF MulSpec
=============================================================================
