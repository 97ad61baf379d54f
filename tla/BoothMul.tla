------------------------------ MODULE BoothMul ------------------------------
(***************************************************************************)
(* utils/execute/Mul.scala: a multiplier of two 65-bit integers.  Booth    *)
(* digits of the multiplier select 33 summands, which a tree of carry-save *)
(* adders reduces column by column to two rows.  MulDiv does not use it.   *)
(*                                                                         *)
(* Numbers are functions from bit positions to bits.                       *)
(***************************************************************************)
EXTENDS Integers, Sequences, FiniteSets

CONSTANT Factors   \* the operands that are multiplied

LEN == 65
Factor == [0 .. LEN - 1 -> {0, 1}]
ASSUME FactorsAssumption == Factors \subseteq Factor

VARIABLES
  multiplicand, multiplier,
  column,                  \* the columns below this one are done
  wallaceTreesCarrys,      \* what this column gets from the tree below
  src1,                    \* this column of the first of the two rows
  adderCarry, answerBit,   \* the addition of the rows, and its last bit
  productCarry, productBit \* history: multiplication by hand

mulVars == <<multiplicand, multiplier, column, wallaceTreesCarrys, src1,
             adderCarry, answerBit, productCarry, productBit>>

Xor(a, b) == (a + b) % 2
-----------------------------------------------------------------------------
\* GenPartSummands: the operands with the zeros below them, and the sign.
multiplicandBit(a, k) ==
  IF k < LEN - 1 THEN 0 ELSE IF k < 2 * LEN - 1 THEN a[k - (LEN - 1)] ELSE a[LEN - 1]
multiplierBit(b, k) == IF k < 2 THEN 0 ELSE b[k - 2]

Booth(b, d) == [j \in 0 .. 2 |-> multiplierBit(b, 2 * d + j)]

\* GenPartSummand: bit i of the summand of a digit; src starts at pos.
Summand(a, b, d, i) ==
  LET booth == Booth(b, d)
      src(k) == multiplicandBit(a, LEN - 1 - 2 * d + k)
      once == Xor(booth[1], booth[0]) = 1
      twice == booth[1] = booth[0] /\ booth[2] # booth[1]
      minus(bit) == IF booth[2] = 1 THEN 1 - bit ELSE bit
  IN IF once THEN minus(src(i + 1)) ELSE IF twice THEN minus(src(i)) ELSE 0

\* Slip: a digit of seven, which is zero, brings a carry.
CarryOfSeven(b, d) == Booth(b, d)[2]

Carry(b, d) == LET booth == Booth(b, d) IN booth[2] * (1 - booth[1] * booth[0])

\* SummandsSwitch
wallaceInputs(a, b, i) == [d \in 1 .. 33 |-> Summand(a, b, d - 1, i)]
-----------------------------------------------------------------------------
\* WallaceTree: the carries that each level takes from the column below.
carrysInAt == <<0, 10, 8, 4, 3, 3, 1, 2>>

ThreeBits(s, j) == <<s[3 * j - 2], s[3 * j - 1], s[3 * j]>>
Sum(bits) == (bits[1] + bits[2] + bits[3]) % 2
Majority(bits) == (bits[1] + bits[2] + bits[3]) \div 2

AdderSums(s) == [j \in 1 .. Len(s) \div 3 |-> Sum(ThreeBits(s, j))]
AdderCarrys(s) == [j \in 1 .. Len(s) \div 3 |-> Majority(ThreeBits(s, j))]

LevelInputs(acc, level, carrysIn) ==
  acc.sums \o SubSeq(carrysIn, acc.used + 1, acc.used + carrysInAt[level])
           \o (IF level = 6 THEN <<0>> ELSE <<>>)

TreeLevel(acc, level, carrysIn) ==
  LET inputs == LevelInputs(acc, level, carrysIn)
  IN [sums |-> AdderSums(inputs),
      carrys |-> acc.carrys \o AdderCarrys(inputs),
      used |-> acc.used + carrysInAt[level]]

WallaceTree(inputs, carrysIn) ==
  LET level1 == TreeLevel([sums |-> inputs, carrys |-> <<>>, used |-> 0], 1, carrysIn)
      level2 == TreeLevel(level1, 2, carrysIn)
      level3 == TreeLevel(level2, 3, carrysIn)
      level4 == TreeLevel(level3, 4, carrysIn)
      level5 == TreeLevel(level4, 5, carrysIn)
      level6 == TreeLevel(level5, 6, carrysIn)
      level7 == TreeLevel(level6, 7, carrysIn)
      level8 == TreeLevel(level7, 8, carrysIn)
  IN [output |-> level8.sums[1], carryOut |-> level8.carrys[32],
      carrysOut |-> SubSeq(level8.carrys, 1, 31)]

\* Mul: the trees of the columns, each with the carries of the one below, and
\* the addition of the two rows and the carry that is left.
MulInit ==
  /\ multiplicand \in Factors
  /\ multiplier \in Factors
  /\ column = 0
  /\ wallaceTreesCarrys = [d \in 1 .. 31 |-> Carry(multiplier, d - 1)]
  /\ src1 = Carry(multiplier, 31)
  /\ adderCarry = Carry(multiplier, 32)
  /\ answerBit = 0
  /\ productCarry = 0
  /\ productBit = 0

\* Column i of the product by hand, of the operands written with 130 bits.
Extended(a, k) == IF k < LEN THEN a[k] ELSE a[LEN - 1]
Ones(a, b, i) == Cardinality({j \in 0 .. i : Extended(a, j) = 1 /\ Extended(b, i - j) = 1})

NextColumn ==
  /\ column < 2 * LEN
  /\ column' = column + 1
  /\ LET tree == WallaceTree(wallaceInputs(multiplicand, multiplier, column), wallaceTreesCarrys)
         total == src1 + tree.output + adderCarry
     IN /\ wallaceTreesCarrys' = tree.carrysOut
        /\ src1' = tree.carryOut
        /\ answerBit' = total % 2
        /\ adderCarry' = total \div 2
  /\ LET total == Ones(multiplicand, multiplier, column) + productCarry
     IN productBit' = total % 2 /\ productCarry' = total \div 2
  /\ UNCHANGED <<multiplicand, multiplier>>

MulSpec == MulInit /\ [][NextColumn]_mulVars
-----------------------------------------------------------------------------
\* Every bit of the answer is that of the product of the signed operands, and
\* so the answer is the product (Mul.scala).
MultipliesSigned == answerBit = productBit
=============================================================================
