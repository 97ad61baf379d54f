------------------------------ MODULE Execute ------------------------------
(***************************************************************************)
(* What an instruction computes: its row of control/DecodeTable.scala, the *)
(* immediate of utils/instdecode/ImmGen.scala, and stages/EXU.scala with   *)
(* the units AlgLog.scala and MulDiv.scala behind it.  The instructions of *)
(* Zicsr, the traps and the handshakes are those of Core.                  *)
(*                                                                         *)
(* A register holds a number below 2^XLEN.  An immediate is too wide for   *)
(* that in a small instance, and is a function from bits instead.          *)
(***************************************************************************)
EXTENDS Integers
LOCAL INSTANCE FiniteSetsExt

CONSTANT XLEN   \* width of a register, 64; a word is half of it

ASSUME ExecuteAssumption == XLEN \in {4, 8}   \* any power of two, in the code

WLEN == XLEN \div 2
RegValue == 0 .. 2 ^ XLEN - 1

\* asSInt, and the low bits of a result.
Signed(a, width) == IF 2 * a >= 2 ^ width THEN a - 2 ^ width ELSE a
Low(a, width) == a % 2 ^ width

\* CommonMacros: getWord, and signExtend of a word.
getWord(a) == Low(a, WLEN)
SignedWord(a) == Signed(getWord(a), WLEN)
signExtend(a) == Low(SignedWord(a), XLEN)

BitOf(a, k) == (a \div 2 ^ k) % 2
FromBits(bits) == MapThenSumSet(LAMBDA k : bits[k] * 2 ^ k, 0 .. XLEN - 1)
AndBits(a, b) == FromBits([k \in 0 .. XLEN - 1 |-> BitOf(a, k) * BitOf(b, k)])
OrBits(a, b) == FromBits([k \in 0 .. XLEN - 1 |-> IF BitOf(a, k) + BitOf(b, k) = 0 THEN 0 ELSE 1])
XorBits(a, b) == FromBits([k \in 0 .. XLEN - 1 |-> (BitOf(a, k) + BitOf(b, k)) % 2])
Flag(b) == IF b THEN 1 ELSE 0
-----------------------------------------------------------------------------
(***************************************************************************)
(* The rows of the decode table, by the columns that they share; what is   *)
(* listed is the operation of the unit that they select.                   *)
(***************************************************************************)
OpImm ==
  [addi |-> "ADD", slli |-> "SLL", slti |-> "SLT", sltiu |-> "SLTU", xori |-> "XOR",
   srli |-> "SRL", srai |-> "SRA", ori |-> "OR", andi |-> "AND"]
OpReg ==
  [add |-> "ADD", sub |-> "SUB", sll |-> "SLL", slt |-> "SLT", sltu |-> "SLTU",
   xor |-> "XOR", srl |-> "SRL", sra |-> "SRA", or |-> "OR", and |-> "AND"]
OpImmWord == [addiw |-> "ADD", slliw |-> "SLL", srliw |-> "SRL", sraiw |-> "SRA"]
OpWord ==
  [addw |-> "ADD", subw |-> "SUB", sllw |-> "SLL", srlw |-> "SRL", sraw |-> "SRA"]
Branch ==
  [beq |-> "EQU", bne |-> "NEQ", blt |-> "SLT", bge |-> "SGE", bltu |-> "SLTU",
   bgeu |-> "SGEU"]
Loads == {"lb", "lh", "lw", "ld", "lbu", "lhu", "lwu"}
Stores == {"sb", "sh", "sw", "sd"}

\* mul_ctl; its bits are looked at one by one.
MulOp ==
  [mul |-> 0, mulh |-> 1, mulhsu |-> 2, mulhu |-> 3, mulw |-> 8,
   div |-> 4, divu |-> 5, rem |-> 6, remu |-> 7,
   divw |-> 12, divuw |-> 13, remw |-> 14, remuw |-> 15]

Instr == {"lui", "auipc", "jal", "jalr"} \cup Loads \cup Stores \cup
         UNION {DOMAIN t : t \in {OpImm, OpReg, OpImmWord, OpWord, Branch, MulOp}}

\* alu_ctl: the operation, and the tag of the word operations.
AluOp(i) ==
  CASE i \in DOMAIN OpImm -> OpImm[i]
    [] i \in DOMAIN OpReg -> OpReg[i]
    [] i \in DOMAIN OpImmWord -> OpImmWord[i]
    [] i \in DOMAIN OpWord -> OpWord[i]
    [] i \in DOMAIN Branch -> Branch[i]
    [] i \in {"jal", "jalr"} -> "MOVA"
    [] i = "lui" -> "MOVB"
    [] OTHER -> "ADD"

WordTag(i) == i \in DOMAIN OpImmWord \cup DOMAIN OpWord

\* a_ctl, b_ctl, dnpc_ctl and jump_op.
Src1Of(i, src1, pc, snpc) ==
  CASE i = "auipc" -> pc
    [] i \in {"jal", "jalr"} -> snpc
    [] OTHER -> src1
Src2Of(i, src2, imm) ==
  IF i \in DOMAIN OpReg \cup DOMAIN OpWord \cup DOMAIN Branch THEN src2 ELSE imm
JumpBase(i, src1, pc) == IF i = "jalr" THEN src1 ELSE pc
IsJump(i) == i \in {"jal", "jalr"}
-----------------------------------------------------------------------------
\* AlgLog.
ShiftBy(word, b) == b % (IF word THEN WLEN ELSE XLEN)

\* Slip: the shift of a word takes in the copies of its sign.
SrlwUnmasked(a, shamt) == getWord(a \div 2 ^ shamt)

\* The word was sign-extended; srlw_mask takes what was shifted in from above.
Srlw(a, shamt) == AndBits(getWord(a \div 2 ^ shamt), (2 ^ WLEN - 1) \div 2 ^ shamt)

AlgLog(op, word, src1, src2) ==
  LET a == IF word THEN signExtend(src1) ELSE src1
      b == IF word THEN signExtend(src2) ELSE src2
      sa == Signed(a, XLEN)
      sb == Signed(b, XLEN)
      shamt == ShiftBy(word, b)
      full ==
        CASE op = "ADD" -> a + b
          [] op = "SUB" -> a - b
          [] op = "XOR" -> XorBits(a, b)
          [] op = "OR" -> OrBits(a, b)
          [] op = "AND" -> AndBits(a, b)
          [] op = "SLT" -> Flag(sa < sb)
          [] op = "SGE" -> Flag(~(sa < sb))
          [] op = "SLTU" -> Flag(a < b)
          [] op = "SGEU" -> Flag(~(a < b))
          [] op = "EQU" -> Flag(XorBits(a, b) = 0)
          [] op = "NEQ" -> Flag(XorBits(a, b) # 0)
          [] op = "SLL" -> a * 2 ^ shamt
          [] op = "SRL" -> IF word THEN Srlw(a, shamt) ELSE a \div 2 ^ shamt
          [] op = "SRA" -> sa \div 2 ^ shamt
          [] op = "MOVA" -> a
          [] op = "MOVB" -> b
  IN IF word THEN signExtend(full) ELSE Low(full, XLEN)
-----------------------------------------------------------------------------
\* The division of integers truncates.
Magnitude(a) == IF a < 0 THEN -a ELSE a
Quo(a, b) ==
  LET q == Magnitude(a) \div Magnitude(b) IN IF (a < 0) = (b < 0) THEN q ELSE -q
Rem(a, b) == a - b * Quo(a, b)

\* A wire of the divider: what a division by zero puts there is not defined.
Divided(b, result, width) == IF b = 0 THEN 0 .. 2 ^ width - 1 ELSE {Low(result, width)}

\* mul_map: the values that mul_out may have.  (The wire divw has one bit more,
\* which matters only for an overflow, and MulDiv takes that out.)
mul_out(ctl, a, b) ==
  LET sa == Signed(a, XLEN)
      sb == Signed(b, XLEN)
      High(product) == {Low(product \div 2 ^ XLEN, XLEN)}
      Word(y, result) == {signExtend(r) : r \in Divided(y, result, WLEN)}
      wa == getWord(a)  swa == SignedWord(a)
      wb == getWord(b)  swb == SignedWord(b)
  IN CASE ctl = MulOp.mul -> {Low(sa * sb, XLEN)}
       [] ctl = MulOp.mulh -> High(sa * sb)
       [] ctl = MulOp.mulhsu -> High(sa * b)
       [] ctl = MulOp.mulhu -> High(a * b)
       [] ctl = MulOp.mulw -> {signExtend(swa * swb)}
       [] ctl = MulOp.div -> Divided(sb, Quo(sa, sb), XLEN)
       [] ctl = MulOp.divu -> Divided(b, Quo(a, b), XLEN)
       [] ctl = MulOp.rem -> Divided(sb, Rem(sa, sb), XLEN)
       [] ctl = MulOp.remu -> Divided(b, Rem(a, b), XLEN)
       [] ctl = MulOp.divw -> Word(swb, Quo(swa, swb))
       [] ctl = MulOp.divuw -> Word(wb, Quo(wa, wb))
       [] ctl = MulOp.remw -> Word(swb, Rem(swa, swb))
       [] ctl = MulOp.remuw -> Word(wb, Rem(wa, wb))

\* MulDiv: the special cases, by the bits of mul_ctl, before the rest.
MulDiv(ctl, a, b) ==
  LET bits21 == (ctl \div 2) % 4
      bits31 == ctl \div 2
      least == a = 2 ^ (XLEN - 1) /\ b = 2 ^ XLEN - 1
      leastWord == getWord(a) = 2 ^ (WLEN - 1) /\ getWord(b) = 2 ^ WLEN - 1
  IN CASE bits21 = 2 /\ b = 0 -> {2 ^ XLEN - 1}
       [] bits31 = 3 /\ b = 0 -> {a}
       [] bits31 = 7 /\ b = 0 -> {signExtend(a)}
       [] ctl = MulOp.div /\ least -> {a}
       [] ctl = MulOp.divw /\ leastWord -> {signExtend(2 ^ (WLEN - 1))}
       [] ctl = MulOp.rem /\ least -> {0}
       [] ctl = MulOp.remw /\ leastWord -> {0}
       [] OTHER -> mul_out(ctl, a, b)
-----------------------------------------------------------------------------
\* EXU: exu_out and dnpc, for an instruction whose snpc is dnpc so far.
alu_out(i, src1, src2, imm, pc, snpc) ==
  AlgLog(AluOp(i), WordTag(i), Src1Of(i, src1, pc, snpc), Src2Of(i, src2, imm))

exu_out(i, src1, src2, imm, pc, snpc) ==
  IF i \in DOMAIN MulOp THEN MulDiv(MulOp[i], src1, src2)
  ELSE {alu_out(i, src1, src2, imm, pc, snpc)}

jump_ctl(i, out) == IsJump(i) \/ (i \in DOMAIN Branch /\ out % 2 = 1)

dnpc(i, src1, src2, imm, pc, snpc) ==
  IF jump_ctl(i, alu_out(i, src1, src2, imm, pc, snpc))
  THEN Low(JumpBase(i, src1, pc) + imm, XLEN) ELSE snpc
-----------------------------------------------------------------------------
\* ImmGen: the bits of the instruction that an immediate consists of, from its
\* lowest; 0 stands for a zero.
immI == [k \in 0 .. 11 |-> 20 + k]
immS == [k \in 0 .. 11 |-> IF k < 5 THEN 7 + k ELSE 20 + k]
immB == [k \in 0 .. 12 |-> CASE k = 0 -> 0 [] k \in 1 .. 4 -> 7 + k
                             [] k \in 5 .. 10 -> 20 + k [] k = 11 -> 7 [] k = 12 -> 31]
immU == [k \in 0 .. 31 |-> IF k < 12 THEN 0 ELSE k]

immJ == [k \in 0 .. 20 |-> CASE k = 0 -> 0 [] k \in 1 .. 10 -> 20 + k [] k = 11 -> 20
                             [] k \in 12 .. 19 -> k [] k = 20 -> 31]

ImmGen(type, in) ==
  LET bits == CASE type = "I" -> immI [] type = "S" -> immS [] type = "B" -> immB
                [] type = "U" -> immU [] type = "J" -> immJ
      top == CHOOSE k \in DOMAIN bits : k + 1 \notin DOMAIN bits
      At(k) == IF bits[k] = 0 THEN 0 ELSE in[bits[k]]
  IN [k \in 0 .. 63 |-> At(IF k > top THEN top ELSE k)]
-----------------------------------------------------------------------------
(***************************************************************************)
(* The RISC-V manual: what an instruction writes, and the next pc.         *)
(***************************************************************************)
SextWord(n) == Low(Signed(Low(n, WLEN), WLEN), XLEN)

\* The quotient and the remainder rules for every divisor and width.
Division(x, y) == IF y = 0 THEN -1 ELSE Quo(x, y)
Remainder(x, y) == IF y = 0 THEN x ELSE Rem(x, y)

Manual(i, x, y, imm, pc, snpc) ==
  LET sx == Signed(x, XLEN)   sy == Signed(y, XLEN)   si == Signed(imm, XLEN)
      wx == Low(x, WLEN)      wy == Low(y, WLEN)
      swx == Signed(wx, WLEN) swy == Signed(wy, WLEN)
      sh == y % XLEN          shw == y % WLEN
      shi == imm % XLEN       shiw == imm % WLEN
      high == 2 ^ XLEN
  IN CASE i = "lui" -> imm                    [] i = "auipc" -> Low(pc + si, XLEN)
       [] i \in {"jal", "jalr"} -> snpc
       [] i \in {"addi"} \cup Loads \cup Stores -> Low(sx + si, XLEN)
       [] i = "slti" -> Flag(sx < si)         [] i = "sltiu" -> Flag(x < imm)
       [] i = "xori" -> XorBits(x, imm)       [] i = "ori" -> OrBits(x, imm)
       [] i = "andi" -> AndBits(x, imm)
       [] i = "slli" -> Low(x * 2 ^ shi, XLEN)
       [] i = "srli" -> x \div 2 ^ shi        [] i = "srai" -> Low(sx \div 2 ^ shi, XLEN)
       [] i = "add" -> Low(x + y, XLEN)       [] i = "sub" -> Low(x - y, XLEN)
       [] i = "slt" -> Flag(sx < sy)          [] i = "sltu" -> Flag(x < y)
       [] i = "xor" -> XorBits(x, y)          [] i = "or" -> OrBits(x, y)
       [] i = "and" -> AndBits(x, y)
       [] i = "sll" -> Low(x * 2 ^ sh, XLEN)
       [] i = "srl" -> x \div 2 ^ sh          [] i = "sra" -> Low(sx \div 2 ^ sh, XLEN)
       [] i = "addiw" -> SextWord(x + si)     [] i = "slliw" -> SextWord(x * 2 ^ shiw)
       [] i = "srliw" -> SextWord(wx \div 2 ^ shiw)
       [] i = "sraiw" -> SextWord(swx \div 2 ^ shiw)
       [] i = "addw" -> SextWord(x + y)       [] i = "subw" -> SextWord(x - y)
       [] i = "sllw" -> SextWord(x * 2 ^ shw)
       [] i = "srlw" -> SextWord(wx \div 2 ^ shw)
       [] i = "sraw" -> SextWord(swx \div 2 ^ shw)
       [] i = "mul" -> Low(sx * sy, XLEN)
       [] i = "mulh" -> Low((sx * sy) \div high, XLEN)
       [] i = "mulhsu" -> Low((sx * y) \div high, XLEN)
       [] i = "mulhu" -> (x * y) \div high
       [] i = "mulw" -> SextWord(x * y)
       [] i = "div" -> Low(Division(sx, sy), XLEN)
       [] i = "divu" -> Low(Division(x, y), XLEN)
       [] i = "rem" -> Low(Remainder(sx, sy), XLEN)
       [] i = "remu" -> Remainder(x, y)
       [] i = "divw" -> SextWord(Division(swx, swy))
       [] i = "divuw" -> SextWord(Division(wx, wy))
       [] i = "remw" -> SextWord(Remainder(swx, swy))
       [] i = "remuw" -> SextWord(Remainder(wx, wy))

Taken(i, x, y) ==
  CASE i = "beq" -> x = y
    [] i = "bne" -> x # y
    [] i = "blt" -> Signed(x, XLEN) < Signed(y, XLEN)
    [] i = "bge" -> Signed(x, XLEN) >= Signed(y, XLEN)
    [] i = "bltu" -> x < y
    [] i = "bgeu" -> x >= y
    [] OTHER -> i = "jal"

ManualNext(i, x, y, imm, pc, snpc) ==
  CASE i = "jalr" -> Low(2 * ((x + imm) \div 2), XLEN)
    [] Taken(i, x, y) -> Low(pc + imm, XLEN)
    [] OTHER -> snpc

\* The fields of the instruction that hold bit k of an immediate.
Field(type, k) ==
  CASE type = "I" -> IF k <= 11 THEN {20 + k} ELSE {}
    [] type = "S" -> IF k <= 4 THEN {7 + k} ELSE IF k <= 11 THEN {20 + k} ELSE {}
    [] type = "B" -> CASE k \in 1 .. 4 -> {7 + k} [] k \in 5 .. 10 -> {20 + k}
                       [] k = 11 -> {7} [] k = 12 -> {31} [] OTHER -> {}
    [] type = "U" -> IF k \in 12 .. 31 THEN {k} ELSE {}
    [] type = "J" -> CASE k \in 1 .. 10 -> {20 + k} [] k = 11 -> {20}
                       [] k \in 12 .. 19 -> {k} [] k = 20 -> {31} [] OTHER -> {}

\* Bit k of an integer of 32 bits, in two's complement of any width.
IntBit(v, k) == IF k >= 31 THEN Flag(v < 0) ELSE BitOf(v, k)

Encoded(type, v) ==
  [b \in 7 .. 31 |->
     IF \E k \in 0 .. 31 : b \in Field(type, k)
     THEN IntBit(v, CHOOSE k \in 0 .. 31 : b \in Field(type, k)) ELSE 0]
-----------------------------------------------------------------------------
\* A divisor of a word that is zero although its register is not: MulDiv looks
\* at the register (MulDiv.scala:53).  The target of a jalr that is odd: EXU
\* keeps the last bit (EXU.scala:52).
ZeroWordOnly(i, y) ==
  i \in {"divw", "divuw", "remw", "remuw"} /\ getWord(y) = 0 /\ y # 0
OddTarget(i, x, imm) == i = "jalr" /\ (x + imm) % 2 = 1

\* An instruction computes what the manual says, and goes on where it says.
ComputesAsManual(i, x, y, imm, pc) ==
  LET snpc == Low(pc + 4, XLEN)
  IN /\ i \notin DOMAIN Branch =>
          exu_out(i, x, y, imm, pc, snpc) = {Manual(i, x, y, imm, pc, snpc)}
     /\ dnpc(i, x, y, imm, pc, snpc) = ManualNext(i, x, y, imm, pc, snpc)

\* An immediate that was encoded into an instruction comes out of it again.
ImmediateReadsBack(type, v) ==
  ImmGen(type, Encoded(type, v)) = [k \in 0 .. 63 |-> IntBit(v, k)]
=============================================================================
