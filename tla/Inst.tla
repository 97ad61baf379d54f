-------------------------------- MODULE Inst --------------------------------
(***************************************************************************)
(* Words, instructions and their control signals, as the stages of the     *)
(* pipeline use them.                                                      *)
(*                                                                         *)
(* A register holds a number below WordMod and so does a pc, counted in    *)
(* instructions.  An instruction is a record of its fields; one op stands  *)
(* for each row group of the decode table that the control of the pipeline *)
(* treats alike (add for the register-register arithmetic, ld for all      *)
(* loads, ...).                                                            *)
(***************************************************************************)
EXTENDS BusTypes, Integers

CONSTANTS
  WordBits,  \* width of a register
  NReg,      \* registers x0 .. x(NReg - 1)
  NCell,     \* cells of data memory
  Ecall      \* the cause number of ecall, 0xb

ASSUME InstAssumption ==
  /\ WordBits \in Nat \ {0}
  /\ NReg \in Nat \ {0}
  /\ NCell \in Nat \ {0}

WordMod == 2 ^ WordBits
Num == 0 .. WordMod - 1
Reg == 0 .. NReg - 1

\* A register number, which is also the immediate of the CSR instructions, and
\* a cause fit into a word.
ASSUME WordAssumption ==
  /\ WordMod \in Nat \ {0, 1}
  /\ NReg <= WordMod
  /\ Ecall \in Num

\* Slip: the carry out of the word is kept.
PlusCarry(a, b) == a + b

Plus(a, b) == (a + b) % WordMod

\* The bits of a word, for the two bitwise operations of the CSR unit.
BitsOf(a) == {k \in 0 .. WordBits - 1 : (a \div 2 ^ k) % 2 = 1}
FromBits(S) == CHOOSE n \in Num : BitsOf(n) = S
Or(a, b) == FromBits(BitsOf(a) \cup BitsOf(b))
AndNot(a, b) == FromBits(BitsOf(a) \ BitsOf(b))

\* Every set of bits is that of a word: arithmetic of powers of two, of which
\* the provers have no theory.
ASSUME BitsAssumption ==
  \A S \in SUBSET (0 .. WordBits - 1) : \E n \in Num : BitsOf(n) = S

CsrName == {"mstatus", "mtvec", "mepc", "mcause"}

CsrOps == {"csrrw", "csrrs", "csrrc", "csrrwi", "csrrsi", "csrrci"}

InstOp == {"add", "addi", "lui", "auipc", "ld", "sd", "beq", "jal", "jalr",
           "ecall", "mret", "ebreak", "invalid"} \cup CsrOps

\* For the CSR instructions with an immediate the field rs1 is the immediate.
Instruction ==
  [op : InstOp, rd : Reg, rs1 : Reg, rs2 : Reg, imm : Num, csr : CsrName]

\* addi x0, x0, 0: INST_RESET_VAL, what an empty stage holds.
NopInst == [op |-> "addi", rd |-> 0, rs1 |-> 0, rs2 |-> 0, imm |-> 0, csr |-> "mstatus"]

\* Memory words: an instruction, or a number wrapped in a record.
NumWord(n) == [val |-> n]

\* The data cell a load or a store with the address a reaches.
Cell(a) == WordMod + (a % NCell)
-----------------------------------------------------------------------------
(***************************************************************************)
(* The columns of the decode table, each as the set of the instructions    *)
(* that set it.                                                            *)
(***************************************************************************)
Rs1Tag(i) == i.op \in {"add", "addi", "ld", "sd", "beq", "jalr", "csrrw", "csrrs", "csrrc"}
Rs2Tag(i) == i.op \in {"add", "sd", "beq"}
RegWEn(i) == i.op \in {"add", "addi", "lui", "auipc", "ld", "jal", "jalr"} \cup CsrOps
MemREn(i) == i.op = "ld"
MemWEn(i) == i.op = "sd"
EcallOp(i)   == i.op = "ecall"
MretOp(i)    == i.op = "mret"
EbreakOp(i)  == i.op = "ebreak"
InvalidOp(i) == i.op = "invalid"
CsrOp(i)     == i.op \in CsrOps

JumpOp(i) == CASE i.op \in {"jal", "jalr"} -> "jal"
               [] i.op = "beq" -> "branch"
               [] OTHER -> "none"

AluSrc1(i, src1, pc, snpc) ==
  CASE i.op = "auipc" -> pc
    [] i.op \in {"jal", "jalr"} -> snpc
    [] OTHER -> src1

AluSrc2(i, src2) == IF i.op \in {"add", "beq"} THEN src2 ELSE i.imm

AluOut(i, a, b) ==
  CASE i.op \in {"jal", "jalr"} \cup CsrOps -> a       \* ALU_CTL_MOVA
    [] i.op = "lui" -> b                               \* ALU_CTL_MOVB
    [] i.op = "beq" -> IF a = b THEN 1 ELSE 0          \* ALU_CTL_EQU
    [] OTHER -> Plus(a, b)                             \* ALU_CTL_ADD

\* CSRControlUnit: rd and rs1 are the fields, whatever the instruction uses
\* them for.
CsrREn(i) == CsrOp(i) /\ i.rd # 0
CsrWEn(i) == CsrOp(i) /\ i.rs1 # 0
CsrImmSrc(i) == i.op \in {"csrrwi", "csrrsi", "csrrci"}

\* CSRCalc
CsrCalc(i, data, src) ==
  CASE i.op \in {"csrrw", "csrrwi"} -> src
    [] i.op \in {"csrrs", "csrrsi"} -> Or(data, src)
    [] i.op \in {"csrrc", "csrrci"} -> AndNot(data, src)
    [] OTHER -> 0
=============================================================================
