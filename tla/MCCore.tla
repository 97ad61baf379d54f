------------------------------- MODULE MCCore -------------------------------
(***************************************************************************)
(* Core on every program of one small instruction set: four instruction    *)
(* addresses in a circle, two-bit registers x0, x1 and x2, two data cells. *)
(* Each instruction set is chosen for one kind of hazard.                  *)
(***************************************************************************)
EXTENDS Core

CONSTANT ProgramSets  \* a program is made of instructions of one of these

MCCode == 0 .. 3
MCData == 4 .. 5
MCPcReset == -1
MCWord0 == [val |-> 0]
MCNop == [op |-> "addi", rd |-> 0, rs1 |-> 0, rs2 |-> 0, imm |-> 0, csr |-> "mstatus"]
MCSnpcOf == [p \in -1 .. 3 |-> (p + 1) % 4]
MCWord == Instruction \cup {NumWord(n) : n \in Num}

\* Every program, with a different number in each data cell.
MCImages ==
  {[a \in 0 .. 5 |-> IF a \in 0 .. 3 THEN prog[a] ELSE NumWord(a - 3)] :
     prog \in UNION {[0 .. 3 -> set] : set \in ProgramSets}}

I(op, rd, rs1, rs2, imm) ==
  [op |-> op, rd |-> rd, rs1 |-> rs1, rs2 |-> rs2, imm |-> imm, csr |-> "mstatus"]

C(op, rd, c, rs1) ==
  [op |-> op, rd |-> rd, rs1 |-> rs1, rs2 |-> 0, imm |-> 0, csr |-> c]

\* Values forwarded from every stage, loads that are used at once, stores of
\* a value just loaded, and stores that are read back.
DataProgram ==
  {I("addi", 1, 1, 0, 1), I("add", 2, 1, 1, 0), I("add", 0, 1, 2, 0),
   I("ld", 1, 2, 0, 0), I("ld", 2, 1, 0, 1),
   I("sd", 0, 2, 1, 0), I("sd", 0, 1, 2, 1)}

\* Branches and jumps on values that were just loaded or computed, forward
\* and backward; and what ends a program.
BranchProgram ==
  {I("addi", 1, 1, 0, 1), I("ld", 1, 2, 0, 0), I("beq", 0, 1, 2, 2), I("beq", 0, 2, 0, 3),
   I("jalr", 2, 1, 0, 1), I("ebreak", 0, 0, 0, 0), I("invalid", 0, 0, 0, 0)}

\* Links and addresses as operands, behind and in front of jumps.
LinkProgram ==
  {I("auipc", 2, 0, 0, 1), I("lui", 2, 0, 0, 3), I("add", 1, 1, 2, 0),
   I("beq", 0, 1, 2, 2), I("jal", 2, 0, 0, 2), I("jalr", 1, 2, 0, 1)}

\* CSR instructions back to back and behind loads, and traps.
CsrProgram ==
  {I("addi", 1, 1, 0, 1), I("ld", 1, 2, 0, 0), I("ecall", 0, 0, 0, 0),
   C("csrrw", 2, "mtvec", 1), C("csrrs", 1, "mepc", 1), C("csrrc", 2, "mepc", 1),
   C("csrrsi", 2, "mcause", 1)}

\* Trap handlers that return: mepc is written by traps only.
TrapProgram ==
  {I("addi", 1, 1, 0, 1), I("ld", 1, 2, 0, 0), I("sd", 0, 2, 1, 0),
   I("beq", 0, 1, 2, 2), I("ecall", 0, 0, 0, 0), I("mret", 0, 0, 0, 0),
   C("csrrwi", 2, "mtvec", 2), C("csrrs", 1, "mepc", 0)}

\* mret behind an instruction that writes mepc.
MretProgram ==
  {I("addi", 1, 1, 0, 1), C("csrrw", 0, "mepc", 1), I("mret", 0, 0, 0, 0),
   I("ld", 2, 1, 0, 0)}

\* CSR instructions whose result is not wanted.
SetBitsProgram ==
  {I("addi", 1, 1, 0, 1), C("csrrs", 0, "mtvec", 1), C("csrrs", 2, "mtvec", 0)}

\* addi x0, x0, 0 written in the program.
NopProgram == {I("addi", 1, 1, 0, 1), NopInst}

\* The instruction sets of the runs.
ProcessorSets == {DataProgram, BranchProgram, LinkProgram, CsrProgram, TrapProgram}
MretSets == {MretProgram}
SetBitsSets == {SetBitsProgram}
NopSets == {NopProgram}
=============================================================================
