--------------------------------- MODULE ISA ---------------------------------
(***************************************************************************)
(* What the processor promises to a program: RISC-V instructions executed  *)
(* one at a time.  This is the reference machine the simulator steps in    *)
(* lock step with the processor (verilator/src/simulate/difftest.cpp).     *)
(*                                                                         *)
(* mem holds the program at the addresses below WordMod and the data cells *)
(* behind it.  halted is set by ebreak and by an instruction the decoder   *)
(* does not know, which end the simulation.                                *)
(***************************************************************************)
EXTENDS Inst

VARIABLES pc, gpr, csr, mem, halted

vars == <<pc, gpr, csr, mem, halted>>

X(r) == gpr[r]

SetReg(rd, v) == gpr' = IF rd = 0 THEN gpr ELSE [gpr EXCEPT ![rd] = v]

\* What rd receives.
RegResult(i) ==
  CASE i.op = "add"   -> Plus(X(i.rs1), X(i.rs2))
    [] i.op = "addi"  -> Plus(X(i.rs1), i.imm)
    [] i.op = "lui"   -> i.imm
    [] i.op = "auipc" -> Plus(pc, i.imm)
    [] i.op = "ld"    -> mem[Cell(Plus(X(i.rs1), i.imm))].val
    [] i.op \in {"jal", "jalr"} -> Plus(pc, 1)
    [] i.op \in CsrOps -> csr[i.csr]

\* What the CSR receives.
CsrResult(i) ==
  LET old == csr[i.csr]
      src == IF i.op \in {"csrrwi", "csrrsi", "csrrci"} THEN i.rs1 ELSE X(i.rs1)
  IN CASE i.op \in {"csrrw", "csrrwi"} -> src
       [] i.op \in {"csrrs", "csrrsi"} -> Or(old, src)
       [] i.op \in {"csrrc", "csrrci"} -> AndNot(old, src)

\* csrrs and csrrc with x0 or 0 as their operand do not write.
WritesCsr(i) == i.op \in {"csrrw", "csrrwi"} \/ (i.op \in CsrOps /\ i.rs1 # 0)

Target(i) ==
  CASE i.op = "jal"  -> Plus(pc, i.imm)
    [] i.op = "jalr" -> Plus(X(i.rs1), i.imm)
    [] i.op = "beq"  -> Plus(pc, IF X(i.rs1) = X(i.rs2) THEN i.imm ELSE 1)
    [] i.op = "mret" -> csr.mepc
    [] i.op = "ecall" -> csr.mtvec
    [] OTHER -> Plus(pc, 1)

\* Arithmetic, loads and jumps: only a register and the pc change.
Compute(i) ==
  /\ i.op \in {"add", "addi", "lui", "auipc", "ld", "jal", "jalr"}
  /\ SetReg(i.rd, RegResult(i))
  /\ UNCHANGED <<csr, mem, halted>>

\* Memory behind a store.
Stored(i) == [mem EXCEPT ![Cell(Plus(X(i.rs1), i.imm))] = NumWord(X(i.rs2))]

Store(i) ==
  /\ i.op = "sd"
  /\ mem' = Stored(i)
  /\ UNCHANGED <<gpr, csr, halted>>

Jump(i) ==
  /\ i.op \in {"beq", "mret"}
  /\ UNCHANGED <<gpr, csr, mem, halted>>

AccessCsr(i) ==
  /\ i.op \in CsrOps
  /\ SetReg(i.rd, RegResult(i))
  /\ csr' = IF WritesCsr(i) THEN [csr EXCEPT ![i.csr] = CsrResult(i)] ELSE csr
  /\ UNCHANGED <<mem, halted>>

Trap(i) ==
  /\ i.op = "ecall"
  /\ csr' = [csr EXCEPT !.mepc = pc, !.mcause = Ecall]
  /\ UNCHANGED <<gpr, mem, halted>>

Halt(i) ==
  /\ i.op \in {"ebreak", "invalid"}
  /\ halted' = TRUE
  /\ UNCHANGED <<gpr, csr, mem>>

Next ==
  LET i == mem[pc]
  IN /\ ~halted
     /\ pc' = Target(i)
     /\ \/ Compute(i)
        \/ Store(i)
        \/ Jump(i)
        \/ AccessCsr(i)
        \/ Trap(i)
        \/ Halt(i)

Init ==
  /\ pc = 0
  /\ gpr = [r \in Reg |-> 0]
  /\ csr = [c \in CsrName |-> 0]
  /\ mem \in [Addr -> Word]
  /\ halted = FALSE

Spec == Init /\ [][Next]_vars
=============================================================================
