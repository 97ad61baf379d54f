--------------------------------- MODULE EXU ---------------------------------
(***************************************************************************)
(* playground/src/stages/EXU.scala: arithmetic, next pc and CSR operation. *)
(* d is the bundle from decode, masked by valid and by a trap.             *)
(***************************************************************************)
EXTENDS Inst

VARIABLES
  ex_valid,   \* r_valid
  r_ex2ls

exuVars == <<ex_valid, r_ex2ls>>

Ex2lsReset ==
  [inst |-> NopInst, pc |-> PcReset, dnpc |-> PcReset, src2 |-> 0, exu_out |-> 0,
   csr_w_data |-> 0]

EXUInit ==
  /\ ex_valid = FALSE
  /\ r_ex2ls = Ex2lsReset

EXUTypeOK ==
  /\ ex_valid \in BOOLEAN
  /\ r_ex2ls \in [inst : Instruction, pc : Num \cup {PcReset}, dnpc : Num \cup {PcReset},
                  src2 : Num, exu_out : Num, csr_w_data : Num]

ExuOut(d) ==
  LET a == IF CsrREn(d.inst) THEN d.csr_data ELSE AluSrc1(d.inst, d.src1, d.pc, d.snpc)
  IN AluOut(d.inst, a, AluSrc2(d.inst, d.src2))

\* jump_ctl: a jal or jalr, or a branch whose condition came out as 1.
JumpTaken(d) ==
  \/ JumpOp(d.inst) = "jal"
  \/ JumpOp(d.inst) = "branch" /\ ExuOut(d) % 2 = 1

ExuDnpc(d) ==
  IF JumpTaken(d)
  THEN Plus(IF d.inst.op = "jalr" THEN d.src1 ELSE d.pc, d.inst.imm)
  ELSE d.dnpc

\* io.out.jump_ctl
RedirectOf(d) == JumpTaken(d) \/ MretOp(d.inst)

ExuCsrOut(d) ==
  CsrCalc(d.inst, d.csr_data, IF CsrImmSrc(d.inst) THEN d.inst.rs1 ELSE d.src1)

\* io.out.state_info
ExuInfo(d) ==
  [rd |-> IF RegWEn(d.inst) THEN d.inst.rd ELSE 0, out |-> ExuOut(d),
   csr_en |-> CsrWEn(d.inst), csr |-> d.inst.csr, csr_data |-> ExuCsrOut(d),
   load |-> MemREn(d.inst)]

ExuReady(id2ex_valid, ls_ready) == id2ex_valid /\ (~ex_valid \/ ls_ready)

EXUTick(id2ex_valid, d, cause, ls_ready) ==
  LET valid_enable == ExuReady(id2ex_valid, ls_ready)
  IN /\ ex_valid' = IF valid_enable THEN id2ex_valid /\ ~cause ELSE ex_valid /\ ~ls_ready
     /\ r_ex2ls' = IF valid_enable
                   THEN [inst |-> d.inst, pc |-> d.pc, dnpc |-> ExuDnpc(d),
                         src2 |-> d.src2, exu_out |-> ExuOut(d),
                         csr_w_data |-> ExuCsrOut(d)]
                   ELSE r_ex2ls
=============================================================================
