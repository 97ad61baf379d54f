--------------------------------- MODULE LSU ---------------------------------
(***************************************************************************)
(* The last two stages of the pipeline.                                    *)
(*                                                                         *)
(* playground/src/stages/LSU.scala: presents a load or a store to the      *)
(* handler and holds the pipeline until it has finished.  e is the bundle  *)
(* from execute, masked by valid and by a trap.                            *)
(***************************************************************************)
EXTENDS Inst

VARIABLES
  ls_valid,   \* r_valid
  r_ls2wb

lsuVars == <<ls_valid, r_ls2wb>>

Ls2wbReset ==
  [inst |-> NopInst, pc |-> PcReset, dnpc |-> PcReset, lsu_out |-> 0, csr_w_data |-> 0]

LSUInit ==
  /\ ls_valid = FALSE
  /\ r_ls2wb = Ls2wbReset

LSUTypeOK ==
  /\ ls_valid \in BOOLEAN
  /\ r_ls2wb \in [inst : Instruction, pc : Num \cup {PcReset}, dnpc : Num \cup {PcReset},
                  lsu_out : Num, csr_w_data : Num]

LsuOut(e, r_data) == IF MemREn(e.inst) THEN r_data ELSE e.exu_out

\* io.out.state_info
LsuInfo(e, r_data) ==
  [rd |-> IF RegWEn(e.inst) THEN e.inst.rd ELSE 0, out |-> LsuOut(e, r_data),
   csr_en |-> CsrWEn(e.inst), csr |-> e.inst.csr, csr_data |-> e.csr_w_data,
   load |-> MemREn(e.inst)]

\* Slip: the instruction moves on before the handler has finished.
LsuReadyUnfinished(ex2ls_valid, wb_ready, fin) == ex2ls_valid /\ (~ls_valid \/ wb_ready)

LsuReady(ex2ls_valid, wb_ready, fin) == ex2ls_valid /\ (~ls_valid \/ wb_ready) /\ fin

\* The instruction a trap squashes here moves on as a valid empty bundle.
LSUTick(ex2ls_valid, e, r_data, wb_ready, fin) ==
  LET valid_enable == LsuReady(ex2ls_valid, wb_ready, fin)
  IN /\ ls_valid' = IF valid_enable THEN ex2ls_valid ELSE ls_valid /\ ~wb_ready
     /\ r_ls2wb' = IF valid_enable
                   THEN [inst |-> e.inst, pc |-> e.pc, dnpc |-> e.dnpc,
                         lsu_out |-> LsuOut(e, r_data), csr_w_data |-> e.csr_w_data]
                   ELSE r_ls2wb
-----------------------------------------------------------------------------
(***************************************************************************)
(* playground/src/stages/WBU.scala: retires one instruction a cycle.  The  *)
(* statistic registers tell the simulator which one it was.  w is the      *)
(* bundle from the memory stage, masked by valid.                          *)
(***************************************************************************)
VARIABLE r_statistic

WBUInit == r_statistic = [inst |-> NopInst, pc |-> PcReset, dnpc |-> PcReset]

WBUTypeOK ==
  r_statistic \in [inst : Instruction, pc : Num \cup {PcReset}, dnpc : Num \cup {PcReset}]

\* io.out.cause, and the forwarding wires of the stage.
CauseOf(w) == EcallOp(w.inst)

WbuInfo(w) ==
  [rd |-> IF RegWEn(w.inst) THEN w.inst.rd ELSE 0, out |-> w.lsu_out,
   csr_en |-> CsrWEn(w.inst), csr |-> w.inst.csr, csr_data |-> w.csr_w_data]

\* Slip: a trap is reported with the next pc of its bundle.
WBUTickNoTrap(w, tvec) ==
  r_statistic' = [inst |-> w.inst, pc |-> w.pc, dnpc |-> w.dnpc]

WBUTick(w, tvec) ==
  r_statistic' = [inst |-> w.inst, pc |-> w.pc,
                  dnpc |-> IF CauseOf(w) THEN tvec ELSE w.dnpc]
=============================================================================
