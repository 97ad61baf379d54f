--------------------------------- MODULE IDU ---------------------------------
(***************************************************************************)
(* playground/src/stages/IDU.scala with the register file, the CSRs and    *)
(* the two forwarding networks it contains.                                *)
(*                                                                         *)
(* The control fields of r_id2ex are latched together with the instruction *)
(* they are decoded from and are functions of it (module Inst), so the     *)
(* bundle keeps the instruction and the data fields.                       *)
(*                                                                         *)
(* fw is the record of the forwarding wires of the three later stages:     *)
(* for s in "E", "M", "W", fw[s] has rd (0 when nothing is written) and    *)
(* out, csr_en, csr and csr_data, and load when the stage holds a load.    *)
(***************************************************************************)
EXTENDS Inst

VARIABLES
  id_valid,   \* r_valid
  r_id2ex,
  gpr,
  csr

iduVars == <<id_valid, r_id2ex, gpr, csr>>

Id2exReset ==
  [inst |-> NopInst, pc |-> PcReset, snpc |-> PcReset, dnpc |-> PcReset,
   src1 |-> 0, src2 |-> 0, csr_data |-> 0]

IDUInit ==
  /\ id_valid = FALSE
  /\ r_id2ex = Id2exReset
  /\ gpr = [r \in Reg |-> 0]
  /\ csr = [c \in CsrName |-> 0]

IDUTypeOK ==
  /\ id_valid \in BOOLEAN
  /\ r_id2ex \in [inst : Instruction, pc : Num \cup {PcReset}, snpc : Num \cup {PcReset},
                  dnpc : Num \cup {PcReset}, src1 : Num, src2 : Num, csr_data : Num]
  /\ gpr \in [Reg -> Num]
  /\ csr \in [CsrName -> Num]

\* The source registers decode needs: a field that is not one reads as x0.
Rs1(i) == IF Rs1Tag(i) THEN i.rs1 ELSE 0
Rs2(i) == IF Rs2Tag(i) THEN i.rs2 ELSE 0

\* Slip: the memory stage goes before the nearer execute stage.
GprForwardMemFirst(rs, fw) ==
  IF rs = 0 THEN 0
  ELSE IF rs = fw.M.rd THEN fw.M.out
  ELSE IF rs = fw.E.rd THEN fw.E.out
  ELSE IF rs = fw.W.rd THEN fw.W.out
  ELSE gpr[rs]

\* GPRForward: the nearest later stage that writes the register wins.
GprForward(rs, fw) ==
  IF rs = 0 THEN 0
  ELSE IF rs = fw.E.rd THEN fw.E.out
  ELSE IF rs = fw.M.rd THEN fw.M.out
  ELSE IF rs = fw.W.rd THEN fw.W.out
  ELSE gpr[rs]

\* Slip: the execute stage is not looked at.
CsrForwardNoExec(i, fw) ==
  LET writes(s) == fw[s].csr_en /\ fw[s].csr = i.csr
  IN IF ~CsrREn(i) THEN 0
     ELSE IF writes("M") THEN fw.M.csr_data
     ELSE IF writes("W") THEN fw.W.csr_data
     ELSE csr[i.csr]

\* CSRForward, on the address masked by csr_r_en.
CsrForward(i, fw) ==
  LET writes(s) == fw[s].csr_en /\ fw[s].csr = i.csr
  IN IF ~CsrREn(i) THEN 0
     ELSE IF writes("E") THEN fw.E.csr_data
     ELSE IF writes("M") THEN fw.M.csr_data
     ELSE IF writes("W") THEN fw.W.csr_data
     ELSE csr[i.csr]

\* Slip: a load that has left the execute stage is taken for finished.
MemRRelatedExecOnly(i, fw) ==
  \E rs \in {Rs1(i), Rs2(i)} : rs # 0 /\ rs = fw.E.rd /\ fw.E.load

\* The value needed is still being loaded by the execute or the memory stage.
MemRRelated(i, fw) ==
  \E rs \in {Rs1(i), Rs2(i)}, s \in {"E", "M"} :
    rs # 0 /\ rs = fw[s].rd /\ fw[s].load

\* io.if2id.ready; bits is the fetched bundle, masked by jump_ctl and cause.
IduReady(if2id_valid, bits, ex_ready, fw) ==
  if2id_valid /\ (~id_valid \/ ex_ready) /\ ~MemRRelated(bits.inst, fw)

IDUTick(if2id_valid, bits, squash, ex_ready, fw) ==
  LET i == bits.inst
      valid_enable == if2id_valid /\ (~id_valid \/ ex_ready)
  IN /\ id_valid' = IF valid_enable
                    THEN if2id_valid /\ ~squash /\ ~MemRRelated(i, fw)
                    ELSE id_valid /\ ~ex_ready
     /\ r_id2ex' = IF valid_enable
                   THEN [inst |-> i, pc |-> bits.pc, snpc |-> bits.snpc,
                         dnpc |-> IF MretOp(i) THEN csr.mepc ELSE bits.snpc,
                         src1 |-> GprForward(Rs1(i), fw),
                         src2 |-> GprForward(Rs2(i), fw),
                         csr_data |-> CsrForward(i, fw)]
                   ELSE r_id2ex

\* GPR.scala and CSR.scala: what write back does at the end of the cycle.
WriteBackTick(w, lsu_out, csr_w_data, cause, epc) ==
  /\ gpr' = IF RegWEn(w) /\ w.rd # 0 THEN [gpr EXCEPT ![w.rd] = lsu_out] ELSE gpr
  /\ csr' = IF CsrWEn(w) THEN [csr EXCEPT ![w.csr] = csr_w_data]
            ELSE IF cause THEN [csr EXCEPT !.mepc = epc, !.mcause = Ecall]
            ELSE csr
=============================================================================
