-------------------------------- MODULE Core --------------------------------
(***************************************************************************)
(* playground/src/Top.scala: the five stages, the arbiter and the memory,  *)
(* wired together, and the simulator that clocks them                      *)
(* (verilator/src/simulate/simulator.cpp: step_one and exec_one).          *)
(*                                                                         *)
(* One step is one clock cycle.  The wires below are functions of the      *)
(* registers, in an order that has no loop.  After the edge the simulator  *)
(* looks at the statistic registers: an instruction other than the empty   *)
(* one has retired, ebreak and unknown instructions end the simulation.    *)
(***************************************************************************)
EXTENDS MemBus, IDU, EXU, LSU

CONSTANT Images   \* the memory images the simulation may start from

VARIABLES
  cpu_pc,     \* the simulator's cpu.pc
  npc_state,  \* the simulator's npc_state.state: "running", "end", "abort"
  ret_mem,    \* history: memory when the last instruction retired
  want        \* history: the pc of the next instruction decode must take

pipeVars == <<iduVars, exuVars, lsuVars, r_statistic>>
vars == <<busVars, pipeVars, cpu_pc, npc_state, ret_mem, want>>

ASSUME CoreAssumption ==
  /\ Code = Num
  /\ Data = WordMod .. WordMod + NCell - 1
  /\ PcReset = -1
  /\ SnpcOf = [p \in Code \cup {PcReset} |-> (p + 1) % WordMod]
  /\ Nop = NopInst
  /\ Word = Instruction \cup {NumWord(n) : n \in Num}
  /\ Word0 = NumWord(0)
  /\ \A image \in Images :
       /\ image \in [Addr -> Word]
       /\ \A p \in Code : image[p] \in Instruction
       /\ \A a \in Data : image[a] \in {NumWord(n) : n \in Num}

-----------------------------------------------------------------------------
(***************************************************************************)
(* The wires between the stages.                                           *)
(***************************************************************************)
WbBits == IF ls_valid THEN r_ls2wb ELSE Ls2wbReset
cause == CauseOf(WbBits)

\* Slips: a trap does not reach the memory stage, or the execute stage.
LsBitsNotSquashed == IF ex_valid THEN r_ex2ls ELSE Ex2lsReset
ExBitsNotSquashed == IF id_valid THEN r_id2ex ELSE Id2exReset

LsBits == IF ex_valid /\ ~cause THEN r_ex2ls ELSE Ex2lsReset
ExBits == IF id_valid /\ ~cause THEN r_id2ex ELSE Id2exReset
jump_ctl == RedirectOf(ExBits)
squash == jump_ctl \/ cause
IdBits == IF if_valid /\ ~squash THEN r_if2id ELSE If2idReset

\* What the load/store unit presents to the handler.
LsRequest ==
  CASE MemREn(LsBits.inst) ->
         [op |-> "load", addr |-> Cell(LsBits.exu_out), data |-> Word0]
    [] MemWEn(LsBits.inst) ->
         [op |-> "store", addr |-> Cell(LsBits.exu_out), data |-> NumWord(LsBits.src2)]
    [] OTHER -> NoRequest

fin == Fin(LsRequest)
LoadedData == IF LsuRValid THEN r_rdata.val ELSE 0

\* Write back is always ready.
ls_ready == LsuReady(ex_valid, ls_valid, fin)
ex_ready == ExuReady(id_valid, ls_ready)

Forward == [E |-> ExuInfo(ExBits), M |-> LsuInfo(LsBits, LoadedData), W |-> WbuInfo(WbBits)]

id_ready == IduReady(if_valid, IdBits, ex_ready, Forward)

FetchIn ==
  [jump_ctl |-> jump_ctl, dnpc |-> ExuDnpc(ExBits), cause |-> cause,
   tvec |-> csr.mtvec, id_ready |-> id_ready]

\* An instruction, and not an empty bundle, is in write back.
Retires == WbBits.inst # NopInst
-----------------------------------------------------------------------------
Init ==
  /\ BusInit
  /\ mem \in Images
  /\ IDUInit
  /\ EXUInit
  /\ LSUInit
  /\ WBUInit
  /\ cpu_pc = 0
  /\ npc_state = "running"
  /\ ret_mem = mem
  /\ want = 0

\* dpi_c_handler and exec_one, after the clock edge.
SimulatorTick ==
  /\ cpu_pc' = IF r_statistic'.inst # NopInst THEN r_statistic'.dnpc ELSE cpu_pc
  /\ npc_state' = CASE InvalidOp(r_statistic'.inst) -> "abort"
                    [] EbreakOp(r_statistic'.inst) -> "end"
                    [] OTHER -> npc_state

HistoryTick ==
  /\ ret_mem' = IF Retires THEN mem ELSE ret_mem
  /\ want' = IF cause THEN csr.mtvec
             ELSE IF jump_ctl THEN ExuDnpc(ExBits)
             ELSE IF if_valid /\ id_ready THEN SnpcOf[r_if2id.pc]
             ELSE want

Tick ==
  /\ npc_state = "running"
  /\ BusTick(LsRequest, FetchIn)
  /\ IDUTick(if_valid, IdBits, squash, ex_ready, Forward)
  /\ EXUTick(id_valid, ExBits, cause, ls_ready)
  /\ LSUTick(ex_valid, LsBits, LoadedData, ls_valid, fin)
  /\ WBUTick(WbBits, csr.mtvec)
  /\ WriteBackTick(WbBits.inst, WbBits.lsu_out, WbBits.csr_w_data, cause, WbBits.pc)
  /\ SimulatorTick
  /\ HistoryTick

Next == Tick

Spec == Init /\ [][Next]_vars

\* The simulator keeps clocking the processor until the program ends.
FairSpec == Spec /\ WF_vars(Tick)
-----------------------------------------------------------------------------
(***************************************************************************)
(* Correctness.                                                            *)
(***************************************************************************)

\* The registers of the bus, of the stages and of the simulator keep their
\* types: no wire of an empty stage reaches a register that cannot hold it.
TypeOK ==
  /\ BusTypeOK
  /\ IDUTypeOK
  /\ EXUTypeOK
  /\ LSUTypeOK
  /\ WBUTypeOK
  /\ cpu_pc \in Num
  /\ npc_state \in {"running", "end", "abort"}
  /\ ret_mem \in [Addr -> Word]
  /\ want \in Num

Machine == INSTANCE ISA WITH
  pc <- cpu_pc, mem <- ret_mem, halted <- npc_state # "running"

\* The five stages retire what the instructions executed one at a time
\* compute, in that order and once each: every value forwarded, every stall,
\* squash and trap, and memory as it is when an instruction retires.
RunsISA == Machine!Spec

Fetch == INSTANCE FetchBus WITH
  req <- LsRequest,
  ex <- IF ~id_valid THEN "none"
        ELSE IF RedirectOf(r_id2ex) THEN "jump" ELSE "plain",
  ex_dnpc <- IF id_valid THEN ExuDnpc(r_id2ex) ELSE PcReset,
  older <- ex_valid \/ (ls_valid /\ r_ls2wb.pc # PcReset),
  tvec <- csr.mtvec

\* The stages behind the fetch stage keep what FetchBus assumes of them: a
\* request to memory is held until it has finished, redirects come from the
\* execute stage alone, and a trap is raised with its handler's address set.
UsesFetchBus == Fetch!Spec

\* The instruction reported as finished is the one the simulator expects (the
\* assertion "NPC pc is wrong!" of exec_one).
HarnessPcAgrees ==
  [][r_statistic'.inst # NopInst => r_statistic'.pc = cpu_pc]_vars

\* The CSR as the instruction in decode must see it: the result of the nearest
\* later stage that writes it, else the register.
NearestCsr(c) ==
  LET writes(s) == Forward[s].csr_en /\ Forward[s].csr = c
  IN IF writes("E") THEN Forward.E.csr_data
     ELSE IF writes("M") THEN Forward.M.csr_data
     ELSE IF writes("W") THEN Forward.W.csr_data
     ELSE csr[c]

\* "If it is the same CSR and is to be written back, the value forwarded from
\* the stage nearest to decode is chosen" (README.md:103): so is the return
\* address of mret, with the instructions in front of it that write mepc.
MretForwarded ==
  [][if_valid /\ id_ready /\ MretOp(IdBits.inst) => r_id2ex'.dnpc = NearestCsr("mepc")]_vars

\* The pipeline never wedges: while the program has not ended an instruction
\* retires again and again, whatever stalls and squashes there are.
KeepsRetiring == []<>(npc_state = "running" => Retires)
-----------------------------------------------------------------------------
(***************************************************************************)
(* The inductive invariant: what each stage holds, in terms of the machine *)
(* ISA as the instruction in that stage finds it, after all the older ones *)
(* have been executed.                                                     *)
(***************************************************************************)

(***************************************************************************)
(* Types that TypeOK leaves open.                                          *)
(***************************************************************************)

\* Memory holds instructions below WordMod and numbers behind them.
MemoryTyped ==
  /\ \A p \in Code : mem[p] \in Instruction
  /\ \A a \in Data : mem[a] \in {NumWord(n) : n \in Num}

\* What is valid has a pc; only the memory stage passes on an empty bundle,
\* the one a trap left there.
PcsTyped ==
  /\ if_valid => r_if2id.inst \in Instruction
  /\ id_valid => r_id2ex.pc \in Num /\ r_id2ex.snpc \in Num /\ r_id2ex.dnpc \in Num
  /\ ex_valid => r_ex2ls.pc \in Num /\ r_ex2ls.dnpc \in Num
  /\ ls_valid => \/ r_ls2wb.pc \in Num /\ r_ls2wb.dnpc \in Num
                 \/ r_ls2wb.inst = NopInst /\ r_ls2wb.pc = PcReset

(***************************************************************************)
(* The programs the processor runs as the manual has it: the others are    *)
(* those of the runs core_nop, core_setbits and core_mret.                 *)
(***************************************************************************)
Conforming(m) ==
  LET prog == {m[p] : p \in Code}
  IN /\ NopInst \notin prog
     /\ \A i \in prog : i.op \in {"csrrw", "csrrwi"} => i.rs1 # 0
     /\ \A i \in prog : CsrWEn(i) /\ i.op \notin {"csrrw", "csrrwi"} => i.rd # 0
     /\ \A i \in prog, j \in prog : MretOp(i) /\ CsrWEn(j) => j.csr # "mepc"

(***************************************************************************)
(* The machine as the instruction in write back finds it is Machine. The   *)
(* next two are the machines behind it and behind the memory stage.        *)
(***************************************************************************)
GprAfter(i, out, regs) ==
  IF RegWEn(i) /\ i.rd # 0 THEN [regs EXCEPT ![i.rd] = out] ELSE regs

CsrAfter(i, out, regs) ==
  IF CsrWEn(i) THEN [regs EXCEPT ![i.csr] = out] ELSE regs

LsPc == IF ~Retires THEN cpu_pc ELSE IF cause THEN csr.mtvec ELSE WbBits.dnpc
LsGpr == GprAfter(WbBits.inst, WbBits.lsu_out, gpr)
LsCsr == CsrAfter(WbBits.inst, WbBits.csr_w_data, csr)

AtLs == INSTANCE ISA WITH pc <- LsPc, gpr <- LsGpr, csr <- LsCsr, halted <- FALSE

\* What the memory stage hands on, once a load has its value.
LsOut == LsuOut(LsBitsNotSquashed, mem[Cell(LsBitsNotSquashed.exu_out)].val)

ExPc == IF ex_valid THEN r_ex2ls.dnpc ELSE LsPc
ExGpr == GprAfter(LsBitsNotSquashed.inst, LsOut, LsGpr)
ExCsr == CsrAfter(LsBitsNotSquashed.inst, LsBitsNotSquashed.csr_w_data, LsCsr)

AtEx == INSTANCE ISA WITH pc <- ExPc, gpr <- ExGpr, csr <- ExCsr, halted <- FALSE

\* What the stages hold is of the program, but for the empty bundle.
InProgram ==
  LET prog == {mem[p] : p \in Code}
  IN /\ id_valid => r_id2ex.inst \in prog
     /\ ex_valid => r_ex2ls.inst \in prog
     /\ ls_valid => r_ls2wb.inst \in prog \cup {NopInst}

(***************************************************************************)
(* What the stages hold.  Behind a trap nothing is said: it is thrown away *)
(* when the trap reaches write back.                                       *)
(***************************************************************************)
WriteBackGood ==
  LET i == WbBits.inst
  IN Retires =>
       /\ WbBits.pc = cpu_pc
       /\ i = mem[cpu_pc]
       /\ RegWEn(i) /\ i.rd # 0 => WbBits.lsu_out = Machine!RegResult(i)
       /\ CsrWEn(i) => WbBits.csr_w_data = Machine!CsrResult(i)
       /\ ~EcallOp(i) => WbBits.dnpc = Machine!Target(i)

MemoryStageGood ==
  LET i == r_ex2ls.inst
  IN ex_valid /\ ~cause =>
       /\ r_ex2ls.pc = LsPc
       /\ i = mem[LsPc]
       /\ MemREn(i) \/ MemWEn(i) => r_ex2ls.exu_out = Plus(LsGpr[i.rs1], i.imm)
       /\ MemWEn(i) => r_ex2ls.src2 = LsGpr[i.rs2]
       /\ RegWEn(i) /\ i.rd # 0 => LsOut = AtLs!RegResult(i)
       /\ CsrWEn(i) => r_ex2ls.csr_w_data = AtLs!CsrResult(i)
       /\ ~EcallOp(i) => r_ex2ls.dnpc = AtLs!Target(i)

TrapPastExecute == cause \/ (ex_valid /\ EcallOp(r_ex2ls.inst))

ExecuteGood ==
  LET i == r_id2ex.inst
  IN id_valid /\ ~TrapPastExecute =>
       /\ r_id2ex.pc = ExPc
       /\ i = mem[ExPc]
       /\ r_id2ex.snpc = Plus(ExPc, 1)
       /\ r_id2ex.dnpc = IF MretOp(i) THEN ExCsr.mepc ELSE Plus(ExPc, 1)
       /\ Rs1Tag(i) => r_id2ex.src1 = ExGpr[i.rs1]
       /\ Rs2Tag(i) => r_id2ex.src2 = ExGpr[i.rs2]
       /\ CsrREn(i) => r_id2ex.csr_data = ExCsr[i.csr]

\* The instruction decode takes next, unless the execute stage redirects it.
DecodeGood ==
  ~TrapPastExecute =>
    IF id_valid
    THEN ~EcallOp(r_id2ex.inst) /\ ~RedirectOf(r_id2ex) => want = Plus(ExPc, 1)
    ELSE want = ExPc

\* Memory is as the last instruction that retired left it, but for the store
\* in write back, or the one the memory stage is waiting for an answer to.
MemoryGood ==
  /\ Retires => mem = IF MemWEn(WbBits.inst) THEN Machine!Stored(WbBits.inst) ELSE ret_mem
  /\ ls_w_state # "w_idle" => ex_valid /\ ~ls_valid
  /\ ~Retires => mem = IF ls_w_state = "w_wait_resp"
                       THEN [ret_mem EXCEPT ![Cell(r_ex2ls.exu_out)] = NumWord(r_ex2ls.src2)]
                       ELSE ret_mem

ZeroReg == gpr[0] = 0

PipeInv ==
  /\ Conforming(mem)
  /\ ZeroReg
  /\ InProgram
  /\ WriteBackGood
  /\ MemoryStageGood
  /\ ExecuteGood
  /\ DecodeGood
  /\ MemoryGood
=============================================================================
