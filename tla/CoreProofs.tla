----------------------------- MODULE CoreProofs -----------------------------
(***************************************************************************)
(* TLAPS proofs about Core.  The first part has the types of all registers *)
(* and that the pipeline drives its memory side as FetchBus allows.  The   *)
(* two go together: a fetched word is an instruction because FetchBus      *)
(* fetches the right one, and FetchBus does so because of how it is        *)
(* driven.  So the invariant contains that of FetchBusProofs, of which Bus *)
(* is the instance.                                                        *)
(*                                                                         *)
(* The second part: PipeInv is an inductive invariant, and the pipeline    *)
(* implements ISA.  A cycle moves what the stages hold along; the machines *)
(* that PipeInv places between the stages (Machine, AtLs, AtEx) move with  *)
(* it.  So the proof first says, stage by stage, what a cycle does to      *)
(* these machines (Waits, HandsOn, Traps, ExecuteStays, ExecuteMoves),     *)
(* then that the execute stage computes what AtEx does (ExecuteComputes)   *)
(* from operands that decode has taken from AtEx (GprForwarded,            *)
(* CsrForwarded).                                                          *)
(***************************************************************************)
EXTENDS Core, TLAPS

\* The memory side closed with the pipeline (Fetch), with what is proved of it.
Bus == INSTANCE FetchBusProofs WITH
  req <- LsRequest,
  ex <- IF ~id_valid THEN "none"
        ELSE IF RedirectOf(r_id2ex) THEN "jump" ELSE "plain",
  ex_dnpc <- IF id_valid THEN ExuDnpc(r_id2ex) ELSE PcReset,
  older <- ex_valid \/ (ls_valid /\ r_ls2wb.pc # PcReset),
  tvec <- csr.mtvec

\* Types, and the inductive invariant of the memory side.
TypeInv ==
  /\ Bus!IInv
  /\ IDUTypeOK
  /\ EXUTypeOK
  /\ LSUTypeOK
  /\ WBUTypeOK
  /\ cpu_pc \in Num
  /\ npc_state \in {"running", "end", "abort"}
  /\ ret_mem \in [Addr -> Word]
  /\ MemoryTyped
  /\ PcsTyped

-----------------------------------------------------------------------------
\* A sum stays in the word.
LEMMA PlusType == \A a, b \in Int : Plus(a, b) \in Num
  BY WordAssumption DEF Plus, Num

\* So do the bitwise operations.
LEMMA BitsType == \A a, b \in Num : Or(a, b) \in Num /\ AndNot(a, b) \in Num
<1>1. \A S \in SUBSET (0 .. WordBits - 1) : FromBits(S) \in Num
  BY BitsAssumption DEF FromBits
<1>2. \A a : BitsOf(a) \in SUBSET (0 .. WordBits - 1)
  BY DEF BitsOf
<1>. QED
  BY <1>1, <1>2 DEF Or, AndNot

\* The instruction of an empty stage.
LEMMA NopType ==
  /\ NopInst \in Instruction
  /\ ~MemREn(NopInst) /\ ~MemWEn(NopInst) /\ ~EcallOp(NopInst) /\ ~MretOp(NopInst)
  /\ ~EbreakOp(NopInst) /\ ~InvalidOp(NopInst) /\ ~CsrOp(NopInst)
  /\ ~CsrREn(NopInst) /\ ~CsrWEn(NopInst) /\ JumpOp(NopInst) = "none"
  /\ NopInst.rd = 0 /\ NopInst.rs1 = 0
BY WordAssumption, InstAssumption DEF NopInst, Instruction, InstOp, CsrOps, CsrName, Reg, Num, MemREn, MemWEn,
  EcallOp, MretOp, EbreakOp, InvalidOp, CsrOp, CsrREn, CsrWEn, JumpOp

\* Arithmetic on the bundle of a stage stays in the word.
LEMMA AluType ==
  ASSUME NEW i \in Instruction, NEW a \in Num, NEW b \in Num
  PROVE  AluOut(i, a, b) \in Num
<1>1. 0 \in Num /\ 1 \in Num /\ Num \subseteq Int
  BY WordAssumption DEF Num
<1>. QED
  BY <1>1, PlusType DEF AluOut

\* The address space: pcs are the numbers of a word, data cells lie behind
\* them and the reset value in front.
LEMMA Addresses ==
  /\ Code = Num /\ Num \subseteq Int /\ 0 \in Num /\ 1 \in Num
  /\ PcReset = -1 /\ PcReset \notin Num
  /\ Addr = Code \cup Data /\ Code \cap Data = {}
  /\ \A p \in Num \cup {PcReset} : SnpcOf[p] = Plus(p, 1) /\ SnpcOf[p] \in Num
  /\ \A a \in Num : Cell(a) \in Data
<1>1. \A p \in Num \cup {PcReset} : SnpcOf[p] = Plus(p, 1)
  BY CoreAssumption DEF Plus
<1>2. \A a \in Num : Cell(a) \in Data
  BY CoreAssumption, InstAssumption, WordAssumption DEF Cell, Num
<1>3. Code = Num /\ PcReset = -1
  BY CoreAssumption
<1>4. Num \subseteq Int /\ 0 \in Num /\ 1 \in Num /\ -1 \notin Num
  BY WordAssumption DEF Num
<1>5. Addr = Code \cup Data /\ Code \cap Data = {}
  BY BusAssumption DEF Addr
<1>. QED
  BY <1>1, <1>2, <1>3, <1>4, <1>5, PlusType

-----------------------------------------------------------------------------
(***************************************************************************)
(* Types of the wires.                                                     *)
(***************************************************************************)
PcOrReset == Num \cup {PcReset}

Id2ex == [inst : Instruction, pc : PcOrReset, snpc : PcOrReset, dnpc : PcOrReset,
          src1 : Num, src2 : Num, csr_data : Num]
Ex2ls == [inst : Instruction, pc : PcOrReset, dnpc : PcOrReset, src2 : Num, exu_out : Num,
          csr_w_data : Num]
Ls2wb == [inst : Instruction, pc : PcOrReset, dnpc : PcOrReset, lsu_out : Num,
          csr_w_data : Num]

\* What the stages hand on is a bundle; only an empty one has no pc.
LEMMA Bundles ==
  ASSUME TypeInv
  PROVE  /\ ExBits \in Id2ex
         /\ ExBits = Id2exReset \/ (ExBits.pc \in Num /\ ExBits.snpc \in Num /\ ExBits.dnpc \in Num)
         /\ LsBits \in Ex2ls
         /\ LsBits = Ex2lsReset \/ (LsBits.pc \in Num /\ LsBits.dnpc \in Num)
         /\ WbBits \in Ls2wb
         /\ Retires => WbBits.pc \in Num /\ WbBits.dnpc \in Num
<1>. USE NopType, Addresses DEF TypeInv, PcsTyped, PcOrReset
<1>1. ExBits \in Id2ex /\ (ExBits = Id2exReset \/ (ExBits.pc \in Num /\ ExBits.snpc \in Num /\ ExBits.dnpc \in Num))
  BY DEF ExBits, Id2exReset, Id2ex, IDUTypeOK
<1>2. LsBits \in Ex2ls /\ (LsBits = Ex2lsReset \/ (LsBits.pc \in Num /\ LsBits.dnpc \in Num))
  BY DEF LsBits, Ex2lsReset, Ex2ls, EXUTypeOK
<1>3. WbBits \in Ls2wb /\ (Retires => WbBits.pc \in Num /\ WbBits.dnpc \in Num)
  BY DEF WbBits, Retires, Ls2wbReset, Ls2wb, LSUTypeOK
<1>. QED
  BY <1>1, <1>2, <1>3

\* The execute stage computes numbers, and a redirect goes to an instruction.
LEMMA ExecuteType ==
  ASSUME NEW d \in Id2ex, d = Id2exReset \/ (d.pc \in Num /\ d.snpc \in Num /\ d.dnpc \in Num)
  PROVE  /\ ExuOut(d) \in Num
         /\ ExuCsrOut(d) \in Num
         /\ ExuDnpc(d) \in PcOrReset
         /\ d # Id2exReset => ExuDnpc(d) \in Num
         /\ d = Id2exReset => ExuDnpc(d) = PcReset /\ ~RedirectOf(d) /\ ~JumpTaken(d)
<1>. USE NopType, Addresses, PlusType DEF Id2ex, PcOrReset
<1>1. d.inst \in Instruction /\ d.inst.imm \in Num /\ d.inst.rs1 \in Num /\ d.src1 \in Num /\ d.src2 \in Num /\ d.csr_data \in Num
  <2>1. Reg \subseteq Num
    BY WordAssumption, InstAssumption DEF Reg, Num
  <2>. QED
    BY <2>1 DEF Instruction
<1>2. AluSrc1(d.inst, d.src1, d.pc, d.snpc) \in Num /\ AluSrc2(d.inst, d.src2) \in Num
  <2>1. d = Id2exReset => d.inst.op = "addi"
    BY DEF Id2exReset, NopInst
  <2>. QED
    BY <1>1, <2>1 DEF AluSrc1, AluSrc2
<1>3. ExuOut(d) \in Num
  BY <1>1, <1>2, AluType DEF ExuOut
<1>4. ExuCsrOut(d) \in Num
  BY <1>1, BitsType DEF ExuCsrOut, CsrCalc
<1>5. d = Id2exReset => ~RedirectOf(d) /\ ~JumpTaken(d) /\ ExuDnpc(d) = PcReset
  BY DEF RedirectOf, JumpTaken, ExuDnpc, Id2exReset
<1>6. d # Id2exReset => ExuDnpc(d) \in Num
  BY <1>1 DEF ExuDnpc
<1>. QED
  BY <1>3, <1>4, <1>5, <1>6

-----------------------------------------------------------------------------
(***************************************************************************)
(* What is proved of the memory side, in the words of Core.                *)
(***************************************************************************)
LEMMA FromBus ==
  ASSUME Bus!IInv
  PROVE  /\ BusTypeOK
         /\ want \in Code /\ csr.mtvec \in Code
         /\ LsRequest \in Request
         /\ LsuRValid => LsRequest.op = "load" /\ r_rdata = mem[LsRequest.addr]
         /\ if_valid => /\ r_if2id.pc \in Code
                        /\ r_if2id.inst = mem[r_if2id.pc]
                        /\ r_if2id.snpc = SnpcOf[r_if2id.pc]
         /\ if_valid /\ ~(id_valid /\ RedirectOf(r_id2ex)) => r_if2id.pc = want
<1>. USE DEF Bus!IInv
<1>1. BusTypeOK /\ want \in Code /\ csr.mtvec \in Code /\ LsRequest \in Request
  BY DEF Bus!TypeOK, Bus!BusTypeOK, Bus!SRAMTypeOK, Bus!ArbiterTypeOK, Bus!LSHandlerTypeOK,
         Bus!IFUTypeOK, Bus!Addr, Bus!FetchAddr, Bus!Request, Bus!NoRequest,
         BusTypeOK, SRAMTypeOK, ArbiterTypeOK, LSHandlerTypeOK,
         IFUTypeOK, Addr, FetchAddr, Request, NoRequest
<1>2. LsuRValid => LsRequest.op = "load" /\ r_rdata = mem[LsRequest.addr]
  BY DEF LsuRValid, RValidOf, OutRValid, Bus!ReadChannel, Bus!ReadData
<1>3. if_valid => /\ r_if2id.pc \in Code
                  /\ r_if2id.inst = mem[r_if2id.pc]
                  /\ r_if2id.snpc = SnpcOf[r_if2id.pc]
  BY DEF Bus!FetchAddresses, Bus!FetchedWord
<1>4. if_valid /\ ~(id_valid /\ RedirectOf(r_id2ex)) => r_if2id.pc = want
  BY <1>1, <1>3 DEF Bus!NextFetch, BusTypeOK, IFUTypeOK, Bus!FetchAddresses
<1>. QED
  BY <1>1, <1>2, <1>3, <1>4

\* A load brings a number.
LEMMA LoadedType ==
  ASSUME TypeInv
  PROVE  LoadedData \in Num /\ (LsuRValid => LoadedData = mem[LsRequest.addr].val)
<1>1. Bus!IInv /\ MemoryTyped
  BY DEF TypeInv
<1>2. \A a \in Data : mem[a].val \in Num
  BY <1>1 DEF MemoryTyped, NumWord
<1>3. LsRequest.op = "load" => LsRequest.addr \in Data
  BY <1>1, FromBus DEF Request, NoRequest
<1>. QED
  BY <1>1, <1>2, <1>3, FromBus, Addresses DEF LoadedData

\* What the later stages forward are numbers.
LEMMA ForwardType ==
  ASSUME TypeInv, NEW s \in {"E", "M", "W"}
  PROVE  /\ Forward[s].rd \in Reg
         /\ Forward[s].out \in Num
         /\ Forward[s].csr_data \in Num
<1>. USE Addresses, NopType DEF Instruction
<1>0. 0 \in Reg
  BY InstAssumption DEF Reg
<1>1. CASE s = "E"
  BY <1>0, <1>1, Bundles, ExecuteType DEF Forward, ExuInfo, Id2ex
<1>2. CASE s = "M"
  BY <1>0, <1>2, Bundles, LoadedType DEF Forward, LsuInfo, LsuOut, Ex2ls
<1>3. CASE s = "W"
  BY <1>0, <1>3, Bundles DEF Forward, WbuInfo, Ls2wb
<1>. QED
  BY <1>1, <1>2, <1>3

\* Decode is handed a fetched instruction or an empty bundle, which waits for
\* nothing.
LEMMA DecodeBundle ==
  ASSUME TypeInv
  PROVE  /\ IdBits.inst \in Instruction
         /\ IdBits.pc \in PcOrReset /\ IdBits.snpc \in PcOrReset
         /\ if_valid /\ ~squash =>
              /\ IdBits = r_if2id
              /\ IdBits.pc \in Num /\ IdBits.snpc = Plus(IdBits.pc, 1) /\ IdBits.snpc \in Num
         /\ squash \/ ~if_valid =>
              IdBits.inst = NopInst /\ ~MemRRelated(IdBits.inst, Forward)
<1>1. CASE if_valid /\ ~squash
  BY <1>1, FromBus, Addresses DEF TypeInv, PcsTyped, IdBits, PcOrReset
<1>2. CASE squash \/ ~if_valid
  <2>1. IdBits = If2idReset
    BY <1>2 DEF IdBits
  <2>2. IdBits.inst = NopInst /\ IdBits.pc = PcReset /\ IdBits.snpc = PcReset
    BY <2>1, CoreAssumption DEF If2idReset
  <2>3. Rs1(NopInst) = 0 /\ Rs2(NopInst) = 0
    BY NopType DEF Rs1, Rs2, Rs1Tag, Rs2Tag, NopInst
  <2>. QED
    BY <1>2, <2>2, <2>3, NopType DEF MemRRelated, PcOrReset
<1>. QED
  BY <1>1, <1>2

-----------------------------------------------------------------------------
(***************************************************************************)
(* A clock cycle keeps the types of the stages.                            *)
(***************************************************************************)
\* Decode.
LEMMA DecodeTypeStep ==
  ASSUME TypeInv, Tick
  PROVE  IDUTypeOK' /\ (id_valid' => r_id2ex'.pc \in Num /\ r_id2ex'.snpc \in Num /\ r_id2ex'.dnpc \in Num)
<1>. USE Addresses
<1>1. /\ IDUTick(if_valid, IdBits, squash, ex_ready, Forward)
      /\ WriteBackTick(WbBits.inst, WbBits.lsu_out, WbBits.csr_w_data, cause, WbBits.pc)
  BY DEF Tick
<1>2. gpr \in [Reg -> Num] /\ csr \in [CsrName -> Num] /\ r_id2ex \in Id2ex /\ id_valid \in BOOLEAN
  BY DEF TypeInv, IDUTypeOK, Id2ex, PcOrReset
<1>3. /\ GprForward(Rs1(IdBits.inst), Forward) \in Num
      /\ GprForward(Rs2(IdBits.inst), Forward) \in Num
      /\ CsrForward(IdBits.inst, Forward) \in Num
  <2>1. /\ Forward.E.out \in Num /\ Forward.E.csr_data \in Num
        /\ Forward.M.out \in Num /\ Forward.M.csr_data \in Num
        /\ Forward.W.out \in Num /\ Forward.W.csr_data \in Num
    BY ForwardType
  <2>2. IdBits.inst.csr \in CsrName /\ IdBits.inst.rs1 \in Reg /\ IdBits.inst.rs2 \in Reg
    BY DecodeBundle DEF Instruction
  <2>. QED
    BY <1>2, <2>1, <2>2 DEF GprForward, CsrForward, Rs1, Rs2
<1>4. id_valid' \in BOOLEAN /\ r_id2ex' \in Id2ex
  <2>1. (IF MretOp(IdBits.inst) THEN csr.mepc ELSE IdBits.snpc) \in PcOrReset
    BY <1>2, DecodeBundle DEF PcOrReset, CsrName
  <2>. QED
    BY <1>1, <1>2, <1>3, <2>1, DecodeBundle DEF IDUTick, Id2ex
<1>5. id_valid' => r_id2ex'.pc \in Num /\ r_id2ex'.snpc \in Num /\ r_id2ex'.dnpc \in Num
  <2>1. CASE if_valid /\ (~id_valid \/ ex_ready)
    <3>1. csr.mepc \in Num
      BY <1>2 DEF CsrName
    <3>. QED
      BY <2>1, <1>1, <3>1, DecodeBundle DEF IDUTick
  <2>2. CASE ~(if_valid /\ (~id_valid \/ ex_ready))
    BY <2>2, <1>1 DEF IDUTick, TypeInv, PcsTyped
  <2>. QED
    BY <2>1, <2>2
<1>6. gpr' \in [Reg -> Num]
  BY <1>1, <1>2, Bundles DEF WriteBackTick, Ls2wb
<1>7. csr' \in [CsrName -> Num]
  <2>1. Ecall \in Num
    BY WordAssumption
  <2>2. WbBits.csr_w_data \in Num /\ WbBits.inst.csr \in CsrName /\ (cause => WbBits.pc \in Num)
    BY Bundles, NopType DEF Ls2wb, Instruction, cause, CauseOf, Retires
  <2>3. csr' = csr \/ csr' = [csr EXCEPT ![WbBits.inst.csr] = WbBits.csr_w_data]
        \/ (cause /\ csr' = [csr EXCEPT !.mepc = WbBits.pc, !.mcause = Ecall])
    BY <1>1 DEF WriteBackTick
  <2>. QED
    BY <1>2, <2>1, <2>2, <2>3 DEF CsrName
<1>. QED
  BY <1>4, <1>5, <1>6, <1>7 DEF IDUTypeOK, Id2ex, PcOrReset

\* Execute.
LEMMA ExecuteTypeStep ==
  ASSUME TypeInv, Tick
  PROVE  EXUTypeOK' /\ (ex_valid' => r_ex2ls'.pc \in Num /\ r_ex2ls'.dnpc \in Num)
<1>1. EXUTick(id_valid, ExBits, cause, ls_ready)
  BY DEF Tick
<1>2. ExBits \in Id2ex /\ ExuOut(ExBits) \in Num /\ ExuCsrOut(ExBits) \in Num /\ ExuDnpc(ExBits) \in PcOrReset
  BY Bundles, ExecuteType
<1>3. id_valid /\ ~cause => ExBits.pc \in Num /\ ExuDnpc(ExBits) \in Num
  <2>. SUFFICES ASSUME id_valid, ~cause PROVE ExBits.pc \in Num /\ ExuDnpc(ExBits) \in Num
    OBVIOUS
  <2>1. ExBits.pc \in Num
    BY DEF ExBits, TypeInv, PcsTyped
  <2>2. ExBits # Id2exReset
    BY <2>1, Addresses DEF Id2exReset
  <2>. QED
    BY <2>1, <2>2, Bundles, ExecuteType
<1>4. EXUTypeOK'
  BY <1>1, <1>2 DEF EXUTick, EXUTypeOK, TypeInv, Id2ex, PcOrReset
<1>5. ex_valid' => r_ex2ls'.pc \in Num /\ r_ex2ls'.dnpc \in Num
  BY <1>1, <1>3 DEF EXUTick, TypeInv, PcsTyped, ExuReady
<1>. QED
  BY <1>4, <1>5

\* The memory stage.
LEMMA MemoryTypeStep ==
  ASSUME TypeInv, Tick
  PROVE  /\ LSUTypeOK'
         /\ ls_valid' => \/ r_ls2wb'.pc \in Num /\ r_ls2wb'.dnpc \in Num
                         \/ r_ls2wb'.inst = NopInst /\ r_ls2wb'.pc = PcReset
<1>1. LSUTick(ex_valid, LsBits, LoadedData, ls_valid, fin)
  BY DEF Tick
<1>2. LsBits \in Ex2ls /\ LsuOut(LsBits, LoadedData) \in Num
  BY Bundles, LoadedType DEF LsuOut, Ex2ls
<1>3. \/ LsBits.pc \in Num /\ LsBits.dnpc \in Num
      \/ LsBits.inst = NopInst /\ LsBits.pc = PcReset
  BY Bundles DEF Ex2lsReset
<1>4. LSUTypeOK'
  BY <1>1, <1>2 DEF LSUTick, LSUTypeOK, TypeInv, EXUTypeOK, Ex2ls, PcOrReset
<1>5. ls_valid' => \/ r_ls2wb'.pc \in Num /\ r_ls2wb'.dnpc \in Num
                   \/ r_ls2wb'.inst = NopInst /\ r_ls2wb'.pc = PcReset
  BY <1>1, <1>3 DEF LSUTick
<1>. QED
  BY <1>4, <1>5

\* Write back and the simulator.
LEMMA RetireTypeStep ==
  ASSUME TypeInv, Tick
  PROVE  WBUTypeOK' /\ (cpu_pc \in Num /\ npc_state \in {"running", "end", "abort"} /\ ret_mem \in [Addr -> Word])'
<1>1. WBUTick(WbBits, csr.mtvec) /\ SimulatorTick /\ HistoryTick
  BY DEF Tick
<1>2. csr.mtvec \in Num /\ mem \in [Addr -> Word]
  BY FromBus, Addresses DEF TypeInv, BusTypeOK, SRAMTypeOK
<1>3. WBUTypeOK' /\ (r_statistic'.inst # NopInst => r_statistic'.dnpc \in Num)
  BY <1>1, <1>2, Bundles DEF WBUTick, WBUTypeOK, Ls2wb, PcOrReset, Retires
<1>. QED
  BY <1>1, <1>2, <1>3 DEF SimulatorTick, HistoryTick, TypeInv

-----------------------------------------------------------------------------
(***************************************************************************)
(* A clock cycle is one of FetchBus.                                       *)
(***************************************************************************)
\* The execute stage hands on what it holds.
ex_fire == id_valid /\ ex_ready

\* The inputs of the memory side are the wires of the pipeline.
LEMMA InputsStep ==
  ASSUME TypeInv, Tick
  PROVE  Bus!BusTick(LsRequest, Bus!FetchInputs(cause, id_ready))
<1>1. Bus!FetchInputs(cause, id_ready) = FetchIn
  <2>0. cause \in BOOLEAN /\ \A d : RedirectOf(d) \in BOOLEAN
    BY DEF cause, CauseOf, EcallOp, RedirectOf, JumpTaken, MretOp
  <2>1. CASE id_valid /\ ~cause
    BY <2>0, <2>1 DEF Bus!FetchInputs, Bus!JumpCtl, FetchIn, jump_ctl, ExBits
  <2>2. CASE ~(id_valid /\ ~cause)
    <3>1. ExBits = Id2exReset
      BY <2>2 DEF ExBits
    <3>2. ExuDnpc(ExBits) = PcReset /\ ~RedirectOf(ExBits)
      BY <3>1, Bundles, ExecuteType
    <3>. QED
      BY <2>0, <2>2, <3>2 DEF Bus!FetchInputs, Bus!JumpCtl, FetchIn, jump_ctl
  <2>. QED
    BY <2>1, <2>2
<1>2. BusTick(LsRequest, FetchIn)
  BY DEF Tick
<1>. HIDE DEF LsRequest, FetchIn
<1>. QED
  BY <1>1, <1>2 DEF BusTick, Bus!BusTick,
    IfuRValid, Bus!IfuRValid, LsuRValid, Bus!LsuRValid, RValidOf, Bus!RValidOf, OutRValid, Bus!OutRValid,
    ArReadyOf, Bus!ArReadyOf, LsuArValid, Bus!LsuArValid, REn, Bus!REn, LsuAwValid, Bus!LsuAwValid,
    WEn, Bus!WEn, LSHandlerTick, Bus!LSHandlerTick, IFUTick, Bus!IFUTick, Dnpc, Bus!Dnpc,
    DnpcValid, Bus!DnpcValid, CauseValid, Bus!CauseValid, UpdateState, Bus!UpdateState, Npc, Bus!Npc,
    FetchPc, Bus!FetchPc, IfuArValid, Bus!IfuArValid, ValidEnable, Bus!ValidEnable,
    ArbiterTick, Bus!ArbiterTick, Select, Bus!Select, ArbiterAddr, Bus!ArbiterAddr,
    OutRReady, Bus!OutRReady, SRAMReadTick, Bus!SRAMReadTick, SRAMWriteTick, Bus!SRAMWriteTick,
    UpdateAddr, Bus!UpdateAddr, WriteEnable, Bus!WriteEnable

\* Who may move, and what a trap and a redirect do to it.
LEMMA Control ==
  ASSUME TypeInv
  PROVE  /\ if_valid \in BOOLEAN /\ id_valid \in BOOLEAN /\ ex_valid \in BOOLEAN /\ ls_valid \in BOOLEAN
         /\ fin \in BOOLEAN /\ cause \in BOOLEAN /\ jump_ctl \in BOOLEAN /\ id_ready \in BOOLEAN
         /\ ls_ready = (ex_valid /\ fin)
         /\ ex_ready = (id_valid /\ (~ex_valid \/ fin))
         /\ Retires => ls_valid
         /\ cause => Retires /\ fin
         /\ jump_ctl = (id_valid /\ RedirectOf(r_id2ex) /\ ~cause)
         /\ id_ready => if_valid /\ (~id_valid \/ ex_ready)
         /\ squash => id_ready = (if_valid /\ (~id_valid \/ ex_ready))
<1>1. if_valid \in BOOLEAN /\ id_valid \in BOOLEAN /\ ex_valid \in BOOLEAN /\ ls_valid \in BOOLEAN
  BY FromBus DEF TypeInv, BusTypeOK, IFUTypeOK, IDUTypeOK, EXUTypeOK, LSUTypeOK
<1>2. fin \in BOOLEAN /\ cause \in BOOLEAN /\ jump_ctl \in BOOLEAN /\ id_ready \in BOOLEAN
  BY DEF fin, Fin, LsFin, cause, CauseOf, EcallOp, jump_ctl, RedirectOf, JumpTaken, MretOp, id_ready, IduReady
<1>3. ls_ready = (ex_valid /\ fin)
  BY <1>1, <1>2 DEF ls_ready, LsuReady
<1>4. ex_ready = (id_valid /\ (~ex_valid \/ fin))
  BY <1>1, <1>2, <1>3 DEF ex_ready, ExuReady
<1>5. Retires => ls_valid
  BY DEF Retires, WbBits, Ls2wbReset
<1>6. cause => Retires
  BY NopType DEF cause, CauseOf, Retires
<1>7. cause => fin
  <2>. SUFFICES ASSUME cause PROVE fin
    OBVIOUS
  <2>1. LsBits.inst = NopInst
    BY DEF LsBits, Ex2lsReset
  <2>2. LsRequest = NoRequest
    BY <2>1, NopType DEF LsRequest
  <2>. QED
    BY <2>2 DEF fin, Fin, LsFin, REn, WEn, NoRequest
<1>8. jump_ctl = (id_valid /\ RedirectOf(r_id2ex) /\ ~cause)
  <2>1. CASE id_valid /\ ~cause
    BY <2>1, <1>2 DEF jump_ctl, ExBits
  <2>2. CASE ~(id_valid /\ ~cause)
    <3>1. ExBits = Id2exReset
      BY <2>2 DEF ExBits
    <3>. QED
      BY <2>2, <3>1, <1>2, Bundles, ExecuteType DEF jump_ctl
  <2>. QED
    BY <2>1, <2>2
<1>9. /\ id_ready => if_valid /\ (~id_valid \/ ex_ready)
      /\ squash => id_ready = (if_valid /\ (~id_valid \/ ex_ready))
  BY <1>1, <1>2, DecodeBundle DEF id_ready, IduReady
<1>. QED
  BY <1>1, <1>2, <1>3, <1>4, <1>5, <1>6, <1>7, <1>8, <1>9

\* The memory stage keeps its request until it has finished.
LEMMA RequestStep ==
  ASSUME TypeInv, Tick
  PROVE  Bus!ReqTick
<1>1. LsRequest' \in Request
  <2>1. LsBits' \in Ex2ls
    BY ExecuteTypeStep, NopType, Addresses DEF LsBits, Ex2lsReset, Ex2ls, EXUTypeOK, PcOrReset
  <2>2. LsRequest' = CASE MemREn(LsBits'.inst) ->
                            [op |-> "load", addr |-> Cell(LsBits'.exu_out), data |-> Word0]
                       [] MemWEn(LsBits'.inst) ->
                            [op |-> "store", addr |-> Cell(LsBits'.exu_out), data |-> NumWord(LsBits'.src2)]
                       [] OTHER -> NoRequest
    BY DEF LsRequest
  <2>3. LsBits'.exu_out \in Num /\ LsBits'.src2 \in Num
    BY <2>1 DEF Ex2ls
  <2>4. Cell(LsBits'.exu_out) \in Data /\ NumWord(LsBits'.src2) \in Word
    BY <2>3, Addresses, CoreAssumption
  <2>. QED
    BY <2>2, <2>4 DEF Request, NoRequest
<1>2. ASSUME ~fin PROVE LsRequest' = LsRequest
  <2>1. ~cause /\ ~ls_ready
    BY <1>2, Control
  <2>2. EXUTick(id_valid, ExBits, cause, ls_ready) /\ LSUTick(ex_valid, LsBits, LoadedData, ls_valid, fin)
    BY DEF Tick
  <2>3. ex_valid
    <3>1. LsBits.inst # NopInst
      BY <1>2, NopType DEF fin, Fin, LsFin, REn, WEn, LsRequest, NoRequest
    <3>. QED
      BY <3>1 DEF LsBits, Ex2lsReset
  <2>4. ex_valid' /\ r_ex2ls' = r_ex2ls
    BY <2>1, <2>2, <2>3 DEF EXUTick, ExuReady
  <2>5. ~ls_valid'
    BY <1>2, <2>2, Control DEF LSUTick, LsuReady
  <2>6. ~cause'
    BY <2>5, NopType DEF cause, CauseOf, WbBits, Ls2wbReset
  <2>. QED
    BY <2>1, <2>3, <2>4, <2>6 DEF LsRequest, LsBits
<1>3. Bus!Request = Request /\ Bus!Fin(LsRequest) = fin
  BY DEF Bus!Request, Request, Bus!NoRequest, NoRequest, Bus!Fin, fin, Fin, Bus!LsFin, LsFin,
    Bus!REn, REn, Bus!WEn, WEn, Bus!LsuRValid, LsuRValid, Bus!RValidOf, RValidOf, Bus!OutRValid, OutRValid
<1>. QED
  BY <1>1, <1>2, <1>3 DEF Bus!ReqTick

\* The execute stage takes what decode delivers and keeps it until it fires.
LEMMA RedirectStep ==
  ASSUME TypeInv, Tick
  PROVE  Bus!ExTick(cause, id_ready, ex_fire)
<1>. DEFINE ex == IF ~id_valid THEN "none" ELSE IF RedirectOf(r_id2ex) THEN "jump" ELSE "plain"
            dnpc == IF id_valid THEN ExuDnpc(r_id2ex) ELSE PcReset
            deliver == if_valid /\ id_ready /\ ~jump_ctl /\ ~cause
<1>1. Bus!Deliver(cause, id_ready) = deliver
  BY Control DEF Bus!Deliver, Bus!JumpCtl
<1>2. IDUTick(if_valid, IdBits, squash, ex_ready, Forward)
  BY DEF Tick
<1>3. CASE deliver
  <2>1. if_valid /\ (~id_valid \/ ex_ready) /\ ~squash /\ ~MemRRelated(IdBits.inst, Forward)
    BY <1>3, Control DEF squash, id_ready, IduReady
  <2>2. /\ id_valid' = TRUE
        /\ r_id2ex'.inst = IdBits.inst
        /\ r_id2ex'.dnpc = IF MretOp(IdBits.inst) THEN csr.mepc ELSE IdBits.snpc
    BY <1>2, <2>1 DEF IDUTick
  <2>3. r_id2ex' \in Id2ex /\ r_id2ex'.pc \in Num /\ r_id2ex'.snpc \in Num /\ r_id2ex'.dnpc \in Num
    BY <2>2, DecodeTypeStep DEF IDUTypeOK, Id2ex, PcOrReset
  <2>4. ExuDnpc(r_id2ex') \in Code
    BY <2>3, ExecuteType, Addresses DEF Id2exReset
  <2>5. ~RedirectOf(r_id2ex') => ExuDnpc(r_id2ex') = r_if2id.snpc
    BY <2>1, <2>2, DecodeBundle DEF RedirectOf, ExuDnpc
  <2>6. \/ ex' = "plain" /\ dnpc' = r_if2id.snpc
        \/ ex' = "jump" /\ dnpc' \in Code
    BY <2>2, <2>4, <2>5
  <2>. QED
    BY <1>1, <1>3, <2>6 DEF Bus!ExTick
<1>4. CASE ~deliver
  <2>1. CASE if_valid /\ (~id_valid \/ ex_ready)
    <3>1. squash \/ MemRRelated(IdBits.inst, Forward)
      BY <1>4, <2>1 DEF squash, id_ready, IduReady
    <3>2. id_valid' = FALSE /\ (id_valid => ex_fire)
      BY <1>2, <2>1, <3>1 DEF IDUTick, ex_fire
    <3>. QED
      BY <1>1, <1>4, <3>2, Control DEF Bus!ExTick, ex_fire
  <2>2. CASE ~(if_valid /\ (~id_valid \/ ex_ready))
    <3>1. id_valid' = (id_valid /\ ~ex_ready) /\ r_id2ex' = r_id2ex
      BY <1>2, <2>2 DEF IDUTick
    <3>. QED
      BY <1>1, <1>4, <3>1, Control DEF Bus!ExTick, ex_fire
  <2>. QED
    BY <2>1, <2>2
<1>. QED
  BY <1>3, <1>4

\* Something is past the execute stage only if it was there or came from it,
\* and nothing is behind a trap.
LEMMA OlderStep ==
  ASSUME TypeInv, Tick
  PROVE  Bus!OlderTick(cause, ex_fire)
<1>. DEFINE older == ex_valid \/ (ls_valid /\ r_ls2wb.pc # PcReset)
<1>1. EXUTick(id_valid, ExBits, cause, ls_ready) /\ LSUTick(ex_valid, LsBits, LoadedData, ls_valid, fin)
  BY DEF Tick
<1>2. older' \in BOOLEAN
  BY ExecuteTypeStep, MemoryTypeStep DEF EXUTypeOK, LSUTypeOK
<1>3. ASSUME cause PROVE ~older'
  <2>1. ~ex_valid' 
    BY <1>1, <1>3, Control DEF EXUTick
  <2>2. ls_valid' => r_ls2wb'.pc = PcReset
    BY <1>1, <1>3, Control DEF LSUTick, LsuReady, LsBits, Ex2lsReset
  <2>. QED
    BY <2>1, <2>2
<1>4. ASSUME ~older, ~ex_fire PROVE ~older'
  BY <1>1, <1>4, Control DEF EXUTick, ExuReady, LSUTick, LsuReady, ex_fire
<1>. QED
  BY <1>2, <1>3, <1>4, Control DEF Bus!OlderTick

\* mtvec changes by an instruction past the execute stage, and not by a trap.
LEMMA TvecStep ==
  ASSUME TypeInv, Tick
  PROVE  Bus!TvecTick(cause)
<1>1. WriteBackTick(WbBits.inst, WbBits.lsu_out, WbBits.csr_w_data, cause, WbBits.pc)
  BY DEF Tick
<1>2. csr \in [CsrName -> Num] /\ csr'.mtvec \in Code
  BY DecodeTypeStep, Addresses DEF TypeInv, IDUTypeOK, CsrName
<1>3. ASSUME cause PROVE csr'.mtvec = csr.mtvec
  <2>1. ~CsrWEn(WbBits.inst)
    BY <1>3 DEF cause, CauseOf, EcallOp, CsrWEn, CsrOp, CsrOps
  <2>. QED
    BY <1>1, <1>2, <1>3, <2>1 DEF WriteBackTick, CsrName
<1>4. ASSUME ~cause, ~(ex_valid \/ (ls_valid /\ r_ls2wb.pc # PcReset)) PROVE csr' = csr
  <2>1. WbBits.inst = NopInst
    BY <1>4, Addresses DEF TypeInv, PcsTyped, WbBits, Ls2wbReset
  <2>. QED
    BY <1>1, <1>4, <2>1, NopType DEF WriteBackTick
<1>. QED
  BY <1>2, <1>3, <1>4 DEF Bus!TvecTick

\* The next instruction decode must take is the same in both.
LEMMA WantStep ==
  ASSUME TypeInv, Tick
  PROVE  Bus!WantTick(cause, id_ready)
<1>1. want' = IF cause THEN csr.mtvec
              ELSE IF jump_ctl THEN ExuDnpc(ExBits)
              ELSE IF if_valid /\ id_ready THEN SnpcOf[r_if2id.pc]
              ELSE want
  BY DEF Tick, HistoryTick
<1>2. jump_ctl => ExBits = r_id2ex /\ id_valid /\ ~cause
  BY Control DEF ExBits
<1>. QED
  BY <1>1, <1>2, Control DEF Bus!WantTick, Bus!JumpCtl, Bus!Deliver

\* A clock edge of Core is one of FetchBus.
LEMMA CycleStep ==
  ASSUME TypeInv, Tick
  PROVE  Bus!Cycle(cause, id_ready, ex_fire)
<1>1. cause => ex_valid \/ (ls_valid /\ r_ls2wb.pc # PcReset)
  BY Control, Addresses DEF TypeInv, PcsTyped, Retires, WbBits
<1>2. /\ ex_fire => id_valid
      /\ cause /\ id_valid => ex_fire
  BY Control DEF ex_fire
<1>3. Bus!IdReadyAllowed(cause, id_ready, ex_fire)
  BY Control DEF Bus!IdReadyAllowed, Bus!JumpCtl, ex_fire, squash
<1>. QED
  BY <1>1, <1>2, <1>3, InputsStep, RequestStep, RedirectStep, OlderStep, TvecStep, WantStep
     DEF Bus!Cycle

-----------------------------------------------------------------------------
(***************************************************************************)
(* The invariant of the types, and the refinement.                         *)
(***************************************************************************)
\* After reset.
LEMMA TypeInit == Init => TypeInv /\ Bus!Init
<1>. SUFFICES ASSUME Init PROVE TypeInv /\ Bus!Init
  OBVIOUS
<1>. USE Addresses, NopType
<1>1. mem \in [Addr -> Word] /\ MemoryTyped
  BY CoreAssumption DEF Init, MemoryTyped
<1>2. ~id_valid /\ ~ex_valid /\ ~ls_valid /\ ~if_valid
  BY DEF Init, IDUInit, EXUInit, LSUInit, BusInit, IFUInit
<1>3. LsRequest = NoRequest
  BY <1>2 DEF LsRequest, LsBits, Ex2lsReset
<1>4. /\ gpr = [r \in Reg |-> 0] /\ csr = [c \in CsrName |-> 0]
      /\ r_id2ex = Id2exReset /\ r_ex2ls = Ex2lsReset /\ r_ls2wb = Ls2wbReset
      /\ r_statistic = [inst |-> NopInst, pc |-> PcReset, dnpc |-> PcReset]
      /\ want = 0
  BY DEF Init, IDUInit, EXUInit, LSUInit, WBUInit
<1>5. Bus!Init
  <2>1. csr.mtvec = 0
    BY <1>4 DEF CsrName
  <2>2. SnpcOf[PcReset] = 0
    BY CoreAssumption, WordAssumption
  <2>3. Bus!BusInit
    BY DEF Init, BusInit, SRAMInit, ArbiterInit, LSHandlerInit, IFUInit, If2idReset,
      Bus!BusInit, Bus!SRAMInit, Bus!ArbiterInit, Bus!LSHandlerInit, Bus!IFUInit, Bus!If2idReset
  <2>. QED
    BY <1>1, <1>2, <1>3, <1>4, <2>1, <2>2, <2>3 DEF Bus!Init, Bus!Addr, Addr, Bus!NoRequest, NoRequest
<1>6. Bus!IInv
  BY <1>5, Bus!InitInv, BusAssumption DEF Bus!Addr, Addr
<1>7. IDUTypeOK /\ EXUTypeOK /\ LSUTypeOK /\ WBUTypeOK
  <2>1. id_valid = FALSE /\ ex_valid = FALSE /\ ls_valid = FALSE
    BY DEF Init, IDUInit, EXUInit, LSUInit
  <2>2. gpr \in [Reg -> Num] /\ csr \in [CsrName -> Num]
    BY <1>4
  <2>. QED
    BY <2>1, <2>2, <1>4 DEF IDUTypeOK, EXUTypeOK, LSUTypeOK, WBUTypeOK, Id2exReset, Ex2lsReset, Ls2wbReset
<1>8. cpu_pc \in Num /\ npc_state \in {"running", "end", "abort"} /\ ret_mem \in [Addr -> Word]
  BY <1>1 DEF Init
<1>. QED
  BY <1>1, <1>2, <1>5, <1>6, <1>7, <1>8 DEF TypeInv, PcsTyped

\* The store of a cycle goes to a data cell.
LEMMA MemoryTypedStep ==
  ASSUME TypeInv, Tick
  PROVE  /\ MemoryTyped'
         /\ \A p \in Code : mem'[p] = mem[p]
<1>1. SRAMWriteTick(LsuAwValid(LsRequest), LsRequest.addr, LsuAwValid(LsRequest), LsRequest.data, r_bvalid)
  BY DEF Tick, BusTick
<1>2. r_awready => /\ LsRequest.op = "store"
                   /\ r_awaddr = LsRequest.addr /\ r_wdata = LsRequest.data
  BY DEF TypeInv, Bus!IInv, Bus!WriteChannel
<1>3. LsRequest.op = "store" =>
        LsRequest.addr \in Data /\ LsRequest.data \in {NumWord(n) : n \in Num}
  <2>1. LsBits.exu_out \in Num /\ LsBits.src2 \in Num
    BY Bundles DEF Ex2ls
  <2>. QED
    BY <2>1, Addresses DEF LsRequest, NoRequest
<1>4. mem \in [Addr -> Word] /\ MemoryTyped
  BY FromBus DEF TypeInv, BusTypeOK, SRAMTypeOK
<1>5. \/ mem' = mem
      \/ /\ mem' = [mem EXCEPT ![LsRequest.addr] = LsRequest.data]
         /\ LsRequest.op = "store"
  BY <1>1, <1>2 DEF SRAMWriteTick, WriteEnable
<1>6. CASE mem' = mem
  BY <1>4, <1>6 DEF MemoryTyped
<1>7. CASE mem' = [mem EXCEPT ![LsRequest.addr] = LsRequest.data] /\ LsRequest.op = "store"
  <2>. PICK at, word : at = LsRequest.addr /\ word = LsRequest.data
    OBVIOUS
  <2>1. at \in Data /\ word \in {NumWord(n) : n \in Num} /\ mem' = [mem EXCEPT ![at] = word]
    BY <1>3, <1>7
  <2>2. \A p \in Code : p \in Addr /\ p # at
    BY <2>1, Addresses
  <2>3. \A p \in Code : mem'[p] = mem[p]
    BY <1>4, <2>1, <2>2
  <2>4. \A a \in Data : a \in Addr
    BY Addresses
  <2>5. \A a \in Data : mem'[a] \in {NumWord(n) : n \in Num}
    BY <1>4, <2>1, <2>4 DEF MemoryTyped
  <2>. QED
    BY <1>4, <2>3, <2>5 DEF MemoryTyped
<1>. QED
  BY <1>5, <1>6, <1>7

\* Every step keeps the types, and is a step of FetchBus.
LEMMA TypeStep ==
  ASSUME TypeInv, [Next]_vars
  PROVE  TypeInv' /\ [Bus!Next]_(Bus!vars)
<1>1. CASE Tick
  <2>1. Bus!Next
    <3>1. Bus!Cycle(cause, id_ready, ex_fire) /\ cause \in BOOLEAN /\ id_ready \in BOOLEAN /\ ex_fire \in BOOLEAN
      BY <1>1, CycleStep, Control DEF ex_fire
    <3>. QED
      BY <3>1 DEF Bus!Next, Bus!Tick
  <2>2. Bus!IInv'
    BY <2>1, Bus!StepInv, BusAssumption DEF TypeInv, Bus!Addr, Addr
  <2>3. MemoryTyped'
    BY <1>1, MemoryTypedStep
  <2>4. if_valid' => r_if2id'.inst \in Instruction
    BY <2>2, <2>3 DEF Bus!IInv, Bus!FetchedWord, Bus!FetchAddresses, MemoryTyped
  <2>5. PcsTyped'
    BY <1>1, <2>4, DecodeTypeStep, ExecuteTypeStep, MemoryTypeStep DEF PcsTyped
  <2>. QED
    BY <1>1, <2>1, <2>2, <2>3, <2>5, DecodeTypeStep, ExecuteTypeStep, MemoryTypeStep, RetireTypeStep
       DEF TypeInv
<1>2. CASE UNCHANGED vars
  <2>. USE <1>2 DEF vars, pipeVars, iduVars, exuVars, lsuVars
  <2>1. UNCHANGED Bus!vars
    BY DEF Bus!vars, Bus!envVars, Bus!busVars, Bus!sramVars, Bus!lsHandlerVars, Bus!ifuVars,
      busVars, sramVars, lsHandlerVars, ifuVars, LsRequest, LsBits, cause, WbBits
  <2>2. Bus!IInv'
    BY <2>1, Bus!StepInv, BusAssumption DEF TypeInv, Bus!Addr, Addr
  <2>3. MemoryTyped' /\ PcsTyped'
    BY DEF TypeInv, MemoryTyped, PcsTyped, busVars, sramVars, ifuVars
  <2>. QED
    BY <2>1, <2>2, <2>3 DEF TypeInv, IDUTypeOK, EXUTypeOK, LSUTypeOK, WBUTypeOK
<1>. QED
  BY <1>1, <1>2 DEF Next

\* The processor and the memory side keep their types, and what is proved of
\* the memory side holds in the processor.
THEOREM TypeInvariant == Spec => []TypeInv
  BY TypeInit, TypeStep, PTL DEF Spec

\* No wire of an empty stage reaches a register that cannot hold it.
THEOREM TypeCorrect == Spec => []TypeOK
<1>1. TypeInv => TypeOK
  BY FromBus, Addresses DEF TypeInv, TypeOK
<1>. QED
  BY <1>1, TypeInvariant, PTL

\* Bus is Fetch, with the proofs.
LEMMA BusIsFetch ==
  /\ Bus!Init => Fetch!Init
  /\ [Bus!Next]_(Bus!vars) => [Fetch!Next]_(Fetch!vars)
<1>1. Bus!Init => Fetch!Init
  BY DEF Bus!Init, Fetch!Init, Bus!BusInit, Fetch!BusInit, Bus!SRAMInit,
    Fetch!SRAMInit, Bus!ArbiterInit, Fetch!ArbiterInit, Bus!LSHandlerInit,
    Fetch!LSHandlerInit, Bus!IFUInit, Fetch!IFUInit, Bus!If2idReset,
    Fetch!If2idReset, Bus!NoRequest, Fetch!NoRequest, Bus!Addr, Fetch!Addr
<1>2. Bus!Next => Fetch!Next
  BY DEF Bus!Next, Fetch!Next, Bus!Tick, Fetch!Tick, Bus!Cycle, Fetch!Cycle,
    Bus!JumpCtl, Fetch!JumpCtl, Bus!FetchInputs, Fetch!FetchInputs, Bus!Deliver,
    Fetch!Deliver, Bus!ReqTick, Fetch!ReqTick, Bus!ExTick, Fetch!ExTick,
    Bus!OlderTick, Fetch!OlderTick, Bus!TvecTick, Fetch!TvecTick, Bus!WantTick,
    Fetch!WantTick, Bus!IdReadyAllowed, Fetch!IdReadyAllowed, Bus!NoRequest,
    Fetch!NoRequest, Bus!Request, Fetch!Request, Bus!Addr, Fetch!Addr, Bus!BusTick,
    Fetch!BusTick, Bus!IfuRValid, Fetch!IfuRValid, Bus!LsuRValid, Fetch!LsuRValid,
    Bus!RValidOf, Fetch!RValidOf, Bus!ArReadyOf, Fetch!ArReadyOf, Bus!OutRValid,
    Fetch!OutRValid, Bus!Fin, Fetch!Fin, Bus!LsFin, Fetch!LsFin, Bus!REn, Fetch!REn,
    Bus!WEn, Fetch!WEn, Bus!LsuArValid, Fetch!LsuArValid, Bus!LsuAwValid,
    Fetch!LsuAwValid, Bus!LSHandlerTick, Fetch!LSHandlerTick, Bus!IFUTick,
    Fetch!IFUTick, Bus!Dnpc, Fetch!Dnpc, Bus!DnpcValid, Fetch!DnpcValid,
    Bus!CauseValid, Fetch!CauseValid, Bus!UpdateState, Fetch!UpdateState, Bus!Npc,
    Fetch!Npc, Bus!FetchPc, Fetch!FetchPc, Bus!IfuArValid, Fetch!IfuArValid,
    Bus!ValidEnable, Fetch!ValidEnable, Bus!ArbiterTick, Fetch!ArbiterTick,
    Bus!Select, Fetch!Select, Bus!ArbiterAddr, Fetch!ArbiterAddr, Bus!OutRReady,
    Fetch!OutRReady, Bus!SRAMReadTick, Fetch!SRAMReadTick, Bus!SRAMWriteTick,
    Fetch!SRAMWriteTick, Bus!UpdateAddr, Fetch!UpdateAddr, Bus!WriteEnable,
    Fetch!WriteEnable
<1>3. UNCHANGED Bus!vars => UNCHANGED Fetch!vars
  BY DEF Bus!vars, Fetch!vars, Bus!envVars, Fetch!envVars, Bus!busVars,
    Fetch!busVars, Bus!sramVars, Fetch!sramVars, Bus!lsHandlerVars,
    Fetch!lsHandlerVars, Bus!ifuVars, Fetch!ifuVars
<1>. QED
  BY <1>1, <1>2, <1>3

\* Core drives its memory side as FetchBus allows, for every program, width of
\* words, number of registers and size of the memory.
THEOREM CoreUsesFetchBus == Spec => UsesFetchBus
<1>1. Init => Fetch!Init
  BY TypeInit, BusIsFetch
<1>. QED
  BY <1>1, TypeInvariant, TypeStep, BusIsFetch, PTL DEF Spec, UsesFetchBus, Fetch!Spec
-----------------------------------------------------------------------------
(***************************************************************************)
(* The pipeline implements ISA.                                            *)
(***************************************************************************)

\* Write back executes the instruction it holds, and a trap sets its CSRs.
LEMMA WriteBackStep ==
  ASSUME TypeInv, Tick
  PROVE  /\ gpr' = LsGpr
         /\ ~cause => csr' = LsCsr
         /\ cause => csr' = [csr EXCEPT !.mepc = WbBits.pc, !.mcause = Ecall]
         /\ cpu_pc' = LsPc
         /\ ret_mem' = IF Retires THEN mem ELSE ret_mem
<1>1. /\ WriteBackTick(WbBits.inst, WbBits.lsu_out, WbBits.csr_w_data, cause, WbBits.pc)
      /\ WBUTick(WbBits, csr.mtvec) /\ SimulatorTick /\ HistoryTick
  BY DEF Tick
<1>2. cause => ~CsrWEn(WbBits.inst)
  BY DEF cause, CauseOf, EcallOp, CsrWEn, CsrOp, CsrOps
<1>3. gpr' = LsGpr
  BY <1>1 DEF WriteBackTick, LsGpr, GprAfter
<1>4. (~cause => csr' = LsCsr) /\ (cause => csr' = [csr EXCEPT !.mepc = WbBits.pc, !.mcause = Ecall])
  BY <1>1, <1>2 DEF WriteBackTick, LsCsr, CsrAfter
<1>5. r_statistic' = [inst |-> WbBits.inst, pc |-> WbBits.pc,
                      dnpc |-> IF cause THEN csr.mtvec ELSE WbBits.dnpc]
  BY <1>1 DEF WBUTick, cause
<1>6. cpu_pc' = LsPc
  BY <1>1, <1>5 DEF SimulatorTick, LsPc, Retires
<1>7. ret_mem' = IF Retires THEN mem ELSE ret_mem
  BY <1>1 DEF HistoryTick
<1>. QED
  BY <1>3, <1>4, <1>6, <1>7

\* The instructions of a conforming program, and what the invariant says of
\* those in the pipeline.
LEMMA ProgramInst ==
  ASSUME TypeInv, PipeInv, NEW p \in Num
  PROVE  /\ mem[p] \in Instruction /\ mem[p] # NopInst
         /\ mem[p].op \in {"csrrw", "csrrwi"} => mem[p].rs1 # 0
         /\ CsrWEn(mem[p]) /\ mem[p].op \notin {"csrrw", "csrrwi"} => mem[p].rd # 0
         /\ \A q \in Num : MretOp(mem[p]) /\ CsrWEn(mem[q]) => mem[q].csr # "mepc"
<1>1. \A q \in Num : mem[q] \in {mem[a] : a \in Code}
  BY Addresses
<1>2. mem[p] \in Instruction
  BY Addresses DEF TypeInv, MemoryTyped
<1>. QED
  BY <1>1, <1>2 DEF PipeInv, Conforming

\* The registers and the CSRs in front of every stage are numbers.
LEMMA StateTypes ==
  ASSUME TypeInv
  PROVE  /\ gpr \in [Reg -> Num] /\ LsGpr \in [Reg -> Num] /\ ExGpr \in [Reg -> Num]
         /\ csr \in [CsrName -> Num] /\ LsCsr \in [CsrName -> Num] /\ ExCsr \in [CsrName -> Num]
         /\ LsPc \in Num /\ ExPc \in Num
         /\ mem \in [Addr -> Word] /\ ret_mem \in [Addr -> Word]
         /\ LsBitsNotSquashed \in Ex2ls
         /\ r_id2ex \in Id2ex /\ r_ex2ls \in Ex2ls
<1>1. gpr \in [Reg -> Num] /\ csr \in [CsrName -> Num] /\ cpu_pc \in Num /\ csr.mtvec \in Num
  BY DEF TypeInv, IDUTypeOK, CsrName
<1>2. LsGpr \in [Reg -> Num] /\ LsCsr \in [CsrName -> Num] /\ LsPc \in Num
  BY <1>1, Bundles DEF LsGpr, GprAfter, LsCsr, CsrAfter, LsPc, Ls2wb
<1>3. mem \in [Addr -> Word] /\ ret_mem \in [Addr -> Word]
  BY FromBus DEF TypeInv, BusTypeOK, SRAMTypeOK
<1>4. LsBitsNotSquashed \in Ex2ls
  BY NopType, Addresses DEF TypeInv, EXUTypeOK, LsBitsNotSquashed, Ex2lsReset, Ex2ls, PcOrReset
<1>5. LsOut \in Num
  <2>1. LsBitsNotSquashed.exu_out \in Num
    BY <1>4 DEF Ex2ls
  <2>2. mem[Cell(LsBitsNotSquashed.exu_out)].val \in Num
    BY <2>1, Addresses DEF TypeInv, MemoryTyped, NumWord
  <2>. QED
    BY <2>1, <2>2 DEF LsOut, LsuOut
<1>6. ExGpr \in [Reg -> Num] /\ ExCsr \in [CsrName -> Num] /\ ExPc \in Num
  BY <1>2, <1>4, <1>5 DEF ExGpr, GprAfter, ExCsr, CsrAfter, ExPc, Ex2ls, TypeInv, PcsTyped
<1>7. r_id2ex \in Id2ex /\ r_ex2ls \in Ex2ls
  BY DEF TypeInv, IDUTypeOK, EXUTypeOK, Id2ex, Ex2ls, PcOrReset
<1>. QED
  BY <1>1, <1>2, <1>3, <1>4, <1>6, <1>7

-----------------------------------------------------------------------------
(***************************************************************************)
(* What a cycle does to the stages.                                        *)
(***************************************************************************)
\* The request the memory stage presents is the one of its instruction.
LEMMA RequestOf ==
  ASSUME TypeInv
  PROVE  /\ LsRequest.op # "none" => ex_valid /\ ~cause
         /\ ex_valid /\ ~cause => LsBits = r_ex2ls /\ LsBitsNotSquashed = r_ex2ls
         /\ LsRequest.op = "store" => /\ MemWEn(r_ex2ls.inst)
                                      /\ LsRequest.addr = Cell(r_ex2ls.exu_out)
                                      /\ LsRequest.data = NumWord(r_ex2ls.src2)
         /\ LsRequest.op = "load" => /\ MemREn(r_ex2ls.inst)
                                     /\ LsRequest.addr = Cell(r_ex2ls.exu_out)
         /\ ex_valid /\ ~cause /\ MemWEn(r_ex2ls.inst) => LsRequest.op = "store"
         /\ ex_valid /\ ~cause /\ MemREn(r_ex2ls.inst) => LsRequest.op = "load"
<1>1. CASE ex_valid /\ ~cause
  <2>1. LsBits = r_ex2ls /\ LsBitsNotSquashed = r_ex2ls
    BY <1>1 DEF LsBits, LsBitsNotSquashed
  <2>. QED
    BY <1>1, <2>1 DEF LsRequest, NoRequest, MemREn, MemWEn
<1>2. CASE ~(ex_valid /\ ~cause)
  <2>1. LsBits.inst = NopInst
    BY <1>2 DEF LsBits, Ex2lsReset
  <2>2. LsRequest = NoRequest
    BY <2>1, NopType DEF LsRequest
  <2>. QED
    BY <1>2, <2>2 DEF NoRequest
<1>. QED
  BY <1>1, <1>2

\* A store is in memory from the cycle in which it is accepted, and finishes in
\* the next one.
LEMMA StoreStep ==
  ASSUME TypeInv, Tick
  PROVE  /\ mem' = IF ls_w_state = "w_wait_ready"
                   THEN [mem EXCEPT ![LsRequest.addr] = LsRequest.data] ELSE mem
         /\ ls_w_state # "w_idle" => LsRequest.op = "store"
         /\ ls_w_state' = "w_wait_resp" <=> ls_w_state = "w_wait_ready"
         /\ ls_w_state' # "w_idle" => LsRequest.op = "store" /\ ~fin
         /\ LsRequest.op = "store" => (fin <=> ls_w_state = "w_wait_resp")
<1>1. /\ SRAMWriteTick(LsuAwValid(LsRequest), LsRequest.addr, LsuAwValid(LsRequest), LsRequest.data, r_bvalid)
      /\ LSHandlerTick(LsRequest, ArReadyOf("c_lsu", r_arready), LsuRValid, r_awready, r_wready, r_bvalid)
  BY DEF Tick, BusTick
<1>2. /\ ls_w_state # "w_idle" => LsRequest.op = "store"
      /\ r_awready <=> ls_w_state = "w_wait_ready"
      /\ r_wready <=> ls_w_state = "w_wait_ready"
      /\ r_bvalid <=> ls_w_state = "w_wait_resp"
      /\ ls_w_state = "w_wait_ready" => r_awaddr = LsRequest.addr /\ r_wdata = LsRequest.data
  BY DEF TypeInv, Bus!IInv, Bus!WriteChannel
<1>3. ls_w_state \in {"w_idle", "w_wait_ready", "w_wait_resp"}
  BY FromBus DEF TypeInv, BusTypeOK, LSHandlerTypeOK
<1>4. LsRequest.op = "store" => (fin <=> ls_w_state = "w_wait_resp")
  BY <1>2 DEF fin, Fin, LsFin, REn, WEn
<1>5. mem' = IF ls_w_state = "w_wait_ready"
             THEN [mem EXCEPT ![LsRequest.addr] = LsRequest.data] ELSE mem
  BY <1>1, <1>2 DEF SRAMWriteTick, WriteEnable, LsuAwValid
<1>6. /\ ls_w_state' = "w_wait_resp" <=> ls_w_state = "w_wait_ready"
      /\ ls_w_state' # "w_idle" => LsRequest.op = "store" /\ ~fin
  BY <1>1, <1>2, <1>3, <1>4 DEF LSHandlerTick, WEn
<1>. QED
  BY <1>2, <1>4, <1>5, <1>6

\* The memory stage waits: it keeps what it holds, an empty bundle goes to
\* write back, and memory is the same for an instruction that loads.
LEMMA Waits ==
  ASSUME TypeInv, Tick, ~cause, ~(ex_valid /\ fin)
  PROVE  /\ ~Retires' /\ ~cause' /\ ~ls_valid'
         /\ LsPc' = LsPc /\ LsGpr' = LsGpr /\ LsCsr' = LsCsr
         /\ ex_valid => ex_valid' /\ r_ex2ls' = r_ex2ls /\ ~EcallOp(r_ex2ls.inst)
<1>1. LSUTick(ex_valid, LsBits, LoadedData, ls_valid, fin) /\ EXUTick(id_valid, ExBits, cause, ls_ready)
  BY DEF Tick
<1>2. ~ls_valid'
  BY <1>1, Control DEF LSUTick, LsuReady
<1>3. WbBits' = Ls2wbReset
  BY <1>2 DEF WbBits
<1>4. ~Retires' /\ ~cause'
  BY <1>3, NopType DEF Retires, cause, CauseOf, Ls2wbReset
<1>5. WbBits'.inst = NopInst
  BY <1>3 DEF Ls2wbReset
<1>6. LsPc' = LsPc /\ LsGpr' = LsGpr /\ LsCsr' = LsCsr
  <2>1. LsPc' = cpu_pc'
    BY <1>4 DEF LsPc
  <2>2. LsGpr' = gpr' /\ LsCsr' = csr'
    BY <1>5, NopType DEF LsGpr, LsCsr, GprAfter, CsrAfter
  <2>. QED
    BY <2>1, <2>2, WriteBackStep
<1>7. ASSUME ex_valid PROVE ex_valid' /\ r_ex2ls' = r_ex2ls /\ ~EcallOp(r_ex2ls.inst)
  <2>1. ~fin /\ ~ls_ready /\ ~ex_ready
    BY <1>7, Control
  <2>2. EcallOp(r_ex2ls.inst) => LsRequest = NoRequest
    BY <1>7 DEF LsRequest, LsBits, EcallOp, MemREn, MemWEn
  <2>3. LsRequest = NoRequest => fin
    BY DEF NoRequest, fin, Fin, LsFin, REn, WEn
  <2>. QED
    BY <1>1, <1>7, <2>1, <2>2, <2>3, Control DEF EXUTick, ExuReady
<1>. QED
  BY <1>2, <1>4, <1>6, <1>7

\* The memory stage hands on: write back then holds its instruction, and finds
\* the machine as the memory stage found it.
LEMMA HandsOn ==
  ASSUME TypeInv, PipeInv, Tick, ~cause, ex_valid, fin
  PROVE  /\ WbBits' = [inst |-> r_ex2ls.inst, pc |-> r_ex2ls.pc, dnpc |-> r_ex2ls.dnpc,
                       lsu_out |-> LsOut, csr_w_data |-> r_ex2ls.csr_w_data]
         /\ Retires' /\ ls_valid'
         /\ cause' = EcallOp(r_ex2ls.inst)
         /\ LsGpr' = ExGpr /\ LsCsr' = ExCsr
         /\ ~EcallOp(r_ex2ls.inst) => LsPc' = ExPc
<1>1. LSUTick(ex_valid, LsBits, LoadedData, ls_valid, fin)
  BY DEF Tick
<1>2. LsBits = r_ex2ls /\ LsBitsNotSquashed = r_ex2ls
  BY RequestOf
<1>3. LsuOut(r_ex2ls, LoadedData) = LsOut
  <2>1. CASE MemREn(r_ex2ls.inst)
    <3>1. LsRequest.op = "load" /\ LsRequest.addr = Cell(r_ex2ls.exu_out)
      BY <2>1, RequestOf
    <3>2. LsuRValid
      BY <3>1 DEF fin, Fin, LsFin, REn, WEn
    <3>. QED
      BY <1>2, <3>1, <3>2, LoadedType DEF LsOut
  <2>2. CASE ~MemREn(r_ex2ls.inst)
    BY <1>2, <2>2 DEF LsOut, LsuOut
  <2>. QED
    BY <2>1, <2>2
<1>4. ls_valid' /\ r_ls2wb' = [inst |-> r_ex2ls.inst, pc |-> r_ex2ls.pc, dnpc |-> r_ex2ls.dnpc,
                               lsu_out |-> LsOut, csr_w_data |-> r_ex2ls.csr_w_data]
  BY <1>1, <1>2, <1>3, Control DEF LSUTick, LsuReady
<1>5. WbBits' = r_ls2wb'
  BY <1>4 DEF WbBits
<1>6. r_ex2ls.inst # NopInst
  <2>1. r_ex2ls.inst = mem[LsPc] /\ LsPc \in Num
    BY StateTypes DEF PipeInv, MemoryStageGood
  <2>. QED
    BY <2>1, ProgramInst
<1>7. WbBits'.inst = r_ex2ls.inst /\ WbBits'.dnpc = r_ex2ls.dnpc /\ WbBits'.lsu_out = LsOut
      /\ WbBits'.csr_w_data = r_ex2ls.csr_w_data
  BY <1>4, <1>5
<1>8. Retires' /\ cause' = EcallOp(r_ex2ls.inst)
  BY <1>6, <1>7 DEF Retires, cause, CauseOf
<1>9. LsGpr' = ExGpr /\ LsCsr' = ExCsr
  <2>1. gpr' = LsGpr /\ csr' = LsCsr
    BY WriteBackStep
  <2>. QED
    BY <1>2, <1>7, <2>1 DEF LsGpr, LsCsr, ExGpr, ExCsr, GprAfter, CsrAfter
<1>10. ~EcallOp(r_ex2ls.inst) => LsPc' = ExPc
  BY <1>7, <1>8 DEF LsPc, ExPc
<1>. QED
  BY <1>4, <1>5, <1>8, <1>9, <1>10

\* A trap empties the stages and sends fetch to its handler.
LEMMA Traps ==
  ASSUME TypeInv, PipeInv, Tick, cause
  PROVE  /\ ~id_valid' /\ ~ex_valid' /\ ~Retires' /\ ~cause'
         /\ want' = csr.mtvec /\ LsPc' = csr.mtvec
         /\ ls_w_state' = "w_idle" /\ mem' = mem /\ ret_mem' = mem
<1>1. /\ IDUTick(if_valid, IdBits, squash, ex_ready, Forward)
      /\ EXUTick(id_valid, ExBits, cause, ls_ready)
      /\ LSUTick(ex_valid, LsBits, LoadedData, ls_valid, fin)
      /\ HistoryTick
  BY DEF Tick
<1>2. squash /\ Retires /\ fin
  BY Control DEF squash
<1>3. ~id_valid' /\ ~ex_valid'
  BY <1>1, <1>2, Control DEF IDUTick, EXUTick, ExuReady
<1>4. ~Retires' /\ ~cause'
  <2>1. LsBits.inst = NopInst
    BY DEF LsBits, Ex2lsReset
  <2>2. ls_valid' => r_ls2wb'.inst = NopInst
    BY <1>1, <2>1, Control DEF LSUTick, LsuReady
  <2>3. WbBits'.inst = NopInst
    BY <2>2 DEF WbBits, Ls2wbReset
  <2>. QED
    BY <2>3, NopType DEF Retires, cause, CauseOf
<1>5. want' = csr.mtvec /\ ret_mem' = mem
  BY <1>1, <1>2 DEF HistoryTick
<1>6. LsPc' = csr.mtvec
  <2>1. LsPc' = cpu_pc'
    BY <1>4 DEF LsPc
  <2>. QED
    BY <2>1, <1>2, WriteBackStep DEF LsPc
<1>7. mem' = mem /\ ls_w_state' = "w_idle"
  BY StoreStep, RequestOf
<1>. QED
  BY <1>3, <1>4, <1>5, <1>6, <1>7

\* The execute stage does not move.
LEMMA ExecuteStays ==
  ASSUME TypeInv, PipeInv, Tick, ~TrapPastExecute, ~(id_valid /\ ex_ready)
  PROVE  /\ ExPc' = ExPc /\ ExGpr' = ExGpr /\ ExCsr' = ExCsr
         /\ ~TrapPastExecute'
<1>1. EXUTick(id_valid, ExBits, cause, ls_ready)
  BY DEF Tick
<1>2. ~cause /\ (ex_valid => ~EcallOp(r_ex2ls.inst))
  BY DEF TrapPastExecute
<1>3. ex_valid' = (ex_valid /\ ~fin) /\ r_ex2ls' = r_ex2ls
  BY <1>1, Control DEF EXUTick, ExuReady
<1>4. CASE ex_valid /\ fin
  <2>1. ~ex_valid'
    BY <1>3, <1>4
  <2>2. LsBitsNotSquashed' = Ex2lsReset
    BY <2>1 DEF LsBitsNotSquashed
  <2>3. LsBitsNotSquashed'.inst = NopInst
    BY <2>2 DEF Ex2lsReset
  <2>4. ExPc' = LsPc' /\ ExGpr' = LsGpr' /\ ExCsr' = LsCsr'
    BY <2>1, <2>3, NopType DEF ExPc, ExGpr, ExCsr, GprAfter, CsrAfter
  <2>. QED
    BY <1>2, <1>4, <2>1, <2>4, HandsOn DEF TrapPastExecute
<1>5. CASE ~(ex_valid /\ fin)
  <2>1. LsBitsNotSquashed' = LsBitsNotSquashed
    BY <1>3, <1>5, Control DEF LsBitsNotSquashed
  <2>2. LsOut' = LsOut
    <3>1. CASE MemREn(LsBitsNotSquashed.inst)
      <4>1. ex_valid
        BY <3>1, NopType DEF LsBitsNotSquashed, Ex2lsReset
      <4>2. LsRequest.op = "load"
        BY <1>2, <3>1, <4>1, RequestOf
      <4>3. mem' = mem
        BY <4>2, StoreStep
      <4>. QED
        BY <2>1, <4>3 DEF LsOut
    <3>2. CASE ~MemREn(LsBitsNotSquashed.inst)
      BY <2>1, <3>2 DEF LsOut, LsuOut
    <3>. QED
      BY <3>1, <3>2
  <2>3. LsPc' = LsPc /\ LsGpr' = LsGpr /\ LsCsr' = LsCsr /\ ~cause'
    BY <1>2, <1>5, Waits
  <2>4. ex_valid' = ex_valid
    BY <1>3, <1>5, Control
  <2>. QED
    BY <1>2, <1>3, <2>1, <2>2, <2>3, <2>4 DEF ExPc, ExGpr, ExCsr, GprAfter, CsrAfter, TrapPastExecute
<1>. QED
  BY <1>4, <1>5

\* The execute stage hands on: the memory stage then holds what it computed,
\* and finds the machine as the execute stage found it.
LEMMA ExecuteMoves ==
  ASSUME TypeInv, PipeInv, Tick, ~TrapPastExecute, id_valid, ex_ready
  PROVE  /\ ex_valid'
         /\ r_ex2ls' = [inst |-> r_id2ex.inst, pc |-> r_id2ex.pc, dnpc |-> ExuDnpc(r_id2ex),
                        src2 |-> r_id2ex.src2, exu_out |-> ExuOut(r_id2ex),
                        csr_w_data |-> ExuCsrOut(r_id2ex)]
         /\ LsPc' = ExPc /\ LsGpr' = ExGpr /\ LsCsr' = ExCsr
         /\ ExPc' = ExuDnpc(r_id2ex)
         /\ ExGpr' = GprAfter(r_id2ex.inst, LsOut', ExGpr)
         /\ ~MemREn(r_id2ex.inst) => LsOut' = ExuOut(r_id2ex)
         /\ MemREn(r_id2ex.inst) => LsOut' = mem'[Cell(ExuOut(r_id2ex))].val
         /\ ExCsr' = CsrAfter(r_id2ex.inst, ExuCsrOut(r_id2ex), ExCsr)
         /\ ~cause' /\ TrapPastExecute' = EcallOp(r_id2ex.inst)
<1>1. EXUTick(id_valid, ExBits, cause, ls_ready)
  BY DEF Tick
<1>2. ~cause /\ (ex_valid => ~EcallOp(r_ex2ls.inst))
  BY DEF TrapPastExecute
<1>3. ExBits = r_id2ex
  BY <1>2 DEF ExBits
<1>4. ex_valid' /\ r_ex2ls' = [inst |-> r_id2ex.inst, pc |-> r_id2ex.pc, dnpc |-> ExuDnpc(r_id2ex),
                               src2 |-> r_id2ex.src2, exu_out |-> ExuOut(r_id2ex),
                               csr_w_data |-> ExuCsrOut(r_id2ex)]
  BY <1>1, <1>2, <1>3, Control DEF EXUTick, ExuReady
<1>5. LsPc' = ExPc /\ LsGpr' = ExGpr /\ LsCsr' = ExCsr /\ ~cause'
  <2>1. CASE ex_valid
    BY <1>2, <2>1, HandsOn, Control
  <2>2. CASE ~ex_valid
    <3>1. LsBitsNotSquashed.inst = NopInst
      BY <2>2 DEF LsBitsNotSquashed, Ex2lsReset
    <3>2. ExPc = LsPc /\ ExGpr = LsGpr /\ ExCsr = LsCsr
      BY <2>2, <3>1, NopType DEF ExPc, ExGpr, ExCsr, GprAfter, CsrAfter
    <3>. QED
      BY <1>2, <2>2, <3>2, Waits
  <2>. QED
    BY <2>1, <2>2
<1>6. /\ LsBitsNotSquashed' = r_ex2ls'
      /\ LsBitsNotSquashed'.inst = r_id2ex.inst
      /\ LsBitsNotSquashed'.exu_out = ExuOut(r_id2ex)
      /\ LsBitsNotSquashed'.csr_w_data = ExuCsrOut(r_id2ex)
  <2>1. LsBitsNotSquashed' = r_ex2ls'
    BY <1>4 DEF LsBitsNotSquashed
  <2>. QED
    BY <1>4, <2>1
<1>7. ExPc' = ExuDnpc(r_id2ex)
  BY <1>4 DEF ExPc
<1>8. /\ ExGpr' = GprAfter(r_id2ex.inst, LsOut', ExGpr)
      /\ ExCsr' = CsrAfter(r_id2ex.inst, ExuCsrOut(r_id2ex), ExCsr)
  BY <1>5, <1>6 DEF ExGpr, ExCsr, GprAfter, CsrAfter
<1>9. /\ ~MemREn(r_id2ex.inst) => LsOut' = ExuOut(r_id2ex)
      /\ MemREn(r_id2ex.inst) => LsOut' = mem'[Cell(ExuOut(r_id2ex))].val
  BY <1>6 DEF LsOut, LsuOut
<1>10. TrapPastExecute' = EcallOp(r_id2ex.inst)
  <2>1. r_ex2ls'.inst = r_id2ex.inst
    BY <1>4
  <2>. QED
    BY <1>4, <1>5, <2>1 DEF TrapPastExecute, EcallOp
<1>. QED
  BY <1>4, <1>5, <1>7, <1>8, <1>9, <1>10

\* Behind a trap in the memory stage everything is thrown away when it
\* reaches write back.
LEMMA TrapMoves ==
  ASSUME TypeInv, PipeInv, Tick, TrapPastExecute, ~cause
  PROVE  cause' /\ TrapPastExecute'
<1>1. ex_valid /\ EcallOp(r_ex2ls.inst)
  BY DEF TrapPastExecute
<1>2. fin
  BY <1>1, Waits
<1>. QED
  BY <1>1, <1>2, HandsOn DEF TrapPastExecute

-----------------------------------------------------------------------------
(***************************************************************************)
(* What the execute stage computes and decode reads.                       *)
(***************************************************************************)
\* The machines behind write back and the memory stage have the words of Core.
LEMMA SameWords ==
  /\ \A a, b : AtEx!Plus(a, b) = Plus(a, b) /\ AtLs!Plus(a, b) = Plus(a, b) /\ Machine!Plus(a, b) = Plus(a, b)
  /\ \A a, b : AtEx!Or(a, b) = Or(a, b) /\ AtLs!Or(a, b) = Or(a, b) /\ Machine!Or(a, b) = Or(a, b)
  /\ \A a, b : /\ AtEx!AndNot(a, b) = AndNot(a, b) /\ AtLs!AndNot(a, b) = AndNot(a, b)
               /\ Machine!AndNot(a, b) = AndNot(a, b)
  /\ \A a : AtEx!Cell(a) = Cell(a) /\ AtLs!Cell(a) = Cell(a) /\ Machine!Cell(a) = Cell(a)
  /\ \A a : AtEx!NumWord(a) = NumWord(a) /\ AtLs!NumWord(a) = NumWord(a) /\ Machine!NumWord(a) = NumWord(a)
  /\ AtEx!CsrOps = CsrOps /\ AtLs!CsrOps = CsrOps /\ Machine!CsrOps = CsrOps
<1>1. AtEx!WordMod = WordMod /\ AtLs!WordMod = WordMod /\ Machine!WordMod = WordMod
  BY DEF AtEx!WordMod, AtLs!WordMod, Machine!WordMod, WordMod
<1>2. \A a : AtEx!BitsOf(a) = BitsOf(a) /\ AtLs!BitsOf(a) = BitsOf(a) /\ Machine!BitsOf(a) = BitsOf(a)
  BY DEF AtEx!BitsOf, AtLs!BitsOf, Machine!BitsOf, BitsOf
<1>3. AtEx!Num = Num /\ AtLs!Num = Num /\ Machine!Num = Num
  BY <1>1 DEF AtEx!Num, AtLs!Num, Machine!Num, Num
<1>4. \A S : AtEx!FromBits(S) = FromBits(S) /\ AtLs!FromBits(S) = FromBits(S) /\ Machine!FromBits(S) = FromBits(S)
  BY <1>2, <1>3 DEF AtEx!FromBits, AtLs!FromBits, Machine!FromBits, FromBits
<1>5. \A a, b : AtEx!Plus(a, b) = Plus(a, b) /\ AtLs!Plus(a, b) = Plus(a, b) /\ Machine!Plus(a, b) = Plus(a, b)
  BY <1>1 DEF AtEx!Plus, AtLs!Plus, Machine!Plus, Plus
<1>6. \A a, b : AtEx!Or(a, b) = Or(a, b) /\ AtLs!Or(a, b) = Or(a, b) /\ Machine!Or(a, b) = Or(a, b)
  BY <1>2, <1>4 DEF AtEx!Or, AtLs!Or, Machine!Or, Or
<1>7. \A a, b : /\ AtEx!AndNot(a, b) = AndNot(a, b) /\ AtLs!AndNot(a, b) = AndNot(a, b)
                /\ Machine!AndNot(a, b) = AndNot(a, b)
  BY <1>2, <1>4 DEF AtEx!AndNot, AtLs!AndNot, Machine!AndNot, AndNot
<1>8. \A a : AtEx!Cell(a) = Cell(a) /\ AtLs!Cell(a) = Cell(a) /\ Machine!Cell(a) = Cell(a)
  BY <1>1 DEF AtEx!Cell, AtLs!Cell, Machine!Cell, Cell
<1>9. \A a : AtEx!NumWord(a) = NumWord(a) /\ AtLs!NumWord(a) = NumWord(a) /\ Machine!NumWord(a) = NumWord(a)
  BY DEF AtEx!NumWord, AtLs!NumWord, Machine!NumWord, NumWord
<1>10. AtEx!CsrOps = CsrOps /\ AtLs!CsrOps = CsrOps /\ Machine!CsrOps = CsrOps
  BY DEF AtEx!CsrOps, AtLs!CsrOps, Machine!CsrOps, CsrOps
<1>. QED
  BY <1>5, <1>6, <1>7, <1>8, <1>9, <1>10

\* The execute stage computes what the machine does with its instruction, from
\* the operands decode gave it.
LEMMA ExecuteComputes ==
  ASSUME TypeInv, PipeInv, id_valid, ~TrapPastExecute
  PROVE  LET i == r_id2ex.inst
         IN /\ r_id2ex.pc = ExPc
            /\ i = mem[ExPc]
            /\ MemREn(i) \/ MemWEn(i) => ExuOut(r_id2ex) = Plus(ExGpr[i.rs1], i.imm)
            /\ MemWEn(i) => r_id2ex.src2 = ExGpr[i.rs2]
            /\ RegWEn(i) /\ i.rd # 0 /\ ~MemREn(i) => ExuOut(r_id2ex) = AtEx!RegResult(i)
            /\ CsrWEn(i) => ExuCsrOut(r_id2ex) = AtEx!CsrResult(i)
            /\ ~EcallOp(i) => ExuDnpc(r_id2ex) = AtEx!Target(i)
<1>. DEFINE i == r_id2ex.inst
<1>1. /\ r_id2ex.pc = ExPc
      /\ i = mem[ExPc]
      /\ r_id2ex.snpc = Plus(ExPc, 1)
      /\ r_id2ex.dnpc = IF MretOp(i) THEN ExCsr.mepc ELSE Plus(ExPc, 1)
      /\ Rs1Tag(i) => r_id2ex.src1 = ExGpr[i.rs1]
      /\ Rs2Tag(i) => r_id2ex.src2 = ExGpr[i.rs2]
      /\ CsrREn(i) => r_id2ex.csr_data = ExCsr[i.csr]
  BY DEF PipeInv, ExecuteGood
<1>2. /\ i.op \in InstOp
      /\ CsrWEn(i) /\ i.op \notin {"csrrw", "csrrwi"} => i.rd # 0
  BY <1>1, StateTypes, ProgramInst DEF Instruction
<1>. HIDE DEF i
<1>. USE SameWords
<1>3. r_id2ex.inst = i
  BY DEF i
<1>4. MemREn(i) \/ MemWEn(i) => ExuOut(r_id2ex) = Plus(ExGpr[i.rs1], i.imm)
  BY <1>1, <1>3 DEF MemREn, MemWEn, Rs1Tag, CsrREn, CsrOp, CsrOps, ExuOut, AluOut, AluSrc1, AluSrc2
<1>5. MemWEn(i) => r_id2ex.src2 = ExGpr[i.rs2]
  BY <1>1 DEF MemWEn, Rs2Tag
<1>6. RegWEn(i) /\ i.rd # 0 /\ ~MemREn(i) => ExuOut(r_id2ex) = AtEx!RegResult(i)
  <2>. SUFFICES ASSUME RegWEn(i), i.rd # 0, ~MemREn(i) PROVE ExuOut(r_id2ex) = AtEx!RegResult(i)
    OBVIOUS
  <2>1. CASE CsrOp(i)
    BY <1>1, <1>3, <2>1 DEF CsrREn, CsrOp, CsrOps, ExuOut, AluOut, AtEx!RegResult
  <2>2. CASE i.op \in {"add", "addi", "lui", "auipc", "jal", "jalr"}
    BY <1>1, <1>3, <2>2
       DEF CsrREn, CsrOp, CsrOps, Rs1Tag, Rs2Tag, ExuOut, AluOut, AluSrc1, AluSrc2, AtEx!RegResult, AtEx!X
  <2>. QED
    BY <2>1, <2>2 DEF RegWEn, MemREn, CsrOp
<1>7. CsrWEn(i) => ExuCsrOut(r_id2ex) = AtEx!CsrResult(i)
  <2>. SUFFICES ASSUME CsrWEn(i) PROVE ExuCsrOut(r_id2ex) = AtEx!CsrResult(i)
    OBVIOUS
  <2>1. CsrOp(i) /\ (i.op \notin {"csrrw", "csrrwi"} => r_id2ex.csr_data = ExCsr[i.csr])
    BY <1>1, <1>2 DEF CsrWEn, CsrREn
  <2>. QED
    BY <1>1, <1>3, <2>1
       DEF CsrOp, CsrOps, Rs1Tag, CsrImmSrc, ExuCsrOut, CsrCalc, AtEx!CsrResult, AtEx!X
<1>8. ~EcallOp(i) => ExuDnpc(r_id2ex) = AtEx!Target(i)
  <2>. SUFFICES ASSUME ~EcallOp(i) PROVE ExuDnpc(r_id2ex) = AtEx!Target(i)
    OBVIOUS
  <2>1. CASE i.op \in {"jal", "jalr"}
    BY <1>1, <1>3, <2>1 DEF ExuDnpc, JumpTaken, JumpOp, Rs1Tag, AtEx!Target, AtEx!X
  <2>2. CASE i.op = "beq"
    <3>1. ExuOut(r_id2ex) = IF ExGpr[i.rs1] = ExGpr[i.rs2] THEN 1 ELSE 0
      BY <1>1, <1>3, <2>2
         DEF CsrREn, CsrOp, CsrOps, Rs1Tag, Rs2Tag, ExuOut, AluOut, AluSrc1, AluSrc2
    <3>2. JumpTaken(r_id2ex) <=> ExGpr[i.rs1] = ExGpr[i.rs2]
      <4>1. JumpOp(i) = "branch"
        BY <2>2 DEF JumpOp
      <4>2. 0 % 2 = 0 /\ 1 % 2 = 1
        OBVIOUS
      <4>. QED
        BY <1>3, <3>1, <4>1, <4>2 DEF JumpTaken
    <3>. QED
      BY <1>1, <1>3, <2>2, <3>2 DEF ExuDnpc, MretOp, AtEx!Target, AtEx!X
  <2>3. CASE i.op \notin {"jal", "jalr", "beq"}
    BY <1>1, <1>3, <2>3 DEF ExuDnpc, JumpTaken, JumpOp, MretOp, EcallOp, AtEx!Target, AtEx!X
  <2>. QED
    BY <2>1, <2>2, <2>3
<1>. QED
  BY <1>1, <1>3, <1>4, <1>5, <1>6, <1>7, <1>8

\* What decode finds in a register that no load is still under way to is what
\* the machine behind the execute stage has there.
LEMMA GprForwarded ==
  ASSUME TypeInv, PipeInv, Tick, ~TrapPastExecute, if_valid, ~squash,
         ~MemRRelated(IdBits.inst, Forward), ~id_valid \/ ex_ready,
         NEW rs \in Reg, rs \in {Rs1(IdBits.inst), Rs2(IdBits.inst)}
  PROVE  GprForward(rs, Forward) = ExGpr'[rs]
<1>. DEFINE e == ExBits.inst
            m == LsBits.inst
            w == WbBits.inst
<1>1. ~cause /\ ExGpr \in [Reg -> Num] /\ LsGpr \in [Reg -> Num] /\ gpr \in [Reg -> Num]
  BY StateTypes DEF TrapPastExecute
<1>2. gpr[0] = 0 /\ 0 \in Reg
  BY InstAssumption DEF PipeInv, ZeroReg, Reg
<1>3. LsGpr[rs] = IF RegWEn(w) /\ w.rd # 0 /\ rs = w.rd THEN WbBits.lsu_out ELSE gpr[rs]
  BY <1>1 DEF LsGpr, GprAfter
<1>4. LsBits = LsBitsNotSquashed
  BY <1>1 DEF LsBits, LsBitsNotSquashed
<1>5. ExGpr[rs] = IF RegWEn(m) /\ m.rd # 0 /\ rs = m.rd THEN LsOut ELSE LsGpr[rs]
  BY <1>1, <1>4 DEF ExGpr, GprAfter
<1>6. rs # 0 /\ RegWEn(m) /\ rs = m.rd => LsOut = LsuOut(LsBits, LoadedData)
  <2>1. rs # 0 /\ RegWEn(m) /\ rs = m.rd => ~MemREn(m)
    BY DEF MemRRelated, Forward, LsuInfo
  <2>. QED
    BY <1>4, <2>1 DEF LsOut, LsuOut
<1>7. rs # 0 => ExGpr'[rs] = IF RegWEn(e) /\ rs = e.rd THEN ExuOut(ExBits) ELSE ExGpr[rs]
  <2>1. CASE id_valid /\ ex_ready
    <3>1. ExBits = r_id2ex
      BY <1>1, <2>1 DEF ExBits
    <3>2. rs # 0 /\ RegWEn(e) /\ rs = e.rd => ~MemREn(e)
      BY DEF MemRRelated, Forward, ExuInfo
    <3>3. ExGpr' = GprAfter(e, LsOut', ExGpr) /\ (~MemREn(e) => LsOut' = ExuOut(ExBits))
      BY <2>1, <3>1, ExecuteMoves
    <3>. QED
      BY <1>1, <3>2, <3>3 DEF GprAfter
  <2>2. CASE ~id_valid
    <3>1. e = NopInst
      BY <2>2 DEF ExBits, Id2exReset
    <3>2. ExGpr' = ExGpr
      BY <2>2, ExecuteStays
    <3>. QED
      BY <3>1, <3>2, NopType
  <2>. QED
    BY <2>1, <2>2
<1>8. rs = 0 => ExGpr'[rs] = 0
  <2>1. ExGpr[0] = 0
    BY <1>1, <1>2 DEF ExGpr, LsGpr, GprAfter
  <2>2. CASE id_valid /\ ex_ready
    BY <1>1, <1>2, <2>1, <2>2, ExecuteMoves DEF GprAfter
  <2>3. CASE ~id_valid
    BY <2>1, <2>3, ExecuteStays
  <2>. QED
    BY <2>1, <2>2, <2>3
<1>9. /\ Forward.E.rd = (IF RegWEn(e) THEN e.rd ELSE 0) /\ Forward.E.out = ExuOut(ExBits)
      /\ Forward.M.rd = (IF RegWEn(m) THEN m.rd ELSE 0) /\ Forward.M.out = LsuOut(LsBits, LoadedData)
      /\ Forward.W.rd = (IF RegWEn(w) THEN w.rd ELSE 0) /\ Forward.W.out = WbBits.lsu_out
  BY DEF Forward, ExuInfo, LsuInfo, WbuInfo
<1>. HIDE DEF e, m, w
<1>. QED
  BY <1>3, <1>5, <1>6, <1>7, <1>8, <1>9 DEF GprForward

\* The same of a CSR, for which decode never waits.
LEMMA CsrForwarded ==
  ASSUME TypeInv, PipeInv, Tick, ~TrapPastExecute, if_valid, ~squash,
         ~id_valid \/ ex_ready, NEW c \in CsrName
  PROVE  ExCsr'[c] = NearestCsr(c)
<1>1. ~cause /\ ExCsr \in [CsrName -> Num] /\ LsCsr \in [CsrName -> Num] /\ csr \in [CsrName -> Num]
  BY StateTypes DEF TrapPastExecute
<1>2. LsCsr[c] = IF CsrWEn(WbBits.inst) /\ WbBits.inst.csr = c THEN WbBits.csr_w_data ELSE csr[c]
  BY <1>1 DEF LsCsr, CsrAfter
<1>3. LsBits = LsBitsNotSquashed
  BY <1>1 DEF LsBits, LsBitsNotSquashed
<1>4. ExCsr[c] = IF CsrWEn(LsBits.inst) /\ LsBits.inst.csr = c THEN LsBits.csr_w_data ELSE LsCsr[c]
  BY <1>1, <1>3 DEF ExCsr, CsrAfter
<1>5. ExCsr'[c] = IF CsrWEn(ExBits.inst) /\ ExBits.inst.csr = c THEN ExuCsrOut(ExBits) ELSE ExCsr[c]
  <2>1. CASE id_valid /\ ex_ready
    <3>1. ExBits = r_id2ex
      BY <1>1, <2>1 DEF ExBits
    <3>2. ExCsr' = CsrAfter(ExBits.inst, ExuCsrOut(ExBits), ExCsr)
      BY <2>1, <3>1, ExecuteMoves
    <3>. QED
      BY <1>1, <3>2 DEF CsrAfter
  <2>2. CASE ~id_valid
    <3>1. ExBits.inst = NopInst
      BY <2>2 DEF ExBits, Id2exReset
    <3>2. ExCsr' = ExCsr
      BY <2>2, ExecuteStays
    <3>. QED
      BY <3>1, <3>2, NopType
  <2>. QED
    BY <2>1, <2>2
<1>6. /\ Forward.E.csr_en = CsrWEn(ExBits.inst) /\ Forward.E.csr = ExBits.inst.csr
      /\ Forward.E.csr_data = ExuCsrOut(ExBits)
      /\ Forward.M.csr_en = CsrWEn(LsBits.inst) /\ Forward.M.csr = LsBits.inst.csr
      /\ Forward.M.csr_data = LsBits.csr_w_data
      /\ Forward.W.csr_en = CsrWEn(WbBits.inst) /\ Forward.W.csr = WbBits.inst.csr
      /\ Forward.W.csr_data = WbBits.csr_w_data
  BY DEF Forward, ExuInfo, LsuInfo, WbuInfo
<1>. QED
  BY <1>2, <1>4, <1>5, <1>6 DEF NearestCsr

\* A program that returns from traps does not write mepc: what decode reads
\* there is not in flight.
LEMMA MepcRead ==
  ASSUME TypeInv, PipeInv, NEW p \in Num, MretOp(mem[p])
  PROVE  NearestCsr("mepc") = csr.mepc
<1>1. \A q \in Num : CsrWEn(mem[q]) => mem[q].csr # "mepc"
  BY ProgramInst
<1>2. \A i \in {ExBits.inst, LsBits.inst, WbBits.inst} : i = NopInst \/ \E q \in Num : i = mem[q]
  BY Addresses DEF PipeInv, InProgram, ExBits, Id2exReset, LsBits, Ex2lsReset, WbBits, Ls2wbReset
<1>3. \A i \in {ExBits.inst, LsBits.inst, WbBits.inst} : CsrWEn(i) => i.csr # "mepc"
  BY <1>1, <1>2, NopType
<1>4. /\ ~(Forward.E.csr_en /\ Forward.E.csr = "mepc")
      /\ ~(Forward.M.csr_en /\ Forward.M.csr = "mepc")
      /\ ~(Forward.W.csr_en /\ Forward.W.csr = "mepc")
  BY <1>3 DEF Forward, ExuInfo, LsuInfo, WbuInfo
<1>. QED
  BY <1>4 DEF NearestCsr

\* Decode delivers the instruction the machine behind the execute stage is at,
\* with the operands that machine has.
LEMMA DecodeDelivers ==
  ASSUME TypeInv, PipeInv, Tick, ~TrapPastExecute, ~TrapPastExecute',
         if_valid, id_ready, ~squash
  PROVE  ExecuteGood' /\ id_valid' /\ want' = Plus(ExPc', 1)
<1>. DEFINE i == r_if2id.inst
<1>1. IDUTick(if_valid, IdBits, squash, ex_ready, Forward) /\ HistoryTick
  BY DEF Tick
<1>2. /\ IdBits = r_if2id
      /\ ~MemRRelated(i, Forward)
      /\ ~id_valid \/ ex_ready
      /\ ~cause /\ ~jump_ctl /\ ~(id_valid /\ RedirectOf(r_id2ex))
  BY Control, DecodeBundle DEF squash, id_ready, IduReady
<1>3. want \in Num /\ r_if2id.pc = want /\ i = mem[want] /\ r_if2id.snpc = Plus(want, 1)
  BY <1>2, FromBus, Addresses DEF TypeInv
<1>4. i \in Instruction
  BY <1>3, ProgramInst
<1>5. ExPc' = want
  <2>1. CASE id_valid
    <3>1. ~EcallOp(r_id2ex.inst) /\ ExPc' = ExuDnpc(r_id2ex)
      BY <1>2, <2>1, ExecuteMoves
    <3>2. want = Plus(ExPc, 1)
      BY <1>2, <2>1, <3>1 DEF PipeInv, DecodeGood
    <3>3. ExuDnpc(r_id2ex) = Plus(ExPc, 1)
      BY <1>2, <2>1 DEF RedirectOf, ExuDnpc, PipeInv, ExecuteGood
    <3>. QED
      BY <3>1, <3>2, <3>3
  <2>2. CASE ~id_valid
    BY <2>2, ExecuteStays DEF PipeInv, DecodeGood
  <2>. QED
    BY <2>1, <2>2
<1>6. id_valid' /\ r_id2ex' = [inst |-> i, pc |-> want, snpc |-> Plus(want, 1),
                               dnpc |-> IF MretOp(i) THEN csr.mepc ELSE Plus(want, 1),
                               src1 |-> GprForward(Rs1(i), Forward),
                               src2 |-> GprForward(Rs2(i), Forward),
                               csr_data |-> CsrForward(i, Forward)]
  BY <1>1, <1>2, <1>3, Control DEF IDUTick
<1>7. want' = Plus(want, 1)
  BY <1>1, <1>2, <1>3, Addresses DEF HistoryTick
<1>8. (Rs1Tag(i) => GprForward(Rs1(i), Forward) = ExGpr'[i.rs1])
      /\ (Rs2Tag(i) => GprForward(Rs2(i), Forward) = ExGpr'[i.rs2])
  <2>1. i.rs1 \in Reg /\ i.rs2 \in Reg
    BY <1>4 DEF Instruction
  <2>2. (Rs1Tag(i) => Rs1(i) = i.rs1) /\ (Rs2Tag(i) => Rs2(i) = i.rs2)
    BY DEF Rs1, Rs2
  <2>. QED
    BY <1>2, <2>1, <2>2, GprForwarded
<1>9. CsrREn(i) => CsrForward(i, Forward) = ExCsr'[i.csr]
  <2>1. i.csr \in CsrName
    BY <1>4 DEF Instruction
  <2>2. ExCsr'[i.csr] = NearestCsr(i.csr)
    BY <1>2, <2>1, CsrForwarded
  <2>. QED
    BY <2>2 DEF NearestCsr, CsrForward
<1>10. MretOp(i) => csr.mepc = ExCsr'.mepc
  <2>1. ExCsr'["mepc"] = NearestCsr("mepc")
    BY <1>2, CsrForwarded DEF CsrName
  <2>. QED
    BY <1>3, <2>1, MepcRead
<1>11. mem'[want] = mem[want]
  BY <1>3, MemoryTypedStep, Addresses
<1>12. ExecuteGood'
  <2>1. r_id2ex'.inst = mem'[ExPc'] /\ r_id2ex'.pc = ExPc' /\ r_id2ex'.snpc = Plus(ExPc', 1)
    BY <1>3, <1>5, <1>6, <1>11
  <2>2. r_id2ex'.dnpc = IF MretOp(r_id2ex'.inst) THEN ExCsr'.mepc ELSE Plus(ExPc', 1)
    BY <1>5, <1>6, <1>10
  <2>3. /\ Rs1Tag(r_id2ex'.inst) => r_id2ex'.src1 = ExGpr'[r_id2ex'.inst.rs1]
        /\ Rs2Tag(r_id2ex'.inst) => r_id2ex'.src2 = ExGpr'[r_id2ex'.inst.rs2]
        /\ CsrREn(r_id2ex'.inst) => r_id2ex'.csr_data = ExCsr'[r_id2ex'.inst.csr]
    BY <1>6, <1>8, <1>9
  <2>. QED
    BY <2>1, <2>2, <2>3 DEF ExecuteGood
<1>. QED
  BY <1>5, <1>6, <1>7, <1>12

-----------------------------------------------------------------------------
(***************************************************************************)
(* A clock cycle keeps the invariant.                                      *)
(***************************************************************************)
\* What is in front of the execute stage.
LEMMA ExecuteGoodStep ==
  ASSUME TypeInv, PipeInv, Tick
  PROVE  ExecuteGood' /\ DecodeGood'
<1>. SUFFICES ASSUME ~TrapPastExecute'
              PROVE  ExecuteGood' /\ (IF id_valid
                                      THEN ~EcallOp(r_id2ex.inst) /\ ~RedirectOf(r_id2ex) => want = Plus(ExPc, 1)
                                      ELSE want = ExPc)'
  BY DEF ExecuteGood, DecodeGood
<1>1. CASE cause
  <2>1. ~id_valid' /\ want' = ExPc'
    BY <1>1, Traps DEF ExPc
  <2>. QED
    BY <2>1 DEF ExecuteGood
<1>2. CASE ~cause
  <2>1. ~TrapPastExecute
    BY <1>2, TrapMoves
  <2>2. IDUTick(if_valid, IdBits, squash, ex_ready, Forward) /\ HistoryTick
    BY DEF Tick
  <2>3. squash <=> id_valid /\ RedirectOf(r_id2ex)
    BY <1>2, Control DEF squash
  <2>4. CASE if_valid /\ id_ready /\ ~squash
    BY <2>1, <2>4, DecodeDelivers
  <2>5. CASE id_valid /\ ~ex_ready
    <3>1. id_valid' /\ r_id2ex' = r_id2ex
      BY <2>2, <2>5, Control DEF IDUTick
    <3>2. ExPc' = ExPc /\ ExGpr' = ExGpr /\ ExCsr' = ExCsr /\ mem'[ExPc] = mem[ExPc]
      BY <2>1, <2>5, ExecuteStays, StateTypes, MemoryTypedStep, Addresses
    <3>3. ExecuteGood'
      BY <2>1, <2>5, <3>1, <3>2 DEF PipeInv, ExecuteGood
    <3>4. ~RedirectOf(r_id2ex) => want' = want
      BY <1>2, <2>2, <2>3, <2>5, Control DEF HistoryTick, squash
    <3>. QED
      BY <2>1, <2>5, <3>1, <3>2, <3>3, <3>4 DEF PipeInv, DecodeGood
  <2>6. CASE ~(if_valid /\ id_ready /\ ~squash) /\ ~(id_valid /\ ~ex_ready)
    <3>1. ~id_valid'
      BY <2>2, <2>6, Control DEF IDUTick, id_ready, IduReady
    <3>2. CASE id_valid
      <4>1. ExPc' = ExuDnpc(r_id2ex) /\ ~EcallOp(r_id2ex.inst)
        BY <2>1, <2>6, <3>2, ExecuteMoves
      <4>2. CASE squash
        BY <1>2, <2>2, <2>3, <3>1, <4>1, <4>2, Control DEF HistoryTick, squash, ExBits, ExecuteGood
      <4>3. CASE ~squash
        <5>1. want' = want
          BY <1>2, <2>2, <2>6, <4>3 DEF HistoryTick, squash
        <5>2. want = Plus(ExPc, 1)
          BY <2>1, <2>3, <3>2, <4>1, <4>3 DEF PipeInv, DecodeGood
        <5>3. ExuDnpc(r_id2ex) = Plus(ExPc, 1)
          BY <2>1, <2>3, <3>2, <4>3 DEF RedirectOf, ExuDnpc, PipeInv, ExecuteGood
        <5>. QED
          BY <3>1, <4>1, <5>1, <5>2, <5>3 DEF ExecuteGood
      <4>. QED
        BY <4>2, <4>3
    <3>3. CASE ~id_valid
      <4>1. want' = want
        BY <1>2, <2>2, <2>3, <2>6, <3>3 DEF HistoryTick, squash
      <4>2. want = ExPc /\ ExPc' = ExPc
        BY <2>1, <3>3, ExecuteStays DEF PipeInv, DecodeGood
      <4>. QED
        BY <3>1, <4>1, <4>2 DEF ExecuteGood
    <3>. QED
      BY <3>2, <3>3
  <2>. QED
    BY <2>4, <2>5, <2>6
<1>. QED
  BY <1>1, <1>2

\* An instruction does the same to the machines in front of and behind a stage
\* when these are the same; what it loads is in memory.
LEMMA ResultsMove ==
  ASSUME LsPc' = ExPc, LsGpr' = ExGpr, LsCsr' = ExCsr, NEW i
  PROVE  /\ RegWEn(i) /\ ~MemREn(i) => AtLs!RegResult(i)' = AtEx!RegResult(i)
         /\ MemREn(i) => AtLs!RegResult(i)' = mem'[Cell(Plus(LsGpr'[i.rs1], i.imm))].val
         /\ CsrWEn(i) => AtLs!CsrResult(i)' = AtEx!CsrResult(i)
         /\ AtLs!Target(i)' = AtEx!Target(i)
<1>. USE SameWords
<1>1. RegWEn(i) /\ ~MemREn(i) => AtLs!RegResult(i)' = AtEx!RegResult(i)
  BY DEF RegWEn, MemREn, AtLs!RegResult, AtEx!RegResult, AtLs!X, AtEx!X, CsrOps
<1>2. MemREn(i) => AtLs!RegResult(i)' = mem'[Cell(Plus(LsGpr'[i.rs1], i.imm))].val
  <2>. SUFFICES ASSUME MemREn(i) PROVE AtLs!RegResult(i)' = mem'[Cell(Plus(LsGpr'[i.rs1], i.imm))].val
    OBVIOUS
  <2>1. AtLs!RegResult(i)' = mem'[AtLs!Cell(AtLs!Plus(LsGpr'[i.rs1], i.imm))].val
    BY DEF MemREn, AtLs!RegResult, AtLs!X, CsrOps
  <2>. QED
    BY <2>1
<1>3. CsrWEn(i) => AtLs!CsrResult(i)' = AtEx!CsrResult(i)
  BY DEF CsrWEn, CsrOp, CsrOps, AtLs!CsrResult, AtEx!CsrResult, AtLs!X, AtEx!X
<1>4. AtLs!Target(i)' = AtEx!Target(i)
  BY DEF AtLs!Target, AtEx!Target, AtLs!X, AtEx!X
<1>. QED
  BY <1>1, <1>2, <1>3, <1>4

\* The same while the memory stage waits.
LEMMA ResultsStay ==
  ASSUME LsPc' = LsPc, LsGpr' = LsGpr, LsCsr' = LsCsr, NEW i
  PROVE  /\ RegWEn(i) /\ (MemREn(i) => mem' = mem) => AtLs!RegResult(i)' = AtLs!RegResult(i)
         /\ CsrWEn(i) => AtLs!CsrResult(i)' = AtLs!CsrResult(i)
         /\ AtLs!Target(i)' = AtLs!Target(i)
<1>. USE SameWords
<1>1. RegWEn(i) /\ (MemREn(i) => mem' = mem) => AtLs!RegResult(i)' = AtLs!RegResult(i)
  BY DEF RegWEn, MemREn, AtLs!RegResult, AtLs!X, CsrOps
<1>2. CsrWEn(i) => AtLs!CsrResult(i)' = AtLs!CsrResult(i)
  BY DEF CsrWEn, CsrOp, CsrOps, AtLs!CsrResult, AtLs!X
<1>3. AtLs!Target(i)' = AtLs!Target(i)
  BY DEF AtLs!Target, AtLs!X
<1>. QED
  BY <1>1, <1>2, <1>3

\* The same behind write back, where a load sees the memory of the last
\* instruction that retired.
LEMMA ResultsRetire ==
  ASSUME cpu_pc' = LsPc, gpr' = LsGpr, csr' = LsCsr, NEW i
  PROVE  /\ RegWEn(i) /\ (MemREn(i) => ret_mem' = mem) => Machine!RegResult(i)' = AtLs!RegResult(i)
         /\ CsrWEn(i) => Machine!CsrResult(i)' = AtLs!CsrResult(i)
         /\ Machine!Target(i)' = AtLs!Target(i)
<1>. USE SameWords
<1>1. RegWEn(i) /\ (MemREn(i) => ret_mem' = mem) => Machine!RegResult(i)' = AtLs!RegResult(i)
  BY DEF RegWEn, MemREn, AtLs!RegResult, AtLs!X, Machine!RegResult, Machine!X, CsrOps
<1>2. CsrWEn(i) => Machine!CsrResult(i)' = AtLs!CsrResult(i)
  BY DEF CsrWEn, CsrOp, CsrOps, AtLs!CsrResult, AtLs!X, Machine!CsrResult, Machine!X
<1>3. Machine!Target(i)' = AtLs!Target(i)
  BY DEF AtLs!Target, AtLs!X, Machine!Target, Machine!X
<1>. QED
  BY <1>1, <1>2, <1>3

\* What the memory stage holds.
LEMMA MemoryStageGoodStep ==
  ASSUME TypeInv, PipeInv, Tick
  PROVE  MemoryStageGood'
<1>. SUFFICES ASSUME ex_valid', ~cause' PROVE MemoryStageGood'
  BY DEF MemoryStageGood
<1>1. ~cause /\ ~TrapPastExecute
  BY Traps, TrapMoves
<1>2. LsPc \in Num /\ ExPc \in Num
  BY StateTypes
<1>3. LsBitsNotSquashed' = r_ex2ls'
  BY DEF LsBitsNotSquashed
<1>4. CASE id_valid /\ ex_ready
  \* j is the instruction, which the stage keeps over the step.
  <2>. DEFINE i == r_id2ex.inst
  <2>1. /\ r_ex2ls' = [inst |-> i, pc |-> r_id2ex.pc, dnpc |-> ExuDnpc(r_id2ex),
                       src2 |-> r_id2ex.src2, exu_out |-> ExuOut(r_id2ex),
                       csr_w_data |-> ExuCsrOut(r_id2ex)]
        /\ LsPc' = ExPc /\ LsGpr' = ExGpr /\ LsCsr' = ExCsr
        /\ ~MemREn(i) => LsOut' = ExuOut(r_id2ex)
        /\ MemREn(i) => LsOut' = mem'[Cell(ExuOut(r_id2ex))].val
    BY <1>1, <1>4, ExecuteMoves
  <2>2. /\ r_id2ex.pc = ExPc
        /\ i = mem[ExPc]
        /\ MemREn(i) \/ MemWEn(i) => ExuOut(r_id2ex) = Plus(ExGpr[i.rs1], i.imm)
        /\ MemWEn(i) => r_id2ex.src2 = ExGpr[i.rs2]
        /\ RegWEn(i) /\ i.rd # 0 /\ ~MemREn(i) => ExuOut(r_id2ex) = AtEx!RegResult(i)
        /\ CsrWEn(i) => ExuCsrOut(r_id2ex) = AtEx!CsrResult(i)
        /\ ~EcallOp(i) => ExuDnpc(r_id2ex) = AtEx!Target(i)
    BY <1>1, <1>4, ExecuteComputes
  <2>3. mem'[ExPc] = mem[ExPc]
    BY <1>2, MemoryTypedStep, Addresses
  <2>4. \A j : /\ RegWEn(j) /\ ~MemREn(j) => AtLs!RegResult(j)' = AtEx!RegResult(j)
               /\ MemREn(j) => AtLs!RegResult(j)' = mem'[Cell(Plus(LsGpr'[j.rs1], j.imm))].val
               /\ CsrWEn(j) => AtLs!CsrResult(j)' = AtEx!CsrResult(j)
               /\ AtLs!Target(j)' = AtEx!Target(j)
    BY <2>1, ResultsMove
  <2>6. PICK j : j = i
    OBVIOUS
  <2>7. r_ex2ls'.inst = j
    BY <2>1, <2>6
  <2>8. RegWEn(j) /\ j.rd # 0 => LsOut' = AtLs!RegResult(j)'
    BY <2>1, <2>2, <2>4, <2>6
  <2>9. (CsrWEn(j) => r_ex2ls'.csr_w_data = AtLs!CsrResult(j)') /\ (~EcallOp(j) => r_ex2ls'.dnpc = AtLs!Target(j)')
    BY <2>1, <2>2, <2>4, <2>6
  <2>10. /\ r_ex2ls'.pc = LsPc' /\ j = mem'[LsPc']
         /\ MemREn(j) \/ MemWEn(j) => r_ex2ls'.exu_out = Plus(LsGpr'[j.rs1], j.imm)
         /\ MemWEn(j) => r_ex2ls'.src2 = LsGpr'[j.rs2]
    BY <2>1, <2>2, <2>3, <2>6
  <2>. QED
    BY <2>7, <2>8, <2>9, <2>10 DEF MemoryStageGood
<1>5. CASE ~(id_valid /\ ex_ready)
  <2>1. ex_valid /\ ~fin
    BY <1>5, Control DEF Tick, EXUTick, ExuReady
  <2>2. r_ex2ls' = r_ex2ls /\ LsPc' = LsPc /\ LsGpr' = LsGpr /\ LsCsr' = LsCsr
    BY <1>1, <2>1, Waits
  <2>3. MemREn(r_ex2ls.inst) => mem' = mem
    BY <1>1, <2>1, RequestOf, StoreStep
  <2>4. mem'[LsPc] = mem[LsPc]
    BY <1>2, MemoryTypedStep, Addresses
  <2>5. LsOut' = LsOut
    BY <1>1, <1>3, <2>1, <2>2, <2>3, RequestOf DEF LsOut, LsuOut
  <2>6. PICK i : i = r_ex2ls.inst
    OBVIOUS
  <2>7. /\ RegWEn(i) => AtLs!RegResult(i)' = AtLs!RegResult(i)
        /\ CsrWEn(i) => AtLs!CsrResult(i)' = AtLs!CsrResult(i)
        /\ AtLs!Target(i)' = AtLs!Target(i)
    BY <2>2, <2>3, <2>6, ResultsStay
  <2>8. r_ex2ls'.inst = i
    BY <2>2, <2>6
  <2>. QED
    BY <1>1, <2>1, <2>2, <2>4, <2>5, <2>6, <2>7, <2>8 DEF PipeInv, MemoryStageGood
<1>. QED
  BY <1>4, <1>5

\* What write back holds.
LEMMA WriteBackGoodStep ==
  ASSUME TypeInv, PipeInv, Tick
  PROVE  WriteBackGood'
<1>. SUFFICES ASSUME Retires' PROVE WriteBackGood'
  BY DEF WriteBackGood
<1>1. ~cause /\ ex_valid /\ fin
  BY Traps, Waits
<1>2. WbBits' = [inst |-> r_ex2ls.inst, pc |-> r_ex2ls.pc, dnpc |-> r_ex2ls.dnpc,
                 lsu_out |-> LsOut, csr_w_data |-> r_ex2ls.csr_w_data]
  BY <1>1, HandsOn
<1>3. cpu_pc' = LsPc /\ gpr' = LsGpr /\ csr' = LsCsr /\ ret_mem' = IF Retires THEN mem ELSE ret_mem
  BY <1>1, WriteBackStep
<1>4. MemREn(r_ex2ls.inst) => ret_mem' = mem
  <2>. SUFFICES ASSUME MemREn(r_ex2ls.inst), ~Retires PROVE ret_mem' = mem
    BY <1>3
  <2>1. LsRequest.op = "load"
    BY <1>1, RequestOf
  <2>2. ls_w_state = "w_idle"
    BY <2>1, StoreStep
  <2>. QED
    BY <1>3, <2>2 DEF PipeInv, MemoryGood
<1>5. LsPc \in Num /\ mem'[LsPc] = mem[LsPc]
  BY StateTypes, MemoryTypedStep, Addresses
<1>6. PICK i : i = r_ex2ls.inst
  OBVIOUS
<1>7. /\ RegWEn(i) => Machine!RegResult(i)' = AtLs!RegResult(i)
      /\ CsrWEn(i) => Machine!CsrResult(i)' = AtLs!CsrResult(i)
      /\ Machine!Target(i)' = AtLs!Target(i)
  BY <1>3, <1>4, <1>6, ResultsRetire
<1>8. /\ WbBits'.inst = i /\ WbBits'.pc = r_ex2ls.pc /\ WbBits'.dnpc = r_ex2ls.dnpc
      /\ WbBits'.lsu_out = LsOut /\ WbBits'.csr_w_data = r_ex2ls.csr_w_data
  BY <1>2, <1>6
<1>. QED
  BY <1>1, <1>3, <1>5, <1>6, <1>7, <1>8 DEF PipeInv, MemoryStageGood, WriteBackGood

\* Memory, between the stores under way and those retired.
LEMMA MemoryGoodStep ==
  ASSUME TypeInv, PipeInv, Tick
  PROVE  MemoryGood'
<1>1. ret_mem' = IF Retires THEN mem ELSE ret_mem
  BY WriteBackStep
<1>2. Retires => ls_valid
  BY Control
<1>3. ls_w_state' # "w_idle" => ex_valid' /\ ~ls_valid'
  BY StoreStep, RequestOf, Waits
<1>4. ASSUME Retires'
      PROVE  mem' = IF MemWEn(WbBits'.inst) THEN Machine!Stored(WbBits.inst)' ELSE ret_mem'
  <2>1. ~cause /\ ex_valid /\ fin
    BY <1>4, Traps, Waits
  <2>2. PICK i : i = r_ex2ls.inst
    OBVIOUS
  <2>3. WbBits'.inst = i
    BY <2>1, <2>2, HandsOn
  <2>4. CASE MemWEn(i)
    <3>1. LsRequest.op = "store"
      BY <2>1, <2>2, <2>4, RequestOf
    <3>2. ls_w_state = "w_wait_resp" /\ mem' = mem
      BY <2>1, <3>1, StoreStep
    <3>3. mem = [ret_mem EXCEPT ![Cell(r_ex2ls.exu_out)] = NumWord(r_ex2ls.src2)] /\ ret_mem' = ret_mem
      BY <1>1, <1>2, <3>2 DEF PipeInv, MemoryGood
    <3>4. r_ex2ls.exu_out = Plus(LsGpr[i.rs1], i.imm) /\ r_ex2ls.src2 = LsGpr[i.rs2] /\ gpr' = LsGpr
      BY <2>1, <2>2, <2>4, WriteBackStep DEF PipeInv, MemoryStageGood
    <3>5. Machine!Stored(i)' = [ret_mem' EXCEPT ![Machine!Cell(Machine!Plus(gpr'[i.rs1], i.imm))] = Machine!NumWord(gpr'[i.rs2])]
      BY DEF Machine!Stored, Machine!X
    <3>6. Machine!Stored(i)' = [ret_mem' EXCEPT ![Cell(Plus(gpr'[i.rs1], i.imm))] = NumWord(gpr'[i.rs2])]
      BY <3>5, SameWords
    <3>7. Machine!Stored(i)' = mem'
      BY <3>2, <3>3, <3>4, <3>6
    <3>. QED
      BY <2>3, <2>4, <3>7
  <2>5. CASE ~MemWEn(i)
    <3>1. LsRequest.op # "store"
      BY <2>2, <2>5, RequestOf
    <3>2. ls_w_state = "w_idle" /\ mem' = mem
      BY <3>1, StoreStep
    <3>3. ret_mem' = mem
      BY <1>1, <3>2 DEF PipeInv, MemoryGood
    <3>. QED
      BY <2>3, <2>5, <3>2, <3>3
  <2>. QED
    BY <2>4, <2>5
<1>5. ASSUME ~Retires'
      PROVE  mem' = IF ls_w_state' = "w_wait_resp"
                    THEN [ret_mem' EXCEPT ![Cell(r_ex2ls'.exu_out)] = NumWord(r_ex2ls'.src2)]
                    ELSE ret_mem'
  <2>1. CASE cause
    BY <2>1, Traps
  <2>2. CASE ~cause
    <3>1. ~(ex_valid /\ fin)
      BY <1>5, <2>2, HandsOn
    <3>2. ls_w_state # "w_wait_resp"
      BY <3>1, StoreStep, RequestOf
    <3>3. CASE ls_w_state = "w_wait_ready"
      <4>1. ~Retires /\ mem = ret_mem /\ ret_mem' = ret_mem
        BY <1>1, <1>2, <3>3 DEF PipeInv, MemoryGood
      <4>2. mem' = [mem EXCEPT ![Cell(r_ex2ls.exu_out)] = NumWord(r_ex2ls.src2)]
        BY <3>3, StoreStep, RequestOf
      <4>3. ls_w_state' = "w_wait_resp" /\ r_ex2ls' = r_ex2ls
        BY <2>2, <3>1, <3>3, StoreStep, RequestOf, Waits
      <4>. QED
        BY <4>1, <4>2, <4>3
    <3>4. CASE ls_w_state # "w_wait_ready"
      <4>1. mem' = mem /\ ls_w_state' # "w_wait_resp"
        BY <3>4, StoreStep
      <4>2. ret_mem' = mem
        BY <1>1, <3>2, <3>4 DEF PipeInv, MemoryGood
      <4>. QED
        BY <4>1, <4>2
    <3>. QED
      BY <3>3, <3>4
  <2>. QED
    BY <2>1, <2>2
<1>. QED
  BY <1>3, <1>4, <1>5 DEF MemoryGood

\* The program, and where its instructions are.
LEMMA ProgramStep ==
  ASSUME TypeInv, PipeInv, Tick
  PROVE  Conforming(mem)' /\ ZeroReg' /\ InProgram'
<1>1. {mem'[p] : p \in Code} = {mem[p] : p \in Code}
  BY MemoryTypedStep
<1>2. Conforming(mem)'
  BY <1>1 DEF Conforming, PipeInv
<1>3. ZeroReg'
  <2>1. gpr' = LsGpr /\ gpr \in [Reg -> Num] /\ gpr[0] = 0 /\ 0 \in Reg
    BY WriteBackStep, StateTypes, InstAssumption DEF PipeInv, ZeroReg, Reg
  <2>2. LsGpr[0] = gpr[0]
    BY <2>1 DEF LsGpr, GprAfter
  <2>. QED
    BY <2>1, <2>2 DEF ZeroReg
<1>4. id_valid' => r_id2ex'.inst \in {mem[p] : p \in Code}
  <2>1. IDUTick(if_valid, IdBits, squash, ex_ready, Forward)
    BY DEF Tick
  <2>2. if_valid /\ ~squash => IdBits.inst \in {mem[p] : p \in Code}
    BY DecodeBundle, FromBus DEF TypeInv
  <2>3. CASE if_valid /\ (~id_valid \/ ex_ready)
    BY <2>1, <2>2, <2>3 DEF IDUTick
  <2>4. CASE ~(if_valid /\ (~id_valid \/ ex_ready))
    BY <2>1, <2>4 DEF IDUTick, PipeInv, InProgram
  <2>. QED
    BY <2>3, <2>4
<1>5. ex_valid' => r_ex2ls'.inst \in {mem[p] : p \in Code}
  BY Control DEF Tick, EXUTick, ExuReady, ExBits, PipeInv, InProgram
<1>6. ls_valid' => r_ls2wb'.inst \in {mem[p] : p \in Code} \cup {NopInst}
  BY Control DEF Tick, LSUTick, LsuReady, LsBits, Ex2lsReset, PipeInv, InProgram
<1>. QED
  BY <1>1, <1>2, <1>3, <1>4, <1>5, <1>6 DEF InProgram

\* A step that changes nothing.
LEMMA PipeStutter ==
  ASSUME TypeInv, PipeInv, UNCHANGED vars
  PROVE  PipeInv'
<1>. USE DEF vars, pipeVars, iduVars, exuVars, lsuVars, busVars, sramVars, lsHandlerVars
<1>1. /\ UNCHANGED <<mem, ret_mem, gpr, csr, cpu_pc, want, ls_w_state>>
      /\ UNCHANGED <<id_valid, r_id2ex, ex_valid, r_ex2ls, ls_valid, r_ls2wb>>
  OBVIOUS
<1>2. WbBits' = WbBits /\ LsBitsNotSquashed' = LsBitsNotSquashed
  BY <1>1 DEF WbBits, LsBitsNotSquashed
<1>3. Retires' = Retires /\ cause' = cause /\ TrapPastExecute' = TrapPastExecute
  BY <1>1, <1>2 DEF Retires, cause, TrapPastExecute
<1>4. LsPc' = LsPc /\ LsGpr' = LsGpr /\ LsCsr' = LsCsr /\ LsOut' = LsOut
  BY <1>1, <1>2, <1>3 DEF LsPc, LsGpr, LsCsr, LsOut
<1>5. ExPc' = ExPc /\ ExGpr' = ExGpr /\ ExCsr' = ExCsr
  BY <1>1, <1>2, <1>4 DEF ExPc, ExGpr, ExCsr
<1>6. (Conforming(mem) /\ ZeroReg /\ InProgram)'
  BY <1>1 DEF PipeInv, Conforming, ZeroReg, InProgram
<1>7. (ExecuteGood /\ DecodeGood)'
  BY <1>1, <1>3, <1>5 DEF PipeInv, ExecuteGood, DecodeGood
<1>8. MemoryStageGood'
  <2>1. PICK i : i = r_ex2ls.inst
    OBVIOUS
  <2>2. /\ RegWEn(i) => AtLs!RegResult(i)' = AtLs!RegResult(i)
        /\ CsrWEn(i) => AtLs!CsrResult(i)' = AtLs!CsrResult(i)
        /\ AtLs!Target(i)' = AtLs!Target(i)
    BY <1>1, <1>4, ResultsStay
  <2>3. r_ex2ls'.inst = i
    BY <1>1, <2>1
  <2>. QED
    BY <1>1, <1>3, <1>4, <2>1, <2>2, <2>3 DEF PipeInv, MemoryStageGood
<1>9. WriteBackGood'
  BY <1>1, <1>2, <1>3
     DEF PipeInv, WriteBackGood, Machine!RegResult, Machine!CsrResult, Machine!Target, Machine!X
<1>10. MemoryGood'
  BY <1>1, <1>2, <1>3 DEF PipeInv, MemoryGood, Machine!Stored, Machine!X
<1>. QED
  BY <1>6, <1>7, <1>8, <1>9, <1>10 DEF PipeInv

\* After reset the stages are empty.
LEMMA PipeInit ==
  ASSUME Init, Conforming(mem)
  PROVE  PipeInv
<1>1. ~id_valid /\ ~ex_valid /\ ~ls_valid /\ ls_w_state = "w_idle" /\ gpr = [r \in Reg |-> 0]
      /\ cpu_pc = 0 /\ want = 0 /\ ret_mem = mem
  BY DEF Init, BusInit, LSHandlerInit, IDUInit, EXUInit, LSUInit
<1>2. ~Retires /\ ~cause
  BY <1>1, NopType DEF Retires, cause, CauseOf, WbBits, Ls2wbReset
<1>3. ExPc = 0
  BY <1>1, <1>2 DEF ExPc, LsPc
<1>4. ZeroReg
  BY <1>1, InstAssumption DEF ZeroReg, Reg
<1>. QED
  BY <1>1, <1>2, <1>3, <1>4
     DEF PipeInv, InProgram, WriteBackGood, MemoryStageGood, ExecuteGood, DecodeGood, MemoryGood

\* Every step.
LEMMA PipeStep ==
  ASSUME TypeInv, PipeInv, [Next]_vars
  PROVE  PipeInv'
<1>1. CASE Tick
  BY <1>1, ProgramStep, WriteBackGoodStep, MemoryStageGoodStep, ExecuteGoodStep, MemoryGoodStep
     DEF PipeInv
<1>2. CASE UNCHANGED vars
  BY <1>2, PipeStutter
<1>. QED
  BY <1>1, <1>2 DEF Next

\* While the program is one of those the processor runs as the manual has it,
\* every stage holds what the machine it finds in front of it does.
THEOREM PipeInvariant == Spec /\ Conforming(mem) => []PipeInv
<1>1. Init /\ Conforming(mem) => PipeInv
  BY PipeInit
<1>. QED
  BY <1>1, PipeStep, TypeInvariant, PTL DEF Spec

-----------------------------------------------------------------------------
(***************************************************************************)
(* The refinement: a cycle in which an instruction retires is a step of    *)
(* the machine, and any other cycle changes nothing the machine has.       *)
(***************************************************************************)
\* No instruction retires.
LEMMA NothingRetires ==
  ASSUME TypeInv, Tick, ~Retires
  PROVE  UNCHANGED Machine!vars
<1>1. WbBits.inst = NopInst /\ ~cause
  BY NopType DEF Retires, cause, CauseOf
<1>2. gpr' = gpr /\ csr' = csr /\ cpu_pc' = cpu_pc /\ ret_mem' = ret_mem
  BY <1>1, WriteBackStep, NopType DEF LsGpr, LsCsr, LsPc, GprAfter, CsrAfter
<1>3. r_statistic'.inst = NopInst
  BY <1>1 DEF Tick, WBUTick
<1>4. npc_state' = npc_state
  BY <1>3, NopType DEF Tick, SimulatorTick
<1>. QED
  BY <1>2, <1>4 DEF Machine!vars

\* The instruction that retires is the one the machine is at, and what write
\* back does is what the machine does.
LEMMA Retirement ==
  ASSUME TypeInv, PipeInv, Tick, Retires, NEW i, i = WbBits.inst
  PROVE  /\ i = ret_mem[cpu_pc] /\ i \in Instruction
         /\ CsrWEn(i) => Machine!WritesCsr(i)
         /\ Machine!WritesCsr(i) => CsrWEn(i)
         /\ npc_state = "running"
         /\ npc_state' # "running" <=> InvalidOp(i) \/ EbreakOp(i)
         /\ cpu_pc' = Machine!Target(i)
         /\ gpr' = IF RegWEn(i) /\ i.rd # 0 THEN [gpr EXCEPT ![i.rd] = Machine!RegResult(i)] ELSE gpr
         /\ csr' = IF CsrWEn(i) THEN [csr EXCEPT ![i.csr] = Machine!CsrResult(i)]
                   ELSE IF EcallOp(i) THEN [csr EXCEPT !.mepc = cpu_pc, !.mcause = Ecall] ELSE csr
         /\ ret_mem' = IF MemWEn(i) THEN Machine!Stored(i) ELSE ret_mem
<1>1. cpu_pc \in Num /\ i = mem[cpu_pc] /\ WbBits.pc = cpu_pc
  BY DEF TypeInv, PipeInv, WriteBackGood
<1>2. i \in Instruction /\ (i.op \in {"csrrw", "csrrwi"} => i.rs1 # 0)
  BY <1>1, ProgramInst
<1>3. ret_mem[cpu_pc] = mem[cpu_pc]
  <2>1. CASE MemWEn(i)
    <3>1. mem = Machine!Stored(i)
      BY <2>1 DEF PipeInv, MemoryGood
    <3>2. mem = [ret_mem EXCEPT ![Cell(Plus(gpr[i.rs1], i.imm))] = NumWord(gpr[i.rs2])]
      BY <3>1, SameWords DEF Machine!Stored, Machine!X
    <3>3. Cell(Plus(gpr[i.rs1], i.imm)) \in Data
      <4>1. gpr[i.rs1] \in Num /\ i.imm \in Num
        BY <1>2, StateTypes DEF Instruction
      <4>. QED
        BY <4>1, Addresses, PlusType
    <3>. QED
      BY <1>1, <3>2, <3>3, Addresses, StateTypes
  <2>2. CASE ~MemWEn(i)
    BY <2>2 DEF PipeInv, MemoryGood
  <2>. QED
    BY <2>1, <2>2
<1>4. (CsrWEn(i) => Machine!WritesCsr(i)) /\ (Machine!WritesCsr(i) => CsrWEn(i))
  BY <1>2, SameWords DEF Machine!WritesCsr, CsrWEn, CsrOp, CsrOps
<1>5. npc_state = "running" /\ (npc_state' # "running" <=> InvalidOp(i) \/ EbreakOp(i))
  <2>1. r_statistic'.inst = i
    BY DEF Tick, WBUTick
  <2>. QED
    BY <2>1 DEF Tick, SimulatorTick
<1>6. cause <=> EcallOp(i)
  BY DEF cause, CauseOf
<1>7. cpu_pc' = Machine!Target(i)
  <2>1. EcallOp(i) => Machine!Target(i) = csr.mtvec
    BY DEF EcallOp, Machine!Target
  <2>. QED
    BY <1>6, <2>1, WriteBackStep DEF LsPc, PipeInv, WriteBackGood
<1>8. gpr' = IF RegWEn(i) /\ i.rd # 0 THEN [gpr EXCEPT ![i.rd] = Machine!RegResult(i)] ELSE gpr
  BY WriteBackStep DEF LsGpr, GprAfter, PipeInv, WriteBackGood
<1>9. csr' = IF CsrWEn(i) THEN [csr EXCEPT ![i.csr] = Machine!CsrResult(i)]
             ELSE IF EcallOp(i) THEN [csr EXCEPT !.mepc = cpu_pc, !.mcause = Ecall] ELSE csr
  <2>1. CASE EcallOp(i)
    <3>1. ~CsrWEn(i)
      BY <2>1 DEF EcallOp, CsrWEn, CsrOp, CsrOps
    <3>. QED
      BY <1>1, <1>6, <2>1, <3>1, WriteBackStep
  <2>2. CASE ~EcallOp(i)
    BY <1>6, <2>2, WriteBackStep DEF LsCsr, CsrAfter, PipeInv, WriteBackGood
  <2>. QED
    BY <2>1, <2>2
<1>10. ret_mem' = IF MemWEn(i) THEN Machine!Stored(i) ELSE ret_mem
  BY WriteBackStep DEF PipeInv, MemoryGood
<1>. QED
  BY <1>1, <1>2, <1>3, <1>4, <1>5, <1>7, <1>8, <1>9, <1>10

\* An instruction retires.
LEMMA InstructionRetires ==
  ASSUME TypeInv, PipeInv, Tick, Retires
  PROVE  Machine!Next
<1>1. PICK i : i = WbBits.inst
  OBVIOUS
<1>2. /\ i = ret_mem[cpu_pc] /\ i \in Instruction
      /\ CsrWEn(i) => Machine!WritesCsr(i)
      /\ Machine!WritesCsr(i) => CsrWEn(i)
      /\ npc_state = "running"
      /\ npc_state' # "running" <=> InvalidOp(i) \/ EbreakOp(i)
      /\ cpu_pc' = Machine!Target(i)
      /\ gpr' = IF RegWEn(i) /\ i.rd # 0 THEN [gpr EXCEPT ![i.rd] = Machine!RegResult(i)] ELSE gpr
      /\ csr' = IF CsrWEn(i) THEN [csr EXCEPT ![i.csr] = Machine!CsrResult(i)]
                ELSE IF EcallOp(i) THEN [csr EXCEPT !.mepc = cpu_pc, !.mcause = Ecall] ELSE csr
      /\ ret_mem' = IF MemWEn(i) THEN Machine!Stored(i) ELSE ret_mem
  BY <1>1, Retirement
<1>3. /\ CsrOp(i) <=> i.op \in CsrOps
      /\ i.op \in InstOp
  BY <1>2 DEF CsrOp, Instruction
<1>. USE DEF EcallOp, InvalidOp, EbreakOp, MemWEn, RegWEn
<1>4. CASE i.op \in {"add", "addi", "lui", "auipc", "ld", "jal", "jalr"}
  <2>1. ~CsrWEn(i)
    BY <1>3, <1>4 DEF CsrWEn, CsrOps
  <2>2. Machine!SetReg(i.rd, Machine!RegResult(i))
    BY <1>2, <1>4 DEF Machine!SetReg
  <2>3. csr' = csr /\ ret_mem' = ret_mem /\ npc_state' = "running"
    BY <1>2, <1>4, <2>1
  <2>4. Machine!Compute(i)
    BY <1>2, <1>4, <2>2, <2>3 DEF Machine!Compute
  <2>. QED
    BY <1>2, <2>4 DEF Machine!Next
<1>5. CASE i.op = "sd"
  <2>1. ~CsrWEn(i) /\ i.op \notin CsrOps
    BY <1>3, <1>5 DEF CsrWEn, CsrOps
  <2>2. Machine!Store(i)
    BY <1>2, <1>5, <2>1 DEF Machine!Store
  <2>. QED
    BY <1>2, <2>2 DEF Machine!Next
<1>6. CASE i.op \in {"beq", "mret"}
  <2>1. ~CsrWEn(i) /\ i.op \notin CsrOps
    BY <1>3, <1>6 DEF CsrWEn, CsrOps
  <2>2. Machine!Jump(i)
    BY <1>2, <1>6, <2>1 DEF Machine!Jump
  <2>. QED
    BY <1>2, <2>2 DEF Machine!Next
<1>7. CASE i.op \in CsrOps
  <2>1. i.op \in Machine!CsrOps /\ i.op \notin {"ecall", "sd", "ebreak", "invalid"}
    BY <1>7, SameWords DEF CsrOps
  <2>2. Machine!SetReg(i.rd, Machine!RegResult(i))
    BY <1>2, <1>7 DEF Machine!SetReg
  <2>3. csr' = IF Machine!WritesCsr(i) THEN [csr EXCEPT ![i.csr] = Machine!CsrResult(i)] ELSE csr
    BY <1>2, <2>1
  <2>4. Machine!AccessCsr(i)
    BY <1>2, <2>1, <2>2, <2>3 DEF Machine!AccessCsr
  <2>. QED
    BY <1>2, <2>4 DEF Machine!Next
<1>8. CASE i.op = "ecall"
  <2>1. ~CsrWEn(i) /\ i.op \notin CsrOps
    BY <1>3, <1>8 DEF CsrWEn, CsrOps
  <2>2. Machine!Trap(i)
    BY <1>2, <1>8, <2>1 DEF Machine!Trap
  <2>. QED
    BY <1>2, <2>2 DEF Machine!Next
<1>9. CASE i.op \in {"ebreak", "invalid"}
  <2>1. ~CsrWEn(i) /\ i.op \notin CsrOps
    BY <1>3, <1>9 DEF CsrWEn, CsrOps
  <2>2. Machine!Halt(i)
    BY <1>2, <1>9, <2>1 DEF Machine!Halt
  <2>. QED
    BY <1>2, <2>2 DEF Machine!Next
<1>. QED
  BY <1>3, <1>4, <1>5, <1>6, <1>7, <1>8, <1>9 DEF InstOp

\* The pipeline runs programs as the manual has it: for every conforming
\* program, width of words, number of registers and size of the memory, what
\* it retires is an execution of the machine.
THEOREM PipelineRunsISA == Spec /\ Conforming(mem) => RunsISA
<1>1. Init => Machine!Init
  <2>1. Init => mem \in [Addr -> Word]
    BY FromBus, TypeInit DEF TypeInv, BusTypeOK, SRAMTypeOK
  <2>. QED
    BY <2>1 DEF Init, IDUInit, Machine!Init, Machine!Reg, Reg, Machine!CsrName, CsrName, Machine!Addr, Addr
<1>2. TypeInv /\ PipeInv /\ [Next]_vars => [Machine!Next]_(Machine!vars)
  <2>. SUFFICES ASSUME TypeInv, PipeInv, [Next]_vars PROVE [Machine!Next]_(Machine!vars)
    OBVIOUS
  <2>1. CASE Tick
    BY <2>1, NothingRetires, InstructionRetires
  <2>2. CASE UNCHANGED vars
    BY <2>2 DEF vars, pipeVars, iduVars, Machine!vars
  <2>. QED
    BY <2>1, <2>2 DEF Next
<1>. QED
  BY <1>1, <1>2, TypeInvariant, PipeInvariant, PTL DEF Spec, RunsISA, Machine!Spec

\* The instruction the processor reports is the one the simulator expects.
THEOREM ReportedPcAgrees == Spec /\ Conforming(mem) => HarnessPcAgrees
<1>1. TypeInv /\ PipeInv /\ [Next]_vars => [r_statistic'.inst # NopInst => r_statistic'.pc = cpu_pc]_vars
  <2>. SUFFICES ASSUME PipeInv, Tick PROVE r_statistic'.inst # NopInst => r_statistic'.pc = cpu_pc
    BY DEF Next
  <2>1. r_statistic'.inst = WbBits.inst /\ r_statistic'.pc = WbBits.pc
    BY DEF Tick, WBUTick
  <2>. QED
    BY <2>1 DEF Retires, PipeInv, WriteBackGood
<1>. QED
  BY <1>1, TypeInvariant, PipeInvariant, PTL DEF Spec, HarnessPcAgrees
=============================================================================
