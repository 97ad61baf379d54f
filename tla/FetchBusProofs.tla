--------------------------- MODULE FetchBusProofs ---------------------------
(***************************************************************************)
(* TLAPS proofs about FetchBus: IInv is an inductive invariant, and the    *)
(* safety properties of FetchBus follow from it. The step lemmas follow    *)
(* the parts of IInv; the first three hold for any inputs of the fetch     *)
(* stage, the others for the inputs a Cycle drives.                        *)
(***************************************************************************)
EXTENDS FetchBus, TLAPS

\* The state after reset satisfies the inductive invariant.
LEMMA InitInv == Init => IInv
<1>. SUFFICES ASSUME Init PROVE IInv
  OBVIOUS
<1>. USE BusAssumption DEF Init, BusInit, SRAMInit, ArbiterInit, LSHandlerInit, IFUInit
<1>1. TypeOK
  BY DEF TypeOK, BusTypeOK, SRAMTypeOK, ArbiterTypeOK, LSHandlerTypeOK, IFUTypeOK,
         Addr, FetchAddr, If2idReset, Request, NoRequest
<1>2. ReadChannel /\ ReadData /\ WriteChannel
  BY DEF ReadChannel, ReadData, WriteChannel
<1>3. FetchAddresses /\ FetchedWord /\ NextFetch
  BY DEF FetchAddresses, FetchedWord, NextFetch
<1>. QED
  BY <1>1, <1>2, <1>3 DEF IInv

\* A step that changes nothing keeps the inductive invariant.
LEMMA StutterInv == IInv /\ UNCHANGED vars => IInv'
<1>. SUFFICES ASSUME IInv, UNCHANGED vars PROVE IInv'
  OBVIOUS
<1>. USE DEF vars, envVars, busVars, sramVars, lsHandlerVars, ifuVars, IInv
<1>1. TypeOK'
  BY DEF TypeOK, BusTypeOK, SRAMTypeOK, ArbiterTypeOK, LSHandlerTypeOK, IFUTypeOK
<1>2. (ReadChannel /\ ReadData /\ WriteChannel)'
  BY DEF ReadChannel, ReadData, WriteChannel
<1>3. (FetchAddresses /\ FetchedWord /\ NextFetch)'
  BY DEF FetchAddresses, FetchedWord, NextFetch
<1>. QED
  BY <1>1, <1>2, <1>3

\* A clock edge keeps the write machines of LSHandler and SRAM in step, and
\* the store that is answered is the one in memory: the handler keeps aw.valid
\* until it sees aw.ready, which is up for one cycle only.
LEMMA WriteStep ==
  ASSUME TypeOK, ReadChannel, WriteChannel,
         NEW in, BusTick(req, in), ReqTick
  PROVE WriteChannel'
<1>. USE BusAssumption DEF TypeOK, BusTypeOK, SRAMTypeOK, ArbiterTypeOK, LSHandlerTypeOK, BusTick,
        Addr, Request, NoRequest
<1>1. (req.op # "none" /\ req.op = "load" => ~r_bvalid) /\ (~Fin(req) => req' = req)
  BY DEF WriteChannel, ReqTick
<1>2. CASE ls_w_state = "w_idle" /\ req.op # "store"
  BY <1>2 DEF WriteChannel, LSHandlerTick, SRAMWriteTick, WriteEnable, LsuAwValid, WEn
<1>3. CASE ls_w_state = "w_idle" /\ req.op = "store"
  <2>1. req' = req
    BY <1>3, <1>1 DEF Fin, LsFin, REn, WEn, WriteChannel
  <2>. QED
    BY <1>3, <2>1 DEF WriteChannel, LSHandlerTick, SRAMWriteTick, WriteEnable, LsuAwValid, WEn
<1>4. CASE ls_w_state = "w_wait_ready"
  <2>1. req' = req /\ req.op = "store" /\ req.addr \in Addr
    BY <1>4, <1>1 DEF Fin, LsFin, REn, WEn, WriteChannel
  <2>2. mem'[req.addr] = req.data
    BY <1>4, <2>1 DEF WriteChannel, SRAMWriteTick, WriteEnable, LsuAwValid, WEn
  <2>. QED
    BY <1>4, <2>1, <2>2 DEF WriteChannel, LSHandlerTick, SRAMWriteTick, WriteEnable, LsuAwValid, WEn
<1>5. CASE ls_w_state = "w_wait_resp"
  BY <1>5 DEF WriteChannel, LSHandlerTick, SRAMWriteTick, WriteEnable, LsuAwValid, WEn
<1>. QED BY <1>2, <1>3, <1>4, <1>5

\* A clock edge keeps the read machines of SRAM, the arbiter and its two
\* clients in step, and the address latched the owner's, also when a response
\* and the next request meet in one cycle.
LEMMA ReadStep ==
  ASSUME TypeOK, ReadChannel, WriteChannel,
         NEW in, BusTick(req, in), ReqTick
  PROVE ReadChannel'
BY DEF ReadChannel, TypeOK, BusTypeOK, SRAMTypeOK, ArbiterTypeOK, LSHandlerTypeOK, IFUTypeOK,
       BusTick, ReqTick, Fin, LsFin, LSHandlerTick, REn, WEn, LsuRValid, IfuRValid, RValidOf,
       ArReadyOf, OutRValid, ArbiterTick, Select, ArbiterAddr, SRAMReadTick, UpdateAddr,
       IFUTick, IfuArValid, UpdateState, FetchPc, LsuArValid, OutRReady

\* The word SRAM holds for a client stays the one in memory: the store that
\* could change it would be the request of the client that waits for the word.
LEMMA ReadDataStep ==
  ASSUME TypeOK, ReadChannel, ReadData, WriteChannel, FetchAddresses,
         NEW in, BusTick(req, in), ReqTick
  PROVE ReadData'
<1>. USE BusAssumption DEF TypeOK, BusTypeOK, SRAMTypeOK, ArbiterTypeOK, LSHandlerTypeOK,
         IFUTypeOK, BusTick, Addr, FetchAddr, OutRValid
<1>1. ASSUME sram_state # "wait_addr" PROVE mem'[r_araddr] = mem[r_araddr]
  <2>1. \/ mem' = mem
        \/ mem' = [mem EXCEPT ![req.addr] = r_wdata] /\ req.op = "store"
    BY DEF WriteChannel, SRAMWriteTick, WriteEnable
  <2>2. req.op = "store" => req.addr \in Data
    BY DEF Request, NoRequest
  <2>3. req.op = "store" => r_araddr \in Code
    BY <1>1 DEF ReadChannel, FetchAddresses
  <2>. QED
    BY <2>1, <2>2, <2>3
<1>2. ASSUME sram_state' = "wait_rready"
      PROVE sram_state # "wait_addr" /\ r_araddr' = r_araddr
            /\ r_rdata' \in {mem[r_araddr], mem'[r_araddr], r_rdata}
            /\ (sram_state = "wait_rready" => r_rdata' = r_rdata)
            /\ (sram_state = "prepare_data" => r_rdata' \in {mem[r_araddr], mem'[r_araddr]})
  BY <1>2 DEF SRAMReadTick, UpdateAddr
<1>. QED
  BY <1>1, <1>2 DEF ReadData

\* A cycle keeps the registers in their types; the address of the next fetch
\* is always an instruction address.
LEMMA TypeStep ==
  ASSUME IInv, NEW cause \in BOOLEAN, NEW id_ready \in BOOLEAN, NEW ex_fire \in BOOLEAN,
         Cycle(cause, id_ready, ex_fire)
  PROVE TypeOK'
<1>. DEFINE in == FetchInputs(cause, id_ready)
<1>. USE BusAssumption DEF IInv, TypeOK, BusTypeOK, Cycle, Addr, FetchAddr
<1>1. Npc(in) \in Code
  BY DEF Npc, CauseValid, DnpcValid, Dnpc, FetchInputs, JumpCtl, IFUTypeOK, FetchAddresses
<1>2. /\ FetchPc(in, IfuRValid) \in FetchAddr
      /\ IfuArValid(IfuRValid) => FetchPc(in, IfuRValid) \in Code
  <2>. HIDE DEF in
  <2>. QED BY <1>1 DEF FetchPc, IfuArValid, UpdateState, IFUTypeOK, FetchAddresses, IfuRValid, RValidOf,
         ReadChannel
<1>3. SRAMTypeOK'
  <2>1. mem' \in [Addr -> Word]
    BY DEF BusTick, SRAMWriteTick, SRAMTypeOK
  <2>2. req.addr \in Addr /\ req.data \in Word
    BY DEF Request, NoRequest
  <2>. QED
    BY <1>2, <2>1, <2>2 DEF BusTick, SRAMReadTick, SRAMWriteTick, SRAMTypeOK, WriteEnable,
      UpdateAddr, ArbiterAddr, OutRValid, ReadChannel, ArbiterTypeOK
<1>4. ArbiterTypeOK'
  BY DEF BusTick, ArbiterTick, Select, ArbiterTypeOK
<1>5. LSHandlerTypeOK'
  BY DEF BusTick, LSHandlerTick, LSHandlerTypeOK
<1>6. IFUTypeOK'
  BY <1>1, <1>2 DEF BusTick, IFUTick, IFUTypeOK, SRAMTypeOK, Dnpc, FetchInputs
<1>7. (req \in Request /\ ex \in {"none", "plain", "jump"} /\ ex_dnpc \in FetchAddr)'
  BY DEF ReqTick, ExTick, IFUTypeOK
<1>8. (older \in BOOLEAN /\ tvec \in Code /\ want \in Code)'
  BY DEF OlderTick, TvecTick, WantTick, IFUTypeOK, FetchAddresses, JumpCtl, Deliver
<1>. QED
  BY <1>3, <1>4, <1>5, <1>6, <1>7, <1>8

\* A cycle keeps every address the fetch stage may go to next, the one on the
\* bus, the remembered redirect and the execute stage's, an instruction address.
LEMMA AddressStep ==
  ASSUME IInv, NEW cause \in BOOLEAN, NEW id_ready \in BOOLEAN, NEW ex_fire \in BOOLEAN,
         Cycle(cause, id_ready, ex_fire)
  PROVE FetchAddresses'
<1>. DEFINE in == FetchInputs(cause, id_ready)
<1>. USE BusAssumption DEF IInv, TypeOK, BusTypeOK, Cycle, Addr, FetchAddr, FetchAddresses, IFUTypeOK
<1>1. IFUTick(in, ArReadyOf("c_ifu", r_arready), IfuRValid, r_rdata)
  BY DEF BusTick
<1>2. Npc(in) \in Code /\ (DnpcValid(in) => Dnpc(in) \in Code)
  BY DEF Npc, CauseValid, DnpcValid, Dnpc, FetchInputs, JumpCtl
<1>3. pc' \in Code /\ if_state' # "r_idle"
  <2>. HIDE DEF in
  <2>. QED
    BY <1>1, <1>2 DEF IFUTick, FetchPc, UpdateState, IfuRValid, RValidOf, ReadChannel
<1>4. if_valid' => r_if2id'.pc \in Code
  <2>. HIDE DEF in
  <2>. QED
    BY <1>1 DEF IFUTick, ValidEnable, IfuRValid, RValidOf, ReadChannel
<1>5. ex' # "none" => ex_dnpc' \in Code
  BY DEF ExTick, Deliver, FetchedWord
<1>6. r_dnpc_valid' => r_dnpc' \in Code
  <2>. HIDE DEF in
  <2>. QED
    BY <1>1, <1>2 DEF IFUTick
<1>. QED
  BY <1>3, <1>4, <1>5, <1>6

\* A cycle keeps the word offered to decode the one in memory at its pc.
LEMMA FetchedWordStep ==
  ASSUME IInv, NEW cause \in BOOLEAN, NEW id_ready \in BOOLEAN, NEW ex_fire \in BOOLEAN,
         Cycle(cause, id_ready, ex_fire)
  PROVE FetchedWord'
<1>. DEFINE in == FetchInputs(cause, id_ready)
<1>. USE BusAssumption DEF IInv, TypeOK, BusTypeOK, Cycle, Addr, FetchAddr, FetchAddresses, IFUTypeOK
<1>1. IFUTick(in, ArReadyOf("c_ifu", r_arready), IfuRValid, r_rdata)
  BY DEF BusTick
<1>2. \A a \in Code : mem'[a] = mem[a]
  <2>1. \/ mem' = mem
        \/ mem' = [mem EXCEPT ![req.addr] = r_wdata] /\ req.op = "store"
    BY DEF WriteChannel, BusTick, SRAMWriteTick, WriteEnable
  <2>2. req.op = "store" => req.addr \in Data
    BY DEF Request, NoRequest
  <2>. QED
    BY <2>1, <2>2 DEF SRAMTypeOK
<1>3. IfuRValid => r_rdata = mem[pc] /\ pc \in Code
  BY DEF IfuRValid, RValidOf, OutRValid, ReadChannel, ReadData
<1>. HIDE DEF in
<1>. QED
  BY <1>1, <1>2, <1>3 DEF IFUTick, ValidEnable, FetchedWord

\* A cycle keeps the account of where the next instruction is, whichever of
\* trap, redirect, response and backpressure meet in it.
LEMMA NextFetchStep ==
  ASSUME IInv, NEW cause \in BOOLEAN, NEW id_ready \in BOOLEAN, NEW ex_fire \in BOOLEAN,
         Cycle(cause, id_ready, ex_fire)
  PROVE NextFetch'
<1>. DEFINE in == FetchInputs(cause, id_ready)
<1>. USE BusAssumption DEF IInv, TypeOK, BusTypeOK, Cycle, IFUTypeOK
<1>1. IFUTick(in, ArReadyOf("c_ifu", r_arready), IfuRValid, r_rdata)
  BY DEF BusTick
<1>2. /\ in.jump_ctl = JumpCtl(cause) /\ in.cause = cause /\ in.tvec = tvec
      /\ in.id_ready = id_ready /\ (~cause => in.dnpc = ex_dnpc)
  BY DEF FetchInputs
<1>3. /\ if_state = "r_idle" => ~if_valid
      /\ IfuRValid => if_state = "r_wait_data"
  BY DEF IfuRValid, RValidOf, OutRValid, ReadChannel, FetchAddresses
<1>. HIDE DEF in
<1>. USE <1>1, <1>2, <1>3 DEF IFUTick, ValidEnable, UpdateState, FetchPc, Npc, CauseValid, DnpcValid, Dnpc,
        JumpCtl, NextFetch, FetchedWord, FetchAddresses
<1>4. CASE cause
  BY <1>4 DEF IdReadyAllowed, ExTick, Deliver, OlderTick, TvecTick, WantTick
<1>5. CASE ~cause /\ r_cause_valid
  BY <1>5 DEF IdReadyAllowed, ExTick, Deliver, OlderTick, TvecTick, WantTick
<1>6. CASE ~cause /\ ~r_cause_valid /\ ex = "jump"
  BY <1>6 DEF IdReadyAllowed, ExTick, Deliver, OlderTick, TvecTick, WantTick
<1>7. CASE ~cause /\ ~r_cause_valid /\ ex # "jump" /\ r_dnpc_valid
  BY <1>7 DEF IdReadyAllowed, ExTick, Deliver, OlderTick, TvecTick, WantTick
<1>8. CASE ~cause /\ ~r_cause_valid /\ ex # "jump" /\ ~r_dnpc_valid
  <2>1. ~r_dnpc_valid' /\ ~r_cause_valid'
    BY <1>8
  <2>2. want' = IF if_valid /\ id_ready THEN SnpcOf[want] ELSE want
    BY <1>8 DEF WantTick, Deliver
  <2>3. CASE if_state = "r_idle"
    BY <1>8, <2>1, <2>2, <2>3
  <2>4. CASE if_state # "r_idle" /\ ~IfuRValid
    BY <1>8, <2>1, <2>2, <2>4
  <2>5. CASE IfuRValid /\ if_valid /\ ~id_ready
    BY <1>8, <2>1, <2>2, <2>5
  <2>6. CASE IfuRValid /\ if_valid /\ id_ready
    BY <1>8, <2>1, <2>2, <2>6
  <2>7. CASE IfuRValid /\ ~if_valid
    BY <1>8, <2>1, <2>2, <2>7 DEF IdReadyAllowed
  <2>. QED BY <2>3, <2>4, <2>5, <2>6, <2>7
<1>. QED
  BY <1>4, <1>5, <1>6, <1>7, <1>8

\* Every step keeps the inductive invariant.
LEMMA StepInv == IInv /\ [Next]_vars => IInv'
<1>. SUFFICES ASSUME IInv, Tick PROVE IInv'
  BY StutterInv DEF Next
<1>. PICK cause, id_ready, ex_fire \in BOOLEAN : Cycle(cause, id_ready, ex_fire)
  BY DEF Tick
<1>1. TypeOK'
  BY TypeStep
<1>2. BusTick(req, FetchInputs(cause, id_ready)) /\ ReqTick
  BY DEF Cycle
<1>3. WriteChannel' /\ ReadChannel' /\ ReadData'
  BY <1>2, WriteStep, ReadStep, ReadDataStep DEF IInv
<1>4. FetchAddresses' /\ FetchedWord' /\ NextFetch'
  BY AddressStep, FetchedWordStep, NextFetchStep
<1>. QED
  BY <1>1, <1>3, <1>4 DEF IInv

\* IInv is invariant: the handshakes of the fetch stage, the load/store
\* handler, the arbiter and the memory stay in step forever.
THEOREM Invariant == Spec => []IInv
  BY InitInv, StepInv, PTL DEF Spec

\* Every register of the memory side keeps its type; in particular no redirect
\* takes the fetch stage to an address without an instruction.
THEOREM TypeCorrect == Spec => []TypeOK
<1>1. IInv => TypeOK
  BY DEF IInv
<1>. QED
  BY <1>1, Invariant, PTL

\* IFU offers decode the word of memory at the pc it is labelled with, however
\* often the read had to be repeated and whoever used the bus in between.
THEOREM FetchesCorrectWord == Spec => []FetchedWord
<1>1. IInv => FetchedWord
  BY DEF IInv
<1>. QED
  BY <1>1, Invariant, PTL

\* IFU loses no redirect and no trap and repeats no instruction: what decode
\* may take is always the next instruction of the program's flow.
THEOREM FetchesInOrder == Spec => []FetchInOrder
<1>1. IInv => FetchInOrder
  BY DEF IInv, NextFetch, FetchInOrder, TypeOK, BusTypeOK, IFUTypeOK
<1>. QED
  BY <1>1, Invariant, PTL

\* When LSHandler reports a load as finished, the word on the channel is the
\* one in memory at the address of the load, never the answer to a fetch.
THEOREM LoadsCorrectValue == Spec => []LoadValue
<1>1. IInv => LoadValue
  BY DEF IInv, LoadValue, ReadChannel, ReadData, WriteChannel, Fin, LsFin, REn, WEn,
         LsuRValid, RValidOf, OutRValid
<1>. QED
  BY <1>1, Invariant, PTL

\* When LSHandler reports a store as finished, the word is in memory.
THEOREM StoresTakeEffect == Spec => []StoreValue
<1>1. IInv => StoreValue
  BY DEF IInv, StoreValue, TypeOK, BusTypeOK, SRAMTypeOK, WriteChannel, Fin, LsFin, REn, WEn
<1>. QED
  BY <1>1, Invariant, PTL

-----------------------------------------------------------------------------
(***************************************************************************)
(* The memory side implements AtomicMemory: every read and every write     *)
(* takes effect once, in one step between its request and its answer.      *)
(* Under the inductive invariant each port is a function of one handshake  *)
(* machine (IfuView, LsuView); the proof follows the states of these       *)
(* machines.                                                               *)
(***************************************************************************)

\* The fetch port by the state of the fetch stage.
IfuView ==
  IF if_state = "r_idle" THEN [st |-> "idle"]
  ELSE IF if_state = "r_wait_data"
  THEN [st |-> "done", op |-> "load", addr |-> pc, val |-> r_rdata]
  ELSE [st |-> "wait", op |-> "load", addr |-> pc, val |-> Word0]

\* The load/store port by the states of the handler.
LsuView ==
  IF ls_r_state = "r_wait_data"
  THEN [st |-> "done", op |-> "load", addr |-> req.addr, val |-> r_rdata]
  ELSE IF ls_w_state = "w_wait_resp"
  THEN [st |-> "done", op |-> "store", addr |-> req.addr, val |-> req.data]
  ELSE IF ls_r_state = "r_wait_ready" \/ ls_w_state = "w_wait_ready"
  THEN [st |-> "wait", op |-> req.op, addr |-> req.addr, val |-> req.data]
  ELSE [st |-> "idle"]

\* The port of the fetch stage, by the state of IFU alone.
LEMMA IfuPortValue == IInv => IfuPort = IfuView
BY DEF IInv, IfuPort, IfuView, IfuRValid, RValidOf, OutRValid, ReadChannel, TypeOK, BusTypeOK, SRAMTypeOK, IFUTypeOK

\* The port of the load/store unit, by the states of LSHandler alone.
LEMMA LsuPortValue == IInv => LsuPort = LsuView
<1>. SUFFICES ASSUME IInv PROVE LsuPort = LsuView
  OBVIOUS
<1>. USE DEF IInv, TypeOK, BusTypeOK, SRAMTypeOK, LSHandlerTypeOK, ReadChannel, WriteChannel
<1>1. Fin(req) <=> \/ req.op # "load" /\ req.op # "store"
                   \/ ls_r_state = "r_wait_data"
                   \/ ls_w_state = "w_wait_resp"
  BY DEF Fin, LsFin, REn, WEn, LsuRValid, RValidOf, OutRValid
<1>. QED
  BY <1>1 DEF LsuPort, LsuView

\* The same two facts in the next state.
LEMMA PortValuesNext == (IInv => IfuPort = IfuView)' /\ (IInv => LsuPort = LsuView)'
BY IfuPortValue, LsuPortValue, PTL

\* After reset both ports are idle.
LEMMA AtomicInit == Init => Atomic!Init
BY BusAssumption DEF Init, BusInit, SRAMInit, LSHandlerInit, IFUInit, Atomic!Init, Atomic!Idle, Atomic!Addr, Addr, IfuPort, LsuPort

\* A clock edge moves the fetch port as AtomicMemory allows: the read takes
\* effect in the cycle SRAM accesses memory for IFU.
LEMMA AtomicIfuStep ==
  ASSUME IInv, IInv', NEW in, BusTick(req, in)
  PROVE Atomic!PortStep(IfuPort, IfuPort')
<1>. USE DEF IInv, TypeOK, BusTypeOK, SRAMTypeOK, IFUTypeOK, Addr, FetchAddr, FetchAddresses
<1>1. IFUTick(in, ArReadyOf("c_ifu", r_arready), IfuRValid, r_rdata)
  BY DEF BusTick
<1>2. IfuPort = IfuView /\ IfuPort' = IfuView'
  BY IfuPortValue, PortValuesNext
<1>3. ASSUME if_state' = "r_wait_ready" /\ if_state # "r_wait_ready"
      PROVE Atomic!Asks(IfuView')
  <2>1. IfuView' = [st |-> "wait", op |-> "load", addr |-> pc', val |-> Word0] /\ pc' \in Addr
    BY <1>3 DEF IfuView
  <2>. QED
    BY <2>1 DEF Atomic!Asks, Atomic!Waiting, Atomic!Addr
<1>4. CASE if_state = "r_idle"
  BY <1>1, <1>2, <1>3, <1>4 DEF IFUTick, IfuView, Atomic!PortStep
<1>5. CASE if_state = "r_wait_ready" /\ ~ArReadyOf("c_ifu", r_arready)
  BY <1>1, <1>2, <1>5 DEF IFUTick, IfuView, Atomic!PortStep, UpdateState, FetchPc
<1>6. CASE if_state = "r_wait_ready" /\ ArReadyOf("c_ifu", r_arready)
  <2>1. if_state' = "r_wait_data" /\ pc' = pc
    BY <1>1, <1>6 DEF IFUTick, UpdateState, FetchPc
  <2>2. r_rdata' \in {mem[pc], mem'[pc]}
    BY <1>6 DEF BusTick, SRAMReadTick, ArReadyOf, ReadChannel
  <2>3. /\ IfuView = [st |-> "wait", op |-> "load", addr |-> pc, val |-> Word0]
        /\ IfuView' = [st |-> "done", op |-> "load", addr |-> pc, val |-> r_rdata']
    BY <1>6, <2>1 DEF IfuView
  <2>4. Atomic!ReadStep(IfuView, IfuView')
    BY <2>2, <2>3 DEF Atomic!ReadStep, Atomic!Done
  <2>. QED
    BY <1>2, <2>4 DEF Atomic!PortStep
<1>7. CASE if_state = "r_wait_data"
  <2>1. if_state' = "r_wait_ready"
    BY <1>1, <1>7 DEF IFUTick, IfuRValid, RValidOf, OutRValid, ReadChannel
  <2>2. IfuView.st = "done"
    BY <1>7 DEF IfuView
  <2>. QED
    BY <1>2, <1>3, <1>7, <2>1, <2>2 DEF Atomic!PortStep
<1>. QED
  BY <1>4, <1>5, <1>6, <1>7

\* A clock edge moves the load/store port as AtomicMemory allows, and memory
\* changes exactly when a store of that port takes effect.
LEMMA AtomicLsuStep ==
  ASSUME IInv, IInv', NEW in, BusTick(req, in), ReqTick
  PROVE Atomic!PortStep(LsuPort, LsuPort') /\ Atomic!MemStep
<1>. USE DEF IInv, TypeOK, BusTypeOK, SRAMTypeOK, LSHandlerTypeOK
<1>1. LsuPort = LsuView /\ LsuPort' = LsuView'
  BY LsuPortValue, PortValuesNext
<1>2. LSHandlerTick(req, ArReadyOf("c_lsu", r_arready), LsuRValid, r_awready, r_wready, r_bvalid)
  BY DEF BusTick
<1>3. mem' = IF ls_w_state = "w_wait_ready" THEN [mem EXCEPT ![req.addr] = req.data] ELSE mem
  BY DEF BusTick, SRAMWriteTick, WriteEnable, LsuAwValid, WEn, WriteChannel
<1>4. Fin(req) <=> \/ req.op # "load" /\ req.op # "store"
                   \/ ls_r_state = "r_wait_data"
                   \/ ls_w_state = "w_wait_resp"
  BY DEF Fin, LsFin, REn, WEn, LsuRValid, RValidOf, OutRValid, ReadChannel, WriteChannel
<1>5. ~Fin(req) => req' = req
  BY DEF ReqTick
<1>6. ASSUME ls_w_state # "w_wait_ready", Atomic!PortStep(LsuView, LsuView'),
             ~Atomic!WriteStep(LsuView, LsuView')
      PROVE Atomic!PortStep(LsuPort, LsuPort') /\ Atomic!MemStep
  BY <1>1, <1>3, <1>6 DEF Atomic!MemStep
<1>7. CASE ls_r_state = "r_idle" /\ ls_w_state = "w_idle"
  <2>1. LsuView = [st |-> "idle"]
    BY <1>7 DEF LsuView
  <2>2. ~Atomic!WriteStep(LsuView, LsuView')
    BY <2>1 DEF Atomic!WriteStep
  <2>3. CASE req.op = "load"
    <3>1. ls_r_state' = "r_wait_ready" /\ ls_w_state' = "w_idle" /\ req' = req
      BY <1>2, <1>4, <1>5, <1>7, <2>3 DEF LSHandlerTick, REn, WEn
    <3>2. req.addr \in Addr /\ req.data = Word0
      BY <2>3 DEF Request, NoRequest, Addr
    <3>3. Atomic!Asks(LsuView')
      BY <3>1, <3>2, <2>3 DEF LsuView, Atomic!Asks, Atomic!Waiting, Atomic!Addr, Addr
    <3>. QED
      BY <1>6, <1>7, <2>1, <2>2, <3>3 DEF Atomic!PortStep
  <2>4. CASE req.op = "store"
    <3>1. ls_r_state' = "r_idle" /\ ls_w_state' = "w_wait_ready" /\ req' = req
      BY <1>2, <1>4, <1>5, <1>7, <2>4 DEF LSHandlerTick, REn, WEn
    <3>2. req.addr \in Data /\ req.data \in Word
      BY <2>4 DEF Request, NoRequest
    <3>3. Atomic!Asks(LsuView')
      BY <3>1, <3>2, <2>4 DEF LsuView, Atomic!Asks, Atomic!Waiting
    <3>. QED
      BY <1>6, <1>7, <2>1, <2>2, <3>3 DEF Atomic!PortStep
  <2>5. CASE req.op # "load" /\ req.op # "store"
    <3>1. ls_r_state' = "r_idle" /\ ls_w_state' = "w_idle"
      BY <1>2, <1>7, <2>5 DEF LSHandlerTick, REn, WEn
    <3>2. LsuView' = LsuView
      BY <3>1, <2>1 DEF LsuView
    <3>. QED
      BY <1>6, <1>7, <2>2, <3>2 DEF Atomic!PortStep
  <2>. QED
    BY <2>3, <2>4, <2>5
<1>8. CASE ls_r_state = "r_wait_ready"
  <2>1. /\ LsuView = [st |-> "wait", op |-> "load", addr |-> req.addr, val |-> req.data]
        /\ ls_w_state = "w_idle" /\ req.op = "load"
    BY <1>8 DEF LsuView, ReadChannel, WriteChannel
  <2>2. req' = req /\ ls_w_state' = "w_idle" /\ ~Atomic!WriteStep(LsuView, LsuView')
    BY <1>2, <1>4, <1>5, <1>8, <2>1 DEF LSHandlerTick, WEn, Atomic!WriteStep
  <2>3. CASE ~ArReadyOf("c_lsu", r_arready)
    <3>1. LsuView' = LsuView
      BY <1>2, <1>8, <2>1, <2>2, <2>3 DEF LSHandlerTick, LsuView
    <3>. QED
      BY <1>6, <2>1, <2>2, <3>1 DEF Atomic!PortStep
  <2>4. CASE ArReadyOf("c_lsu", r_arready)
    <3>1. LsuView' = [st |-> "done", op |-> "load", addr |-> req.addr, val |-> r_rdata']
      BY <1>2, <1>8, <2>2, <2>4 DEF LSHandlerTick, LsuView
    <3>2. r_rdata' \in {mem[req.addr], mem'[req.addr]}
      BY <2>4 DEF BusTick, SRAMReadTick, ArReadyOf, ReadChannel
    <3>3. Atomic!ReadStep(LsuView, LsuView')
      BY <2>1, <3>1, <3>2 DEF Atomic!ReadStep, Atomic!Done
    <3>. QED
      BY <1>6, <2>1, <2>2, <3>3 DEF Atomic!PortStep
  <2>. QED
    BY <2>3, <2>4
<1>9. CASE ls_w_state = "w_wait_ready"
  <2>1. /\ LsuView = [st |-> "wait", op |-> "store", addr |-> req.addr, val |-> req.data]
        /\ ls_r_state = "r_idle" /\ req.op = "store"
    BY <1>9 DEF LsuView, ReadChannel, WriteChannel
  <2>2. req' = req /\ ls_r_state' = "r_idle" /\ ls_w_state' = "w_wait_resp"
    BY <1>2, <1>4, <1>5, <1>9, <2>1 DEF LSHandlerTick, REn, WriteChannel
  <2>3. LsuView' = [st |-> "done", op |-> "store", addr |-> req.addr, val |-> req.data]
    BY <2>2 DEF LsuView
  <2>4. Atomic!WriteStep(LsuView, LsuView')
    BY <2>1, <2>3 DEF Atomic!WriteStep, Atomic!Done
  <2>. QED
    BY <1>1, <1>3, <1>9, <2>1, <2>4 DEF Atomic!PortStep, Atomic!MemStep
<1>10. CASE ls_r_state = "r_wait_data" \/ ls_w_state = "w_wait_resp"
  <2>1. LsuView.st = "done" /\ ~Atomic!WriteStep(LsuView, LsuView') /\ ls_w_state # "w_wait_ready"
    BY <1>10 DEF LsuView, Atomic!WriteStep, ReadChannel, WriteChannel
  <2>2. ls_r_state' = "r_idle" /\ ls_w_state' = "w_idle"
    BY <1>2, <1>10 DEF LSHandlerTick, REn, WEn, LsuRValid, RValidOf, OutRValid,
       ReadChannel, WriteChannel
  <2>3. LsuView' = [st |-> "idle"]
    BY <2>2 DEF LsuView
  <2>. QED
    BY <1>6, <2>1, <2>3 DEF Atomic!PortStep, Atomic!Idle
<1>. QED
  BY <1>7, <1>8, <1>9, <1>10

\* The arbiter, the memory and its two clients implement an atomic memory with
\* two ports: AtomicSpec, for any set of addresses and words.
THEOREM ImplementsAtomicMemory == Spec => AtomicSpec
<1>1. Init => Atomic!Init
  BY AtomicInit
<1>2. IInv /\ IInv' /\ [Next]_vars => [Atomic!Next]_(Atomic!vars)
  <2>1. ASSUME IInv, IInv', Tick PROVE Atomic!Next
    <3>. PICK cause, id_ready, ex_fire \in BOOLEAN : Cycle(cause, id_ready, ex_fire)
      BY <2>1 DEF Tick
    <3>1. BusTick(req, FetchInputs(cause, id_ready)) /\ ReqTick
      BY DEF Cycle
    <3>. QED
      BY <2>1, <3>1, AtomicIfuStep, AtomicLsuStep DEF Atomic!Next
  <2>2. ASSUME UNCHANGED vars PROVE UNCHANGED Atomic!vars
    BY <2>2 DEF vars, envVars, busVars, sramVars, lsHandlerVars, ifuVars, Atomic!vars,
       IfuPort, LsuPort, IfuRValid, RValidOf, OutRValid, Fin, LsFin, LsuRValid, REn, WEn
  <2>. QED
    BY <2>1, <2>2 DEF Next
<1>. QED
  BY <1>1, <1>2, Invariant, PTL DEF Spec, AtomicSpec, Atomic!Spec
=============================================================================
