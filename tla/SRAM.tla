-------------------------------- MODULE SRAM --------------------------------
(***************************************************************************)
(* playground/src/utils/sram: the memory (SRAM.scala) and the arbiter in   *)
(* front of it.  The memory answers one read at a time (address, one cycle *)
(* of access, response) and, independently, one write at a time.           *)
(*                                                                         *)
(* The clock edge is SRAMTick, parameterised by the input wires; the       *)
(* outputs are functions of the registers alone.                           *)
(***************************************************************************)
EXTENDS BusTypes

VARIABLES
  mem,         \* the memory array behind MemRead and MemWrite
  sram_state,  \* r_state
  r_araddr,
  r_arready,
  r_rdata,
  r_awaddr,
  r_awready,
  r_wdata,
  r_wready,
  r_bvalid

sramVars == <<mem, sram_state, r_araddr, r_arready, r_rdata,
              r_awaddr, r_awready, r_wdata, r_wready, r_bvalid>>

SRAMTypeOK ==
  /\ mem \in [Addr -> Word]
  /\ sram_state \in {"wait_addr", "prepare_data", "wait_rready"}
  /\ r_araddr \in Addr
  /\ r_arready \in BOOLEAN
  /\ r_rdata \in Word
  /\ r_awaddr \in Addr
  /\ r_awready \in BOOLEAN
  /\ r_wdata \in Word
  /\ r_wready \in BOOLEAN
  /\ r_bvalid \in BOOLEAN

\* The registers after reset; the memory holds the loaded image.
SRAMInit ==
  /\ sram_state = "wait_addr"
  /\ r_araddr = Addr0
  /\ r_arready = FALSE
  /\ r_rdata = Word0
  /\ r_awaddr = Addr0
  /\ r_awready = FALSE
  /\ r_wdata = Word0
  /\ r_wready = FALSE
  /\ r_bvalid = FALSE

\* Outputs io.r.valid and io.b.valid (io.ar.ready, io.aw.ready and io.w.ready
\* are the registers of those names).
OutRValid == sram_state = "wait_rready"

\* Slip: an address that arrives with the response to the last one is missed.
UpdateAddrIdleOnly(ar_valid, r_ready) == sram_state = "wait_addr" /\ ar_valid

UpdateAddr(ar_valid, r_ready) ==
  \/ sram_state = "wait_addr" /\ ar_valid
  \/ sram_state = "wait_rready" /\ r_ready /\ ar_valid

SRAMReadTick(ar_valid, ar_addr, r_ready) ==
  /\ \/ /\ sram_state = "wait_addr"
        /\ sram_state' = IF ar_valid THEN "prepare_data" ELSE "wait_addr"
     \/ /\ sram_state = "prepare_data"
        /\ sram_state' = "wait_rready"
     \/ /\ sram_state = "wait_rready"
        /\ sram_state' = IF ~r_ready THEN "wait_rready"
                         ELSE IF ar_valid THEN "prepare_data" ELSE "wait_addr"
  /\ r_araddr' = IF UpdateAddr(ar_valid, r_ready) THEN ar_addr ELSE r_araddr
  /\ r_arready' = UpdateAddr(ar_valid, r_ready)
  \* MemRead and MemWrite are two combinational processes that call into the
  \* simulator: a read in the cycle of a write sees either memory.
  /\ IF sram_state = "prepare_data"
     THEN r_rdata' \in {mem[r_araddr], mem'[r_araddr]}
     ELSE r_rdata' = r_rdata

WriteEnable(aw_valid, w_valid) ==
  aw_valid /\ r_awready /\ w_valid /\ r_wready /\ ~r_bvalid

SRAMWriteTick(aw_valid, aw_addr, w_valid, w_data, b_ready) ==
  /\ mem' = IF WriteEnable(aw_valid, w_valid)
            THEN [mem EXCEPT ![r_awaddr] = r_wdata] ELSE mem
  /\ r_awaddr' = IF aw_valid /\ ~r_awready /\ w_valid THEN aw_addr ELSE r_awaddr
  /\ r_awready' = (aw_valid /\ ~r_awready /\ w_valid)
  /\ r_wdata' = IF w_valid /\ ~r_wready /\ aw_valid THEN w_data ELSE r_wdata
  /\ r_wready' = (w_valid /\ ~r_wready /\ aw_valid)
  /\ r_bvalid' = (WriteEnable(aw_valid, w_valid) \/ (r_bvalid /\ ~b_ready))
-----------------------------------------------------------------------------
(***************************************************************************)
(* utils/sram/SRAMArbiter.scala gives the read channel of the memory to    *)
(* the fetch stage or to the load/store handler, and keeps the owner until *)
(* the response.  The write channel belongs to the load/store handler      *)
(* alone and is wired through.                                             *)
(***************************************************************************)
VARIABLE r_client   \* whose read the memory is serving

ArbiterTypeOK == r_client \in {"c_idle", "c_ifu", "c_lsu"}

ArbiterInit == r_client = "c_idle"

\* Slip: the fetch stage, which always asks, is served first.
SelectFetchFirst(lsu_ar_valid, ifu_ar_valid) ==
  IF ifu_ar_valid THEN "c_ifu" ELSE IF lsu_ar_valid THEN "c_lsu" ELSE "c_idle"

\* client_selector: the handler is served first when both ask.
Select(lsu_ar_valid, ifu_ar_valid) ==
  IF lsu_ar_valid THEN "c_lsu" ELSE IF ifu_ar_valid THEN "c_ifu" ELSE "c_idle"

ArbiterTick(lsu_ar_valid, ifu_ar_valid, out_r_valid) ==
  r_client' = IF r_client = "c_idle" \/ out_r_valid
              THEN Select(lsu_ar_valid, ifu_ar_valid) ELSE r_client

\* Slip: the old owner's address even while the channel is handed over.
ArbiterAddrOfOwner(lsu_ar_valid, lsu_addr, ifu_addr, out_r_valid) ==
  IF r_client = "c_lsu" THEN lsu_addr ELSE ifu_addr

\* io.out.ar.bits.addr: the next owner's address while the channel is being
\* handed over, the owner's address otherwise.
ArbiterAddr(lsu_ar_valid, lsu_addr, ifu_addr, out_r_valid) ==
  IF r_client = "c_idle" \/ out_r_valid
  THEN IF lsu_ar_valid THEN lsu_addr ELSE ifu_addr
  ELSE IF r_client = "c_lsu" THEN lsu_addr ELSE ifu_addr

\* Slip: a response is shown to both clients.
RValidOfAnyone(client, out_r_valid) == out_r_valid

\* io.<client>.ar.ready, io.<client>.r.valid and io.out.r.ready
ArReadyOf(client, out_ar_ready) == r_client = client /\ out_ar_ready
RValidOf(client, out_r_valid) == r_client = client /\ out_r_valid

OutRReady(ifu_r_ready, lsu_r_ready) ==
  \/ r_client = "c_ifu" /\ ifu_r_ready
  \/ r_client = "c_lsu" /\ lsu_r_ready
=============================================================================
