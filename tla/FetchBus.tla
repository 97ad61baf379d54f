------------------------------ MODULE FetchBus ------------------------------
(***************************************************************************)
(* The memory side of the processor (MemBus) closed with the least it may  *)
(* assume of the pipeline behind it:                                       *)
(*                                                                         *)
(*   - the load/store unit keeps a request until it has finished, then     *)
(*     presents any other one;                                             *)
(*   - decode takes an instruction when it likes, but never while the      *)
(*     execute stage is held up;                                           *)
(*   - an instruction that decode took may redirect the fetch from the     *)
(*     execute stage (jal, jalr, a taken branch, mret).  jump_ctl stays up *)
(*     while the execute stage is held up, and decode squashes what it     *)
(*     holds in the cycle the execute stage moves;                         *)
(*   - an instruction past the execute stage may trap from write back.  A  *)
(*     trap empties the pipeline, and tvec is stable until the next        *)
(*     instruction is taken.                                               *)
(*                                                                         *)
(* Core is shown to be such a pipeline, so what holds here holds there.    *)
(***************************************************************************)
EXTENDS MemBus

VARIABLES
  req,      \* the request the load/store unit presents in this cycle
  ex,       \* the execute stage: "none", "plain" or "jump"
  ex_dnpc,  \* the next pc it computes, PC_RESET_VAL when it is empty
  older,    \* some instruction is past the execute stage
  tvec,     \* the CSR mtvec
  want      \* history: the pc of the next instruction decode must take

envVars == <<req, ex, ex_dnpc, older, tvec, want>>
vars == <<busVars, envVars>>

TypeOK ==
  /\ BusTypeOK
  /\ req \in Request
  /\ ex \in {"none", "plain", "jump"}
  /\ ex_dnpc \in FetchAddr
  /\ older \in BOOLEAN
  /\ tvec \in Code
  /\ want \in Code

\* EXU.io.out.jump_ctl: a trap masks the execute stage.
JumpCtl(cause) == ex = "jump" /\ ~cause

\* The inputs of the fetch stage.  The execute stage masked by a trap drives
\* the reset value of the bundle on dnpc.
FetchInputs(cause, id_ready) ==
  [jump_ctl |-> JumpCtl(cause),
   dnpc     |-> IF cause THEN PcReset ELSE ex_dnpc,
   cause    |-> cause,
   tvec     |-> tvec,
   id_ready |-> id_ready]

\* Decode takes an instruction that is not squashed.
Deliver(cause, id_ready) == if_valid /\ id_ready /\ ~JumpCtl(cause) /\ ~cause

ReqTick ==
  req' \in IF Fin(req) THEN Request ELSE {req}

\* ex_fire: the execute stage hands its instruction on.
ExTick(cause, id_ready, ex_fire) ==
  IF Deliver(cause, id_ready)
  THEN \/ ex' = "plain" /\ ex_dnpc' = r_if2id.snpc
       \/ ex' = "jump" /\ ex_dnpc' \in Code
  ELSE /\ ex' = IF ex_fire THEN "none" ELSE ex
       /\ ex_dnpc' = IF ex_fire THEN PcReset ELSE ex_dnpc

OlderTick(cause, ex_fire) ==
  older' \in IF ~cause /\ (older \/ ex_fire) THEN BOOLEAN ELSE {FALSE}

TvecTick(cause) ==
  tvec' \in IF older /\ ~cause THEN Code ELSE {tvec}

WantTick(cause, id_ready) ==
  want' = IF cause THEN tvec
          ELSE IF JumpCtl(cause) THEN ex_dnpc
          ELSE IF Deliver(cause, id_ready) THEN SnpcOf[r_if2id.pc]
          ELSE want

\* When decode may take or drop the instruction it is offered.
IdReadyAllowed(cause, id_ready, ex_fire) ==
  LET room == if_valid /\ (ex = "none" \/ ex_fire)
  IN IF JumpCtl(cause) \/ cause THEN id_ready = room ELSE id_ready => room

Cycle(cause, id_ready, ex_fire) ==
  /\ cause => older
  /\ ex_fire => ex # "none"
  /\ cause /\ ex # "none" => ex_fire
  /\ IdReadyAllowed(cause, id_ready, ex_fire)
  /\ BusTick(req, FetchInputs(cause, id_ready))
  /\ ReqTick
  /\ ExTick(cause, id_ready, ex_fire)
  /\ OlderTick(cause, ex_fire)
  /\ TvecTick(cause)
  /\ WantTick(cause, id_ready)

Tick == \E cause, id_ready, ex_fire \in BOOLEAN : Cycle(cause, id_ready, ex_fire)

Init ==
  /\ BusInit
  /\ mem \in [Addr -> Word]
  /\ req = NoRequest
  /\ ex = "none"
  /\ ex_dnpc = PcReset
  /\ older = FALSE
  /\ tvec \in Code
  /\ want = SnpcOf[PcReset]

Next == Tick

Spec == Init /\ [][Next]_vars

\* The clock keeps running.
FairSpec == Spec /\ WF_vars(Tick)
-----------------------------------------------------------------------------
(***************************************************************************)
(* Safety.                                                                 *)
(***************************************************************************)

\* What the fetch stage offers to decode is the word of memory at the pc it
\* is labelled with, whoever used the bus in between and however often the
\* word had to be read again.
FetchedWord ==
  if_valid => /\ r_if2id.inst = mem[r_if2id.pc]
              /\ r_if2id.snpc = SnpcOf[r_if2id.pc]

\* The fetch stage loses no redirect and repeats no instruction: whatever
\* decode may take is the instruction that follows the last one it took, or
\* the target of the last redirect or trap.
FetchInOrder == if_valid /\ ex # "jump" => r_if2id.pc = want

\* A load that finishes returns what the memory holds at its address now.
LoadValue == req.op = "load" /\ Fin(req) => r_rdata = mem[req.addr]

\* A store that finishes is in memory.
StoreValue == req.op = "store" /\ Fin(req) => mem[req.addr] = req.data

(***************************************************************************)
(* The inductive invariant: what ties the four handshake machines          *)
(* together, and where the next instruction is at any moment.              *)
(***************************************************************************)

\* The arbiter's owner, the state of the memory's read machine and the states
\* of the two clients agree, and the address latched is the owner's.
ReadChannel ==
  /\ r_client = "c_idle" <=> sram_state = "wait_addr"
  /\ r_client = "c_idle" => if_state = "r_idle"
  /\ r_arready <=> sram_state = "prepare_data"
  /\ r_client = "c_ifu" =>
       /\ if_state = IF sram_state = "prepare_data" THEN "r_wait_ready" ELSE "r_wait_data"
       /\ r_araddr = pc
  /\ r_client = "c_lsu" =>
       /\ ls_r_state = IF sram_state = "prepare_data" THEN "r_wait_ready" ELSE "r_wait_data"
       /\ r_araddr = req.addr
  /\ if_state = "r_wait_data" => r_client = "c_ifu"
  /\ ls_r_state = "r_wait_data" => r_client = "c_lsu"
  /\ ls_r_state # "r_idle" => req.op = "load"

\* The word held for the client is the one in memory: nobody stores to it.
ReadData == sram_state = "wait_rready" => r_rdata = mem[r_araddr]

\* The handler and the memory's write channel move in step.
WriteChannel ==
  /\ ls_w_state # "w_idle" => req.op = "store"
  /\ r_awready <=> ls_w_state = "w_wait_ready"
  /\ r_wready <=> ls_w_state = "w_wait_ready"
  /\ r_bvalid <=> ls_w_state = "w_wait_resp"
  /\ ls_w_state = "w_wait_ready" => r_awaddr = req.addr /\ r_wdata = req.data
  /\ ls_w_state = "w_wait_resp" => mem[req.addr] = req.data

\* Every address the fetch stage may use is an instruction address.
FetchAddresses ==
  /\ pc = PcReset <=> if_state = "r_idle"
  /\ if_valid => if_state # "r_idle" /\ r_if2id.pc \in Code
  /\ ex # "none" => ex_dnpc \in Code
  /\ r_dnpc_valid => r_dnpc \in Code

\* Where the instruction decode must take next is: the handler of a trap that
\* is remembered, the target of a redirect that is remembered or still driven
\* by the execute stage, the word offered, or the word being read.
NextFetch ==
  /\ r_cause_valid => ~if_valid /\ ex = "none" /\ ~older /\ want = tvec
  /\ r_dnpc_valid /\ ~r_cause_valid =>
       IF ex = "jump" THEN r_dnpc = ex_dnpc
       ELSE ex = "none" /\ ~if_valid /\ want = r_dnpc
  /\ ~r_dnpc_valid /\ ~r_cause_valid /\ ex # "jump" =>
       /\ if_valid => want = r_if2id.pc /\ pc = SnpcOf[r_if2id.pc]
       /\ ~if_valid => want = IF if_state = "r_idle" THEN SnpcOf[pc] ELSE pc

IInv ==
  /\ TypeOK
  /\ ReadChannel
  /\ ReadData
  /\ WriteChannel
  /\ FetchAddresses
  /\ FetchedWord
  /\ NextFetch

(***************************************************************************)
(* Liveness, under the fairness of the clock.                              *)
(***************************************************************************)

\* The two users of the read channel do not starve each other, and no
\* handshake deadlocks: every load and store finishes ...
AccessFinishes == (req.op # "none") ~> Fin(req)

\* ... and the fetch stage is answered again and again.
FetchAnswered == []<>IfuRValid
-----------------------------------------------------------------------------
(***************************************************************************)
(* The bus implements an atomic memory with two ports.                     *)
(***************************************************************************)
IfuPort ==
  IF if_state = "r_idle" THEN [st |-> "idle"]
  ELSE IF IfuRValid THEN [st |-> "done", op |-> "load", addr |-> pc, val |-> r_rdata]
  ELSE [st |-> "wait", op |-> "load", addr |-> pc, val |-> Word0]

LsuPort ==
  IF ls_r_state # "r_idle" \/ ls_w_state # "w_idle"
  THEN IF Fin(req)
       THEN [st |-> "done", op |-> req.op, addr |-> req.addr,
             val |-> IF req.op = "load" THEN r_rdata ELSE req.data]
       ELSE [st |-> "wait", op |-> req.op, addr |-> req.addr, val |-> req.data]
  ELSE [st |-> "idle"]

Atomic == INSTANCE AtomicMemory WITH ifu <- IfuPort, lsu <- LsuPort

\* Every read and every store takes effect exactly once, between its request
\* and its answer, on one memory.
AtomicSpec == Atomic!Spec
=============================================================================
