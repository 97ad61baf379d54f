--------------------------------- MODULE IFU ---------------------------------
(***************************************************************************)
(* playground/src/stages/IFU.scala: the fetch stage.  It always has one    *)
(* read in flight, for the address in pc.  A redirect (jump_ctl) or a trap *)
(* (cause) that arrives during a read is remembered in r_dnpc_valid or     *)
(* r_cause_valid until the response, which is then dropped.                *)
(*                                                                         *)
(* in is the record of the input wires:                                    *)
(*   jump_ctl, dnpc   from the execute stage                               *)
(*   cause, tvec      from the write back stage and the CSRs               *)
(*   id_ready         io.if2id.ready                                       *)
(* r_if2id.data.cause is always CAUSE_RESET_VAL and is left out.           *)
(***************************************************************************)
EXTENDS BusTypes

VARIABLES
  pc,
  if_valid,       \* r_valid
  r_if2id,
  r_dnpc,
  r_dnpc_valid,
  r_cause_valid,
  if_state        \* r_state

ifuVars == <<pc, if_valid, r_if2id, r_dnpc, r_dnpc_valid, r_cause_valid, if_state>>

FetchAddr == Code \cup {PcReset}

IFUTypeOK ==
  /\ pc \in FetchAddr
  /\ if_valid \in BOOLEAN
  /\ r_if2id \in [pc : FetchAddr, snpc : FetchAddr, inst : Word]
  /\ r_dnpc \in FetchAddr
  /\ r_dnpc_valid \in BOOLEAN
  /\ r_cause_valid \in BOOLEAN
  /\ if_state \in {"r_idle", "r_wait_ready", "r_wait_data"}

\* IF2IDBundle.if2id_rst_val
If2idReset == [pc |-> PcReset, snpc |-> PcReset, inst |-> Nop]

IFUInit ==
  /\ pc = PcReset
  /\ if_valid = FALSE
  /\ r_if2id = If2idReset
  /\ r_dnpc = PcReset
  /\ r_dnpc_valid = FALSE
  /\ r_cause_valid = FALSE
  /\ if_state = "r_idle"

\* Slip: the remembered redirect even when none was remembered.
DnpcRemembered(in) == r_dnpc

Dnpc(in)       == IF r_dnpc_valid THEN r_dnpc ELSE in.dnpc
DnpcValid(in)  == r_dnpc_valid \/ in.jump_ctl
CauseValid(in) == r_cause_valid \/ in.cause

UpdateState(r_valid) == (if_state = "r_wait_data" /\ r_valid) \/ if_state = "r_idle"

Npc(in) ==
  IF CauseValid(in) THEN in.tvec
  ELSE IF DnpcValid(in) THEN Dnpc(in) ELSE SnpcOf[pc]

\* Slip: goes on although decode has not taken the predecessor.
FetchPcNoRetry(in, r_valid) == IF UpdateState(r_valid) THEN Npc(in) ELSE pc

\* The address of the next read, in pc and on io.ar.bits.addr: the word that
\* has just arrived is read again while decode does not take its predecessor.
FetchPc(in, r_valid) ==
  IF UpdateState(r_valid) /\ ~(r_valid /\ if_valid /\ ~in.id_ready)
  THEN Npc(in) ELSE pc

\* Slip: the request is not held until it is accepted.
IfuArValidOnce(r_valid) == UpdateState(r_valid)

IfuArValid(r_valid) == UpdateState(r_valid) \/ if_state = "r_wait_ready"

ValidEnable(in, r_valid) == (~if_valid \/ in.id_ready) /\ r_valid

IFUTick(in, ar_ready, r_valid, r_data) ==
  /\ r_dnpc_valid' = (~UpdateState(r_valid) /\ DnpcValid(in))
  /\ r_dnpc' = Dnpc(in)
  /\ r_cause_valid' = (~UpdateState(r_valid) /\ CauseValid(in))
  /\ if_valid' = IF ValidEnable(in, r_valid)
                 THEN ~DnpcValid(in) /\ ~CauseValid(in)
                 ELSE if_valid /\ ~in.id_ready
  /\ r_if2id' = IF ValidEnable(in, r_valid)
                THEN [pc |-> pc, snpc |-> SnpcOf[pc], inst |-> r_data]
                ELSE r_if2id
  /\ \/ if_state = "r_idle" /\ if_state' = "r_wait_ready"
     \/ /\ if_state = "r_wait_ready"
        /\ if_state' = IF ar_ready THEN "r_wait_data" ELSE "r_wait_ready"
     \/ /\ if_state = "r_wait_data"
        /\ if_state' = IF r_valid THEN "r_wait_ready" ELSE "r_wait_data"
  /\ pc' = FetchPc(in, r_valid)
=============================================================================
