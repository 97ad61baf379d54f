----------------------------- MODULE LSHandler ------------------------------
(***************************************************************************)
(* playground/src/utils/loadstore/LSHandler.scala: the two handshake       *)
(* machines that carry the load or the store presented by the load/store   *)
(* unit to the bus and tell the unit when it has finished.                 *)
(*                                                                         *)
(* req is the request the unit presents in this cycle (BusTypes!Request).  *)
(***************************************************************************)
VARIABLES
  ls_r_state,   \* r_state
  ls_w_state    \* w_state

lsHandlerVars == <<ls_r_state, ls_w_state>>

LSHandlerTypeOK ==
  /\ ls_r_state \in {"r_idle", "r_wait_ready", "r_wait_data"}
  /\ ls_w_state \in {"w_idle", "w_wait_ready", "w_wait_resp"}

LSHandlerInit ==
  /\ ls_r_state = "r_idle"
  /\ ls_w_state = "w_idle"

REn(req) == req.op = "load"
WEn(req) == req.op = "store"

\* Slip: the read request is not held until it is accepted.
LsuArValidOnce(req) == REn(req) /\ ls_r_state = "r_idle"

\* Slip: the write request is held until the response.
LsuAwValidHeld(req) == (WEn(req) /\ ls_w_state = "w_idle") \/ ls_w_state # "w_idle"

\* io.ar.valid; io.aw.valid and io.w.valid
LsuArValid(req) == (REn(req) /\ ls_r_state = "r_idle") \/ ls_r_state = "r_wait_ready"
LsuAwValid(req) == (WEn(req) /\ ls_w_state = "w_idle") \/ ls_w_state = "w_wait_ready"

LSHandlerTick(req, ar_ready, r_valid, aw_ready, w_ready, b_valid) ==
  /\ \/ /\ ls_r_state = "r_idle"
        /\ ls_r_state' = IF REn(req) THEN "r_wait_ready" ELSE "r_idle"
     \/ /\ ls_r_state = "r_wait_ready"
        /\ ls_r_state' = IF ar_ready THEN "r_wait_data" ELSE "r_wait_ready"
     \/ /\ ls_r_state = "r_wait_data"
        /\ ls_r_state' = IF r_valid THEN "r_idle" ELSE "r_wait_data"
  /\ \/ /\ ls_w_state = "w_idle"
        /\ ls_w_state' = IF WEn(req) THEN "w_wait_ready" ELSE "w_idle"
     \/ /\ ls_w_state = "w_wait_ready"
        /\ ls_w_state' = IF aw_ready /\ w_ready THEN "w_wait_resp" ELSE "w_wait_ready"
     \/ /\ ls_w_state = "w_wait_resp"
        /\ ls_w_state' = IF b_valid THEN "w_idle" ELSE "w_wait_resp"

\* Slip: a store counts as finished when it is presented.
LsFinPosted(req, r_valid, b_valid) ==
  \/ ~REn(req)
  \/ REn(req) /\ r_valid

\* io.fin.  io.r.ready is io.r.valid and io.b.ready is io.b.valid, so a
\* response fires in the cycle it is valid.
LsFin(req, r_valid, b_valid) ==
  \/ ~REn(req) /\ ~WEn(req)
  \/ REn(req) /\ r_valid
  \/ WEn(req) /\ b_valid
=============================================================================
