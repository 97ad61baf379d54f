------------------------------- MODULE MemBus -------------------------------
(***************************************************************************)
(* The memory side of playground/src/Top.scala: the fetch stage and the    *)
(* load/store handler share the memory through the arbiter.  One clock     *)
(* edge of the four components is BusTick, given what the rest of the      *)
(* pipeline drives in that cycle: the request of the load/store unit and   *)
(* the inputs of the fetch stage.                                          *)
(***************************************************************************)
EXTENDS SRAM, LSHandler, IFU

busVars == <<sramVars, r_client, lsHandlerVars, ifuVars>>

BusTypeOK == SRAMTypeOK /\ ArbiterTypeOK /\ LSHandlerTypeOK /\ IFUTypeOK

BusInit == SRAMInit /\ ArbiterInit /\ LSHandlerInit /\ IFUInit

IfuRValid == RValidOf("c_ifu", OutRValid)
LsuRValid == RValidOf("c_lsu", OutRValid)

\* The load or store presented finishes in this cycle.
Fin(req) == LsFin(req, LsuRValid, r_bvalid)

BusTick(req, in) ==
  LET ifu_ar == IfuArValid(IfuRValid)
      lsu_ar == LsuArValid(req)
      aw     == LsuAwValid(req)
      addr   == ArbiterAddr(lsu_ar, req.addr, FetchPc(in, IfuRValid), OutRValid)
  IN /\ IFUTick(in, ArReadyOf("c_ifu", r_arready), IfuRValid, r_rdata)
     /\ LSHandlerTick(req, ArReadyOf("c_lsu", r_arready), LsuRValid,
                      r_awready, r_wready, r_bvalid)
     /\ ArbiterTick(lsu_ar, ifu_ar, OutRValid)
     /\ SRAMWriteTick(aw, req.addr, aw, req.data, r_bvalid)
     /\ SRAMReadTick(lsu_ar \/ ifu_ar, addr, OutRReady(IfuRValid, LsuRValid))
=============================================================================
