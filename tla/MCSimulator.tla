---------------------------- MODULE MCSimulator ----------------------------
(***************************************************************************)
(* Programs for Simulator: three instructions in a circle.                 *)
(***************************************************************************)
EXTENDS Simulator

Builds(options, programs, exprs) ==
  {[prog |-> p, watched |-> exprs,
    build |-> [o \in {"DIFFTEST", "DEVICE", "WATCHPOINT"} |-> o \in options]] :
     p \in programs}

\* Programs that go on for ever, and a change of a0 behind which one ends.
EndlessPrograms ==
  {p \in [Pc -> {"keep", "flip", "device"}] : p[0] = "keep" /\ p[1] # p[2]}
EndingPrograms ==
  {[pc \in Pc |-> CASE pc = 0 -> "flip" [] pc = 1 -> "ebreak" [] OTHER -> "keep"]}

\* All programs against the reference machine, endless ones with watchpoints.
RunSetups ==
  Builds({"DIFFTEST", "DEVICE"}, [Pc -> Kind], {})
    \cup Builds({"DEVICE", "WATCHPOINT"}, EndlessPrograms, Exprs)
EndedSetups == Builds({"WATCHPOINT"}, EndingPrograms, Exprs)
=============================================================================
