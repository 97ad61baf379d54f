---------------------------- MODULE WatchpointSet ----------------------------
(***************************************************************************)
(* What the watchpoints of the debugger are to its user: a set of numbers, *)
(* each with an expression and the value it had when last looked at.       *)
(* WatchpointPool implements it (verilator/src/sdb/watchpoint.cpp).        *)
(***************************************************************************)
EXTENDS Integers

CONSTANTS NR_WP, Exprs, Vals

VARIABLES set, expr_of, val_of

vars == <<set, expr_of, val_of>>

Init ==
  /\ set = {}
  /\ expr_of = [no \in {} |-> no]
  /\ val_of = [no \in {} |-> no]

Add(no, e, v) ==
  /\ no \in (0 .. NR_WP - 1) \ set
  /\ set' = set \cup {no}
  /\ expr_of' = [n \in set' |-> IF n = no THEN e ELSE expr_of[n]]
  /\ val_of' = [n \in set' |-> IF n = no THEN v ELSE val_of[n]]

Delete(no) ==
  /\ no \in set
  /\ set' = set \ {no}
  /\ expr_of' = [n \in set' |-> expr_of[n]]
  /\ val_of' = [n \in set' |-> val_of[n]]

\* Two watchpoints on one expression get one value.
Look(now) ==
  /\ val_of' = [n \in set |-> now[expr_of[n]]]
  /\ UNCHANGED <<set, expr_of>>

Next ==
  \/ \E no \in 0 .. NR_WP - 1, e \in Exprs, v \in Vals : Add(no, e, v)
  \/ \E no \in set : Delete(no)
  \/ \E now \in [Exprs -> Vals] : Look(now)

Spec == Init /\ [][Next]_vars
=============================================================================
