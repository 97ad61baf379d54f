------------------------------- MODULE KeyFifo -------------------------------
(***************************************************************************)
(* What the keyboard of verilator/src/device/keyboard.cpp promises to a    *)
(* program: the key events, in order, one for each read of the data port,  *)
(* and KEY_NONE when there is none.  Capacity events can be waiting; one   *)
(* more ends the simulator.                                                *)
(***************************************************************************)
EXTENDS Integers, Sequences

CONSTANTS Keys, KEY_NONE, Capacity

VARIABLES queue, port, failed

vars == <<queue, port, failed>>

Init == queue = <<>> /\ port = KEY_NONE /\ failed = FALSE

Press(k) ==
  /\ ~failed
  /\ Len(queue) < Capacity
  /\ queue' = Append(queue, k)
  /\ UNCHANGED <<port, failed>>

Overflow ==
  /\ ~failed
  /\ Len(queue) = Capacity
  /\ failed' = TRUE
  /\ UNCHANGED <<queue, port>>

Read ==
  /\ ~failed
  /\ IF queue = <<>> THEN port' = KEY_NONE /\ UNCHANGED queue
     ELSE port' = Head(queue) /\ queue' = Tail(queue)
  /\ UNCHANGED failed

Next == (\E k \in Keys : Press(k)) \/ Overflow \/ Read

Spec == Init /\ [][Next]_vars
=============================================================================
