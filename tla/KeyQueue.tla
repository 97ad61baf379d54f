------------------------------ MODULE KeyQueue ------------------------------
(***************************************************************************)
(* verilator/src/device/keyboard.cpp: the ring of key events between the   *)
(* window, polled by device_update, and the program, which reads the data  *)
(* port.  Keys are the values of am_scancode.                              *)
(***************************************************************************)
EXTENDS Integers, Sequences

CONSTANTS KEY_QUEUE_LEN, Keys, KEY_NONE

ASSUME KeyAssumption ==
  /\ KEY_QUEUE_LEN \in Nat
  /\ KEY_QUEUE_LEN >= 2
  /\ KEY_NONE \notin Keys

VARIABLES
  key_queue, key_f, key_r,
  port,      \* i8042_data_port_base[0]
  failed     \* the assertion of key_enqueue has failed

vars == <<key_queue, key_f, key_r, port, failed>>

Place == 0 .. KEY_QUEUE_LEN - 1

TypeOK ==
  /\ key_queue \in [Place -> Keys \cup {KEY_NONE}]
  /\ key_f \in Place
  /\ key_r \in Place
  /\ port \in Keys \cup {KEY_NONE}
  /\ failed \in BOOLEAN

Init ==
  /\ key_queue = [i \in Place |-> KEY_NONE]
  /\ key_f = 0
  /\ key_r = 0
  /\ port = KEY_NONE
  /\ failed = FALSE

\* Slip: no wrap around at the end of the ring.
AdvanceUnwrapped(i) == i + 1

Advance(i) == (i + 1) % KEY_QUEUE_LEN

\* Slip: the queue may fill up, and looks empty then.
key_enqueue_full_unnoticed(k) ==
  /\ ~failed
  /\ key_queue' = [key_queue EXCEPT ![key_r] = k]
  /\ key_r' = Advance(key_r)
  /\ failed' = FALSE
  /\ UNCHANGED <<key_f, port>>

\* send_key of a key that is mapped, while the program runs; others, and all
\* while it is stopped, are dropped.  The event is written before the queue
\* turns out to be full.
key_enqueue(k) ==
  /\ ~failed
  /\ key_queue' = [key_queue EXCEPT ![key_r] = k]
  /\ key_r' = Advance(key_r)
  /\ failed' = (key_r' = key_f)
  /\ UNCHANGED <<key_f, port>>

\* Slip: an event read stays in the queue.
i8042_read_kept ==
  /\ ~failed
  /\ port' = IF key_f # key_r THEN key_queue[key_f] ELSE KEY_NONE
  /\ UNCHANGED <<key_queue, key_f, key_r, failed>>

\* i8042_data_io_handler: key_dequeue into the port.
i8042_read ==
  /\ ~failed
  /\ IF key_f # key_r
     THEN port' = key_queue[key_f] /\ key_f' = Advance(key_f)
     ELSE port' = KEY_NONE /\ UNCHANGED key_f
  /\ UNCHANGED <<key_queue, key_r, failed>>

Next == (\E k \in Keys : key_enqueue(k)) \/ i8042_read

Spec == Init /\ [][Next]_vars
-----------------------------------------------------------------------------
(***************************************************************************)
(* Correctness.                                                            *)
(***************************************************************************)

\* The events waiting, oldest first.  The queue whose overflow has ended the
\* simulator is full.
Capacity == KEY_QUEUE_LEN - 1

Waiting ==
  IF failed THEN Capacity
  ELSE IF key_r >= key_f THEN key_r - key_f
  ELSE key_r - key_f + KEY_QUEUE_LEN

\* Where the i-th of them is.
Slot(i) ==
  IF key_f + i - 1 < KEY_QUEUE_LEN THEN key_f + i - 1
  ELSE key_f + i - 1 - KEY_QUEUE_LEN

Events == [i \in 1 .. Waiting |-> key_queue[Slot(i)]]

\* The ring is a queue: no event is lost, repeated, reordered or invented
\* where it wraps around, and it is told full from empty.
Fifo == INSTANCE KeyFifo WITH queue <- Events
ImplementsFifo == Fifo!Spec
=============================================================================
