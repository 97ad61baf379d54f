---------------------------- MODULE AtomicMemory ----------------------------
(***************************************************************************)
(* What the memory side of the processor promises: one memory with two     *)
(* ports.  A port is idle, or waits for its read or write, or holds the    *)
(* answer.  A read or a write takes effect in one step, once, between      *)
(* the request and the answer.  Both ports may move in the same cycle.     *)
(***************************************************************************)
EXTENDS BusTypes

VARIABLES mem, ifu, lsu

vars == <<mem, ifu, lsu>>

Idle == [st |-> "idle"]

Waiting(op, a, v) == [st |-> "wait", op |-> op, addr |-> a, val |-> v]

Done(op, a, v) == [st |-> "done", op |-> op, addr |-> a, val |-> v]

\* The port's new state may be a new request.
Asks(next) ==
  \/ \E a \in Addr : next = Waiting("load", a, Word0)
  \/ \E a \in Data, v \in Word : next = Waiting("store", a, v)

\* A read in the cycle of a write to the same address sees either value.
ReadStep(p, next) ==
  /\ p.st = "wait" /\ p.op = "load"
  /\ \E v \in {mem[p.addr], mem'[p.addr]} : next = Done("load", p.addr, v)

WriteStep(p, next) ==
  /\ p.st = "wait" /\ p.op = "store"
  /\ next = Done("store", p.addr, p.val)

PortStep(p, next) ==
  \/ next = p
  \/ p.st = "idle" /\ Asks(next)
  \/ ReadStep(p, next)
  \/ WriteStep(p, next)
  \/ p.st = "done" /\ (next = Idle \/ Asks(next))

\* Memory changes by the store of the load/store port and by nothing else.
MemStep ==
  mem' = IF WriteStep(lsu, lsu') THEN [mem EXCEPT ![lsu.addr] = lsu.val] ELSE mem

Init ==
  /\ mem \in [Addr -> Word]
  /\ ifu = Idle
  /\ lsu = Idle

Next == MemStep /\ PortStep(ifu, ifu') /\ PortStep(lsu, lsu')

Spec == Init /\ [][Next]_vars
=============================================================================
