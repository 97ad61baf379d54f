----------------------------- MODULE ByteMemory -----------------------------
(***************************************************************************)
(* What memory promises to a program: an array of bytes.  A store changes  *)
(* the bytes it addresses and no others; a load returns the ones there,    *)
(* extended by zeroes or by the sign.  An address is rounded down to a     *)
(* multiple of the size of the access.  access is the last one.            *)
(***************************************************************************)
EXTENDS Integers

CONSTANTS Address, LANES, BYTE

VARIABLES bytes, access

vars == <<bytes, access>>

Init == bytes \in [Address -> 0 .. BYTE - 1] /\ access = [op |-> "none"]

First(a) == a.addr - (a.addr % a.size)
Covers(a, i) == i - First(a) \in 0 .. a.size - 1

Store ==
  /\ access'.op = "store"
  /\ bytes' = [i \in Address |-> IF Covers(access', i) THEN access'.data[i - First(access')]
                                 ELSE bytes[i]]

SignBit(a) == a.signed /\ 2 * bytes[First(a) + a.size - 1] >= BYTE

Load ==
  /\ access'.op = "load"
  /\ access'.data = [l \in 0 .. LANES - 1 |->
                       IF l < access'.size THEN bytes[First(access') + l]
                       ELSE IF SignBit(access') THEN BYTE - 1 ELSE 0]
  /\ UNCHANGED bytes

Spec == Init /\ [][Store \/ Load]_vars
=============================================================================
