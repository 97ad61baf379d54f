------------------------------ MODULE BusTypes ------------------------------
(***************************************************************************)
(* The address space, the words and the register reset values shared by    *)
(* the modules on the read and write channels of the processor: the fetch  *)
(* stage (IFU), the load/store handler (LSHandler), and the memory with    *)
(* its arbiter (SRAM).                                                     *)
(*                                                                         *)
(* Addresses and words are abstract.  Fetches go to Code and loads and     *)
(* stores to Data: the program does not store into the code it executes.   *)
(* A bus word is the whole 64-bit word, byte strobes and the choice of the *)
(* half word a 32-bit instruction sits in are abstracted.                  *)
(***************************************************************************)
CONSTANTS
  Code,     \* the addresses instructions are fetched from
  Data,     \* the addresses loads and stores go to
  Word,     \* what one memory cell holds: instructions and data
  PcReset,  \* CommonMacros.PC_RESET_VAL: the address before the first one
  Addr0,    \* the all-zero address the address registers are reset to
  Word0,    \* the all-zero word the data registers are reset to
  Nop,      \* CommonMacros.INST_RESET_VAL
  SnpcOf    \* SnpcOf[p] is p + 4

Addr == Code \cup Data

ASSUME BusAssumption ==
  /\ Code \cap Data = {}
  /\ PcReset \notin Addr
  /\ Addr0 \in Addr
  /\ Word0 \in Word
  /\ Nop \in Word
  /\ SnpcOf \in [Code \cup {PcReset} -> Code]

\* What the load/store unit asks of the handler in a cycle: mem_ctl(3) is a
\* load and mem_ctl(4) a store; exu_out is the address and src2 the data.
NoRequest == [op |-> "none", addr |-> Addr0, data |-> Word0]

Request ==
  [op : {"load"}, addr : Data, data : {Word0}]
    \cup [op : {"store"}, addr : Data, data : Word]
    \cup {NoRequest}
=============================================================================
