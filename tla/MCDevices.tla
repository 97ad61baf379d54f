----------------------------- MODULE MCDevices -----------------------------
(***************************************************************************)
(* Devices with words of four bytes of one bit.                            *)
(***************************************************************************)
EXTENDS Devices

\* Every byte differs from its neighbours, in one datum or the other.
MCStored == {[l \in Lane |-> l % 2], [l \in Lane |-> IF l \in {0, 3} THEN 1 ELSE 0]}

\* Programs that use memory, that draw, that print or write to nowhere, and
\* that wait for keys and for the time.
MCUseSets ==
  {{"pmem"}, {"vmem"}, {"vgactl"}, {"serial", "nothing"}, {"keyboard"}, {"rtc"}}
=============================================================================
