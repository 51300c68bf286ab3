------------------------------ MODULE MCCmdLog ------------------------------
(* CmdLog with requests {r1, r2, r3} on a ring shorter than the number of
   commands, so that the ring wraps over one, two and three pending ones. *)
EXTENDS CmdLog, TLC

CONSTANTS r1, r2, r3

MCReqs == {r1, r2, r3}
MCHeap == 100 .. 102

(* Requests are interchangeable: no definition of CmdLog tells them apart. *)
MCSymmetry == Permutations(MCReqs)
=============================================================================
