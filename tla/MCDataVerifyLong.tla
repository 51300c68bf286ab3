-------------------------- MODULE MCDataVerifyLong --------------------------
(* DataVerify with one process and commands whose length is 0 in 16 bits. *)
EXTENDS DataVerify, TLC

CONSTANTS r1, r2, r3, main

MCReqs == {r1, r2, r3}
MCSymmetry == Permutations(MCReqs)

One == {main}
OneOwner == [r \in MCReqs |-> main]
Everywhere == [p \in One |-> 0 .. 2]

Command(opc, s) == {[opc |-> opc, ranges |-> <<rg>>] : rg \in s}

LongCommands == Command(WRITE, {<<0, 1>>, <<0, 2>>})
    \cup Command(READ, {<<0, 1>>}) \cup Command(ZEROES, {<<0, 2>>})
=============================================================================
