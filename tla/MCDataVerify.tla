---------------------------- MODULE MCDataVerify ----------------------------
(* DataVerify on four LBAs, three of them in the table: the main process works
   on the first two, a worker process on the others. *)
EXTENDS DataVerify, TLC

CONSTANTS r1, r2, r3, main, worker

Two == {main, worker}

MCReqs == {r1, r2, r3}
MainSymmetry == Permutations({r1, r2})

TwoOwners == [r \in MCReqs |-> IF r = r3 THEN worker ELSE main]

Apart == [p \in Two |-> IF p = main THEN {0, 1} ELSE {2, 3}]

Command(opc, s) == {[opc |-> opc, ranges |-> <<rg>>] : rg \in s}

MCCommands ==
    UNION {Command(opc, {<<0, 1>>, <<1, 1>>, <<0, 2>>, <<2, 2>>}) :
             opc \in {WRITE, READ}}
    \cup Command(UNCORR, {<<1, 1>>}) \cup Command(ZEROES, {<<0, 2>>})
    \cup Command(FLUSH, {<<0, 1>>}) \cup Command(COMPARE, {<<0, 1>>})
    \cup {[opc |-> DSM, ranges |-> <<<<1, 1>>, <<0, 1>>>>]}

(* The conditions under which the properties are proved. *)
ASSUME ConditionsHold == RegionsApart /\ LengthsFit
=============================================================================
