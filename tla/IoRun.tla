------------------------------- MODULE IoRun --------------------------------
(***************************************************************************)
(* What an io worker promises, without queues, lists or time: commands are *)
(* issued and completed one for one, never more than Limit are issued and  *)
(* never more than Window are outstanding; once the worker is closing no   *)
(* command is issued any more; it finishes normally only when every issued *)
(* command has completed, and it may be aborted at any time.               *)
(***************************************************************************)
EXTENDS Integers

VARIABLES
    Limit,      \* how many commands may be issued, chosen by the caller
    Window,     \* how many may be outstanding, chosen by the caller
    issued, done, state

absvars == <<Limit, Window, issued, done, state>>

IoRunInit ==
    /\ Limit \in Nat \ {0} /\ Window \in Nat \ {0}
    /\ issued = 0 /\ done = 0 /\ state = "new"

Reject ==
    /\ state = "new" /\ state' = "rejected"
    /\ UNCHANGED <<issued, done>>

Start ==
    /\ state = "new" /\ state' = "open"
    /\ issued' \in 1 .. Window /\ issued' <= Limit
    /\ UNCHANGED done

(* A completion makes room for the next command, or closes the run. *)
Replace ==
    /\ state = "open" /\ done < issued /\ issued < Limit
    /\ issued' = issued + 1 /\ done' = done + 1
    /\ UNCHANGED state

Drain ==
    /\ state \in {"open", "closing"} /\ done < issued
    /\ done' = done + 1 /\ state' = "closing"
    /\ UNCHANGED issued

Close ==
    /\ state = "open" /\ state' = "closing"
    /\ UNCHANGED <<issued, done>>

Finish ==
    /\ state = "closing" /\ done = issued /\ state' = "finished"
    /\ UNCHANGED <<issued, done>>

Abort ==
    /\ state \in {"open", "closing"} /\ state' = "aborted"
    /\ UNCHANGED <<issued, done>>

IoRunNext ==
    /\ Reject \/ Start \/ Replace \/ Drain \/ Close \/ Finish \/ Abort
    /\ UNCHANGED <<Limit, Window>>

IoRunSpec == IoRunInit /\ [][IoRunNext]_absvars
=============================================================================
