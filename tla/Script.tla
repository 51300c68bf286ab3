------------------------------- MODULE Script -------------------------------
(***************************************************************************)
(* What a script does with the objects of pynvme in its own thread, and    *)
(* what the recorder of traces does in its own program.  The areas share   *)
(* no state, so a behaviour exercises one of them, the scene.              *)
(***************************************************************************)
EXTENDS Commands, Buffer, Report, Psd, Registers, Recorder

VARIABLE scene

vars == <<cvars, bufvars, fwvars, repvars, sqvars, cqvars, fieldvars, memvars,
          chainvars, regvars, recvars, scene>>

(* What the scene does not use has one value. *)
Init ==
    /\ scene \in {"commands", "buffer", "firmware", "report", "queue",
                  "completion", "fields", "memory", "chain", "registers",
                  "trace"}
    /\ CommandsInit /\ (scene # "commands" => buffer.len = {12})
    /\ FirmwareInit /\ (scene # "firmware" => file = <<>>)
    /\ ReportInit
    /\ scene # "report" => outcome = CHOOSE x \in Outcomes : TRUE
    /\ FieldInit /\ (scene # "fields" => cqe = CHOOSE c \in Cqes : TRUE)
    /\ ChainInit /\ (scene # "chain" => chain = CHOOSE c \in Chains : TRUE)
    /\ IF scene = "registers" THEN TRUE
       ELSE /\ cfg0 = CHOOSE s \in Spaces : s[52] = {}
            /\ device = CHOOSE d \in Devices : TRUE
    /\ RegistersInit
    /\ BufferInit /\ QueueInit /\ CompletionInit /\ MemoryInit /\ RecorderInit

Commanding ==
    /\ scene = "commands" /\ CommandsNext
    /\ UNCHANGED <<bufvars, fwvars, repvars, sqvars, cqvars, fieldvars, memvars,
                   chainvars, regvars, recvars, scene>>

Buffering ==
    /\ scene = "buffer" /\ BufferNext
    /\ UNCHANGED <<cvars, fwvars, repvars, sqvars, cqvars, fieldvars, memvars,
                   chainvars, regvars, recvars, scene>>

Downloading ==
    /\ scene = "firmware" /\ FirmwareNext
    /\ UNCHANGED <<cvars, bufvars, repvars, sqvars, cqvars, fieldvars, memvars,
                   chainvars, regvars, recvars, scene>>

Reporting ==
    /\ scene = "report" /\ close
    /\ UNCHANGED <<cvars, bufvars, fwvars, sqvars, cqvars, fieldvars, memvars,
                   chainvars, regvars, recvars, scene>>

Queueing ==
    /\ scene = "queue" /\ QueueNext
    /\ UNCHANGED <<cvars, bufvars, fwvars, repvars, cqvars, fieldvars, memvars,
                   chainvars, regvars, recvars, scene>>

Completing ==
    /\ scene = "completion" /\ CompletionNext
    /\ UNCHANGED <<cvars, bufvars, fwvars, repvars, sqvars, fieldvars,
                   memvars, chainvars, regvars, recvars, scene>>

Setting ==
    /\ scene = "fields" /\ FieldNext
    /\ UNCHANGED <<cvars, bufvars, fwvars, repvars, sqvars, cqvars, memvars,
                   chainvars, regvars, recvars, scene>>

Holding ==
    /\ scene = "memory" /\ MemoryNext
    /\ UNCHANGED <<cvars, bufvars, fwvars, repvars, sqvars, cqvars, fieldvars,
                   chainvars, regvars, recvars, scene>>

Finding ==
    /\ scene = "chain" /\ ChainNext
    /\ UNCHANGED <<cvars, bufvars, fwvars, repvars, sqvars, cqvars, fieldvars,
                   memvars, regvars, recvars, scene>>

Accessing ==
    /\ scene = "registers" /\ RegistersNext
    /\ UNCHANGED <<cvars, bufvars, fwvars, repvars, sqvars, cqvars, fieldvars,
                   memvars, chainvars, recvars, scene>>

Tracing ==
    /\ scene = "trace" /\ RecorderNext
    /\ UNCHANGED <<cvars, bufvars, fwvars, repvars, sqvars, cqvars, fieldvars,
                   memvars, chainvars, regvars, scene>>

Next == \/ Commanding \/ Buffering \/ Downloading \/ Reporting
        \/ Queueing \/ Completing \/ Setting \/ Holding \/ Finding
        \/ Accessing \/ Tracing

Spec == Init /\ [][Next]_vars

-----------------------------------------------------------------------------
(* What a script has written with one operation it finds with another, however
   many other writes came before and after: the ranges of a dsm command in a
   Buffer (a range that does not fit destroys none of the others), the fields
   of an SQE set in any order and those of a CQE, a byte of a queue that lies
   in several buffers, and the fields of the configuration space. *)
FoundWhereWritten ==
    /\ scene = "buffer" => RangesReadBack
    /\ scene = "fields" => FieldsKeepApart
    /\ scene = "chain" => FindsTheByte
    /\ scene = "registers" => RegistersRight

(* What goes through the queues of a script arrives on the other side, once
   and in order: its commands at the device, the completions at the script. *)
QueuesDeliver ==
    /\ scene = "queue" => EntriesReachDevice
    /\ scene = "completion" => CompletionsTaken

(* What is told about a run after it is what happened in it: the report of an
   ioworker, and the trace the recorder has saved. *)
TellsTheRun ==
    /\ scene = "report" => ReportsTheRun
    /\ scene = "trace" => TraceHoldsRun
=============================================================================
