----------------------------- MODULE AdminQueue -----------------------------
(***************************************************************************)
(* Admin commands: Controller.waitdone (src/driver_wrap.pyx), the poll of  *)
(* nvme_wait_completion_admin with its interrupt handshake (src/driver.c)  *)
(* and asynchronous event requests (AERs), whose completions arrive among  *)
(* those of the commands the script waits for.  waitdone makes up for them *)
(* by calling itself; the stack holds its active calls.                    *)
(*                                                                         *)
(* The script sends a batch of commands and waits for exactly that batch.  *)
(* The device completes every command but an AER, if only through the      *)
(* drive timeout, which is earlier than the alarm of waitdone.             *)
(***************************************************************************)
EXTENDS Integers, FiniteSets, Sequences, SequencesExt

CONSTANTS MaxAers,    \* bound: AERs the initialisation may send
          MaxBatch,   \* bound: commands sent before one waitdone
          MaxCmds,    \* bound: commands in a behaviour
          MaxEvents   \* bound: AER completions in a behaviour

ASSUME BoundsAssumption == {MaxAers, MaxBatch, MaxCmds, MaxEvents} \subseteq Nat

VARIABLES intr_enabled,   \* cmdlog->intr_enabled of the admin queue
          armed,          \* AERs sent at initialisation, 1 by default
          cmds, aers,     \* commands and AERs at the device
          cq,             \* completions the driver has not processed
          msg,            \* msg_data[0] # 0
          masked, pended, \* the vector is masked; an interrupt waits for it
          pc,
          stack,          \* frames of waitdone: reaped, expected, in lieu
          _reentry_flag, _aer_resend, _aer_waitdone,
          sent, done,     \* commands sent and completed so far
          events, aborted \* AER completions so far, and those of aborted AERs

vars == <<intr_enabled, armed, cmds, aers, cq, msg, masked, pended, pc, stack,
          _reentry_flag, _aer_resend, _aer_waitdone, sent, done, events,
          aborted>>

setup == <<intr_enabled, armed>>
globals == <<_reentry_flag, _aer_resend, _aer_waitdone>>
device == <<cmds, aers, sent, events, aborted>>
interrupt == <<msg, masked, pended>>

Init ==
    /\ intr_enabled \in BOOLEAN
    /\ armed \in 0 .. MaxAers
    /\ cmds = 0 /\ aers = armed /\ cq = <<>>
    /\ msg = FALSE /\ masked = FALSE /\ pended = FALSE
    /\ pc = "script" /\ stack = <<>>
    /\ _reentry_flag = FALSE /\ _aer_resend = 0 /\ _aer_waitdone = 0
    /\ sent = 0 /\ done = 0 /\ events = 0 /\ aborted = 0

Top == Last(stack)
SetTop(f) == [stack EXCEPT ![Len(stack)] = f]

-----------------------------------------------------------------------------
(* External: a completion is posted and its interrupt is raised; a masked
   vector keeps it pending. *)
Post(kind) ==
    /\ cq' = Append(cq, kind)
    /\ msg' = (msg \/ (intr_enabled /\ ~masked))
    /\ pended' = (pended \/ (intr_enabled /\ masked))
    /\ UNCHANGED <<setup, masked, pc, stack, globals, done, sent>>

CommandCompletes ==
    /\ cmds > 0 /\ cmds' = cmds - 1 /\ Post("cmd")
    /\ UNCHANGED <<aers, events, aborted>>

AerCompletes(kind) ==
    /\ aers > 0 /\ events < MaxEvents
    /\ aers' = aers - 1 /\ events' = events + 1
    /\ aborted' = IF kind = "aborted" THEN aborted + 1 ELSE aborted
    /\ Post(kind)
    /\ UNCHANGED cmds

(* The beginning of waitdone: the assert on the flag, then the globals. *)
Call(expected, frames) ==
    /\ stack' = Append(frames, [reaped |-> 0, expected |-> expected, lieu |-> 0])
    /\ pc' = IF _reentry_flag THEN "failed" ELSE "loop"
    /\ _reentry_flag' = TRUE /\ _aer_resend' = 0 /\ _aer_waitdone' = 0

(* The script sends n commands and calls waitdone(n). *)
SendAndWait(n) ==
    /\ pc = "script" /\ sent + n <= MaxCmds
    /\ cmds' = cmds + n /\ sent' = sent + n
    /\ Call(n, <<>>)
    /\ UNCHANGED <<setup, aers, cq, interrupt, done, events, aborted>>

-----------------------------------------------------------------------------
(* nvme_wait_completion_admin: nothing is done until the interrupt is there;
   then it is masked. *)
StartPoll ==
    /\ pc = "loop" /\ Top.reaped < Top.expected
    /\ intr_enabled => msg
    /\ masked' = intr_enabled
    /\ pc' = "process"
    /\ UNCHANGED <<setup, device, cq, msg, pended, stack, globals, done>>

(* One completion: cmd_cb, or aer_cmd_cb, which asks for another AER if this
   one was not aborted. *)
ProcessOne ==
    /\ pc = "process" /\ cq # <<>>
    /\ cq' = Tail(cq)
    /\ stack' = SetTop([Top EXCEPT !.reaped = @ + 1])
    /\ done' = IF Head(cq) = "cmd" THEN done + 1 ELSE done
    /\ _aer_waitdone' = IF Head(cq) = "cmd" THEN _aer_waitdone
                                           ELSE _aer_waitdone + 1
    /\ _aer_resend' = IF Head(cq) = "aer" THEN _aer_resend + 1 ELSE _aer_resend
    /\ UNCHANGED <<setup, device, interrupt, pc, _reentry_flag>>

(* "clear and un-mask the interrupt", in this order. *)
ProcessEnd ==
    /\ pc = "process" /\ cq = <<>>
    /\ pc' = IF intr_enabled THEN "clear" ELSE "loop"
    /\ UNCHANGED <<setup, device, cq, interrupt, stack, globals, done>>

Clear ==
    /\ pc = "clear"
    /\ msg' = FALSE /\ pc' = "unmask"
    /\ UNCHANGED <<setup, device, cq, masked, pended, stack, globals,
                   done>>

MutUnmask_ThenClear ==
    /\ pc = "unmask"
    /\ masked' = FALSE /\ pended' = FALSE /\ msg' = FALSE
    /\ pc' = "loop"
    /\ UNCHANGED <<setup, device, cq, stack, globals, done>>

Unmask ==
    /\ pc = "unmask"
    /\ masked' = FALSE /\ pended' = FALSE
    /\ msg' = (msg \/ pended)
    /\ pc' = "loop"
    /\ UNCHANGED <<setup, device, cq, stack, globals, done>>

-----------------------------------------------------------------------------
(* Enough is reaped: the alarm is off and the flag is released. *)
LeaveLoop ==
    /\ pc = "loop" /\ Top.reaped >= Top.expected
    /\ _reentry_flag' = FALSE
    /\ pc' = "resend"
    /\ UNCHANGED <<setup, device, cq, interrupt, stack, _aer_resend,
                   _aer_waitdone, done>>

(* How many commands are still to be waited for in lieu of AERs. *)
MutInLieu_AllAers(f) == _aer_waitdone

InLieu(f) ==
    IF _aer_waitdone > f.reaped - f.expected
    THEN _aer_waitdone - (f.reaped - f.expected) ELSE 0

(* One more AER for each successful one. *)
MutToResend_Aborted == _aer_waitdone

ToResend == _aer_resend

Resend ==
    /\ pc = "resend"
    /\ aers' = aers + ToResend
    /\ stack' = SetTop([Top EXCEPT !.lieu = InLieu(Top)])
    /\ pc' = "lieu"
    /\ UNCHANGED <<setup, cmds, cq, interrupt, globals, sent, done,
                   events, aborted>>

WaitInLieu ==
    /\ pc = "lieu" /\ Top.lieu > 0
    /\ Call(1, SetTop([Top EXCEPT !.lieu = @ - 1]))
    /\ UNCHANGED <<setup, device, cq, interrupt, done>>

Return ==
    /\ pc = "lieu" /\ Top.lieu = 0
    /\ stack' = Front(stack)
    /\ pc' = IF Len(stack) = 1 THEN "script" ELSE "lieu"
    /\ UNCHANGED <<setup, device, cq, interrupt, globals, done>>

(* The alarm: TimeoutError, from a waitdone that has nothing to wait for. *)
Alarm ==
    /\ pc = "loop" /\ Top.reaped < Top.expected
    /\ cmds = 0 /\ cq = <<>>
    /\ _reentry_flag' = FALSE /\ stack' = <<>> /\ pc' = "failed"
    /\ UNCHANGED <<setup, device, cq, interrupt, _aer_resend,
                   _aer_waitdone, done>>

Driver == \/ StartPoll \/ ProcessOne \/ ProcessEnd \/ Clear \/ Unmask
          \/ LeaveLoop \/ Resend \/ WaitInLieu \/ Return \/ Alarm

Next == \/ \E n \in 1 .. MaxBatch : SendAndWait(n)
        \/ CommandCompletes
        \/ \E kind \in {"aer", "aborted"} : AerCompletes(kind)
        \/ Driver

(* The driver polls in a loop; the device or the drive timeout completes
   every command; the alarm goes off if polling goes on.  AERs may never
   complete. *)
Spec == /\ Init /\ [][Next]_vars
        /\ WF_vars(Driver) /\ WF_vars(CommandCompletes) /\ SF_vars(Alarm)

-----------------------------------------------------------------------------
TypeOK ==
    /\ pc \in {"script", "loop", "process", "clear", "unmask", "resend",
               "lieu", "failed"}
    /\ cmds \in 0 .. MaxCmds /\ aers \in 0 .. armed
    /\ \A i \in DOMAIN stack : stack[i].lieu \in 0 .. MaxEvents
    /\ {msg, masked, pended, _reentry_flag} \subseteq BOOLEAN
    /\ done \in 0 .. sent

(* waitdone never waits for a completion that was reaped already (which ends
   in a TimeoutError), nor finds its own flag set, as long as there is at most
   the one AER of the default initialisation; and "sync until expected admin
   commands completion": when it returns to the script, all its commands have
   completed, however many AERs came in between and whichever of the calls
   reaped them. *)
NeverFails ==
    /\ TypeOK
    /\ armed <= 1 => pc # "failed"
    /\ pc = "script" => done = sent

(* Completions of some kinds that the driver has not processed. *)
Posted(kinds) == Cardinality({i \in DOMAIN cq : cq[i] \in kinds})

(* The number of AERs at the device is kept up: each one that completes is
   sent again, unless it was aborted or its completion was not processed
   yet. *)
AersKeptArmed == pc = "script" => aers + Posted({"aer"}) = armed - aborted

(* waitdone returns, or raises when there are several AERs. *)
WaitdoneReturns ==
    pc = "loop" ~> pc = "script" \/ (armed > 1 /\ pc = "failed")
=============================================================================
