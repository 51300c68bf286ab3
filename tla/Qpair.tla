------------------------------- MODULE Qpair -------------------------------
(***************************************************************************)
(* IO queue pairs as a script uses them: Qpair (src/driver_wrap.pyx) with  *)
(* waitdone and the msix_* calls, over the software interrupt controller   *)
(* (src/intr_mgt.c).  The device writes a message into msg_data for every  *)
(* completion of a queue with interrupts enabled; scripts look at it with  *)
(* msix_isset and reset it with msix_clear.  The admin queue, whose poll   *)
(* uses vector 0 in the same way, is in module AdminQueue.                 *)
(***************************************************************************)
EXTENDS Integers

CONSTANTS Qids,       \* ids of io queue pairs
          Devices,    \* records: msix, msi and nvec, what the device offers
          Ivs,        \* vectors scripts ask for
          DEFAULT_IV, \* 0xffff: "choose by driver"
          MAX_VECTOR_NUM, \* external: the size of msg_data
          MaxCmds     \* bound: commands sent in one behaviour

(* The queues have a place in msg_data, and a vector fits in the uint8_t that
   intc_isset keeps it in; msix_intc_init and msi_intc_init limit the vectors
   they use to MAX_VECTOR_NUM. *)
ASSUME QidsAssumption == Qids \subseteq 1 .. MAX_VECTOR_NUM - 1
ASSUME VectorsAssumption ==
    /\ MAX_VECTOR_NUM \in 1 .. 256
    /\ \A d \in Devices : d.nvec \in 1 .. MAX_VECTOR_NUM
ASSUME IvsAssumption == Ivs \subseteq Nat
ASSUME MaxCmdsAssumption == MaxCmds \in Nat

VARIABLES dev,
          zone,          \* the memzone of the controller's intr_ctrl_t exists
          mode,          \* "off", "msix" or "msi": msix_en and msi_en
          failed,        \* an assert of the code has failed
          qp,            \* queue pairs: intr_vector and ien, or NoQ
          msg_data,
          mask, pending, \* vectors masked, and those with an interrupt held
          inflight, cq,  \* commands at the device, completions not reaped
          wait,          \* the active waitdone, or NoWait
          _reentry_flag,
          alarm,         \* signal.alarm is running
          nested,        \* a callback has entered waitdone inside waitdone
          lost_alarm,    \* history: TimeoutError was raised in a callback
          fresh,         \* history: completions signalled since the clear
          clean,         \* history: cleared since the vector has one user
          sent

intc  == <<dev, zone, mode, failed>>
line  == <<msg_data, mask, pending>>
waits == <<wait, _reentry_flag, alarm, nested, lost_alarm>>
ghost == <<fresh, clean>>
vars  == <<intc, qp, line, inflight, cq, waits, ghost, sent>>

NoQ == [iv |-> DEFAULT_IV, ien |-> FALSE, open |-> FALSE]
NoWait == [q |-> 0, expected |-> 0, reaped |-> 0]

Open == {q \in Qids : qp[q].open}

(* intc_get_vec. *)
vec(q) == qp[q].iv % dev.nvec

Vectors == 0 .. MAX_VECTOR_NUM - 1

-----------------------------------------------------------------------------
Init ==
    /\ dev \in Devices
    /\ zone = FALSE /\ mode = "off" /\ failed = FALSE
    /\ qp = [q \in Qids |-> NoQ]
    /\ msg_data = [v \in Vectors |-> 0]
    /\ mask = {} /\ pending = {}
    /\ inflight = [q \in Qids |-> 0] /\ cq = [q \in Qids |-> 0]
    /\ wait = NoWait /\ _reentry_flag = FALSE /\ alarm = FALSE
    /\ nested = FALSE /\ lost_alarm = FALSE
    /\ fresh = [q \in Qids |-> 0] /\ clean = [q \in Qids |-> FALSE]
    /\ sent = 0

Running == ~failed /\ ~nested /\ mode # "off"
Script  == Running /\ wait = NoWait

-----------------------------------------------------------------------------
(* msix_intc_init reserves the memzone, then gives up when the table is in a
   BAR it cannot use; msi_intc_init reserves it by the same name, which the
   environment refuses for a name in use. *)
msix_usable == dev.msix = "usable"
msi_tried   == dev.msix = "none" /\ dev.msi

intc_init ==
    /\ mode = "off" /\ ~failed
    /\ IF ~zone /\ (msix_usable \/ msi_tried)
       THEN /\ zone' = TRUE
            /\ mode' = IF msix_usable THEN "msix" ELSE "msi"
            /\ UNCHANGED failed
       ELSE /\ failed' = TRUE
            /\ zone' = (zone \/ dev.msix # "none")
            /\ UNCHANGED mode
    /\ msg_data' = [v \in Vectors |-> 0]
    /\ mask' = {} /\ pending' = {}
    /\ UNCHANGED <<dev, qp, inflight, cq, waits, ghost, sent>>

(* intc_info_release: what is left of the memzone. *)
Released == FALSE

(* intc_fini, at the end of a controller whose queue pairs are gone. *)
intc_fini ==
    /\ Script /\ Open = {}
    /\ mode' = "off" /\ zone' = Released
    /\ UNCHANGED <<dev, failed, qp, line, inflight, cq, waits, ghost, sent>>

-----------------------------------------------------------------------------
MutClearIndex_Admin(q) == 0
(* intc_clear writes the place of the queue's id, or the only one of MSI. *)
ClearIndex(q) == IF mode = "msix" THEN q ELSE 0

intc_isset(q) == IF mode = "msix" THEN msg_data[vec(q) % 256] # 0
                                  ELSE msg_data[0] % 256 = vec(q) % 256

(* What intc_mask masks: an entry of the MSI-X table, or a bit of INTMS. *)
MaskIndex(q) == {vec(q)}

(* What the device writes for vector v, and where: with MSI the vector takes
   the low bits of the data, 1. *)
Message(m, v) ==
    IF mode = "msix" THEN [m EXCEPT ![v] = 1]
    ELSE [m EXCEPT ![0] = (1 \div dev.nvec) * dev.nvec + v]

(* The vector of q is its own: MSI-X, the place intc_clear writes, and no
   other queue on it. *)
Own(q) ==
    /\ mode = "msix" /\ q \in Open /\ qp[q].ien
    /\ vec(q) = q
    /\ \A r \in Open \ {q} : vec(r) # q

-----------------------------------------------------------------------------
(* Qpair.__cinit__ and qpair_create: the default vector is the queue's id,
   and 0 without interrupts. *)
IvOf(q, ien, iv) ==
    IF iv # DEFAULT_IV THEN iv ELSE IF ien THEN q ELSE 0

Create(q, ien, iv) ==
    /\ Script /\ q \notin Open
    /\ qp' = [qp EXCEPT ![q] = [iv |-> IvOf(q, ien, iv), ien |-> ien,
                                open |-> TRUE]]
    /\ fresh' = [fresh EXCEPT ![q] = 0]
    /\ clean' = [r \in Qids |-> /\ clean[r] /\ r # q
                                /\ vec(r) # IvOf(q, ien, iv) % dev.nvec]
    /\ UNCHANGED <<intc, line, inflight, cq, waits, sent>>

(* Qpair.delete: what was in flight is forgotten. *)
Delete(q) ==
    /\ Script /\ q \in Open
    /\ qp' = [qp EXCEPT ![q] = NoQ]
    /\ inflight' = [inflight EXCEPT ![q] = 0]
    /\ cq' = [cq EXCEPT ![q] = 0]
    /\ clean' = [clean EXCEPT ![q] = FALSE]
    /\ UNCHANGED <<intc, line, waits, fresh, sent>>

msix_clear(q) ==
    /\ Script /\ q \in Open
    /\ msg_data' = [msg_data EXCEPT ![ClearIndex(q)] = 0]
    /\ fresh' = [fresh EXCEPT ![q] = IF vec(q) \in pending THEN @ ELSE 0]
    /\ clean' = [clean EXCEPT ![q] = @ \/ (Own(q) /\ vec(q) \notin pending)]
    /\ UNCHANGED <<intc, qp, mask, pending, inflight, cq, waits, sent>>

msix_mask(q) ==
    /\ Script /\ q \in Open
    /\ mask' = mask \cup MaskIndex(q)
    /\ UNCHANGED <<intc, qp, msg_data, pending, inflight, cq, waits, fresh,
                   clean, sent>>

(* An interrupt held under the mask is delivered when it goes. *)
msix_unmask(q) ==
    /\ Script /\ q \in Open
    /\ mask' = mask \ {vec(q)}
    /\ pending' = pending \ {vec(q)}
    /\ msg_data' = IF vec(q) \in pending THEN Message(msg_data, vec(q))
                                         ELSE msg_data
    /\ UNCHANGED <<intc, qp, inflight, cq, waits, fresh, clean, sent>>

(* Any command of a Namespace on this queue. *)
Send(q) ==
    /\ Script /\ q \in Open /\ sent < MaxCmds
    /\ inflight' = [inflight EXCEPT ![q] = @ + 1]
    /\ sent' = sent + 1
    /\ UNCHANGED <<intc, qp, line, cq, waits, ghost>>

(* External: the device completes a command and signals it. *)
DeviceCompletes(q) ==
    /\ Running /\ inflight[q] > 0
    /\ inflight' = [inflight EXCEPT ![q] = @ - 1]
    /\ cq' = [cq EXCEPT ![q] = @ + 1]
    /\ IF ~qp[q].ien THEN UNCHANGED <<line, fresh>>
       ELSE /\ fresh' = [fresh EXCEPT ![q] = @ + 1]
            /\ IF vec(q) \in mask
               THEN pending' = pending \cup {vec(q)} /\ UNCHANGED msg_data
               ELSE msg_data' = Message(msg_data, vec(q)) /\ UNCHANGED pending
            /\ UNCHANGED mask
    /\ UNCHANGED <<intc, qp, waits, clean, sent>>

-----------------------------------------------------------------------------
(* signal.alarm(self._nvme._timeout_pynvme) is called before the loop. *)
MutAlarmSet_No == FALSE

AlarmSet == TRUE

(* Qpair.waitdone: the assert on the flag, then the alarm. *)
waitdone(q, expected) ==
    /\ Script /\ q \in Open /\ ~_reentry_flag
    /\ wait' = [q |-> q, expected |-> expected, reaped |-> 0]
    /\ _reentry_flag' = TRUE
    /\ alarm' = AlarmSet
    /\ UNCHANGED <<intc, qp, line, inflight, cq, nested, lost_alarm, ghost,
                   sent>>

(* The limit waitdone gives to qpair_wait_completion. *)
MutMaxCompletions_Eight == 8

max_completions == 1

Reaped == IF cq[wait.q] < max_completions THEN cq[wait.q] ELSE max_completions

(* One round of the loop that finds completions; their callbacks run. *)
Reap ==
    /\ Running /\ wait.reaped < wait.expected /\ Reaped > 0
    /\ cq' = [cq EXCEPT ![wait.q] = @ - Reaped]
    /\ wait' = [wait EXCEPT !.reaped = @ + Reaped]
    /\ UNCHANGED <<intc, qp, line, inflight, _reentry_flag, alarm, nested,
                   lost_alarm, ghost, sent>>

(* A callback that calls waitdone: the assert stops it and cmd_cb makes a
   warning of it. *)
CallbackMayWait == ~_reentry_flag

ReapWithWaitingCallback ==
    /\ Running /\ wait.reaped < wait.expected /\ Reaped > 0
    /\ cq' = [cq EXCEPT ![wait.q] = @ - Reaped]
    /\ wait' = [wait EXCEPT !.reaped = @ + Reaped]
    /\ nested' = CallbackMayWait
    /\ UNCHANGED <<intc, qp, line, inflight, _reentry_flag, alarm, lost_alarm,
                   ghost, sent>>

(* SIGALRM handled while a callback runs Python: _timeout_signal_handler
   resets the flag, and its TimeoutError ends in cmd_cb, which cannot pass it
   on through C. *)
AlarmInCallback ==
    /\ Running /\ alarm /\ wait.reaped < wait.expected /\ Reaped > 0
    /\ cq' = [cq EXCEPT ![wait.q] = @ - Reaped]
    /\ wait' = [wait EXCEPT !.reaped = @ + Reaped]
    /\ alarm' = FALSE /\ _reentry_flag' = FALSE /\ lost_alarm' = TRUE
    /\ UNCHANGED <<intc, qp, line, inflight, nested, ghost, sent>>

(* SIGALRM seen by PyErr_CheckSignals: TimeoutError for the script. *)
FlagAfterAlarm == FALSE

AlarmInLoop ==
    /\ Running /\ alarm /\ wait.reaped < wait.expected
    /\ wait' = NoWait
    /\ alarm' = FALSE /\ _reentry_flag' = FlagAfterAlarm
    /\ UNCHANGED <<intc, qp, line, inflight, cq, nested, lost_alarm, ghost,
                   sent>>

(* The end of waitdone, with its assert on the exact number. *)
EndWait ==
    /\ Running /\ wait # NoWait /\ wait.reaped >= wait.expected
    /\ failed' = (wait.reaped # wait.expected)
    /\ wait' = NoWait
    /\ alarm' = FALSE /\ _reentry_flag' = FALSE /\ lost_alarm' = FALSE
    /\ UNCHANGED <<dev, zone, mode, qp, line, inflight, cq, nested, ghost,
                   sent>>

Next ==
    \/ intc_init \/ intc_fini
    \/ \E q \in Qids :
         \/ \E ien \in BOOLEAN, iv \in Ivs : Create(q, ien, iv)
         \/ Delete(q) \/ msix_clear(q) \/ msix_mask(q) \/ msix_unmask(q)
         \/ Send(q) \/ DeviceCompletes(q)
         \/ \E n \in 1 .. MaxCmds : waitdone(q, n)
    \/ Reap \/ ReapWithWaitingCallback \/ AlarmInCallback \/ AlarmInLoop
    \/ EndWait

Spec == Init /\ [][Next]_vars
             /\ WF_vars(Reap) /\ WF_vars(EndWait) /\ WF_vars(AlarmInLoop)

-----------------------------------------------------------------------------
TypeOK ==
    /\ dev \in Devices /\ zone \in BOOLEAN
    /\ mode \in {"off", "msix", "msi"} /\ failed \in BOOLEAN
    /\ \A q \in Open : qp[q].iv \in Nat
    /\ msg_data \in [Vectors -> 0 .. 255]
    /\ mask \subseteq Vectors /\ pending \subseteq mask
    /\ inflight \in [Qids -> 0 .. MaxCmds] /\ cq \in [Qids -> 0 .. MaxCmds]
    /\ _reentry_flag \in BOOLEAN /\ alarm \in BOOLEAN
    /\ wait.reaped \in 0 .. MaxCmds
    /\ sent \in 0 .. MaxCmds

(* For a queue that has its vector to itself msix_isset is exact: since the
   script's last msix_clear, a completion of this queue is shown, or held
   under the mask, and nothing else is ("assert not q.msix_isset()" in the
   documentation's example), whatever is done to the other queues. *)
IssetIsExact ==
    /\ TypeOK
    /\ \A q \in Qids : Own(q) /\ clean[q] =>
           (fresh[q] > 0 <=> intc_isset(q) \/ vec(q) \in pending)

(* No assert fails except for a device whose MSI-X table cannot be used or
   that has no interrupts: the memzone is free whenever a controller is
   initialised again, and waitdone reaps exactly what it was asked for.  A
   callback cannot enter waitdone inside waitdone ("cannot re-entry
   waitdone() functions"), and between calls the flag is down, so that the
   next one is not refused, also after a time-out.  The exception is a wait
   whose alarm was handled in a callback and has reset the flag. *)
AssertsHold ==
    /\ failed => ~msix_usable /\ ~msi_tried
    /\ nested => lost_alarm
    /\ Running /\ ~lost_alarm => (_reentry_flag <=> wait # NoWait)

(* waitdone returns or raises, unless its alarm was lost in a callback. *)
WaitdoneEnds ==
    (wait # NoWait) ~> (wait = NoWait \/ nested \/ lost_alarm)
=============================================================================
