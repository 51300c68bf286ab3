----------------------------- MODULE Controller -----------------------------
(***************************************************************************)
(* Bringing an NVMe controller up, and up again after every kind of reset  *)
(* (src/driver_wrap.pyx): the register handshake of Controller._nvme_init, *)
(* Controller.reset, the resets and power operations of Subsystem and      *)
(* Pcie, the shutdown notification, and the command timeout, which         *)
(* Namespace.format changes.  A call is the sequence of steps it has still *)
(* to do; each step is an action, and an exception drops the rest.         *)
(*                                                                         *)
(* The device answers in its own time, or not at all.  The worker          *)
(* processes that _driver_cleanup waits for are in module WorkerProcess,   *)
(* the admin queue in AdminQueue, the objects of a script in Lifecycle.    *)
(***************************************************************************)
EXTENDS Integers, Sequences, FiniteSets

CONSTANTS TO,        \* CAP.TO: limit for csts.rdy, in ticks
          SHUTDOWN,  \* _cTIMEOUT: limit for csts.shst, in ticks
          ALARM,     \* _timeout_pynvme: limit of a waitdone, in ticks
          Timeouts,  \* values a script gives to Controller.timeout
          LONG,      \* 100*1000, the least timeout of a format
          MaxCalls   \* bound: calls of one behaviour

ASSUME LimitsAssumption ==
    {TO, SHUTDOWN, ALARM, LONG, MaxCalls} \cup Timeouts \subseteq Nat \ {0}

VARIABLES platform,   \* what the machine offers, fixed in a behaviour
          dev,        \* the device: its power, registers and admin queue
          bus,        \* in sysfs: "uio" (bound), "unbound" or "removed"
          ctrlr,      \* the C controller: its number, 0 for NULL
          nn,         \* the identify data is there (cdata.nn # 0)
          ns,         \* namespaces are constructed
          retried,    \* "first try fail: warning, and retry"
          todo,       \* the steps left of the call
          t,          \* ticks in the present wait
          timeout,    \* Controller._timeout
          registered, \* timeout of the C controller; 0 when it has none
          orig,       \* orig_timeout of Namespace.format
          raised,     \* what the latest call has raised
          up,         \* history: initialised, and not reset since
          fault,      \* history: why the call may fail
          before,     \* history: the timeout when the call began
          calls

driver == <<ctrlr, nn, ns, retried>>
timing == <<timeout, registered, orig, before>>
vars   == <<platform, dev, bus, driver, todo, t, timing, raised, up, fault,
            calls>>

-----------------------------------------------------------------------------
(* The device. *)
Powers == {"on", "off", "lost"}   \* "off": by the script; "lost": by itself

(* Its registers after power on, subsystem reset, hot reset or FLR. *)
Cleared(d) == [d EXCEPT !.en = FALSE, !.shn = {}, !.rdy = FALSE,
                        !.shst = "normal", !.aq = 0, !.aers = 0]

(* Registers can be read and written; else a read gives all ones. *)
Readable == dev.power = "on" /\ bus = "uio" /\ ~dev.d3

(* A command in the admin queue of the driver is seen by the device. *)
Reaches == /\ Readable /\ dev.en /\ dev.rdy /\ dev.shst = "normal"
           /\ dev.aq = ctrlr

BecomeReady ==
    /\ dev.power = "on" /\ dev.en /\ ~dev.rdy /\ dev.aq # 0
    /\ dev' = [dev EXCEPT !.rdy = TRUE]
    /\ UNCHANGED <<platform, bus, driver, todo, t, timing, raised, up, fault,
                   calls>>

BecomeIdle ==
    /\ dev.power = "on" /\ ~dev.en /\ dev.rdy
    /\ dev' = [dev EXCEPT !.rdy = FALSE]
    /\ UNCHANGED <<platform, bus, driver, todo, t, timing, raised, up, fault,
                   calls>>

ShutDown ==
    /\ dev.power = "on" /\ dev.shn # {} /\ dev.shst # "complete"
    /\ dev' = [dev EXCEPT !.shst = IF @ = "normal" THEN "occurring"
                                                   ELSE "complete"]
    /\ UNCHANGED <<platform, bus, driver, todo, t, timing, raised, up, fault,
                   calls>>

(* The device drops off the bus. *)
Vanish ==
    /\ dev.power = "on" /\ fault = {}
    /\ dev' = [Cleared(dev) EXCEPT !.power = "lost"]
    /\ fault' = {"lost"}
    /\ UNCHANGED <<platform, bus, driver, todo, t, timing, raised, up, calls>>

-----------------------------------------------------------------------------
(* The steps of the calls. *)
NvmeInit == <<"disable", "wait_disabled", "init_adminq", "enable",
              "wait_ready", "identify", "init_ns", "set_num_queues",
              "get_num_queues", "aer">>

Unplug == <<"cleanup", "unbind", "remove">>

Replug == <<"rescan", "bind">>

power_cycle == IF platform.s3 THEN <<"cleanup", "suspend">> ELSE <<>>

flr == <<"flr">> \o Unplug \o Replug

pcie_reset == <<"readlink">> \o Unplug \o <<"hot_reset">> \o Replug

(* CAP reads as all ones when the device is not there. *)
subsystem_reset == IF platform.nssrs \/ ~Readable
                   THEN <<"nssr">> \o Unplug \o Replug ELSE <<>>

poweroff == IF platform.poweroff_cb THEN <<"cut_power">> \o Unplug
                                    ELSE Unplug \o power_cycle

poweron == (IF platform.poweron_cb THEN <<"supply_power">> ELSE <<>>) \o Replug

shutdown_notify(mode) == <<"id_data", mode, "wait_shst">>

format == <<"long_timeout", "get_lba_format", "format", "refresh",
            "restore_timeout">>

reset == <<"cleanup", "reinit">> \o NvmeInit

Resets == [reset |-> reset, flr |-> flr, pcie_reset |-> pcie_reset,
           subsystem_reset |-> subsystem_reset, poweroff |-> poweroff,
           poweron |-> poweron, power_cycle |-> power_cycle]

Uses == [shutdown |-> shutdown_notify("clean"),
         abrupt   |-> shutdown_notify("abrupt"),
         format   |-> format,
         command  |-> <<"command">>]

Waits == {"wait_disabled", "wait_ready", "wait_shst", "identify", "command",
          "set_num_queues", "get_num_queues", "id_data", "get_lba_format",
          "format"}

Limit(step) == IF step \in {"wait_disabled", "wait_ready"} THEN TO
               ELSE IF step = "wait_shst" THEN SHUTDOWN ELSE ALARM

(* What the machine has, and the callbacks Subsystem.__cinit__ was given. *)
Platforms == [nssrs : BOOLEAN, s3 : BOOLEAN, poweron_cb : BOOLEAN,
              poweroff_cb : BOOLEAN]

(* Pcie.__cinit__ and Controller.__cinit__ up to _nvme_init.  The device may
   have been left enabled by whoever had it before. *)
Init ==
    /\ platform \in Platforms
    /\ dev \in [power : {"on"}, d3 : {FALSE}, en : BOOLEAN, shn : {{}},
                rdy : BOOLEAN, shst : {"normal"}, aq : {0}, aers : {0}]
    /\ dev.en = dev.rdy
    /\ bus = "uio" /\ ctrlr = 1 /\ nn = FALSE /\ ns = FALSE /\ retried = FALSE
    /\ todo = NvmeInit /\ t = 0
    /\ timeout \in Timeouts
    /\ registered = timeout /\ orig = timeout /\ before = timeout
    /\ raised = "nothing" /\ up = FALSE /\ fault = {} /\ calls = 0

Idle == todo = <<>> /\ ctrlr # 0 /\ calls < MaxCalls

(* A call that needs the controller is the script's own fault when the
   controller is not up ("call Controller.reset() to re-initialize"). *)
Call(steps, needs_up) ==
    /\ Idle
    /\ todo' = steps /\ t' = 0 /\ retried' = FALSE
    /\ raised' = "nothing"
    /\ up' = (up /\ steps \in {Uses.command, Uses.format})
    /\ fault' = IF dev.power = "lost" THEN {"lost"}
                ELSE IF needs_up /\ ~up THEN {"script"} ELSE {}
    /\ before' = timeout
    /\ calls' = calls + 1
    /\ UNCHANGED <<platform, dev, bus, ctrlr, nn, ns, timeout, registered,
                   orig>>

(* Controller.timeout = msec *)
SetTimeout(msec) ==
    /\ Idle /\ calls' = calls + 1
    /\ timeout' = msec /\ registered' = msec /\ before' = msec
    /\ UNCHANGED <<platform, dev, bus, driver, todo, t, orig, raised, up,
                   fault>>

(* Pcie.power_state = 3 (D3hot, no register access) or 0. *)
SetPowerState(d3) ==
    /\ Idle /\ calls' = calls + 1
    /\ bus = "uio" /\ dev.power = "on"
    /\ dev' = [dev EXCEPT !.d3 = d3] /\ up' = FALSE
    /\ UNCHANGED <<platform, bus, driver, todo, t, timing, raised, fault>>

-----------------------------------------------------------------------------
At(step) == todo # <<>> /\ Head(todo) = step
Done == todo' = Tail(todo) /\ t' = 0 /\ UNCHANGED raised
Raise(e) == todo' = <<>> /\ t' = 0 /\ raised' = e

Tick ==
    /\ todo # <<>> /\ Head(todo) \in Waits /\ t <= Limit(Head(todo))
    /\ t' = t + 1
    /\ UNCHANGED <<platform, dev, bus, driver, todo, timing, raised, up, fault,
                   calls>>

MutExpired_Never == FALSE

Expired == t > Limit(Head(todo))

Blame(why) == fault' = fault \cup why

(* nvme0[0x14] = 0: a controller reset, which also ends a shutdown and drops
   the AERs. *)
Disable ==
    /\ At("disable") /\ Done
    /\ dev' = IF Readable THEN [dev EXCEPT !.en = FALSE, !.shn = {},
                                           !.shst = "normal", !.aers = 0]
              ELSE dev
    /\ UNCHANGED <<platform, bus, driver, timing, up, fault, calls>>

(* A loop on a register: __getitem__ raises SystemError on all ones. *)
WaitFor(step, cond, late, error) ==
    /\ At(step)
    /\ \/ ~Readable /\ Raise("SystemError") /\ UNCHANGED fault
       \/ Readable /\ cond /\ Done /\ UNCHANGED fault
       \/ Readable /\ ~cond /\ Expired /\ Raise(error) /\ Blame(late)
    /\ UNCHANGED <<platform, dev, bus, driver, timing, up, calls>>

MutWaitDisabled_No ==
    /\ At("wait_disabled") /\ Done
    /\ UNCHANGED <<platform, dev, bus, driver, timing, up, fault, calls>>

WaitDisabled ==
    WaitFor("wait_disabled", ~dev.rdy, IF dev.en THEN {} ELSE {"late"},
            "NvmeEnumerateError")

MutWaitReady_No ==
    /\ At("wait_ready") /\ Done
    /\ UNCHANGED <<platform, dev, bus, driver, timing, up, fault, calls>>

WaitReady ==
    WaitFor("wait_ready", dev.rdy,
            IF dev.en /\ dev.aq # 0 THEN {"late"} ELSE {},
            "NvmeEnumerateError")

WaitShutdown ==
    WaitFor("wait_shst", dev.shst = "complete", {"late"},
            "NvmeShutdownStatusTimeoutError")

(* init_adminq: the admin queue registers get the addresses of the queue. *)
InitAdminq ==
    /\ At("init_adminq")
    /\ \/ /\ Done
          /\ dev' = IF Readable THEN [dev EXCEPT !.aq = ctrlr] ELSE dev
          /\ UNCHANGED fault
       \/ /\ Raise("NvmeEnumerateError")
          /\ Blame({"adminq"})
          /\ UNCHANGED dev
    /\ UNCHANGED <<platform, bus, driver, timing, up, calls>>

(* nvme0[0x14] = 0x00460000, then 0x00460001 *)
Enable ==
    /\ At("enable") /\ Done
    /\ dev' = IF Readable THEN [dev EXCEPT !.en = TRUE] ELSE dev
    /\ UNCHANGED <<platform, bus, driver, timing, up, fault, calls>>

(* An admin command and its waitdone: it completes, with an error status that
   is only a warning; or there is the alarm.  An identify without error has
   filled in the number of namespaces. *)
Waitdone(step) ==
    /\ At(step)
    /\ \/ /\ Reaches /\ Done
          /\ \/ nn' = (nn \/ step = "identify") /\ UNCHANGED fault
             \/ Blame({"error"}) /\ UNCHANGED nn
       \/ /\ Expired /\ Raise("TimeoutError")
          /\ Blame(IF Reaches THEN {"silent"} ELSE {})
          /\ UNCHANGED nn
    /\ UNCHANGED <<platform, dev, bus, ctrlr, ns, retried, timing, up, calls>>

(* init_ns, which is -1 as long as no namespace is known; tried twice. *)
MutInitNs_Unchecked ==
    /\ At("init_ns") /\ Done
    /\ ns' \in BOOLEAN
    /\ UNCHANGED <<platform, dev, bus, ctrlr, nn, retried, timing, up, fault,
                   calls>>

InitNs ==
    /\ At("init_ns")
    /\ \/ /\ nn /\ ns' = TRUE /\ Done
          /\ UNCHANGED <<retried, fault>>
       \/ /\ Blame(IF nn THEN {"namespaces"} ELSE {})
          /\ IF retried THEN Raise("NvmeEnumerateError")
             ELSE todo' = <<"identify">> \o todo /\ UNCHANGED <<t, raised>>
          /\ retried' = TRUE
          /\ UNCHANGED ns
    /\ UNCHANGED <<platform, dev, bus, ctrlr, nn, timing, up, calls>>

(* nvme0.aer(), sent and not waited for: the controller is up. *)
Aer ==
    /\ At("aer") /\ Done
    /\ dev' = IF Reaches THEN [dev EXCEPT !.aers = @ + 1] ELSE dev
    /\ up' = TRUE
    /\ UNCHANGED <<platform, bus, driver, timing, fault, calls>>

(* _ctrlr_reinit: nvme_fini, and nvme_init if the device is there.  The new
   C controller has no timeout of its own. *)
CtrlrReinit ==
    /\ At("reinit")
    /\ LET found == Readable
       IN  /\ ctrlr' = IF found THEN calls + 1 ELSE 0
           /\ IF found THEN Done /\ UNCHANGED fault
              ELSE Raise("NvmeEnumerateError") /\ Blame({"absent"})
    /\ nn' = FALSE /\ ns' = FALSE /\ registered' = 0
    /\ UNCHANGED <<platform, dev, bus, retried, timeout, orig, before, up,
                   calls>>

-----------------------------------------------------------------------------
(* _driver_cleanup: the workers end, or there is a TimeoutError. *)
Cleanup ==
    /\ At("cleanup")
    /\ \/ Done /\ UNCHANGED fault
       \/ Raise("TimeoutError") /\ Blame({"workers"})
    /\ UNCHANGED <<platform, dev, bus, driver, timing, up, calls>>

(* _bind_driver(None), "remove", _rescan and _bind_driver('uio_pci_generic'):
   what is not there is skipped once _exist has tried long enough. *)
BusAfter(step) ==
    CASE step = "unbind" -> {IF bus = "uio" THEN "unbound" ELSE bus}
      [] step = "remove" -> {"removed"}
      [] step = "rescan" -> {bus} \cup
             (IF bus = "removed" /\ dev.power = "on" THEN {"unbound"} ELSE {})
      [] step = "bind"   -> {IF bus = "removed" THEN bus ELSE "uio"}

Sysfs(step) ==
    /\ At(step) /\ Done
    /\ bus' \in BusAfter(step)
    /\ UNCHANGED <<platform, dev, driver, timing, up, fault, calls>>

(* The port the device is at, for which the device must be in sysfs. *)
ReadLink ==
    /\ At("readlink")
    /\ IF bus = "removed" THEN Raise("OSError") /\ Blame({"absent"})
                          ELSE Done /\ UNCHANGED fault
    /\ UNCHANGED <<platform, dev, bus, driver, timing, up, calls>>

(* What the reset itself does: NSSR is a register, FLR goes through sysfs, a
   hot reset through the bridge, S3 takes the power of every device. *)
DevAfter(step) ==
    CASE step = "nssr"         -> IF Readable THEN Cleared(dev) ELSE dev
      [] step = "flr"          -> IF bus = "removed" THEN dev ELSE Cleared(dev)
      [] step = "hot_reset"    -> Cleared(dev)
      [] step = "suspend"      -> [Cleared(dev) EXCEPT
                                     !.power = IF @ = "lost" THEN "on" ELSE @,
                                     !.d3 = FALSE]
      [] step = "cut_power"    -> [Cleared(dev) EXCEPT !.power = "off",
                                                       !.d3 = FALSE]
      [] step = "supply_power" -> [dev EXCEPT !.power = "on"]

ResetDevice(step) ==
    /\ At(step) /\ Done
    /\ dev' = DevAfter(step)
    /\ UNCHANGED <<platform, bus, driver, timing, up, fault, calls>>

(* cc.shn: the bit is added to what the register holds. *)
NotifyShutdown(step, bit) ==
    /\ At(step)
    /\ IF Readable THEN Done /\ dev' = [dev EXCEPT !.shn = @ \cup {bit}]
                   ELSE Raise("SystemError") /\ UNCHANGED dev
    /\ UNCHANGED <<platform, bus, driver, timing, up, fault, calls>>

-----------------------------------------------------------------------------
(* Namespace.format: the timeout is raised for the command, and restored when
   nothing has failed. *)
LargerOf(a, b) == IF a > b THEN a ELSE b

LongTimeout ==
    /\ At("long_timeout") /\ Done
    /\ orig' = timeout
    /\ timeout' = LargerOf(timeout, LONG) /\ registered' = timeout'
    /\ UNCHANGED <<platform, dev, bus, driver, before, up, fault, calls>>

(* No such LBA format: get_lba_format returns None, a TypeError in format. *)
NoLbaFormat ==
    /\ At("get_lba_format") /\ Reaches
    /\ Raise("TypeError") /\ Blame({"lbaf"})
    /\ UNCHANGED <<platform, dev, bus, driver, timing, up, calls>>

Refresh ==
    /\ At("refresh")
    /\ \/ Done /\ UNCHANGED fault
       \/ Raise("NamespaceCreationError") /\ Blame({"namespaces"})
    /\ UNCHANGED <<platform, dev, bus, driver, timing, up, calls>>

RestoreTimeout ==
    /\ At("restore_timeout") /\ Done
    /\ timeout' = orig /\ registered' = orig
    /\ UNCHANGED <<platform, dev, bus, driver, orig, before, up, fault, calls>>

Steps ==
    \/ Disable \/ WaitDisabled \/ InitAdminq \/ Enable \/ WaitReady
    \/ \E step \in {"identify", "set_num_queues", "get_num_queues", "command",
                    "id_data", "get_lba_format", "format"} : Waitdone(step)
    \/ InitNs \/ Aer \/ CtrlrReinit \/ Cleanup \/ ReadLink
    \/ \E step \in {"unbind", "remove", "rescan", "bind"} : Sysfs(step)
    \/ \E step \in {"nssr", "flr", "hot_reset", "suspend", "cut_power",
                    "supply_power"} : ResetDevice(step)
    \/ NotifyShutdown("clean", 14) \/ NotifyShutdown("abrupt", 15)
    \/ WaitShutdown
    \/ LongTimeout \/ NoLbaFormat \/ Refresh \/ RestoreTimeout

Calls ==
    \/ \E c \in DOMAIN Resets : Call(Resets[c], FALSE)
    \/ \E c \in DOMAIN Uses : Call(Uses[c], TRUE)
    \/ \E msec \in Timeouts : SetTimeout(msec)
    \/ \E d3 \in BOOLEAN : SetPowerState(d3)

Device == BecomeReady \/ BecomeIdle \/ ShutDown \/ Vanish

Next == Calls \/ Steps \/ Tick \/ Device

(* The script's process runs and time passes; the device promises nothing. *)
Spec == Init /\ [][Next]_vars /\ WF_vars(Steps) /\ WF_vars(Tick)

-----------------------------------------------------------------------------
TypeOK ==
    /\ dev.power \in Powers /\ dev.shst \in {"normal", "occurring", "complete"}
    /\ dev.aers \in 0 .. 1
    /\ dev.aq \in 0 .. MaxCalls + 1
    /\ bus \in {"uio", "unbound", "removed"}
    /\ ctrlr \in 0 .. MaxCalls + 1
    /\ t \in 0 .. 1 + LargerOf(TO, LargerOf(SHUTDOWN, ALARM))

(* Once _nvme_init is through, whatever resets, power losses, shutdowns and
   failed or timed-out attempts came before: the device is enabled and ready,
   works on the queue of the present C controller, has exactly the one AER of
   step 9, and the namespaces are constructed. *)
UsableWhenUp ==
    /\ TypeOK
    /\ up /\ dev.power # "lost" =>
           bus = "uio" /\ dev.en /\ dev.rdy /\ dev.aq = ctrlr /\ dev.aers = 1
           /\ ns

(* The admin queue registers are written only on a controller that is disabled
   and has said so, and cc.en is set only there and with the queue of the
   present C controller in the registers. *)
ProgramsOnlyDisabled ==
    [][/\ dev'.aq # dev.aq /\ dev'.aq # 0 => ~dev.en /\ ~dev.rdy
       /\ dev'.en /\ ~dev.en => ~dev.rdy /\ dev.aq = ctrlr]_vars

(* A call raises only for a reason outside the driver: the device is late,
   silent, lost or absent, answers with an error, workers do not end, or the
   script has used a controller it had not reset.  In particular no order of
   resets, power operations and failures leaves a state from which
   Controller.reset does not recover.  A call that does not raise leaves
   Controller.timeout as the script has set it (Namespace.format raises it for
   its duration), and the C controller has that value, or none after a
   reset. *)
RaisesForAReason ==
    /\ raised # "nothing" => fault # {}
    /\ todo = <<>> /\ raised = "nothing" => timeout = before
    /\ registered \in {0, timeout}

(* Every call ends, with or without an exception, whatever the device does. *)
CallsEnd == todo # <<>> ~> todo = <<>>
=============================================================================
