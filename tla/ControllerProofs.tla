-------------------------- MODULE ControllerProofs --------------------------
(***************************************************************************)
(* The safety properties of Controller, for any time limits, timeouts and  *)
(* number of calls.  The argument needs only the step a call is at, and    *)
(* which steps may follow it.                                              *)
(***************************************************************************)
EXTENDS Controller, TLAPS

(* The step the call is at, "end" when there is none. *)
here == IF todo = <<>> THEN "end" ELSE Head(todo)

BusSteps == {"readlink", "cleanup", "unbind", "remove", "hot_reset", "rescan",
             "bind", "flr", "nssr", "suspend", "cut_power", "supply_power"}

FormatTail == {"get_lba_format", "format", "refresh", "restore_timeout"}

UseSteps == {"id_data", "clean", "abrupt", "command", "long_timeout"}
            \cup FormatTail

NamespaceSteps == {"set_num_queues", "get_num_queues", "aer"}
ReadySteps     == {"identify", "init_ns"} \cup NamespaceSteps
EnabledSteps   == {"wait_ready"} \cup ReadySteps
InitSteps      == {"disable", "wait_disabled", "init_adminq", "enable"}
                  \cup EnabledSteps

AllSteps == BusSteps \cup UseSteps \cup InitSteps \cup {"reinit", "wait_shst"}

(* Step b may come after step a. *)
Follows(a, b) ==
    \/ a \in BusSteps /\ b \in BusSteps \cup {"end"}
    \/ a = "cleanup" /\ b = "reinit"
    \/ a = "reinit" /\ b = "disable"
    \/ a = "disable" /\ b = "wait_disabled"
    \/ a = "wait_disabled" /\ b = "init_adminq"
    \/ a = "init_adminq" /\ b = "enable"
    \/ a = "enable" /\ b = "wait_ready"
    \/ a = "wait_ready" /\ b = "identify"
    \/ a = "identify" /\ b = "init_ns"
    \/ a = "init_ns" /\ b = "set_num_queues"
    \/ a = "set_num_queues" /\ b = "get_num_queues"
    \/ a = "get_num_queues" /\ b = "aer"
    \/ a = "id_data" /\ b \in {"clean", "abrupt"}
    \/ a \in {"clean", "abrupt"} /\ b = "wait_shst"
    \/ a = "long_timeout" /\ b = "get_lba_format"
    \/ a = "get_lba_format" /\ b = "format"
    \/ a = "format" /\ b = "refresh"
    \/ a = "refresh" /\ b = "restore_timeout"
    \/ a \in {"aer", "wait_shst", "command", "restore_timeout"} /\ b = "end"

(* A sequence of steps that a call may have left. *)
Linked(s) ==
    /\ s \in Seq(AllSteps)
    /\ \A i \in 1 .. Len(s) : i < Len(s) => Follows(s[i], s[i + 1])
    /\ s # <<>> => Follows(s[Len(s)], "end")

(* The device is in sight of the driver, which it leaves by itself only. *)
Live == dev.power # "lost"

Registers == [power : Powers, d3 : BOOLEAN, en : BOOLEAN,
              shn : SUBSET {14, 15}, rdy : BOOLEAN,
              shst : {"normal", "occurring", "complete"},
              aq : 0 .. MaxCalls + 1, aers : 0 .. 1]

Ticks == 0 .. 1 + LargerOf(TO, LargerOf(SHUTDOWN, ALARM))

TypeInv ==
    /\ platform \in Platforms
    /\ dev \in Registers
    /\ bus \in {"uio", "unbound", "removed"}
    /\ ctrlr \in 0 .. MaxCalls + 1
    /\ nn \in BOOLEAN /\ ns \in BOOLEAN /\ retried \in BOOLEAN
    /\ t \in Ticks
    /\ up \in BOOLEAN /\ calls \in 0 .. MaxCalls

OrderInv ==
    /\ Linked(todo)
    /\ todo # <<>> => ctrlr # 0 /\ raised = "nothing"

(* What the handshake of _nvme_init has achieved so far. *)
HandshakeInv ==
    /\ here \in InitSteps /\ Live => Readable
    /\ here \in InitSteps \ {"disable"} /\ Live =>
           dev.shn = {} /\ dev.shst = "normal" /\ dev.aers = 0
    /\ here \in {"wait_disabled", "init_adminq", "enable"} /\ Live => ~dev.en
    /\ here \in {"init_adminq", "enable"} /\ Live => ~dev.rdy
    /\ here \in {"enable"} \cup EnabledSteps /\ Live => dev.aq = ctrlr
    /\ here \in EnabledSteps /\ Live => dev.en
    /\ here \in ReadySteps /\ Live => dev.rdy
    /\ here \in NamespaceSteps => ns
    /\ here = "init_ns" /\ ~nn => fault # {}

UpInv ==
    up => /\ here \in {"end", "command", "long_timeout"} \cup FormatTail
          /\ Live => Reaches /\ dev.shn = {} /\ dev.aers = 1
          /\ ns

(* Nothing has gone wrong so far: the commands of a call will be seen. *)
UseInv ==
    /\ here \in UseSteps /\ fault = {} => Reaches /\ dev.shn = {}
    /\ here = "wait_shst" /\ fault = {} => Readable

FaultInv ==
    /\ ~Live => fault # {}
    /\ raised # "nothing" => fault # {}

TimeoutInv ==
    /\ registered \in {0, timeout}
    /\ here \in FormatTail => orig = before
    /\ here \notin FormatTail /\ raised = "nothing" => timeout = before

Inv == /\ TypeInv /\ OrderInv /\ HandshakeInv /\ UpInv /\ UseInv /\ FaultInv
       /\ TimeoutInv

-----------------------------------------------------------------------------
(* The rest of a call is linked, and its first step follows. *)
LEMMA LinkedTail ==
    ASSUME NEW s, Linked(s), s # <<>>
    PROVE  /\ Linked(Tail(s))
           /\ Head(s) \in AllSteps
           /\ Follows(Head(s), IF Tail(s) = <<>> THEN "end" ELSE Head(Tail(s)))
  <1>1. s \in Seq(AllSteps) /\ Len(s) \in Nat /\ Len(s) > 0
    BY DEF Linked
  <1>2. /\ Tail(s) \in Seq(AllSteps) /\ Len(Tail(s)) = Len(s) - 1
        /\ \A i \in 1 .. Len(Tail(s)) : Tail(s)[i] = s[i + 1]
        /\ Head(s) = s[1] /\ Head(s) \in AllSteps
    BY <1>1
  <1>3. \A i \in 1 .. Len(s) : i < Len(s) => Follows(s[i], s[i + 1])
    BY DEF Linked
  <1>4. \A i \in 1 .. Len(Tail(s)) : i < Len(Tail(s)) =>
            Follows(Tail(s)[i], Tail(s)[i + 1])
    BY <1>1, <1>2, <1>3
  <1>5. CASE Tail(s) = <<>>
    <2>1. Len(s) = 1
      <3>1. Len(Tail(s)) = 0
        BY <1>5
      <3>2. Len(s) - 1 = 0
        BY <1>2, <3>1, Zenon
      <3> QED
        BY <1>1, <3>2
    <2>2. Follows(s[1], "end")
      BY <2>1 DEF Linked
    <2> QED
      BY <1>2, <1>4, <1>5, <2>2 DEF Linked
  <1>6. CASE Tail(s) # <<>>
    <2>1. Len(Tail(s)) > 0
      BY <1>2, <1>6
    <2>2. Head(Tail(s)) = s[2] /\ Follows(s[1], s[2])
      BY <1>1, <1>2, <1>3, <2>1
    <2>3. Tail(s)[Len(Tail(s))] = s[Len(s)]
      BY <1>1, <1>2, <2>1
    <2>4. Follows(Tail(s)[Len(Tail(s))], "end")
      BY <2>3 DEF Linked
    <2> QED
      BY <1>2, <1>4, <1>6, <2>2, <2>4 DEF Linked
  <1> QED
    BY <1>5, <1>6

(* A call with no step left. *)
LEMMA LinkedNone ==
    Linked(<<>>)
  BY DEF Linked

(* A step in front of what may follow it. *)
LEMMA LinkedFront ==
    ASSUME NEW a \in AllSteps, NEW s, Linked(s),
           Follows(a, IF s = <<>> THEN "end" ELSE Head(s))
    PROVE  /\ Linked(<<a>> \o s) /\ <<a>> \o s # <<>>
           /\ Head(<<a>> \o s) = a
  <1> DEFINE r == <<a>> \o s
  <1>1. s \in Seq(AllSteps) /\ Len(s) \in Nat
    BY DEF Linked
  <1>2. /\ r \in Seq(AllSteps) /\ Len(r) = Len(s) + 1
        /\ r[1] = a /\ \A i \in 1 .. Len(s) : r[i + 1] = s[i]
    BY <1>1
  <1>3. r # <<>> /\ Head(r) = a
    BY <1>1, <1>2
  <1> HIDE DEF r
  <1>4. \A i \in 1 .. Len(r) : i < Len(r) => Follows(r[i], r[i + 1])
    <2> SUFFICES ASSUME NEW i \in 1 .. Len(r), i < Len(r)
                 PROVE  Follows(r[i], r[i + 1])
      OBVIOUS
    <2>1. CASE i = 1
      <3>1. s # <<>> /\ r[2] = Head(s)
        BY <1>1, <1>2, <2>1
      <3> QED
        BY <1>2, <2>1, <3>1
    <2>2. CASE i > 1
      <3>1. /\ i - 1 \in 1 .. Len(s) /\ i - 1 < Len(s)
            /\ i \in 1 .. Len(s) /\ i - 1 + 1 = i
        BY <1>1, <1>2, <2>2
      <3>2. Follows(s[i - 1], s[i])
        BY <3>1 DEF Linked
      <3>3. r[i] = s[i - 1] /\ r[i + 1] = s[i]
        BY <1>2, <3>1
      <3> QED
        BY <3>2, <3>3
    <2> QED
      BY <1>1, <1>2, <2>1, <2>2
  <1>5. Follows(r[Len(r)], "end")
    <2>1. CASE s = <<>>
      BY <1>2, <2>1
    <2>2. CASE s # <<>>
      <3>1. Len(s) \in 1 .. Len(s) /\ Follows(s[Len(s)], "end")
        BY <1>1, <2>2 DEF Linked
      <3> QED
        BY <1>2, <3>1
    <2> QED
      BY <2>1, <2>2
  <1>6. Linked(r)
    BY <1>2, <1>4, <1>5 DEF Linked
  <1> QED
    BY <1>3, <1>6 DEF r

(* Two steps before a linked sequence. *)
LEMMA LinkedPair ==
    ASSUME NEW a \in AllSteps, NEW b \in AllSteps, NEW s, Linked(s), s # <<>>,
           Follows(a, b), Follows(b, Head(s))
    PROVE  /\ Linked(<<a, b>> \o s) /\ <<a, b>> \o s # <<>>
           /\ Head(<<a, b>> \o s) = a
  <1> DEFINE r == <<a, b>> \o s
  <1>1. s \in Seq(AllSteps) /\ Len(s) \in Nat /\ Len(s) > 0
    BY DEF Linked
  <1>2. /\ r \in Seq(AllSteps) /\ Len(r) = Len(s) + 2
        /\ r[1] = a /\ r[2] = b /\ \A i \in 1 .. Len(s) : r[i + 2] = s[i]
    BY <1>1
  <1>3. r # <<>> /\ Head(r) = a
    BY <1>1, <1>2
  <1> HIDE DEF r
  <1>4. \A i \in 1 .. Len(r) : i < Len(r) => Follows(r[i], r[i + 1])
    <2> SUFFICES ASSUME NEW i \in 1 .. Len(r), i < Len(r)
                 PROVE  Follows(r[i], r[i + 1])
      OBVIOUS
    <2>1. CASE i = 1
      BY <1>2, <2>1
    <2>2. CASE i = 2
      <3>1. r[3] = Head(s)
        BY <1>1, <1>2
      <3> QED
        BY <1>2, <2>2, <3>1
    <2>3. CASE i > 2
      <3>1. /\ i - 2 \in 1 .. Len(s) /\ i - 2 < Len(s)
            /\ i - 1 \in 1 .. Len(s) /\ i - 2 + 1 = i - 1
        BY <1>1, <1>2, <2>3
      <3>2. Follows(s[i - 2], s[i - 1])
        BY <3>1 DEF Linked
      <3>3. r[i - 2 + 2] = s[i - 2] /\ r[i - 1 + 2] = s[i - 1]
        BY <1>2, <3>1
      <3>4. i - 2 + 2 = i /\ i - 1 + 2 = i + 1
        BY <1>1, <1>2
      <3> QED
        BY <3>2, <3>3, <3>4
    <2> QED
      BY <1>1, <1>2, <2>1, <2>2, <2>3
  <1>5. Follows(r[Len(r)], "end")
    <2>1. Len(s) \in 1 .. Len(s) /\ Follows(s[Len(s)], "end")
      BY <1>1 DEF Linked
    <2> QED
      BY <1>2, <2>1
  <1>6. Linked(r)
    BY <1>2, <1>4, <1>5 DEF Linked
  <1> QED
    BY <1>3, <1>6 DEF r

(* What is done to the bus and to the power can be done in any order. *)
LEMMA LinkedBus ==
    ASSUME NEW s \in Seq(BusSteps)
    PROVE  Linked(s) /\ (s # <<>> => Head(s) \in BusSteps)
  <1>1. s \in Seq(AllSteps) /\ Len(s) \in Nat
    BY DEF AllSteps
  <1>2. \A i \in 1 .. Len(s) : s[i] \in BusSteps
    OBVIOUS
  <1>3. \A i \in 1 .. Len(s) : i < Len(s) => Follows(s[i], s[i + 1])
    BY <1>1, <1>2 DEF Follows
  <1>4. s # <<>> => Len(s) \in 1 .. Len(s) /\ Head(s) = s[1] /\ 1 \in 1 .. Len(s)
    BY <1>1
  <1>5. s # <<>> => Follows(s[Len(s)], "end")
    BY <1>2, <1>4 DEF Follows
  <1> QED
    BY <1>1, <1>2, <1>3, <1>4, <1>5 DEF Linked

(* The calls. *)
LEMMA BusCalls ==
    {flr, pcie_reset, subsystem_reset, poweroff, poweron, power_cycle}
        \subseteq Seq(BusSteps)
  <1>1. Unplug \in Seq(BusSteps) /\ Replug \in Seq(BusSteps)
    BY DEF Unplug, Replug, BusSteps
  <1>2. power_cycle \in Seq(BusSteps)
    <2>1. <<"cleanup", "suspend">> \in Seq(BusSteps) /\ <<>> \in Seq(BusSteps)
      BY DEF BusSteps
    <2> QED
      BY <2>1 DEF power_cycle
  <1>3. \A a \in BusSteps : <<a>> \in Seq(BusSteps)
    OBVIOUS
  <1>4. \A r, s \in Seq(BusSteps) : r \o s \in Seq(BusSteps)
    OBVIOUS
  <1>5. flr \in Seq(BusSteps) /\ pcie_reset \in Seq(BusSteps)
    <2>1. /\ <<"flr">> \in Seq(BusSteps) /\ <<"readlink">> \in Seq(BusSteps)
          /\ <<"hot_reset">> \in Seq(BusSteps)
      BY <1>3 DEF BusSteps
    <2> QED
      BY <1>1, <1>4, <2>1, Zenon DEF flr, pcie_reset
  <1>6. subsystem_reset \in Seq(BusSteps)
    <2>1. <<"nssr">> \in Seq(BusSteps) /\ <<>> \in Seq(BusSteps)
      BY <1>3 DEF BusSteps
    <2>2. <<"nssr">> \o Unplug \o Replug \in Seq(BusSteps)
      BY <1>1, <1>4, <2>1, Zenon
    <2> QED
      BY <2>1, <2>2, Zenon DEF subsystem_reset
  <1>7. poweroff \in Seq(BusSteps)
    <2>1. <<"cut_power">> \in Seq(BusSteps)
      BY <1>3 DEF BusSteps
    <2>2. /\ <<"cut_power">> \o Unplug \in Seq(BusSteps)
          /\ Unplug \o power_cycle \in Seq(BusSteps)
      BY <1>1, <1>2, <1>4, <2>1, Zenon
    <2> QED
      BY <2>2, Zenon DEF poweroff
  <1>8. poweron \in Seq(BusSteps)
    <2>1. <<"supply_power">> \in Seq(BusSteps) /\ <<>> \in Seq(BusSteps)
      BY <1>3 DEF BusSteps
    <2>2. (IF platform.poweron_cb THEN <<"supply_power">> ELSE <<>>)
              \in Seq(BusSteps)
      BY <2>1, Zenon
    <2> QED
      BY <1>1, <1>4, <2>2, Zenon DEF poweron
  <1> QED
    BY <1>2, <1>5, <1>6, <1>7, <1>8

(* The steps of _nvme_init follow one another. *)
LEMMA LinkedInit ==
    Linked(NvmeInit) /\ NvmeInit # <<>> /\ Head(NvmeInit) = "disable"
  BY DEF Linked, Follows, AllSteps, NvmeInit, InitSteps, EnabledSteps,
     ReadySteps, NamespaceSteps

(* So do those of Controller.reset. *)
LEMMA LinkedReset ==
    Linked(reset) /\ reset # <<>> /\ Head(reset) = "cleanup"
  <1>1. "cleanup" \in AllSteps /\ "reinit" \in AllSteps
    BY DEF AllSteps, BusSteps
  <1>2. Follows("cleanup", "reinit") /\ Follows("reinit", Head(NvmeInit))
    BY LinkedInit DEF Follows
  <1> QED
    BY <1>1, <1>2, LinkedInit, LinkedPair DEF reset

(* And those of the calls that use the controller. *)
LEMMA LinkedUses ==
    /\ Linked(shutdown_notify("clean")) /\ Linked(shutdown_notify("abrupt"))
    /\ Linked(format) /\ Linked(<<"command">>)
  BY DEF Linked, Follows, AllSteps, UseSteps, FormatTail, shutdown_notify, format

-----------------------------------------------------------------------------
(* A wait starts at 0 and goes one tick beyond its limit. *)
LEMMA LimitTicks ==
    0 \in Ticks /\ \A step : Limit(step) \in Nat /\ Limit(step) + 1 \in Ticks
  BY LimitsAssumption DEF Ticks, LargerOf, Limit

(* The invariant holds when Controller.__cinit__ gets to _nvme_init. *)
LEMMA InitInv ==
    ASSUME Init
    PROVE  Inv
  <1>1. todo = NvmeInit /\ todo # <<>> /\ here = "disable"
    BY LinkedInit DEF Init, here
  <1>2. OrderInv
    BY <1>1, LinkedInit DEF Init, OrderInv
  <1>3. TypeInv
    <2>1. /\ ctrlr \in 0 .. MaxCalls + 1 /\ calls \in 0 .. MaxCalls
          /\ 0 \in 0 .. MaxCalls + 1
      BY LimitsAssumption DEF Init
    <2>2. dev \in Registers
      <3>1. /\ {"on"} \subseteq Powers /\ {FALSE} \subseteq BOOLEAN
            /\ {{}} \subseteq SUBSET {14, 15} /\ {0} \subseteq 0 .. 1
            /\ {"normal"} \subseteq {"normal", "occurring", "complete"}
            /\ {0} \subseteq 0 .. MaxCalls + 1
        BY <2>1 DEF Powers
      <3>2. dev \in [power : {"on"}, d3 : {FALSE}, en : BOOLEAN, shn : {{}},
                     rdy : BOOLEAN, shst : {"normal"}, aq : {0}, aers : {0}]
        BY DEF Init
      <3> QED
        BY <3>1, <3>2 DEF Registers
    <2> QED
      BY <2>1, <2>2, LimitTicks DEF Init, TypeInv
  <1>4. HandshakeInv
    BY <1>1 DEF Init, HandshakeInv, Readable, EnabledSteps, ReadySteps,
       NamespaceSteps
  <1>5. UpInv /\ UseInv
    BY <1>1 DEF Init, UpInv, UseInv, UseSteps, FormatTail
  <1>6. FaultInv
    BY DEF Init, FaultInv, Live
  <1>7. TimeoutInv
    BY <1>1 DEF Init, TimeoutInv, FormatTail
  <1> QED
    BY <1>2, <1>3, <1>4, <1>5, <1>6, <1>7 DEF Inv

(* A step that is done goes on to one that follows it. *)
LEMMA DoneGoesOn ==
    ASSUME OrderInv, NEW step, At(step), Done, UNCHANGED ctrlr
    PROVE  /\ here = step /\ step \in AllSteps /\ Follows(step, here')
           /\ OrderInv' /\ raised' = "nothing" /\ raised = "nothing"
           /\ t' = 0
  <1>1. todo # <<>> /\ Head(todo) = step /\ todo' = Tail(todo)
        /\ raised' = raised /\ t' = 0
    BY DEF At, Done
  <1>2. /\ Linked(Tail(todo)) /\ step \in AllSteps
        /\ Follows(step, IF Tail(todo) = <<>> THEN "end" ELSE Head(Tail(todo)))
    BY <1>1, LinkedTail DEF OrderInv
  <1>3. ctrlr # 0 /\ raised = "nothing"
    BY <1>1 DEF OrderInv
  <1> QED
    BY <1>1, <1>2, <1>3 DEF OrderInv, here

(* An exception drops the rest of the call. *)
LEMMA RaiseKeepsInv ==
    ASSUME Inv, NEW e, e # "nothing", NEW step, At(step), Raise(e),
           UNCHANGED <<platform, dev, bus, up, calls, timeout, orig, before>>,
           registered' \in {0, registered},
           nn' \in BOOLEAN, ns' \in BOOLEAN, retried' \in BOOLEAN,
           ctrlr' \in 0 .. MaxCalls + 1,
           up => ctrlr' = ctrlr /\ ns' = ns,
           fault' # {}
    PROVE  Inv'
  <1>1. todo' = <<>> /\ t' = 0 /\ raised' = e /\ here' = "end"
    BY DEF Raise, here
  <1>2. TypeInv'
    BY <1>1, LimitTicks DEF Inv, TypeInv
  <1>3. OrderInv'
    BY <1>1, LinkedNone DEF OrderInv
  <1>4. HandshakeInv' /\ UseInv'
    BY <1>1 DEF HandshakeInv, UseInv, InitSteps, EnabledSteps, ReadySteps,
       NamespaceSteps, UseSteps, FormatTail
  <1>5. UpInv'
    BY <1>1 DEF Inv, UpInv, Live, Reaches, Readable
  <1>6. FaultInv'
    BY DEF FaultInv
  <1>7. TimeoutInv'
    BY <1>1 DEF Inv, TimeoutInv, FormatTail
  <1> QED
    BY <1>2, <1>3, <1>4, <1>5, <1>6, <1>7 DEF Inv

(* A step that passes and touches neither the device nor the bus. *)
LEMMA PassKeepsInv ==
    ASSUME Inv, NEW step, At(step), Done,
           UNCHANGED <<platform, dev, bus, ctrlr, ns, up, calls>>,
           step \notin {"disable", "init_adminq", "enable", "init_ns", "aer",
                        "reinit"},
           nn' \in BOOLEAN, retried' \in BOOLEAN,
           fault \subseteq fault',
           step = "wait_disabled" => ~dev.rdy,
           step = "wait_ready" => dev.rdy,
           step = "identify" => nn' \/ fault' # {},
           TimeoutInv'
    PROVE  Inv'
  <1>1. /\ here = step /\ step \in AllSteps /\ Follows(step, here')
        /\ OrderInv' /\ raised' = "nothing" /\ t' = 0
    BY DoneGoesOn DEF Inv
  <1>2. TypeInv'
    BY <1>1, LimitTicks DEF Inv, TypeInv
  <1>3. Live' = Live /\ Readable' = Readable /\ Reaches' = Reaches
    BY DEF Live, Readable, Reaches
  <1>4. HandshakeInv'
    <2>1. here' \in InitSteps => here \in InitSteps \ {"disable"}
      BY <1>1 DEF Follows, InitSteps, EnabledSteps, ReadySteps, NamespaceSteps,
         BusSteps
    <2>2. /\ here' \in {"wait_disabled", "init_adminq", "enable"} =>
                 here = "wait_disabled"
          /\ here' \in {"init_adminq", "enable"} => step = "wait_disabled"
          /\ here' # "enable"
          /\ here' \in EnabledSteps => here \in EnabledSteps
          /\ here' \in ReadySteps => here \in ReadySteps \/ step = "wait_ready"
          /\ here' \in NamespaceSteps => here \in NamespaceSteps
          /\ here' = "init_ns" => step = "identify"
      BY <1>1 DEF Follows, InitSteps, EnabledSteps, ReadySteps, NamespaceSteps,
         BusSteps
    <2>3. here' \in InitSteps \ {"disable"} => here' \in InitSteps
      OBVIOUS
    <2>4. HandshakeInv
      BY DEF Inv
    <2> QED
      BY <1>3, <2>1, <2>2, <2>3, <2>4 DEF HandshakeInv
  <1>5. UpInv'
    <2>1. here \in {"command", "long_timeout"} \cup FormatTail =>
              here' \in {"end"} \cup FormatTail
      BY <1>1 DEF Follows, FormatTail, BusSteps
    <2>2. here # "end"
      BY <1>1 DEF AllSteps, BusSteps, UseSteps, InitSteps, EnabledSteps,
         ReadySteps, NamespaceSteps, FormatTail
    <2> QED
      BY <1>3, <2>1, <2>2 DEF Inv, UpInv
  <1>6. UseInv'
    <2>1. /\ here' \in UseSteps => here \in UseSteps
          /\ here' = "wait_shst" => here \in UseSteps
      BY <1>1 DEF Follows, UseSteps, FormatTail, BusSteps
    <2>2. Reaches => Readable
      BY DEF Reaches
    <2> QED
      BY <1>3, <2>1, <2>2 DEF Inv, UseInv
  <1>7. FaultInv'
    BY <1>1, <1>3 DEF Inv, FaultInv
  <1> QED
    BY <1>1, <1>2, <1>4, <1>5, <1>6, <1>7 DEF Inv

(* A step outside Namespace.format leaves the timeouts in order. *)
LEMMA TimeoutSame ==
    ASSUME Inv, NEW step, At(step), Done, UNCHANGED ctrlr, UNCHANGED timing,
           step \notin {"long_timeout", "restore_timeout"}
    PROVE  TimeoutInv'
  <1>1. here = step /\ Follows(step, here') /\ raised' = "nothing"
        /\ raised = "nothing"
    BY DoneGoesOn DEF Inv
  <1>2. here' \in FormatTail <=> here \in FormatTail
    BY <1>1 DEF Follows, FormatTail, BusSteps
  <1> QED
    BY <1>1, <1>2 DEF Inv, TimeoutInv, timing

(* The loops on csts: they wait for what the step before has asked for, so that
   a limit that is exceeded is the device's fault. *)
LEMMA WaitsKeepInv ==
    ASSUME Inv, WaitDisabled \/ WaitReady \/ WaitShutdown
    PROVE  Inv'
  <1>1. /\ UNCHANGED <<platform, dev, bus, ctrlr, nn, ns, retried, up, calls>>
        /\ UNCHANGED timing
        /\ nn \in BOOLEAN /\ ns \in BOOLEAN /\ retried \in BOOLEAN
        /\ ctrlr \in 0 .. MaxCalls + 1
    BY DEF WaitDisabled, WaitReady, WaitShutdown, WaitFor, driver, Inv, TypeInv
  <1>2. CASE WaitDisabled
    <2>1. At("wait_disabled") /\ here = "wait_disabled"
      BY <1>2 DEF WaitDisabled, WaitFor, At, here
    <2>2. Live => Readable /\ ~dev.en
      BY <2>1 DEF Inv, HandshakeInv, InitSteps
    <2>3. ~Live => fault # {}
      BY DEF Inv, FaultInv
    <2>4. CASE ~Readable /\ Raise("SystemError") /\ UNCHANGED fault
      BY <1>1, <2>1, <2>2, <2>3, <2>4, RaiseKeepsInv DEF timing
    <2>5. CASE Readable /\ ~dev.rdy /\ Done /\ UNCHANGED fault
      BY <1>1, <2>1, <2>5, TimeoutSame, PassKeepsInv
    <2>6. CASE Readable /\ Raise("NvmeEnumerateError")
               /\ Blame(IF dev.en THEN {} ELSE {"late"})
      <3>1. fault' # {}
        BY <2>2, <2>6 DEF Blame, Readable, Live
      <3> QED
        BY <1>1, <2>1, <2>6, <3>1, RaiseKeepsInv DEF timing
    <2> QED
      BY <1>2, <2>4, <2>5, <2>6 DEF WaitDisabled, WaitFor
  <1>3. CASE WaitReady
    <2>1. At("wait_ready") /\ here = "wait_ready" /\ todo # <<>>
      BY <1>3 DEF WaitReady, WaitFor, At, here
    <2>2. Live => Readable /\ dev.en /\ dev.aq # 0
      BY <2>1 DEF Inv, HandshakeInv, InitSteps, EnabledSteps, OrderInv
    <2>3. ~Live => fault # {}
      BY DEF Inv, FaultInv
    <2>4. CASE ~Readable /\ Raise("SystemError") /\ UNCHANGED fault
      BY <1>1, <2>1, <2>2, <2>3, <2>4, RaiseKeepsInv DEF timing
    <2>5. CASE Readable /\ dev.rdy /\ Done /\ UNCHANGED fault
      BY <1>1, <2>1, <2>5, TimeoutSame, PassKeepsInv
    <2>6. CASE Readable /\ Raise("NvmeEnumerateError")
               /\ Blame(IF dev.en /\ dev.aq # 0 THEN {"late"} ELSE {})
      <3>1. fault' # {}
        BY <2>2, <2>6 DEF Blame, Readable, Live
      <3> QED
        BY <1>1, <2>1, <2>6, <3>1, RaiseKeepsInv DEF timing
    <2> QED
      BY <1>3, <2>4, <2>5, <2>6 DEF WaitReady, WaitFor
  <1>4. CASE WaitShutdown
    <2>1. At("wait_shst") /\ here = "wait_shst"
      BY <1>4 DEF WaitShutdown, WaitFor, At, here
    <2>2. ~Readable => fault # {}
      BY <2>1 DEF Inv, UseInv
    <2>3. CASE ~Readable /\ Raise("SystemError") /\ UNCHANGED fault
      BY <1>1, <2>1, <2>2, <2>3, RaiseKeepsInv DEF timing
    <2>4. CASE Done /\ UNCHANGED fault
      BY <1>1, <2>1, <2>4, TimeoutSame, PassKeepsInv
    <2>5. CASE Raise("NvmeShutdownStatusTimeoutError") /\ Blame({"late"})
      <3>1. fault' # {}
        BY <2>5 DEF Blame
      <3> QED
        BY <1>1, <2>1, <2>5, <3>1, RaiseKeepsInv DEF timing
    <2> QED
      BY <1>4, <2>3, <2>4, <2>5 DEF WaitShutdown, WaitFor
  <1> QED
    BY <1>2, <1>3, <1>4

(* An admin command is seen by the device, unless something went wrong. *)
LEMMA WaitdoneKeepsInv ==
    ASSUME Inv,
           NEW step \in {"identify", "set_num_queues", "get_num_queues",
                         "command", "id_data", "get_lba_format", "format"},
           Waitdone(step)
    PROVE  Inv'
  <1>1. /\ UNCHANGED <<platform, dev, bus, ctrlr, ns, retried, up, calls>>
        /\ UNCHANGED timing
        /\ nn \in BOOLEAN /\ ns \in BOOLEAN /\ retried \in BOOLEAN
        /\ ctrlr \in 0 .. MaxCalls + 1
        /\ At(step) /\ here = step
    BY DEF Waitdone, Inv, TypeInv, At, here
  <1>2. CASE /\ Done /\ \/ nn' = (nn \/ step = "identify") /\ UNCHANGED fault
                        \/ Blame({"error"}) /\ UNCHANGED nn
    <2>1. nn' \in BOOLEAN /\ fault \subseteq fault'
      BY <1>1, <1>2 DEF Blame
    <2>2. step = "identify" => nn' \/ fault' # {}
      BY <1>2 DEF Blame
    <2> QED
      BY <1>1, <1>2, <2>1, <2>2, TimeoutSame, PassKeepsInv
  <1>3. CASE /\ Raise("TimeoutError") /\ UNCHANGED nn
             /\ Blame(IF Reaches THEN {"silent"} ELSE {})
    <2>1. ~Reaches => fault # {}
      <3>1. CASE step \in {"identify", "set_num_queues", "get_num_queues"}
        <4>1. Live => Reaches
          BY <1>1, <3>1 DEF Inv, HandshakeInv, InitSteps, EnabledSteps,
             ReadySteps, NamespaceSteps, Reaches
        <4> QED
          BY <4>1 DEF Inv, FaultInv
      <3>2. CASE step \in {"command", "id_data", "get_lba_format", "format"}
        BY <1>1, <3>2 DEF Inv, UseInv, UseSteps, FormatTail
      <3> QED
        BY <3>1, <3>2
    <2>2. fault' # {}
      BY <1>3, <2>1 DEF Blame
    <2> QED
      BY <1>1, <1>3, <2>2, RaiseKeepsInv DEF timing
  <1> QED
    BY <1>2, <1>3 DEF Waitdone

(* The steps of a call that may fail for a reason of their own. *)
LEMMA OthersKeepInv ==
    ASSUME Inv, Cleanup \/ ReadLink \/ NoLbaFormat \/ Refresh
    PROVE  Inv'
  <1>1. /\ UNCHANGED <<platform, dev, bus, ctrlr, nn, ns, retried, up, calls>>
        /\ UNCHANGED timing
        /\ nn \in BOOLEAN /\ ns \in BOOLEAN /\ retried \in BOOLEAN
        /\ ctrlr \in 0 .. MaxCalls + 1
    BY DEF Cleanup, ReadLink, NoLbaFormat, Refresh, driver, Inv, TypeInv
  <1>2. PICK step \in {"cleanup", "readlink", "get_lba_format", "refresh"} :
            /\ At(step)
            /\ \/ Done /\ UNCHANGED fault
               \/ \E e \in {"TimeoutError", "OSError", "TypeError",
                            "NamespaceCreationError"} :
                      Raise(e) /\ fault' # {}
    BY DEF Cleanup, ReadLink, NoLbaFormat, Refresh, Blame
  <1>3. CASE Done /\ UNCHANGED fault
    BY <1>1, <1>2, <1>3, TimeoutSame, PassKeepsInv
  <1>4. ASSUME NEW e \in {"TimeoutError", "OSError", "TypeError",
                          "NamespaceCreationError"}, Raise(e), fault' # {}
        PROVE  Inv'
    BY <1>1, <1>2, <1>4, RaiseKeepsInv DEF timing
  <1> QED
    BY <1>2, <1>3, <1>4

(* Namespace.format: what long_timeout has saved is there when restore_timeout
   needs it. *)
LEMMA TimeoutsKeepInv ==
    ASSUME Inv, LongTimeout \/ RestoreTimeout
    PROVE  Inv'
  <1>1. /\ UNCHANGED <<platform, dev, bus, ctrlr, nn, ns, retried, up, fault,
                       calls>>
        /\ nn \in BOOLEAN /\ retried \in BOOLEAN
    BY DEF LongTimeout, RestoreTimeout, driver, Inv, TypeInv
  <1>2. CASE LongTimeout
    <2>1. /\ At("long_timeout") /\ Done /\ orig' = timeout /\ before' = before
          /\ registered' = timeout'
      BY <1>2 DEF LongTimeout
    <2>2. /\ here = "long_timeout" /\ here' = "get_lba_format"
          /\ raised = "nothing"
      BY <1>1, <2>1, DoneGoesOn DEF Inv, Follows, BusSteps
    <2>3. TimeoutInv'
      BY <2>1, <2>2 DEF Inv, TimeoutInv, FormatTail
    <2> QED
      BY <1>1, <2>1, <2>3, PassKeepsInv
  <1>3. CASE RestoreTimeout
    <2>1. /\ At("restore_timeout") /\ Done /\ timeout' = orig
          /\ registered' = orig /\ before' = before
      BY <1>3 DEF RestoreTimeout
    <2>2. here = "restore_timeout" /\ here' = "end"
      BY <1>1, <2>1, DoneGoesOn DEF Inv, Follows, BusSteps
    <2>3. TimeoutInv'
      BY <2>1, <2>2 DEF Inv, TimeoutInv, FormatTail
    <2> QED
      BY <1>1, <2>1, <2>3, PassKeepsInv
  <1> QED
    BY <1>2, <1>3

-----------------------------------------------------------------------------
(* A reset clears the registers, whoever causes it. *)
LEMMA ClearedType ==
    ASSUME TypeInv
    PROVE  /\ Cleared(dev) \in Registers
           /\ Cleared(dev).power = dev.power
           /\ Cleared(dev).aq = 0 /\ ~Cleared(dev).en
  <1>1. 0 \in 0 .. MaxCalls + 1 /\ 0 \in 0 .. 1 /\ {} \in SUBSET {14, 15}
    BY LimitsAssumption
  <1>2. dev \in Registers
    BY DEF TypeInv
  <1> QED
    BY <1>1, <1>2 DEF Registers, Cleared

(* What is done to the bus, to the power and to the device by a reset. *)
LEMMA BusKeepsInv ==
    ASSUME Inv, NEW step \in BusSteps \ {"cleanup"}, At(step), Done,
           UNCHANGED <<platform, ctrlr, nn, ns, retried, up, fault, calls>>,
           UNCHANGED timing,
           dev' \in Registers, bus' \in {"uio", "unbound", "removed"},
           Live => Live'
    PROVE  Inv'
  <1>1. /\ here = step /\ step \in AllSteps /\ Follows(step, here')
        /\ OrderInv' /\ raised' = "nothing" /\ t' = 0
    BY DoneGoesOn DEF Inv
  <1>2. here' \in BusSteps \cup {"end"}
    BY <1>1 DEF Follows, BusSteps
  <1>3. TypeInv'
    BY <1>1, LimitTicks DEF Inv, TypeInv
  <1>4. HandshakeInv'
    BY <1>2 DEF HandshakeInv, BusSteps, InitSteps, EnabledSteps, ReadySteps,
       NamespaceSteps
  <1>5. UpInv'
    BY <1>1 DEF Inv, UpInv, BusSteps, FormatTail
  <1>6. UseInv'
    BY <1>2 DEF UseInv, BusSteps, UseSteps, FormatTail
  <1>7. FaultInv'
    BY <1>1 DEF Inv, FaultInv
  <1>8. TimeoutInv'
    BY TimeoutSame DEF BusSteps
  <1> QED
    BY <1>1, <1>3, <1>4, <1>5, <1>6, <1>7, <1>8 DEF Inv

(* Unbind, remove, rescan and bind. *)
LEMMA SysfsKeepsInv ==
    ASSUME Inv, NEW step \in {"unbind", "remove", "rescan", "bind"}, Sysfs(step)
    PROVE  Inv'
  <1>1. /\ At(step) /\ Done
        /\ UNCHANGED <<platform, dev, ctrlr, nn, ns, retried, up, fault, calls>>
        /\ UNCHANGED timing
    BY DEF Sysfs, driver
  <1>2. bus' \in {"uio", "unbound", "removed"}
    BY DEF Sysfs, BusAfter, Inv, TypeInv
  <1>3. dev' \in Registers /\ (Live => Live')
    BY <1>1 DEF Inv, TypeInv, Live
  <1> QED
    BY <1>1, <1>2, <1>3, BusKeepsInv DEF BusSteps

(* The resets of the device and its power. *)
LEMMA ResetKeepsInv ==
    ASSUME Inv,
           NEW step \in {"nssr", "flr", "hot_reset", "suspend", "cut_power",
                         "supply_power"},
           ResetDevice(step)
    PROVE  Inv'
  <1>1. /\ At(step) /\ Done /\ dev' = DevAfter(step)
        /\ UNCHANGED <<platform, bus, ctrlr, nn, ns, retried, up, fault, calls>>
        /\ UNCHANGED timing
    BY DEF ResetDevice, driver
  <1>2. /\ dev \in Registers /\ Cleared(dev) \in Registers
        /\ Cleared(dev).power = dev.power
    BY ClearedType DEF Inv, TypeInv
  <1> DEFINE c == Cleared(dev)
  <1>3. /\ [c EXCEPT !.power = IF @ = "lost" THEN "on" ELSE @, !.d3 = FALSE]
               \in Registers
        /\ [c EXCEPT !.power = IF @ = "lost" THEN "on" ELSE @, !.d3 = FALSE].power
               # "lost"
        /\ [c EXCEPT !.power = "off", !.d3 = FALSE] \in Registers
        /\ [c EXCEPT !.power = "off", !.d3 = FALSE].power # "lost"
    <2> HIDE DEF c
    <2>1. c \in Registers
      BY <1>2 DEF c
    <2> QED
      BY <2>1 DEF Registers, Powers
  <1>4. /\ [dev EXCEPT !.power = "on"] \in Registers
        /\ [dev EXCEPT !.power = "on"].power # "lost"
    BY <1>2 DEF Registers, Powers
  <1>5. dev' \in Registers /\ (dev.power # "lost" => dev'.power # "lost")
    BY <1>1, <1>2, <1>3, <1>4 DEF DevAfter
  <1>6. bus' \in {"uio", "unbound", "removed"}
    BY <1>1 DEF Inv, TypeInv
  <1> QED
    BY <1>1, <1>5, <1>6, BusKeepsInv DEF BusSteps, Live

(* The steps of the handshake that write registers. *)
LEMMA DisableKeepsInv ==
    ASSUME Inv, Disable
    PROVE  Inv'
  <1>1. /\ At("disable") /\ Done
        /\ dev' = IF Readable THEN [dev EXCEPT !.en = FALSE, !.shn = {},
                                     !.shst = "normal", !.aers = 0]
                  ELSE dev
        /\ UNCHANGED <<platform, bus, ctrlr, nn, ns, retried, up, fault, calls>>
        /\ UNCHANGED timing
    BY DEF Disable, driver
  <1>2. /\ here = "disable" /\ here' = "wait_disabled" /\ OrderInv'
        /\ raised' = "nothing" /\ t' = 0
    BY <1>1, DoneGoesOn DEF Inv, Follows, BusSteps
  <1>3. dev \in Registers
    BY DEF Inv, TypeInv
  <1>4. dev' \in Registers /\ dev'.power = dev.power /\ dev'.d3 = dev.d3
    <2>1. 0 \in 0 .. 1 /\ {} \in SUBSET {14, 15}
      OBVIOUS
    <2> QED
      BY <1>1, <1>3, <2>1 DEF Registers
  <1>5. Readable => /\ ~dev'.en /\ dev'.shn = {} /\ dev'.shst = "normal"
                    /\ dev'.aers = 0
    BY <1>1, <1>3 DEF Registers
  <1>6. Live' = Live /\ Readable' = Readable /\ (Live => Readable)
    BY <1>1, <1>2, <1>4 DEF Live, Readable, Inv, HandshakeInv, InitSteps
  <1>7. TypeInv'
    BY <1>1, <1>2, <1>4, LimitTicks DEF Inv, TypeInv
  <1>8. HandshakeInv'
    BY <1>2, <1>5, <1>6 DEF HandshakeInv, InitSteps, EnabledSteps, ReadySteps,
       NamespaceSteps
  <1>9. UpInv' /\ UseInv'
    BY <1>1, <1>2 DEF Inv, UpInv, UseInv, UseSteps, FormatTail
  <1>10. FaultInv'
    BY <1>1, <1>2, <1>6 DEF Inv, FaultInv
  <1>11. TimeoutInv'
    BY <1>1, TimeoutSame
  <1> QED
    BY <1>2, <1>7, <1>8, <1>9, <1>10, <1>11 DEF Inv

(* The admin queue registers are written. *)
LEMMA AdminqKeepsInv ==
    ASSUME Inv, InitAdminq
    PROVE  Inv'
  <1>1. /\ At("init_adminq")
        /\ UNCHANGED <<platform, bus, ctrlr, nn, ns, retried, up, calls>>
        /\ UNCHANGED timing
        /\ ctrlr \in 0 .. MaxCalls + 1 /\ dev \in Registers
        /\ nn \in BOOLEAN /\ ns \in BOOLEAN /\ retried \in BOOLEAN
    BY DEF InitAdminq, driver, Inv, TypeInv
  <1>2. CASE Raise("NvmeEnumerateError") /\ Blame({"adminq"}) /\ UNCHANGED dev
    <2>1. fault' # {}
      BY <1>2 DEF Blame
    <2> QED
      BY <1>1, <1>2, <2>1, RaiseKeepsInv DEF timing
  <1>3. CASE /\ Done /\ UNCHANGED fault
             /\ dev' = IF Readable THEN [dev EXCEPT !.aq = ctrlr] ELSE dev
    <2>1. /\ here = "init_adminq" /\ here' = "enable" /\ OrderInv'
          /\ raised' = "nothing" /\ t' = 0
      BY <1>1, <1>3, DoneGoesOn DEF Inv, Follows, BusSteps
    <2>2. /\ dev' \in Registers /\ dev'.power = dev.power /\ dev'.d3 = dev.d3
          /\ dev'.en = dev.en /\ dev'.rdy = dev.rdy /\ dev'.shn = dev.shn
          /\ dev'.shst = dev.shst /\ dev'.aers = dev.aers
          /\ Readable => dev'.aq = ctrlr
      BY <1>1, <1>3 DEF Registers
    <2>3. Live' = Live /\ Readable' = Readable
      BY <1>1, <2>2 DEF Live, Readable
    <2>4. Live => /\ Readable /\ ~dev.en /\ ~dev.rdy /\ dev.shn = {}
                  /\ dev.shst = "normal" /\ dev.aers = 0
      BY <2>1 DEF Inv, HandshakeInv, InitSteps
    <2>5. TypeInv'
      BY <1>1, <2>1, <2>2, LimitTicks DEF Inv, TypeInv
    <2>6. HandshakeInv'
      BY <1>1, <2>1, <2>2, <2>3, <2>4 DEF HandshakeInv, InitSteps, EnabledSteps,
         ReadySteps, NamespaceSteps
    <2>7. UpInv' /\ UseInv'
      BY <1>1, <2>1 DEF Inv, UpInv, UseInv, UseSteps, FormatTail
    <2>8. FaultInv'
      BY <1>3, <2>1, <2>3 DEF Inv, FaultInv
    <2>9. TimeoutInv'
      BY <1>1, <1>3, TimeoutSame
    <2> QED
      BY <2>1, <2>5, <2>6, <2>7, <2>8, <2>9 DEF Inv
  <1> QED
    BY <1>2, <1>3 DEF InitAdminq

(* cc.en is set. *)
LEMMA EnableKeepsInv ==
    ASSUME Inv, Enable
    PROVE  Inv'
  <1>1. /\ At("enable") /\ Done
        /\ dev' = IF Readable THEN [dev EXCEPT !.en = TRUE] ELSE dev
        /\ UNCHANGED <<platform, bus, ctrlr, nn, ns, retried, up, fault, calls>>
        /\ UNCHANGED timing /\ dev \in Registers
    BY DEF Enable, driver, Inv, TypeInv
  <1>2. /\ here = "enable" /\ here' = "wait_ready" /\ OrderInv'
        /\ raised' = "nothing" /\ t' = 0
    BY <1>1, DoneGoesOn DEF Inv, Follows, BusSteps
  <1>3. /\ dev' \in Registers /\ dev'.power = dev.power /\ dev'.d3 = dev.d3
        /\ dev'.aq = dev.aq /\ dev'.shn = dev.shn
        /\ dev'.shst = dev.shst /\ dev'.aers = dev.aers
        /\ Readable => dev'.en
    BY <1>1 DEF Registers
  <1>4. Live' = Live /\ Readable' = Readable
    BY <1>1, <1>3 DEF Live, Readable
  <1>5. Live => /\ Readable /\ dev.aq = ctrlr /\ dev.shn = {}
                /\ dev.shst = "normal" /\ dev.aers = 0
    BY <1>2 DEF Inv, HandshakeInv, InitSteps
  <1>6. TypeInv'
    BY <1>1, <1>2, <1>3, LimitTicks DEF Inv, TypeInv
  <1>7. HandshakeInv'
    BY <1>1, <1>2, <1>3, <1>4, <1>5 DEF HandshakeInv, InitSteps, EnabledSteps,
       ReadySteps, NamespaceSteps
  <1>8. UpInv' /\ UseInv'
    BY <1>1, <1>2 DEF Inv, UpInv, UseInv, UseSteps, FormatTail
  <1>9. FaultInv'
    BY <1>1, <1>2, <1>4 DEF Inv, FaultInv
  <1>10. TimeoutInv'
    BY <1>1, TimeoutSame
  <1> QED
    BY <1>2, <1>6, <1>7, <1>8, <1>9, <1>10 DEF Inv

(* init_ns succeeds, or identify is tried once more. *)
LEMMA InitNsKeepsInv ==
    ASSUME Inv, InitNs
    PROVE  Inv'
  <1>1. /\ At("init_ns") /\ here = "init_ns" /\ todo # <<>>
        /\ UNCHANGED <<platform, dev, bus, ctrlr, nn, up, calls>>
        /\ UNCHANGED timing
        /\ ctrlr \in 0 .. MaxCalls + 1
        /\ nn \in BOOLEAN /\ ns \in BOOLEAN /\ retried \in BOOLEAN
    BY DEF InitNs, At, here, Inv, TypeInv
  <1>2. Live' = Live /\ Readable' = Readable /\ Reaches' = Reaches
    BY <1>1 DEF Live, Readable, Reaches
  <1>3. ~up
    BY <1>1 DEF Inv, UpInv, FormatTail
  <1>4. CASE nn /\ ns' = TRUE /\ Done /\ UNCHANGED <<retried, fault>>
    <2>1. /\ here' = "set_num_queues" /\ OrderInv' /\ raised' = "nothing"
          /\ t' = 0
      BY <1>1, <1>4, DoneGoesOn DEF Inv, Follows, BusSteps
    <2>2. TypeInv'
      BY <1>1, <1>4, <2>1, LimitTicks DEF Inv, TypeInv
    <2>3. HandshakeInv'
      BY <1>1, <1>2, <1>4, <2>1 DEF Inv, HandshakeInv, InitSteps, EnabledSteps,
         ReadySteps, NamespaceSteps
    <2>4. UpInv' /\ UseInv'
      BY <1>1, <1>3, <2>1 DEF UpInv, UseInv, UseSteps, FormatTail
    <2>5. FaultInv'
      BY <1>2, <1>4, <2>1 DEF Inv, FaultInv
    <2>6. TimeoutInv'
      BY <1>1, <1>4, TimeoutSame
    <2> QED
      BY <2>1, <2>2, <2>3, <2>4, <2>5, <2>6 DEF Inv
  <1>5. CASE /\ Blame(IF nn THEN {"namespaces"} ELSE {})
             /\ retried' = TRUE /\ UNCHANGED ns
             /\ Raise("NvmeEnumerateError")
    <2>1. fault' # {}
      BY <1>1, <1>5 DEF Blame, Inv, HandshakeInv
    <2> QED
      BY <1>1, <1>5, <2>1, RaiseKeepsInv DEF timing
  <1>6. CASE /\ Blame(IF nn THEN {"namespaces"} ELSE {})
             /\ retried' = TRUE /\ UNCHANGED ns
             /\ todo' = <<"identify">> \o todo /\ UNCHANGED <<t, raised>>
    <2>1. "identify" \in AllSteps /\ Follows("identify", Head(todo))
      BY <1>1 DEF AllSteps, InitSteps, EnabledSteps, ReadySteps, Follows, At
    <2>2. Linked(todo') /\ todo' # <<>> /\ Head(todo') = "identify"
      BY <1>1, <1>6, <2>1, LinkedFront DEF Inv, OrderInv
    <2>3. here' = "identify" /\ OrderInv'
      BY <1>1, <1>6, <2>2 DEF here, OrderInv, Inv
    <2>4. TypeInv'
      BY <1>1, <1>6 DEF Inv, TypeInv
    <2>5. HandshakeInv'
      BY <1>1, <1>2, <2>3 DEF Inv, HandshakeInv, InitSteps, EnabledSteps,
         ReadySteps, NamespaceSteps
    <2>6. UpInv' /\ UseInv'
      BY <1>1, <1>3, <2>3 DEF UpInv, UseInv, UseSteps, FormatTail
    <2>7. FaultInv'
      BY <1>2, <1>6 DEF Inv, FaultInv, Blame
    <2>8. TimeoutInv'
      BY <1>1, <1>6, <2>3 DEF Inv, TimeoutInv, FormatTail, timing
    <2> QED
      BY <2>3, <2>4, <2>5, <2>6, <2>7, <2>8 DEF Inv
  <1> QED
    BY <1>4, <1>5, <1>6 DEF InitNs

(* The last step finds the handshake complete. *)
LEMMA AerKeepsInv ==
    ASSUME Inv, Aer
    PROVE  Inv'
  <1>1. /\ At("aer") /\ Done /\ up' = TRUE
        /\ dev' = IF Reaches THEN [dev EXCEPT !.aers = @ + 1] ELSE dev
        /\ UNCHANGED <<platform, bus, ctrlr, nn, ns, retried, fault, calls>>
        /\ UNCHANGED timing /\ dev \in Registers
    BY DEF Aer, driver, Inv, TypeInv
  <1>2. /\ here = "aer" /\ here' = "end" /\ OrderInv'
        /\ raised' = "nothing" /\ t' = 0
    BY <1>1, DoneGoesOn DEF Inv, Follows, BusSteps
  <1>3. /\ Live => Reaches /\ dev.shn = {} /\ dev.aers = 0
        /\ ns
    BY <1>2 DEF Inv, HandshakeInv, InitSteps, EnabledSteps, ReadySteps,
       NamespaceSteps, Reaches
  <1>4. /\ dev' \in Registers /\ dev'.power = dev.power /\ dev'.d3 = dev.d3
        /\ dev'.en = dev.en /\ dev'.rdy = dev.rdy /\ dev'.aq = dev.aq
        /\ dev'.shn = dev.shn /\ dev'.shst = dev.shst
        /\ Live => dev'.aers = 1
    <2>1. CASE Reaches
      <3>1. dev.aers = 0
        BY <1>3, <2>1 DEF Reaches, Readable, Live
      <3>2. dev' = [dev EXCEPT !.aers = 1]
        BY <1>1, <2>1, <3>1
      <3> QED
        BY <1>1, <3>2 DEF Registers
    <2>2. CASE ~Reaches
      BY <1>1, <1>3, <2>2
    <2> QED
      BY <2>1, <2>2
  <1>5. Live' = Live /\ Reaches' = Reaches
    BY <1>1, <1>4 DEF Live, Readable, Reaches
  <1>6. TypeInv'
    BY <1>1, <1>2, <1>4, LimitTicks DEF Inv, TypeInv
  <1>7. HandshakeInv' /\ UseInv'
    BY <1>2 DEF HandshakeInv, UseInv, InitSteps, EnabledSteps, ReadySteps,
       NamespaceSteps, UseSteps, FormatTail
  <1>8. UpInv'
    BY <1>1, <1>2, <1>3, <1>4, <1>5 DEF UpInv
  <1>9. FaultInv'
    BY <1>1, <1>2, <1>5 DEF Inv, FaultInv
  <1>10. TimeoutInv'
    BY <1>1, TimeoutSame
  <1> QED
    BY <1>2, <1>6, <1>7, <1>8, <1>9, <1>10 DEF Inv

(* A new C controller only for a device that can be read. *)
LEMMA ReinitKeepsInv ==
    ASSUME Inv, CtrlrReinit
    PROVE  Inv'
  <1>1. /\ At("reinit") /\ here = "reinit" /\ todo # <<>>
        /\ ctrlr' = IF Readable THEN calls + 1 ELSE 0
        /\ nn' = FALSE /\ ns' = FALSE /\ registered' = 0
        /\ UNCHANGED <<platform, dev, bus, retried, timeout, orig, before, up,
                       calls>>
        /\ retried \in BOOLEAN
    BY DEF CtrlrReinit, At, here, Inv, TypeInv
  <1>2. ctrlr' \in 0 .. MaxCalls + 1 /\ (Readable => ctrlr' # 0)
    <2>1. calls \in 0 .. MaxCalls /\ MaxCalls \in Nat
      BY LimitsAssumption DEF Inv, TypeInv
    <2>2. /\ calls + 1 \in 0 .. MaxCalls + 1 /\ calls + 1 # 0
          /\ 0 \in 0 .. MaxCalls + 1
      BY <2>1
    <2> QED
      BY <1>1, <2>2
  <1>3. ~up
    BY <1>1 DEF Inv, UpInv, FormatTail
  <1>4. CASE ~Readable /\ Raise("NvmeEnumerateError") /\ Blame({"absent"})
    <2>1. fault' # {}
      BY <1>4 DEF Blame
    <2> QED
      BY <1>1, <1>2, <1>3, <1>4, <2>1, RaiseKeepsInv
  <1>5. CASE Readable /\ Done /\ UNCHANGED fault
    <2>1. /\ Linked(Tail(todo))
          /\ Follows("reinit", IF Tail(todo) = <<>> THEN "end"
                                                    ELSE Head(Tail(todo)))
      BY <1>1, LinkedTail DEF Inv, OrderInv, At
    <2>2. todo' = Tail(todo) /\ t' = 0 /\ raised' = raised /\ raised = "nothing"
      BY <1>1, <1>5 DEF Done, Inv, OrderInv
    <2>3. here' = "disable" /\ OrderInv'
      BY <1>2, <1>5, <2>1, <2>2 DEF here, OrderInv, Follows, BusSteps
    <2>4. Readable' /\ Live' = Live
      BY <1>1, <1>5 DEF Readable, Live
    <2>5. TypeInv'
      BY <1>1, <1>2, <2>2, LimitTicks DEF Inv, TypeInv
    <2>6. HandshakeInv'
      BY <2>3, <2>4 DEF HandshakeInv, EnabledSteps, ReadySteps, NamespaceSteps
    <2>7. UpInv' /\ UseInv'
      BY <1>1, <1>3, <2>3 DEF UpInv, UseInv, UseSteps, FormatTail
    <2>8. FaultInv'
      BY <1>5, <2>2, <2>4 DEF Inv, FaultInv
    <2>9. TimeoutInv'
      BY <1>1, <2>2, <2>3 DEF Inv, TimeoutInv, FormatTail
    <2> QED
      BY <2>3, <2>5, <2>6, <2>7, <2>8, <2>9 DEF Inv
  <1> QED
    BY <1>4, <1>5 DEF CtrlrReinit

(* cc.shn is set. *)
LEMMA NotifyKeepsInv ==
    ASSUME Inv, NEW step \in {"clean", "abrupt"}, NEW bit \in {14, 15},
           NotifyShutdown(step, bit)
    PROVE  Inv'
  <1>1. /\ At(step) /\ here = step
        /\ UNCHANGED <<platform, bus, ctrlr, nn, ns, retried, up, fault, calls>>
        /\ UNCHANGED timing
        /\ ctrlr \in 0 .. MaxCalls + 1 /\ dev \in Registers
        /\ nn \in BOOLEAN /\ ns \in BOOLEAN /\ retried \in BOOLEAN
    BY DEF NotifyShutdown, driver, At, here, Inv, TypeInv
  <1>2. CASE ~Readable /\ Raise("SystemError") /\ UNCHANGED dev
    <2>1. fault' # {}
      BY <1>1, <1>2 DEF Inv, UseInv, UseSteps, Reaches
    <2> QED
      BY <1>1, <1>2, <2>1, RaiseKeepsInv DEF timing
  <1>3. CASE Readable /\ Done /\ dev' = [dev EXCEPT !.shn = @ \cup {bit}]
    <2>1. /\ here' = "wait_shst" /\ OrderInv' /\ raised' = "nothing" /\ t' = 0
      BY <1>1, <1>3, DoneGoesOn DEF Inv, Follows, BusSteps
    <2>2. dev' \in Registers /\ dev'.power = dev.power /\ dev'.d3 = dev.d3
      <3>1. dev.shn \cup {bit} \in SUBSET {14, 15}
        BY <1>1 DEF Registers
      <3> QED
        BY <1>1, <1>3, <3>1 DEF Registers
    <2>3. Readable' /\ Live' = Live
      BY <1>1, <1>3, <2>2 DEF Readable, Live
    <2>4. TypeInv'
      BY <1>1, <2>1, <2>2, LimitTicks DEF Inv, TypeInv
    <2>5. HandshakeInv'
      BY <2>1 DEF HandshakeInv, InitSteps, EnabledSteps, ReadySteps,
         NamespaceSteps
    <2>6. UpInv'
      BY <1>1 DEF Inv, UpInv, FormatTail
    <2>7. UseInv'
      BY <2>1, <2>3 DEF UseInv, UseSteps, FormatTail
    <2>8. FaultInv'
      BY <1>1, <2>1, <2>3 DEF Inv, FaultInv
    <2>9. TimeoutInv'
      BY <1>1, <1>3, TimeoutSame
    <2> QED
      BY <2>1, <2>4, <2>5, <2>6, <2>7, <2>8, <2>9 DEF Inv
  <1> QED
    BY <1>2, <1>3 DEF NotifyShutdown

-----------------------------------------------------------------------------
(* The device in its own time: it obeys what is in its registers, or vanishes. *)
LEMMA DeviceKeepsInv ==
    ASSUME Inv, Device
    PROVE  Inv'
  <1>1. /\ UNCHANGED <<platform, bus, ctrlr, nn, ns, retried, todo, t, raised,
                       up, calls>>
        /\ UNCHANGED timing /\ dev \in Registers
    BY DEF Device, BecomeReady, BecomeIdle, ShutDown, Vanish, driver, Inv, TypeInv
  <1>2. here' = here /\ OrderInv'
    BY <1>1 DEF here, Inv, OrderInv
  <1>3. TimeoutInv'
    BY <1>1, <1>2 DEF Inv, TimeoutInv, timing
  <1>4. CASE Vanish
    <2>1. dev' = [Cleared(dev) EXCEPT !.power = "lost"] /\ fault' = {"lost"}
      BY <1>4 DEF Vanish
    <2>2. Cleared(dev) \in Registers
      BY ClearedType DEF Inv
    <2>3. dev' \in Registers /\ ~Live'
      BY <2>1, <2>2 DEF Registers, Powers, Live
    <2>4. fault' # {}
      BY <2>1
    <2>5. TypeInv'
      BY <1>1, <2>3 DEF Inv, TypeInv
    <2>6. HandshakeInv'
      BY <1>1, <1>2, <2>3, <2>4 DEF Inv, HandshakeInv
    <2>7. UpInv'
      BY <1>1, <1>2, <2>3 DEF Inv, UpInv
    <2>8. UseInv' /\ FaultInv'
      BY <2>4 DEF UseInv, FaultInv
    <2> QED
      BY <1>2, <1>3, <2>5, <2>6, <2>7, <2>8 DEF Inv
  <1>5. CASE BecomeReady \/ BecomeIdle \/ ShutDown
    <2>1. /\ dev' \in Registers /\ dev'.power = dev.power /\ dev'.d3 = dev.d3
          /\ dev'.en = dev.en /\ dev'.aq = dev.aq /\ dev'.shn = dev.shn
          /\ dev'.aers = dev.aers
          /\ dev.shn = {} => dev'.shst = dev.shst
          /\ dev.en /\ dev.rdy => dev'.rdy
          /\ ~dev.en /\ ~dev.rdy => ~dev'.rdy
          /\ fault' = fault
      <3>1. CASE BecomeReady
        BY <1>1, <3>1 DEF BecomeReady, Registers
      <3>2. CASE BecomeIdle
        BY <1>1, <3>2 DEF BecomeIdle, Registers
      <3>3. CASE ShutDown
        BY <1>1, <3>3 DEF ShutDown, Registers
      <3> QED
        BY <1>5, <3>1, <3>2, <3>3
    <2>2. Live' = Live /\ Readable' = Readable
      BY <1>1, <2>1 DEF Live, Readable
    <2>3. Reaches /\ dev.shn = {} => Reaches'
      BY <1>1, <2>1, <2>2 DEF Reaches
    <2>4. TypeInv'
      BY <1>1, <2>1 DEF Inv, TypeInv
    <2>5. HandshakeInv'
      <3>1. /\ here \in {"init_adminq", "enable"} =>
                   here \in {"wait_disabled", "init_adminq", "enable"}
            /\ here \in ReadySteps => here \in EnabledSteps
        BY DEF EnabledSteps
      <3>2. HandshakeInv
        BY DEF Inv
      <3> QED
        BY <1>1, <1>2, <2>1, <2>2, <3>1, <3>2 DEF HandshakeInv
    <2>6. UpInv'
      BY <1>1, <1>2, <2>1, <2>2, <2>3 DEF Inv, UpInv
    <2>7. UseInv'
      BY <1>2, <2>1, <2>2, <2>3 DEF Inv, UseInv
    <2>8. FaultInv'
      BY <1>1, <2>1, <2>2 DEF Inv, FaultInv
    <2> QED
      BY <1>2, <1>3, <2>4, <2>5, <2>6, <2>7, <2>8 DEF Inv
  <1> QED
    BY <1>4, <1>5 DEF Device

-----------------------------------------------------------------------------
(* A call that resets may be made at any time; one that uses the controller is
   sound when the controller is up. *)
LEMMA CallKeepsInv ==
    ASSUME Inv, NEW steps, NEW needs_up \in BOOLEAN, Call(steps, needs_up),
           Linked(steps),
           NEW first, first = IF steps = <<>> THEN "end" ELSE Head(steps),
           \/ first \in BusSteps \cup {"end"}
           \/ first \in {"id_data", "command", "long_timeout"} /\ needs_up,
           first \in BusSteps \cup {"end", "id_data"} =>
               steps \notin {Uses.command, Uses.format}
    PROVE  Inv'
  <1>1. /\ todo = <<>> /\ ctrlr # 0 /\ calls < MaxCalls
        /\ todo' = steps /\ t' = 0 /\ retried' = FALSE /\ raised' = "nothing"
        /\ up' = (up /\ steps \in {Uses.command, Uses.format})
        /\ fault' = IF dev.power = "lost" THEN {"lost"}
                    ELSE IF needs_up /\ ~up THEN {"script"} ELSE {}
        /\ before' = timeout /\ calls' = calls + 1
        /\ UNCHANGED <<platform, dev, bus, ctrlr, nn, ns, timeout, registered,
                       orig>>
    BY DEF Call, Idle
  <1>2. here' = first /\ here = "end"
    BY <1>1 DEF here
  <1>3. OrderInv'
    BY <1>1 DEF OrderInv
  <1>4. Live' = Live /\ Readable' = Readable /\ Reaches' = Reaches
    BY <1>1 DEF Live, Readable, Reaches
  <1>5. TypeInv'
    <2>1. calls' \in 0 .. MaxCalls
      <3>1. calls \in 0 .. MaxCalls /\ MaxCalls \in Nat
        BY LimitsAssumption DEF Inv, TypeInv
      <3> QED
        BY <1>1, <3>1
    <2>2. up' \in BOOLEAN
      BY <1>1
    <2> QED
      BY <1>1, <2>1, <2>2, LimitTicks DEF Inv, TypeInv
  <1>6. HandshakeInv'
    BY <1>2 DEF HandshakeInv, BusSteps, InitSteps, EnabledSteps, ReadySteps,
       NamespaceSteps
  <1>7. UpInv'
    <2>1. up' => up /\ first \in {"command", "long_timeout"}
      BY <1>1
    <2> QED
      BY <1>1, <1>2, <1>4, <2>1 DEF Inv, UpInv
  <1>8. UseInv'
    <2>1. fault' = {} => Live
      BY <1>1 DEF Live
    <2>2. fault' = {} /\ needs_up => up
      BY <1>1
    <2>3. fault' = {} /\ needs_up => Reaches /\ dev.shn = {}
      BY <2>1, <2>2 DEF Inv, UpInv
    <2>4. here' \in UseSteps => needs_up
      BY <1>2 DEF BusSteps, UseSteps, FormatTail
    <2>5. here' # "wait_shst"
      BY <1>2 DEF BusSteps
    <2> QED
      BY <1>1, <1>4, <2>3, <2>4, <2>5 DEF UseInv
  <1>9. FaultInv'
    BY <1>1, <1>4 DEF FaultInv, Live
  <1>10. TimeoutInv'
    BY <1>1, <1>2 DEF Inv, TimeoutInv, FormatTail, BusSteps
  <1> QED
    BY <1>3, <1>5, <1>6, <1>7, <1>8, <1>9, <1>10 DEF Inv

(* The calls of Resets. *)
LEMMA ResetCallKeepsInv ==
    ASSUME Inv, NEW c \in DOMAIN Resets, Call(Resets[c], FALSE)
    PROVE  Inv'
  <1> DEFINE steps == Resets[c]
             first == IF steps = <<>> THEN "end" ELSE Head(steps)
  <1>1. steps = reset \/ steps \in Seq(BusSteps)
    BY BusCalls DEF Resets
  <1> HIDE DEF steps
  <1>2. Linked(steps) /\ first \in BusSteps \cup {"end"}
    BY <1>1, LinkedBus, LinkedReset DEF BusSteps
  <1>3. /\ Uses.command # <<>> /\ Head(Uses.command) = "command"
        /\ Uses.format # <<>> /\ Head(Uses.format) = "long_timeout"
    BY DEF Uses, format
  <1>4. steps \notin {Uses.command, Uses.format}
    BY <1>2, <1>3 DEF BusSteps
  <1>5. Call(steps, FALSE)
    BY DEF steps
  <1> QED
    BY <1>2, <1>4, <1>5, CallKeepsInv

(* The calls of Uses. *)
LEMMA UseCallKeepsInv ==
    ASSUME Inv, NEW c \in DOMAIN Uses, Call(Uses[c], TRUE)
    PROVE  Inv'
  <1> DEFINE steps == Uses[c]
             first == IF steps = <<>> THEN "end" ELSE Head(steps)
  <1>1. steps \in {shutdown_notify("clean"), shutdown_notify("abrupt"), format,
                   <<"command">>}
    BY DEF Uses
  <1>2. Call(steps, TRUE)
    OBVIOUS
  <1> HIDE DEF steps
  <1>3. Linked(steps)
    BY <1>1, LinkedUses
  <1>4. /\ shutdown_notify("clean") # <<>> /\ shutdown_notify("abrupt") # <<>>
        /\ Head(shutdown_notify("clean")) = "id_data"
        /\ Head(shutdown_notify("abrupt")) = "id_data"
        /\ format # <<>> /\ Head(format) = "long_timeout"
        /\ <<"command">> # <<>> /\ Head(<<"command">>) = "command"
    BY DEF format, shutdown_notify
  <1>5. first \in {"id_data", "command", "long_timeout"}
    BY <1>1, <1>4
  <1>6. first = "id_data" => steps \notin {Uses.command, Uses.format}
    BY <1>1, <1>4 DEF Uses
  <1>7. first \in BusSteps \cup {"end", "id_data"} => first = "id_data"
    BY <1>5 DEF BusSteps
  <1> HIDE DEF first
  <1> QED
    BY <1>2, <1>3, <1>5, <1>6, <1>7, CallKeepsInv DEF first

(* The properties a script sets between calls. *)
LEMMA SettingsKeepInv ==
    ASSUME Inv, \/ \E msec \in Timeouts : SetTimeout(msec)
                \/ \E d3 \in BOOLEAN : SetPowerState(d3)
    PROVE  Inv'
  <1>1. /\ todo = <<>> /\ here = "end" /\ calls < MaxCalls /\ calls' = calls + 1
        /\ UNCHANGED <<platform, bus, ctrlr, nn, ns, retried, todo, t, raised,
                       fault>>
        /\ here' = "end" /\ dev \in Registers
    BY DEF SetTimeout, SetPowerState, Idle, driver, here, Inv, TypeInv
  <1>2. OrderInv'
    BY <1>1 DEF Inv, OrderInv
  <1>3. calls' \in 0 .. MaxCalls
    <2>1. calls \in 0 .. MaxCalls /\ MaxCalls \in Nat
      BY LimitsAssumption DEF Inv, TypeInv
    <2> QED
      BY <1>1, <2>1
  <1>4. HandshakeInv' /\ UseInv'
    BY <1>1 DEF HandshakeInv, UseInv, InitSteps, EnabledSteps, ReadySteps,
       NamespaceSteps, UseSteps, FormatTail
  <1>5. ASSUME NEW msec \in Timeouts, SetTimeout(msec)
        PROVE  Inv'
    <2>1. /\ timeout' = msec /\ registered' = msec /\ before' = msec
          /\ UNCHANGED <<dev, up>>
      BY <1>5 DEF SetTimeout
    <2>2. Live' = Live /\ Reaches' = Reaches
      BY <1>1, <2>1 DEF Live, Readable, Reaches
    <2>3. TypeInv'
      BY <1>1, <1>3, <2>1 DEF Inv, TypeInv
    <2>4. UpInv' /\ FaultInv'
      BY <1>1, <2>1, <2>2 DEF Inv, UpInv, FaultInv
    <2>5. TimeoutInv'
      BY <1>1, <2>1 DEF TimeoutInv, FormatTail
    <2> QED
      BY <1>2, <1>4, <2>3, <2>4, <2>5 DEF Inv
  <1>6. ASSUME NEW d3 \in BOOLEAN, SetPowerState(d3)
        PROVE  Inv'
    <2>1. /\ dev' = [dev EXCEPT !.d3 = d3] /\ up' = FALSE /\ UNCHANGED timing
      BY <1>6 DEF SetPowerState
    <2>2. dev' \in Registers /\ Live' = Live
      BY <1>1, <2>1 DEF Registers, Live
    <2>3. TypeInv'
      BY <1>1, <1>3, <2>1, <2>2 DEF Inv, TypeInv
    <2>4. UpInv' /\ FaultInv'
      BY <1>1, <2>1, <2>2 DEF Inv, UpInv, FaultInv
    <2>5. TimeoutInv'
      BY <1>1, <2>1 DEF Inv, TimeoutInv, FormatTail, timing
    <2> QED
      BY <1>2, <1>4, <2>3, <2>4, <2>5 DEF Inv
  <1> QED
    BY <1>5, <1>6

(* A step that changes nothing but the time waited. *)
LEMMA SameKeepsInv ==
    ASSUME Inv, UNCHANGED <<platform, dev, bus, ctrlr, nn, ns, retried, todo,
                            raised, up, fault, calls>>,
           UNCHANGED timing, t' \in Ticks
    PROVE  Inv'
  <1>1. /\ here' = here /\ Live' = Live /\ Readable' = Readable
        /\ Reaches' = Reaches
    BY DEF here, Live, Readable, Reaches
  <1>2. TypeInv' /\ OrderInv'
    BY DEF Inv, TypeInv, OrderInv
  <1>3. HandshakeInv'
    BY <1>1 DEF Inv, HandshakeInv
  <1>4. UpInv' /\ UseInv' /\ FaultInv'
    BY <1>1 DEF Inv, UpInv, UseInv, FaultInv
  <1>5. TimeoutInv'
    BY <1>1 DEF Inv, TimeoutInv, timing
  <1> QED
    BY <1>2, <1>3, <1>4, <1>5 DEF Inv

-----------------------------------------------------------------------------
(* Time passes in a wait, up to its limit and one more. *)
LEMMA TickKeepsInv ==
    ASSUME Inv, Tick
    PROVE  Inv'
  <1>1. /\ UNCHANGED <<platform, dev, bus, ctrlr, nn, ns, retried, todo, raised,
                       up, fault, calls>>
        /\ UNCHANGED timing
        /\ t <= Limit(Head(todo)) /\ t' = t + 1
    BY DEF Tick, driver
  <1>2. t \in Nat
    BY LimitTicks, LimitsAssumption DEF Inv, TypeInv, Ticks
  <1>3. t' \in Ticks
    <2> DEFINE limit == Limit(Head(todo))
    <2>1. limit \in Nat /\ limit + 1 \in Ticks
      BY LimitTicks
    <2>2. t <= limit /\ t' = t + 1
      BY <1>1
    <2> DEFINE longest == LargerOf(TO, LargerOf(SHUTDOWN, ALARM))
    <2>3. longest \in Nat /\ Ticks = 0 .. 1 + longest
      BY LimitsAssumption DEF LargerOf, Ticks
    <2> HIDE DEF limit, longest
    <2> QED
      BY <1>2, <2>1, <2>2, <2>3
  <1> QED
    BY <1>1, <1>3, SameKeepsInv

(* Every step of a call keeps the invariant. *)
LEMMA StepsKeepInv ==
    ASSUME Inv, Steps
    PROVE  Inv'
  <1>1. CASE Disable \/ InitAdminq \/ Enable
    BY <1>1, DisableKeepsInv, AdminqKeepsInv, EnableKeepsInv
  <1>2. CASE WaitDisabled \/ WaitReady \/ WaitShutdown
    BY <1>2, WaitsKeepInv
  <1>3. CASE \E step \in {"identify", "set_num_queues", "get_num_queues",
                          "command", "id_data", "get_lba_format", "format"} :
                 Waitdone(step)
    BY <1>3, WaitdoneKeepsInv
  <1>4. CASE InitNs \/ Aer \/ CtrlrReinit
    BY <1>4, InitNsKeepsInv, AerKeepsInv, ReinitKeepsInv
  <1>5. CASE Cleanup \/ ReadLink \/ NoLbaFormat \/ Refresh
    BY <1>5, OthersKeepInv
  <1>6. CASE \E step \in {"unbind", "remove", "rescan", "bind"} : Sysfs(step)
    BY <1>6, SysfsKeepsInv
  <1>7. CASE \E step \in {"nssr", "flr", "hot_reset", "suspend", "cut_power",
                          "supply_power"} : ResetDevice(step)
    BY <1>7, ResetKeepsInv
  <1>8. CASE NotifyShutdown("clean", 14) \/ NotifyShutdown("abrupt", 15)
    BY <1>8, NotifyKeepsInv
  <1>9. CASE LongTimeout \/ RestoreTimeout
    BY <1>9, TimeoutsKeepInv
  <1> QED
    BY <1>1, <1>2, <1>3, <1>4, <1>5, <1>6, <1>7, <1>8, <1>9 DEF Steps

(* Every step of the specification keeps the invariant. *)
LEMMA NextKeepsInv ==
    ASSUME Inv, [Next]_vars
    PROVE  Inv'
  <1>1. CASE Calls
    BY <1>1, ResetCallKeepsInv, UseCallKeepsInv, SettingsKeepInv DEF Calls
  <1>2. CASE UNCHANGED vars
    <2>1. t' \in Ticks
      BY <1>2 DEF vars, Inv, TypeInv
    <2> QED
      BY <1>2, <2>1, SameKeepsInv DEF vars, driver
  <1> QED
    BY <1>1, <1>2, StepsKeepInv, TickKeepsInv, DeviceKeepsInv DEF Next

-----------------------------------------------------------------------------
(* The inductive invariant holds in every state the driver and the device
   reach, for every choice of timeouts and every number of calls. *)
THEOREM InvAlways == Spec => []Inv
  BY InitInv, NextKeepsInv, PTL DEF Spec

(* Once _nvme_init is through, the device is enabled, ready, on the present
   admin queue and with one AER, and the namespaces are there. *)
THEOREM AlwaysUsableWhenUp == Spec => []UsableWhenUp
  <1>1. Inv => UsableWhenUp
    <2> SUFFICES ASSUME Inv PROVE UsableWhenUp
      OBVIOUS
    <2>1. TypeOK
      BY DEF Inv, TypeInv, TypeOK, Registers, Ticks
    <2>2. up /\ dev.power # "lost" =>
              bus = "uio" /\ dev.en /\ dev.rdy /\ dev.aq = ctrlr /\ dev.aers = 1
              /\ ns
      BY DEF Inv, UpInv, Live, Reaches, Readable
    <2> QED
      BY <2>1, <2>2 DEF UsableWhenUp
  <1> QED
    BY <1>1, InvAlways, PTL

(* No order of resets, power operations, uses and failures makes a call raise
   without a reason outside the driver, nor leaves Controller.timeout other
   than the script has set it. *)
THEOREM AlwaysRaisesForAReason == Spec => []RaisesForAReason
  <1>1. Inv => RaisesForAReason
    <2> SUFFICES ASSUME Inv PROVE RaisesForAReason
      OBVIOUS
    <2>1. todo = <<>> => here \notin FormatTail
      BY DEF here, FormatTail
    <2> QED
      BY <2>1 DEF Inv, FaultInv, TimeoutInv, RaisesForAReason
  <1> QED
    BY <1>1, InvAlways, PTL

(* The steps that leave the admin queue registers and cc.en as they are, or
   clear them. *)
LEMMA OnlyTwoProgram ==
    ASSUME Inv, Next, ~InitAdminq, ~Enable
    PROVE  dev'.aq \in {0, dev.aq} /\ (dev'.en => dev.en)
  <1>1. dev \in Registers
    BY DEF Inv, TypeInv
  <1>2. CASE UNCHANGED dev
    BY <1>2
  <1>3. CASE Disable
    BY <1>1, <1>3 DEF Disable, Registers
  <1>4. CASE Aer
    BY <1>1, <1>4 DEF Aer, Registers
  <1>5. CASE \E step \in {"nssr", "flr", "hot_reset", "suspend", "cut_power",
                          "supply_power"} : ResetDevice(step)
    <2>1. PICK step \in {"nssr", "flr", "hot_reset", "suspend", "cut_power",
                         "supply_power"} : dev' = DevAfter(step)
      BY <1>5 DEF ResetDevice
    <2>2. /\ Cleared(dev) \in Registers
          /\ Cleared(dev).aq = 0 /\ ~Cleared(dev).en
      BY ClearedType DEF Inv
    <2> DEFINE cleared == Cleared(dev)
    <2>3. \/ dev' \in {dev, cleared}
          \/ dev' = [dev EXCEPT !.power = "on"]
          \/ dev' = [cleared EXCEPT !.power = "off", !.d3 = FALSE]
          \/ dev' = [cleared EXCEPT !.power = IF @ = "lost" THEN "on" ELSE @,
                                    !.d3 = FALSE]
      BY <2>1 DEF DevAfter
    <2>4. cleared \in Registers /\ cleared.aq = 0 /\ ~cleared.en
      BY <2>2
    <2> HIDE DEF cleared
    <2> QED
      BY <1>1, <2>3, <2>4 DEF Registers
  <1>6. CASE NotifyShutdown("clean", 14) \/ NotifyShutdown("abrupt", 15)
    BY <1>1, <1>6 DEF NotifyShutdown, Registers
  <1>7. CASE Device
    <2>1. CASE Vanish
      <3> DEFINE cleared == Cleared(dev)
      <3>1. cleared \in Registers /\ cleared.aq = 0 /\ ~cleared.en
        BY ClearedType DEF Inv
      <3>2. dev' = [cleared EXCEPT !.power = "lost"]
        BY <2>1 DEF Vanish
      <3> HIDE DEF cleared
      <3> QED
        BY <3>1, <3>2 DEF Registers
    <2>2. CASE BecomeReady \/ BecomeIdle \/ ShutDown
      BY <1>1, <2>2 DEF BecomeReady, BecomeIdle, ShutDown, Registers
    <2> QED
      BY <1>7, <2>1, <2>2 DEF Device
  <1>8. CASE Tick
    BY <1>2, <1>8 DEF Tick
  <1>9. CASE Calls
    <2>1. ASSUME NEW d3 \in BOOLEAN, SetPowerState(d3)
          PROVE  dev'.aq = dev.aq /\ dev'.en = dev.en
      BY <1>1, <2>1 DEF SetPowerState, Registers
    <2> QED
      BY <1>2, <1>9, <2>1 DEF Calls, Call, SetTimeout
  <1>10. CASE WaitDisabled \/ WaitReady \/ WaitShutdown
    BY <1>2, <1>10 DEF WaitDisabled, WaitReady, WaitShutdown, WaitFor
  <1>11. CASE InitNs \/ CtrlrReinit \/ Cleanup \/ ReadLink \/ NoLbaFormat
              \/ Refresh \/ LongTimeout \/ RestoreTimeout
    BY <1>2, <1>11 DEF InitNs, CtrlrReinit, Cleanup, ReadLink, NoLbaFormat,
       Refresh, LongTimeout, RestoreTimeout
  <1>12. CASE \/ \E step \in {"identify", "set_num_queues", "get_num_queues",
                              "command", "id_data", "get_lba_format", "format"} :
                     Waitdone(step)
              \/ \E step \in {"unbind", "remove", "rescan", "bind"} : Sysfs(step)
    BY <1>2, <1>12 DEF Waitdone, Sysfs
  <1> QED
    BY <1>3, <1>4, <1>5, <1>6, <1>7, <1>8, <1>9, <1>10, <1>11, <1>12
    DEF Next, Steps

(* The driver writes the admin queue registers only on a controller that is
   disabled and has said so, and sets cc.en only there and with the present
   queue in the registers. *)
THEOREM AlwaysProgramsDisabled == Spec => ProgramsOnlyDisabled
  <1> DEFINE Programs == /\ dev'.aq # dev.aq /\ dev'.aq # 0 => ~dev.en /\ ~dev.rdy
                         /\ dev'.en /\ ~dev.en => ~dev.rdy /\ dev.aq = ctrlr
  <1>1. ASSUME Inv, InitAdminq PROVE Programs
    <2>1. here = "init_adminq" /\ dev \in Registers
      BY <1>1 DEF InitAdminq, At, here, Inv, TypeInv
    <2>2. dev' = dev \/ (Readable /\ dev' = [dev EXCEPT !.aq = ctrlr])
      BY <1>1 DEF InitAdminq
    <2>3. Readable => ~dev.en /\ ~dev.rdy
      BY <1>1, <2>1 DEF Inv, HandshakeInv, Live, Readable
    <2> QED
      BY <2>1, <2>2, <2>3 DEF Registers
  <1>2. ASSUME Inv, Enable PROVE Programs
    <2>1. here = "enable" /\ dev \in Registers
      BY <1>2 DEF Enable, At, here, Inv, TypeInv
    <2>2. dev' = dev \/ (Readable /\ dev' = [dev EXCEPT !.en = TRUE])
      BY <1>2 DEF Enable
    <2>3. Readable => ~dev.rdy /\ dev.aq = ctrlr
      BY <1>2, <2>1 DEF Inv, HandshakeInv, Live, Readable
    <2> QED
      BY <2>1, <2>2, <2>3 DEF Registers
  <1>3. ASSUME Inv, Next PROVE Programs
    BY <1>1, <1>2, <1>3, OnlyTwoProgram
  <1>4. Inv /\ [Next]_vars => [Programs]_vars
    BY <1>3
  <1> QED
    BY <1>4, InvAlways, PTL DEF Spec, ProgramsOnlyDisabled
=============================================================================
