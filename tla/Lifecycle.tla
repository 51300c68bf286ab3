----------------------------- MODULE Lifecycle -----------------------------
(***************************************************************************)
(* The objects of a test script and the driver's resources behind them, in *)
(* the script's own (primary) process: Pcie, Controller, Namespace and     *)
(* Qpair (src/driver_wrap.pyx) over nvme_init, nvme_fini, qpair_create,    *)
(* qpair_free, ns_init, ns_fini, ns_refresh and nvme_set_ns (driver.c).    *)
(* Objects keep C pointers over resets and closes, in whatever order the   *)
(* script makes the calls.  The resets are those that come after           *)
(* _driver_cleanup, so no secondary process exists (module WorkerProcess). *)
(***************************************************************************)
EXTENDS Integers, FiniteSets

CONSTANTS Pcies,        \* Pcie objects a script makes, one after the other
          Namespaces,   \* Namespace objects, all of the same nsid
          Qpairs,       \* Qpair objects
          None,
          Addrs,        \* addresses a C queue pair can have
          MaxResets     \* bound: controller resets in one behaviour

ASSUME NoneAssumption ==
    None \notin Pcies \cup Namespaces \cup Qpairs \cup Addrs

ASSUME MaxResetsAssumption == MaxResets \in Nat

VARIABLES pcie,       \* of each Pcie object: "new", "open" (_magic) or "closed"
          attached,   \* the Pcie object whose _ctrlr is not NULL, or None
          inited,     \* namespaces of the controller are constructed
          ns,         \* of each Namespace: the Pcie it was made with, or None
          qp,         \* of each Qpair: [pcie, ptr], ptr None after delete
          owner,      \* of each address: the Qpair object it was made for
          zone,       \* the memzone of the checksum table exists
          crc_table,  \* ns->crc_table is not NULL
          enabled,    \* verification is enabled in the table
          failed,     \* an assert of the code has failed
          bad_free,   \* qpair_free got a pointer that is not the object's
          verify_on,  \* history: Namespaces whose verify_enable succeeded
          broken,     \* history: rules the script or the device has broken
          resets

objects == <<pcie, attached, inited, ns, qp>>
table   == <<zone, crc_table, enabled>>
vars    == <<objects, owner, table, failed, bad_free, verify_on, broken, resets>>

Init ==
    /\ pcie = [p \in Pcies |-> "new"] /\ attached = None /\ inited = FALSE
    /\ ns = [n \in Namespaces |-> None]
    /\ qp = [q \in Qpairs |-> [pcie |-> None, ptr |-> None]]
    /\ owner = [a \in Addrs |-> None]
    /\ zone = FALSE /\ crc_table = FALSE /\ enabled = FALSE
    /\ failed = FALSE /\ bad_free = FALSE
    /\ verify_on = {} /\ broken = {}
    /\ resets = 0

Live == ~failed /\ ~bad_free
OpenNs(p) == {n \in Namespaces : ns[n] = p}
OpenQp(p) == {q \in Qpairs : qp[q].pcie = p /\ qp[q].ptr # None}

(* A Pcie object that can be used: its _magic is set and its _ctrlr is not
   NULL.  Namespace.close and Qpair.delete do nothing without it. *)
MutUsable_OnlyMagic(p) == p # None /\ pcie[p] # "new"

Usable(p) == p # None /\ pcie[p] = "open" /\ attached = p

-----------------------------------------------------------------------------
(* nvme_init: the controller of p, or NULL when the device is not found. *)
nvme_init(p, found) == IF found THEN p ELSE None

(* Pcie.__cinit__; two at a time would be two drivers of one device, and
   without the device there is an exception and no object. *)
OpenPcie(p) ==
    /\ Live /\ pcie[p] = "new" /\ \A r \in Pcies : pcie[r] # "open"
    /\ pcie' = [pcie EXCEPT ![p] = "open"]
    /\ attached' = nvme_init(p, TRUE) /\ inited' = FALSE
    /\ crc_table' = FALSE
    /\ UNCHANGED <<ns, qp, owner, zone, enabled, failed, bad_free, verify_on,
                   broken, resets>>

(* nvme_set_ns: the table of the namespace is found again by its name. *)
FoundTable == zone

(* The end of Controller._nvme_init: init_ns succeeds, at once or on the
   second try; or the initialisation raises an error before that. *)
InitController ==
    /\ Live /\ attached # None /\ ~inited
    /\ inited' = TRUE /\ crc_table' = FoundTable
    /\ UNCHANGED <<pcie, attached, ns, qp, owner, zone, enabled, failed,
                   bad_free, verify_on, broken, resets>>

(* nvme_fini in the primary process frees the active queue pairs; what its
   loop leaves goes with the controller in spdk_nvme_detach. *)
FreedQpairs == [a \in Addrs |-> None]

(* Controller.reset: nvme_fini, and nvme_init, which may not find the device
   again (_ctrlr is NULL then); _nvme_init follows as InitController. *)
Reset(found) ==
    /\ Live /\ resets < MaxResets
    /\ attached # None
    /\ resets' = resets + 1
    /\ owner' = FreedQpairs
    /\ attached' = nvme_init(attached, found)
    /\ inited' = FALSE /\ crc_table' = FALSE
    /\ broken' = broken
         \cup (IF OpenQp(attached) # {} THEN {"reset_with_qpairs"} ELSE {})
         \cup (IF found THEN {} ELSE {"device_lost"})
    /\ UNCHANGED <<pcie, ns, qp, zone, enabled, failed, bad_free, verify_on>>

(* Pcie.close. *)
ClosePcie(p) ==
    /\ Live /\ pcie[p] = "open"
    /\ pcie' = [pcie EXCEPT ![p] = "closed"]
    /\ owner' = IF attached = p THEN FreedQpairs ELSE owner
    /\ attached' = None /\ inited' = FALSE /\ crc_table' = FALSE
    /\ broken' = IF OpenNs(p) # {}
                 THEN broken \cup {"pcie_closed_first"} ELSE broken
    /\ UNCHANGED <<ns, qp, zone, enabled, failed, bad_free, verify_on, resets>>

-----------------------------------------------------------------------------
(* Namespace.__cinit__: ns_table_init asserts that there is no table, then
   reserves its memory, for which there may not be enough. *)
OpenNamespace(n, enough) ==
    /\ Live /\ inited /\ ns[n] = None
    /\ broken' = IF OpenNs(attached) # {}
                 THEN broken \cup {"two_namespaces"} ELSE broken
    /\ IF crc_table
       THEN failed' = TRUE /\ UNCHANGED <<ns, table>>
       ELSE /\ ns' = [ns EXCEPT ![n] = attached]
            /\ zone' = (zone \/ enough)
            /\ crc_table' = (enough /\ ~zone)
            /\ enabled' = (enabled /\ zone)
            /\ UNCHANGED failed
    /\ UNCHANGED <<pcie, attached, inited, qp, owner, bad_free, verify_on,
                   resets>>

(* ns_table_fini frees the memory of the table. *)
ZoneAfterFini == FALSE

(* Namespace.close: nothing is freed once the Pcie is closed or has lost its
   device, or when the controller has no namespaces. *)
CloseNamespace(n) ==
    /\ Live /\ ns[n] # None
    /\ IF Usable(ns[n]) /\ inited
       THEN /\ zone' = ZoneAfterFini
            /\ crc_table' = FALSE
            /\ enabled' = FALSE
       ELSE UNCHANGED table
    /\ broken' = IF Usable(ns[n]) /\ ~inited
                 THEN broken \cup {"closed_uninitialised"} ELSE broken
    /\ ns' = [ns EXCEPT ![n] = None]
    /\ verify_on' = verify_on \ {n}
    /\ UNCHANGED <<pcie, attached, inited, qp, owner, failed, bad_free, resets>>

(* Namespace.verify_enable(enable): without a table it only returns False. *)
VerifyEnable(n, enable) ==
    /\ Live /\ inited /\ Usable(ns[n])
    /\ crc_table
    /\ enabled' = enable
    /\ verify_on' = IF enable THEN verify_on \cup {n} ELSE {}
    /\ UNCHANGED <<objects, owner, zone, crc_table, failed, bad_free, broken,
                   resets>>

(* The flag ns_refresh gives to the table it makes after a format. *)
MutEnabledAfterRefresh_Off == FALSE

EnabledAfterRefresh == enabled

(* Namespace.format: ns_refresh frees the table, if there is one, and makes a
   new one of the same size. *)
Format(n) ==
    /\ Live /\ inited /\ Usable(ns[n])
    /\ crc_table
    /\ enabled' = EnabledAfterRefresh
    /\ UNCHANGED <<objects, owner, zone, crc_table, failed, bad_free,
                   verify_on, broken, resets>>

-----------------------------------------------------------------------------
(* Qpair.__cinit__: the environment gives memory that is not in use. *)
CreateQpair(q) ==
    /\ Live /\ inited /\ qp[q].ptr = None
    /\ \E a \in Addrs :
         /\ owner[a] = None
         /\ owner' = [owner EXCEPT ![a] = q]
         /\ qp' = [qp EXCEPT ![q] = [pcie |-> attached, ptr |-> a]]
    /\ UNCHANGED <<pcie, attached, inited, ns, table, failed, bad_free,
                   verify_on, broken, resets>>

(* Qpair.delete. *)
DeleteQpair(q) ==
    /\ Live /\ qp[q].ptr # None
    /\ IF Usable(qp[q].pcie)
       THEN /\ bad_free' = (owner[qp[q].ptr] # q)
            /\ owner' = [owner EXCEPT ![qp[q].ptr] = None]
       ELSE UNCHANGED <<bad_free, owner>>
    /\ qp' = [qp EXCEPT ![q].ptr = None]
    /\ UNCHANGED <<pcie, attached, inited, ns, table, failed, verify_on, broken,
                   resets>>

Next ==
    \/ \E p \in Pcies : OpenPcie(p) \/ ClosePcie(p)
    \/ InitController
    \/ \E found \in BOOLEAN : Reset(found)
    \/ \E n \in Namespaces : \/ \E enough \in BOOLEAN : OpenNamespace(n, enough)
                             \/ CloseNamespace(n)
                             \/ \E on \in BOOLEAN : VerifyEnable(n, on)
                             \/ Format(n)
    \/ \E q \in Qpairs : CreateQpair(q) \/ DeleteQpair(q)

Spec == Init /\ [][Next]_vars

-----------------------------------------------------------------------------
TypeOK ==
    /\ pcie \in [Pcies -> {"new", "open", "closed"}]
    /\ attached \in Pcies \cup {None} /\ inited \in BOOLEAN
    /\ ns \in [Namespaces -> Pcies \cup {None}]
    /\ qp \in [Qpairs -> [pcie : Pcies \cup {None}, ptr : Addrs \cup {None}]]
    /\ owner \in [Addrs -> Qpairs \cup {None}]
    /\ {zone, crc_table, enabled, failed, bad_free} \subseteq BOOLEAN
    /\ crc_table => zone /\ inited
    /\ verify_on \subseteq Namespaces
    /\ resets \in 0 .. MaxResets

(* qpair_free is called with the object's own, live queue pair, in every order
   of deletes and closes and over every reset, as long as the script follows
   the notice of Controller.reset, "delete all io qpairs before reset". *)
FreesOwnQpair == bad_free => "reset_with_qpairs" \in broken

(* Without a controller nothing is left behind: no queue pair, and no table
   unless a Namespace was not closed in time (Pcie.close, Namespace.close).  So
   the assert(crc_table == NULL) of ns_table_init holds for a script that has
   one Namespace at a time and closes it before its Pcie, over any number of
   resets that bring the device back. *)
NothingLeft ==
    /\ TypeOK
    /\ attached = None => \A a \in Addrs : owner[a] = None
    /\ failed \/ (attached = None /\ zone) =>
           broken \cap {"two_namespaces", "pcie_closed_first",
                        "device_lost", "closed_uninitialised"} # {}

(* Verification that was enabled stays enabled for as long as the Namespace
   is open, over resets and formats: an initialised controller has the table
   and its flag. *)
VerificationKept ==
    verify_on # {} /\ inited /\ ~failed /\ broken \subseteq {"reset_with_qpairs"}
    => crc_table /\ enabled
=============================================================================
