-------------------------- MODULE LifecycleProofs --------------------------
(***************************************************************************)
(* The safety properties of Lifecycle for every number of objects, of      *)
(* addresses and of resets, and for tests with fixtures, which are scripts *)
(* in the sense of Lifecycle.                                              *)
(*                                                                         *)
(* None of the properties is inductive.  That a queue pair is freed with   *)
(* its own pointer rests on which Pcie objects can still be used: one that *)
(* was closed or has lost its device never has a controller again.  What   *)
(* is left of the checksum memory rests on the Namespace that is open      *)
(* while there is such memory, and on there being one at most.             *)
(*                                                                         *)
(* That tests are independent rests on the order of their fixtures: each   *)
(* is made after those it needs, and the last one is finished first.       *)
(***************************************************************************)
EXTENDS Fixtures, TLAPS

(* Types. *)
TypeInv ==
    /\ pcie \in [Pcies -> {"new", "open", "closed"}]
    /\ attached \in Pcies \cup {None}
    /\ ns \in [Namespaces -> Pcies \cup {None}]
    /\ qp \in [Qpairs -> [pcie : Pcies \cup {None}, ptr : Addrs \cup {None}]]
    /\ owner \in [Addrs -> Qpairs \cup {None}]
    /\ inited \in BOOLEAN /\ zone \in BOOLEAN /\ crc_table \in BOOLEAN
    /\ enabled \in BOOLEAN /\ failed \in BOOLEAN /\ bad_free \in BOOLEAN
    /\ verify_on \subseteq Namespaces
    /\ resets \in 0 .. MaxResets

(* The controller is that of the one open Pcie; a new one has no objects. *)
PcieInv ==
    /\ inited => attached # None
    /\ attached # None => pcie[attached] = "open"
    /\ \A p, r \in Pcies : pcie[p] = "open" /\ pcie[r] = "open" => p = r
    /\ \A q \in Qpairs : qp[q].pcie # None => pcie[qp[q].pcie] # "new"
    /\ \A n \in Namespaces : ns[n] # None => pcie[ns[n]] # "new"

(* A queue pair that Qpair.delete would free is the object's own, and without
   a controller there is none. *)
QpairInv ==
    /\ attached = None => \A a \in Addrs : owner[a] = None
    /\ "reset_with_qpairs" \notin broken =>
           /\ ~bad_free
           /\ \A q \in Qpairs : qp[q].ptr # None /\ Usable(qp[q].pcie) =>
                                    owner[qp[q].ptr] = q

(* The table is the one in the memory, from the initialisation on. *)
ZoneInv ==
    /\ crc_table => zone /\ inited
    /\ inited /\ zone => crc_table

Rules == {"two_namespaces", "pcie_closed_first", "device_lost",
          "closed_uninitialised"}

(* As long as no rule is broken: one Namespace at most is open on the present
   controller, one is open while there is checksum memory, only that one can
   have enabled verification, and the memory and its flag are then there. *)
TableInv ==
    broken \cap Rules = {} =>
        /\ ~failed
        /\ \A m, n \in Namespaces :
              attached # None /\ ns[m] = attached /\ ns[n] = attached => m = n
        /\ zone => attached # None /\ \E n \in Namespaces : ns[n] = attached
        /\ \A n \in verify_on : ns[n] = attached /\ zone /\ enabled

Inv == TypeInv /\ PcieInv /\ QpairInv /\ ZoneInv /\ TableInv

-----------------------------------------------------------------------------
(* No object exists (Init). *)
LEMMA InitInv == Init => Inv
  <1> SUFFICES ASSUME Init PROVE Inv
    OBVIOUS
  <1>1. TypeInv
    <2>1. resets \in 0 .. MaxResets
      BY MaxResetsAssumption DEF Init
    <2>2. qp \in [Qpairs -> [pcie : Pcies \cup {None}, ptr : Addrs \cup {None}]]
      BY DEF Init
    <2>3. /\ pcie \in [Pcies -> {"new", "open", "closed"}]
          /\ ns \in [Namespaces -> Pcies \cup {None}]
          /\ owner \in [Addrs -> Qpairs \cup {None}]
      BY DEF Init
    <2> QED
      BY <2>1, <2>2, <2>3 DEF Init, TypeInv
  <1>2. PcieInv
    BY DEF Init, PcieInv
  <1>3. QpairInv
    BY DEF Init, QpairInv
  <1>4. ZoneInv
    BY DEF Init, ZoneInv
  <1>5. TableInv
    BY DEF Init, TableInv
  <1> QED
    BY <1>1, <1>2, <1>3, <1>4, <1>5 DEF Inv

(* Pcie.__cinit__. *)
LEMMA OpenPcieKeepsInv ==
    ASSUME Inv, NEW p \in Pcies, OpenPcie(p)
    PROVE  Inv'
  <1>0. attached = None
    BY DEF Inv, TypeInv, PcieInv, OpenPcie
  <1>1. TypeInv'
    BY DEF Inv, TypeInv, OpenPcie, nvme_init
  <1>2. PcieInv'
    BY NoneAssumption DEF Inv, TypeInv, PcieInv, OpenPcie, nvme_init
  <1>3. QpairInv'
    <2>1. \A q \in Qpairs : ~Usable(qp[q].pcie)'
      BY NoneAssumption
      DEF Inv, TypeInv, PcieInv, OpenPcie, nvme_init, Usable
    <2> QED
      BY <2>1, NoneAssumption
      DEF Inv, TypeInv, QpairInv, OpenPcie, nvme_init
  <1>4. ZoneInv'
    BY DEF Inv, TypeInv, OpenPcie, ZoneInv
  <1>5. TableInv'
    BY <1>0, NoneAssumption
    DEF Inv, TypeInv, PcieInv, TableInv, OpenPcie, nvme_init
  <1> QED
    BY <1>1, <1>2, <1>3, <1>4, <1>5 DEF Inv

(* The end of Controller._nvme_init. *)
LEMMA InitControllerKeepsInv ==
    ASSUME Inv, InitController
    PROVE  Inv'
  <1>1. TypeInv'
    BY DEF Inv, TypeInv, InitController, FoundTable
  <1>2. PcieInv'
    BY DEF Inv, PcieInv, InitController
  <1>3. QpairInv'
    BY DEF Inv, QpairInv, InitController, Usable
  <1>4. ZoneInv'
    BY DEF Inv, ZoneInv, InitController, FoundTable
  <1>5. TableInv'
    BY DEF Inv, TableInv, InitController
  <1> QED
    BY <1>1, <1>2, <1>3, <1>4, <1>5 DEF Inv

(* Controller.reset: without open queue pairs none is left that could be
   deleted; the memory of the table stays, for a device that is found. *)
LEMMA ResetKeepsInv ==
    ASSUME Inv, NEW found \in BOOLEAN, Reset(found)
    PROVE  Inv'
  <1>0. /\ attached \in Pcies
        /\ attached' \in {attached, None}
        /\ ~found => attached' = None /\ "device_lost" \in broken'
        /\ found => attached' = attached
        /\ broken \subseteq broken'
    BY DEF Inv, TypeInv, Reset, nvme_init
  <1>1. TypeInv'
    <2>1. resets' \in 0 .. MaxResets
      BY MaxResetsAssumption DEF Inv, TypeInv, Reset
    <2> QED
      BY <1>0, <2>1 DEF Inv, TypeInv, Reset, FreedQpairs
  <1>2. PcieInv'
    BY <1>0 DEF Inv, TypeInv, PcieInv, Reset
  <1>3. QpairInv'
    <2>1. \A a \in Addrs : owner'[a] = None
      BY DEF Reset, FreedQpairs
    <2>2. ASSUME "reset_with_qpairs" \notin broken'
          PROVE  /\ ~bad_free'
                 /\ \A q \in Qpairs : qp'[q].ptr # None =>
                                          ~Usable(qp[q].pcie)'
      <3>1. OpenQp(attached) = {}
        BY <2>2 DEF Reset
      <3> QED
        BY <1>0, <2>2, <3>1, NoneAssumption
        DEF Inv, TypeInv, QpairInv, Reset, OpenQp, Usable
    <2> QED
      BY <2>1, <2>2 DEF QpairInv, Reset
  <1>4. ZoneInv'
    BY DEF Inv, Reset, ZoneInv
  <1>5. TableInv'
    <2> SUFFICES ASSUME broken' \cap Rules = {}
                 PROVE  TableInv'
      BY DEF TableInv
    <2>1. found /\ broken \cap Rules = {}
      BY <1>0 DEF Rules
    <2> QED
      BY <1>0, <2>1 DEF Inv, TableInv, Reset
  <1> QED
    BY <1>1, <1>2, <1>3, <1>4, <1>5 DEF Inv

(* Pcie.close. *)
LEMMA ClosePcieKeepsInv ==
    ASSUME Inv, NEW p \in Pcies, ClosePcie(p)
    PROVE  Inv'
  <1>0. attached = None \/ attached = p
    BY DEF Inv, TypeInv, PcieInv, ClosePcie
  <1>1. TypeInv'
    BY DEF Inv, TypeInv, ClosePcie, FreedQpairs
  <1>2. PcieInv'
    BY NoneAssumption DEF Inv, TypeInv, PcieInv, ClosePcie
  <1>3. QpairInv'
    <2>1. \A a \in Addrs : owner'[a] = None
      BY <1>0 DEF Inv, QpairInv, ClosePcie, FreedQpairs
    <2>2. \A q \in Qpairs : ~Usable(qp[q].pcie)'
      BY NoneAssumption DEF Inv, TypeInv, ClosePcie, Usable
    <2>3. "reset_with_qpairs" \notin broken' => ~bad_free'
      BY DEF Inv, QpairInv, ClosePcie
    <2> QED
      BY <2>1, <2>2, <2>3 DEF QpairInv, ClosePcie
  <1>4. ZoneInv'
    BY DEF ClosePcie, ZoneInv
  <1>5. TableInv'
    <2> SUFFICES ASSUME broken' \cap Rules = {}
                 PROVE  TableInv'
      BY DEF TableInv
    <2>1. broken \cap Rules = {} /\ OpenNs(p) = {}
      BY DEF ClosePcie, Rules
    <2>2. ~zone /\ verify_on = {}
      BY <1>0, <2>1, NoneAssumption
      DEF Inv, TypeInv, TableInv, OpenNs
    <2> QED
      BY <2>1, <2>2 DEF Inv, TableInv, ClosePcie
  <1> QED
    BY <1>1, <1>2, <1>3, <1>4, <1>5 DEF Inv

(* Namespace.__cinit__: memory of a table that nobody has freed means that
   another Namespace is open. *)
LEMMA OpenNamespaceKeepsInv ==
    ASSUME Inv, NEW n \in Namespaces, NEW enough \in BOOLEAN,
           OpenNamespace(n, enough)
    PROVE  Inv'
  <1>0. attached \in Pcies /\ pcie[attached] = "open"
    BY DEF Inv, TypeInv, PcieInv, OpenNamespace
  <1>1. TypeInv'
    BY <1>0 DEF Inv, TypeInv, OpenNamespace, table
  <1>2. PcieInv'
    BY <1>0, NoneAssumption DEF Inv, TypeInv, PcieInv, OpenNamespace, table
  <1>3. QpairInv'
    <2>1. "reset_with_qpairs" \in broken' <=> "reset_with_qpairs" \in broken
      BY DEF OpenNamespace
    <2> QED
      BY <2>1 DEF Inv, QpairInv, OpenNamespace, Usable
  <1>4. ZoneInv'
    BY DEF Inv, TypeInv, ZoneInv, OpenNamespace, table
  <1>5. TableInv'
    <2> SUFFICES ASSUME broken' \cap Rules = {}
                 PROVE  TableInv'
      BY DEF TableInv
    <2>1. broken \cap Rules = {} /\ OpenNs(attached) = {}
      BY DEF OpenNamespace, Rules
    <2>2. ~zone /\ verify_on = {}
      BY <1>0, <2>1 DEF Inv, TypeInv, TableInv, OpenNs
    <2>3. ~crc_table
      BY <2>2 DEF Inv, ZoneInv
    <2>4. /\ ns' = [ns EXCEPT ![n] = attached] /\ UNCHANGED failed
          /\ attached' = attached /\ verify_on' = verify_on
      BY <2>3 DEF OpenNamespace
    <2>5. /\ ns'[n] = attached
          /\ \A m \in Namespaces : ns'[m] = attached => m = n
      BY <2>1, <2>4 DEF Inv, TypeInv, OpenNs
    <2> QED
      BY <1>0, <2>1, <2>2, <2>4, <2>5, NoneAssumption
      DEF Inv, TableInv
  <1> QED
    BY <1>1, <1>2, <1>3, <1>4, <1>5 DEF Inv

(* Namespace.close. *)
LEMMA CloseNamespaceKeepsInv ==
    ASSUME Inv, NEW n \in Namespaces, CloseNamespace(n)
    PROVE  Inv'
  <1>1. TypeInv'
    BY DEF Inv, TypeInv, CloseNamespace, ZoneAfterFini, table
  <1>2. PcieInv'
    BY DEF Inv, TypeInv, PcieInv, CloseNamespace
  <1>3. QpairInv'
    <2>1. "reset_with_qpairs" \in broken' <=> "reset_with_qpairs" \in broken
      BY DEF CloseNamespace
    <2> QED
      BY <2>1 DEF Inv, QpairInv, CloseNamespace, Usable
  <1>4. ZoneInv'
    BY DEF Inv, TypeInv, ZoneInv, CloseNamespace, ZoneAfterFini, table
  <1>5. TableInv'
    <2> SUFFICES ASSUME broken' \cap Rules = {}
                 PROVE  TableInv'
      BY DEF TableInv
    <2>1. broken \cap Rules = {} /\ ~(Usable(ns[n]) /\ ~inited)
      BY DEF CloseNamespace, Rules
    <2>2. \A m \in Namespaces : ns'[m] = IF m = n THEN None ELSE ns[m]
      BY DEF Inv, TypeInv, CloseNamespace
    <2>3. CASE Usable(ns[n])
      <3>1. ~zone' /\ ns[n] = attached /\ attached # None
        BY <2>1, <2>3, NoneAssumption
        DEF CloseNamespace, ZoneAfterFini, Usable, Inv, TypeInv
      <3>2. verify_on' = {}
        BY <2>1, <3>1 DEF Inv, TypeInv, TableInv, CloseNamespace
      <3> QED
        BY <2>1, <2>2, <3>1, <3>2, NoneAssumption
        DEF Inv, TypeInv, TableInv, CloseNamespace
    <2>4. CASE ~Usable(ns[n])
      <3>1. ns[n] # attached
        BY <2>4 DEF CloseNamespace, Usable, Inv, TypeInv, PcieInv
      <3>2. UNCHANGED table /\ attached' = attached /\ failed' = failed
        BY <2>4 DEF CloseNamespace
      <3> QED
        BY <2>1, <2>2, <3>1, <3>2, NoneAssumption
        DEF Inv, TypeInv, TableInv, CloseNamespace, table
    <2> QED
      BY <2>3, <2>4
  <1> QED
    BY <1>1, <1>2, <1>3, <1>4, <1>5 DEF Inv

(* Namespace.verify_enable and Namespace.format. *)
LEMMA VerifyEnableKeepsInv ==
    ASSUME Inv, NEW n \in Namespaces, NEW enable \in BOOLEAN,
           VerifyEnable(n, enable)
    PROVE  Inv'
  <1>0. ns[n] = attached /\ zone
    BY DEF VerifyEnable, Usable, Inv, ZoneInv
  <1>1. TypeInv'
    BY DEF Inv, TypeInv, VerifyEnable, objects
  <1>2. PcieInv'
    BY DEF Inv, PcieInv, VerifyEnable, objects
  <1>3. QpairInv'
    BY DEF Inv, QpairInv, VerifyEnable, objects, Usable
  <1>4. ZoneInv'
    BY DEF Inv, ZoneInv, VerifyEnable, objects
  <1>5. TableInv'
    BY <1>0 DEF Inv, TypeInv, TableInv, VerifyEnable, objects
  <1> QED
    BY <1>1, <1>2, <1>3, <1>4, <1>5 DEF Inv

(* Namespace.format keeps the invariant. *)
LEMMA FormatKeepsInv ==
    ASSUME Inv, NEW n \in Namespaces, Format(n)
    PROVE  Inv'
  <1>1. TypeInv'
    BY DEF Inv, TypeInv, Format, EnabledAfterRefresh, objects
  <1>2. PcieInv'
    BY DEF Inv, PcieInv, Format, objects
  <1>3. QpairInv'
    BY DEF Inv, QpairInv, Format, objects, Usable
  <1>4. ZoneInv'
    BY DEF Inv, ZoneInv, Format, objects
  <1>5. TableInv'
    BY DEF Inv, TableInv, Format, EnabledAfterRefresh, objects
  <1> QED
    BY <1>1, <1>2, <1>3, <1>4, <1>5 DEF Inv

(* Qpair.__cinit__: the address is nobody's, so no other object has it. *)
LEMMA CreateQpairKeepsInv ==
    ASSUME Inv, NEW q \in Qpairs, CreateQpair(q)
    PROVE  Inv'
  <1> PICK a \in Addrs :
             /\ owner[a] = None
             /\ owner' = [owner EXCEPT ![a] = q]
             /\ qp' = [qp EXCEPT ![q] = [pcie |-> attached, ptr |-> a]]
    BY DEF CreateQpair
  <1>0. attached \in Pcies /\ pcie[attached] = "open"
    BY DEF Inv, TypeInv, PcieInv, CreateQpair
  <1>a. \A r \in Qpairs :
            qp'[r] = IF r = q THEN [pcie |-> attached, ptr |-> a] ELSE qp[r]
    BY DEF Inv, TypeInv
  <1>1. TypeInv'
    BY <1>0 DEF Inv, TypeInv, CreateQpair, table
  <1>2. PcieInv'
    BY <1>0, <1>a DEF Inv, TypeInv, PcieInv, CreateQpair
  <1>3. QpairInv'
    <2>1. attached' # None
      BY <1>0, NoneAssumption DEF CreateQpair
    <2>2. ASSUME NEW r \in Qpairs, "reset_with_qpairs" \notin broken,
                 qp'[r].ptr # None, Usable(qp'[r].pcie)
          PROVE  owner'[qp'[r].ptr] = r
      <3>1. CASE r = q
        BY <1>a, <3>1 DEF Inv, TypeInv
      <3>2. CASE r # q
        <4>1. owner[qp[r].ptr] = r /\ qp[r].ptr \in Addrs
          BY <1>a, <2>2, <3>2 DEF Inv, TypeInv, QpairInv
        <4>2. qp[r].ptr # a
          BY <4>1, NoneAssumption
        <4> QED
          BY <1>a, <3>2, <4>1, <4>2 DEF Inv, TypeInv
      <3> QED
        BY <3>1, <3>2
    <2> QED
      BY <2>1, <2>2 DEF Inv, QpairInv, CreateQpair, Usable
  <1>4. ZoneInv'
    BY DEF Inv, ZoneInv, CreateQpair, table
  <1>5. TableInv'
    BY DEF Inv, TableInv, CreateQpair, table
  <1> QED
    BY <1>1, <1>2, <1>3, <1>4, <1>5 DEF Inv

(* Qpair.delete: what it frees is the object's own, so no other object loses
   its queue pair. *)
LEMMA DeleteQpairKeepsInv ==
    ASSUME Inv, NEW q \in Qpairs, DeleteQpair(q)
    PROVE  Inv'
  <1>0. qp[q].ptr \in Addrs
    BY DEF Inv, TypeInv, DeleteQpair
  <1>a. \A r \in Qpairs : /\ qp'[r].pcie = qp[r].pcie
                          /\ qp'[r].ptr = IF r = q THEN None ELSE qp[r].ptr
    BY DEF Inv, TypeInv, DeleteQpair
  <1>1. TypeInv'
    <2>1. owner' \in [Addrs -> Qpairs \cup {None}] /\ bad_free' \in BOOLEAN
      BY <1>0 DEF Inv, TypeInv, DeleteQpair
    <2>2. qp' \in [Qpairs -> [pcie : Pcies \cup {None},
                              ptr : Addrs \cup {None}]]
      BY DEF Inv, TypeInv, DeleteQpair
    <2> QED
      BY <2>1, <2>2 DEF Inv, TypeInv, DeleteQpair, table
  <1>2. PcieInv'
    BY <1>a DEF Inv, TypeInv, PcieInv, DeleteQpair
  <1>3. QpairInv'
    <2>1. ASSUME attached' = None, NEW a \in Addrs
          PROVE  owner'[a] = None
      BY <1>0, <2>1 DEF Inv, TypeInv, QpairInv, DeleteQpair
    <2>2. ASSUME "reset_with_qpairs" \notin broken
          PROVE  ~bad_free'
      BY <2>2 DEF Inv, QpairInv, DeleteQpair
    <2>3. ASSUME NEW r \in Qpairs, "reset_with_qpairs" \notin broken,
                 qp'[r].ptr # None, Usable(qp'[r].pcie)
          PROVE  owner'[qp'[r].ptr] = r
      <3>1. r # q /\ qp[r].ptr \in Addrs /\ qp'[r].ptr = qp[r].ptr
        BY <1>a, <2>3 DEF Inv, TypeInv
      <3>2. owner[qp[r].ptr] = r
        BY <1>a, <2>3, <3>1 DEF Inv, QpairInv
      <3>3. CASE Usable(qp[q].pcie)
        <4>1. owner[qp[q].ptr] = q
          BY <2>3, <3>3 DEF Inv, QpairInv, DeleteQpair
        <4>2. qp[r].ptr # qp[q].ptr
          BY <3>1, <3>2, <4>1
        <4> QED
          BY <1>0, <3>1, <3>2, <3>3, <4>2 DEF Inv, TypeInv, DeleteQpair
      <3>4. CASE ~Usable(qp[q].pcie)
        BY <3>1, <3>2, <3>4 DEF DeleteQpair
      <3> QED
        BY <3>3, <3>4
    <2> QED
      BY <2>1, <2>2, <2>3 DEF QpairInv, DeleteQpair, Usable
  <1>4. ZoneInv'
    BY DEF Inv, ZoneInv, DeleteQpair, table
  <1>5. TableInv'
    BY DEF Inv, TableInv, DeleteQpair, table
  <1> QED
    BY <1>1, <1>2, <1>3, <1>4, <1>5 DEF Inv

-----------------------------------------------------------------------------
(* Every call of a script preserves the invariant. *)
LEMMA NextKeepsInv == Inv /\ [Next]_vars => Inv'
  <1> SUFFICES ASSUME Inv, [Next]_vars PROVE Inv'
    OBVIOUS
  <1>1. CASE UNCHANGED vars
    <2>1. TypeInv' /\ PcieInv' /\ ZoneInv' /\ TableInv'
      BY <1>1 DEF Inv, TypeInv, PcieInv, ZoneInv, TableInv, vars, objects, table
    <2>2. QpairInv'
      BY <1>1 DEF Inv, QpairInv, Usable, vars, objects, table
    <2> QED
      BY <2>1, <2>2 DEF Inv
  <1>2. CASE InitController
    BY <1>2, InitControllerKeepsInv
  <1>3. CASE \E p \in Pcies : OpenPcie(p) \/ ClosePcie(p)
    BY <1>3, OpenPcieKeepsInv, ClosePcieKeepsInv
  <1>4. CASE \E found \in BOOLEAN : Reset(found)
    BY <1>4, ResetKeepsInv
  <1>5. ASSUME NEW n \in Namespaces,
               \/ \E enough \in BOOLEAN : OpenNamespace(n, enough)
               \/ CloseNamespace(n)
               \/ \E on \in BOOLEAN : VerifyEnable(n, on)
               \/ Format(n)
        PROVE  Inv'
    BY <1>5, OpenNamespaceKeepsInv, CloseNamespaceKeepsInv,
       VerifyEnableKeepsInv, FormatKeepsInv
  <1>6. CASE \E q \in Qpairs : CreateQpair(q) \/ DeleteQpair(q)
    BY <1>6, CreateQpairKeepsInv, DeleteQpairKeepsInv
  <1> QED
    BY <1>1, <1>2, <1>3, <1>4, <1>5, <1>6 DEF Next

(* The invariant of the objects and of what the driver keeps for them holds in
   every behaviour of a script. *)
THEOREM InvAlways == Spec => []Inv
  BY InitInv, NextKeepsInv, PTL DEF Spec

(* Qpair.delete never gives qpair_free a pointer that is not the object's own,
   live queue pair, for a script that deletes its queue pairs before a reset,
   however many objects it has and in whatever order it closes them. *)
THEOREM FreesOwn == Spec => []FreesOwnQpair
  <1>1. Inv => FreesOwnQpair
    BY DEF Inv, QpairInv, FreesOwnQpair
  <1> QED
    BY <1>1, InvAlways, PTL

(* Without a controller (Pcie.close, or a reset that does not find the device)
   no queue pair is left, and no checksum memory unless a rule was broken; the
   assert of ns_table_init fails for no other reason. *)
THEOREM LeavesNothing == Spec => []NothingLeft
  <1>1. Inv => TypeOK
    BY DEF Inv, TypeInv, ZoneInv, TypeOK
  <1>2. Inv => (attached = None => \A a \in Addrs : owner[a] = None)
    BY DEF Inv, QpairInv
  <1>3. Inv => (failed \/ (attached = None /\ zone) => broken \cap Rules # {})
    BY DEF Inv, TableInv
  <1>4. Inv => NothingLeft
    BY <1>1, <1>2, <1>3 DEF NothingLeft, Rules
  <1> QED
    BY <1>4, InvAlways, PTL

(* Verification that a script has enabled stays enabled while its Namespace is
   open, over any number of resets and formats. *)
THEOREM KeepsVerification == Spec => []VerificationKept
  <1>1. Inv => VerificationKept
    <2> SUFFICES ASSUME Inv, NEW n \in verify_on, inited,
                        broken \subseteq {"reset_with_qpairs"}
                 PROVE  crc_table /\ enabled
      BY DEF VerificationKept
    <2>1. broken \cap Rules = {}
      BY DEF Rules
    <2>2. zone /\ enabled
      BY <2>1 DEF Inv, TableInv
    <2> QED
      BY <2>2 DEF Inv, ZoneInv
  <1> QED
    BY <1>1, InvAlways, PTL

-----------------------------------------------------------------------------
(* What a fixture yields. *)
Fixture ==
    [name : {"pcie"}, object : Pcies]
    \cup [name : {"nvme0n1"}, object : Namespaces]
    \cup [name : {"qpair"}, object : Qpairs]
    \cup [name : {"nvme0", "verify"}, object : {None}]

MadeInv == made \in Seq(Fixture)

(* The fixtures of a test yield objects of their own kinds. *)
LEMMA MadeKept == MadeInv /\ [FNext]_<<vars, fixvars>> => MadeInv'
  <1> SUFFICES ASSUME MadeInv, FNext \/ UNCHANGED fixvars PROVE MadeInv'
    OBVIOUS
  <1>1. CASE made' = made
    BY <1>1 DEF MadeInv
  <1>2. CASE SetUpNext
    <2>1. PICK name, o : /\ SetUp(name, o)
                         /\ made' = Append(made, [name |-> name, object |-> o])
      BY <1>2 DEF SetUpNext
    <2>2. [name |-> name, object |-> o] \in Fixture
      BY <2>1 DEF SetUp, Fixture
    <2> QED
      BY <2>1, <2>2 DEF MadeInv
  <1>3. CASE FinishLast
    BY <1>3 DEF FinishLast, MadeInv
  <1> QED
    BY <1>1, <1>2, <1>3
    DEF FNext, Tests, fixvars, NextTest, SetUpRaises, RunTest, Body, BodyEnds,
        TestEnds

(* The set-up of a fixture is a call of Lifecycle, or none. *)
LEMMA SetUpIsCall ==
    ASSUME MadeInv, NEW name, NEW o, SetUp(name, o)
    PROVE  Next \/ UNCHANGED vars
  <1>1. CASE o \in Pcies /\ SetUpPcie(o)
    BY <1>1 DEF SetUpPcie, Next
  <1>2. CASE SetUpNvme0
    BY <1>2 DEF SetUpNvme0, Next
  <1>3. CASE o \in Namespaces /\ SetUpNamespace(o)
    BY <1>3 DEF SetUpNamespace, Next
  <1>4. CASE o \in Qpairs /\ SetUpQpair(o)
    BY <1>4 DEF SetUpQpair, Next
  <1>5. CASE SetUpVerify
    <2>1. ObjectsOf("nvme0n1") \subseteq Namespaces
      BY DEF MadeInv, Fixture, ObjectsOf
    <2> QED
      BY <1>5, <2>1 DEF SetUpVerify, Next
  <1> QED
    BY <1>1, <1>2, <1>3, <1>4, <1>5 DEF SetUp

(* So is what it does at the end of a test. *)
LEMMA FinishIsCall ==
    ASSUME NEW f \in Fixture, Finish(f)
    PROVE  Next \/ UNCHANGED vars
  <1>1. CASE f.name = "pcie" /\ FinishPcie(f.object)
    <2>1. f.object \in Pcies
      BY <1>1 DEF Fixture
    <2> QED
      BY <1>1, <2>1 DEF FinishPcie, Next
  <1>2. CASE f.name = "nvme0n1" /\ FinishNamespace(f.object)
    <2>1. f.object \in Namespaces
      BY <1>2 DEF Fixture
    <2> QED
      BY <1>2, <2>1 DEF FinishNamespace, Next
  <1>3. CASE f.name = "qpair" /\ FinishQpair(f.object)
    <2>1. f.object \in Qpairs
      BY <1>3 DEF Fixture
    <2> QED
      BY <1>3, <2>1 DEF FinishQpair, Next
  <1> QED
    BY <1>1, <1>2, <1>3 DEF Finish

(* And so is everything a test does itself. *)
LEMMA BodyIsCall ==
    ASSUME MadeInv, Body
    PROVE  Next
  <1>1. ObjectsOf("nvme0n1") \subseteq Namespaces
    BY DEF MadeInv, Fixture, ObjectsOf
  <1> QED
    BY <1>1 DEF Body, Next

(* What a test does are calls of the objects. *)
LEMMA StepIsCall == MadeInv /\ [FNext]_<<vars, fixvars>> => [Next]_vars
  <1> SUFFICES ASSUME MadeInv, FNext PROVE Next \/ UNCHANGED vars
    OBVIOUS
  <1>1. CASE SetUpNext
    BY <1>1, SetUpIsCall DEF SetUpNext
  <1>2. CASE FinishLast
    <2>1. made[Len(made)] \in Fixture
      BY <1>2 DEF FinishLast, MadeInv
    <2> QED
      BY <1>2, <2>1, FinishIsCall DEF FinishLast
  <1>3. CASE Body
    BY <1>3, BodyIsCall
  <1> QED
    BY <1>1, <1>2, <1>3
    DEF FNext, Tests, NextTest, SetUpRaises, RunTest, BodyEnds, TestEnds

(* Tests that take their objects from the fixtures of conftest.py are scripts
   as Lifecycle has them: each set-up, teardown and step of a test is one of
   its calls.  What is proved of a script therefore holds of them. *)
THEOREM TestsAreScripts == FSpec => Spec
  <1>1. FInit => Init /\ MadeInv
    BY DEF FInit, MadeInv
  <1> QED
    BY <1>1, MadeKept, StepIsCall, PTL DEF FSpec, Spec

(* In particular no teardown frees a stale queue pair, unless the test has
   reset the controller under it. *)
THEOREM TestsFreeOwn == FSpec => []FreesOwnQpair
  BY TestsAreScripts, FreesOwn, PTL

-----------------------------------------------------------------------------
(* The fixtures of a test as far as they are set up: none twice, each after
   those it needs; the open Pcie and Namespace are theirs, only an open
   Namespace has verification enabled, and no rule is broken but by a reset. *)
FixtureInv ==
    mode = "tests" =>
        /\ \A i, j \in 1 .. Len(made) : made[i].name = made[j].name => i = j
        /\ \A i \in 1 .. Len(made) : \A name \in Needs[made[i].name] :
               \E j \in 1 .. i - 1 : made[j].name = name
        /\ \A p \in Pcies : pcie[p] = "open" =>
               \E i \in 1 .. Len(made) : made[i].name = "pcie"
                                         /\ made[i].object = p
        /\ \A n \in Namespaces : ns[n] # None =>
               \E i \in 1 .. Len(made) : made[i].name = "nvme0n1"
                                         /\ made[i].object = n
        /\ phase = "between" => made = <<>>
        /\ \A n \in verify_on : ns[n] # None
        /\ broken \subseteq Unfinished \cup {"reset_with_qpairs"}

(* A step that makes and finishes no fixture, opens and closes no object. *)
LEMMA SameFixtures ==
    ASSUME FixtureInv, mode = "tests", made' = made, pcie' = pcie, ns' = ns,
           phase' = "between" => made = <<>>,
           \A n \in verify_on' : ns[n] # None,
           broken' \subseteq Unfinished \cup {"reset_with_qpairs"}
    PROVE  FixtureInv'
  <1>1. \A i, j \in 1 .. Len(made') : made'[i].name = made'[j].name => i = j
    <2>1. \A i, j \in 1 .. Len(made) : made[i].name = made[j].name => i = j
      BY DEF FixtureInv
    <2> QED
      BY <2>1
  <1>2. \A i \in 1 .. Len(made') : \A name \in Needs[made'[i].name] :
            \E j \in 1 .. i - 1 : made'[j].name = name
    <2>1. \A i \in 1 .. Len(made) : \A name \in Needs[made[i].name] :
              \E j \in 1 .. i - 1 : made[j].name = name
      BY DEF FixtureInv
    <2> QED
      BY <2>1
  <1>3. \A p \in Pcies : pcie'[p] = "open" =>
            \E i \in 1 .. Len(made') : made'[i].name = "pcie"
                                       /\ made'[i].object = p
    <2>1. \A p \in Pcies : pcie[p] = "open" =>
              \E i \in 1 .. Len(made) : made[i].name = "pcie"
                                         /\ made[i].object = p
      BY DEF FixtureInv
    <2> QED
      BY <2>1
  <1>4. \A n \in Namespaces : ns'[n] # None =>
            \E i \in 1 .. Len(made') : made'[i].name = "nvme0n1"
                                       /\ made'[i].object = n
    <2>1. \A n \in Namespaces : ns[n] # None =>
              \E i \in 1 .. Len(made) : made[i].name = "nvme0n1"
                                         /\ made[i].object = n
      BY DEF FixtureInv
    <2> QED
      BY <2>1
  <1>5. (phase' = "between" => made' = <<>>) /\ \A n \in verify_on' : ns'[n] # None
    OBVIOUS
  <1> QED
    BY <1>1, <1>2, <1>3, <1>4, <1>5, Zenon DEF FixtureInv

(* A test's own calls close and open nothing that a fixture has made. *)
LEMMA BodyKeepsFixtures ==
    ASSUME Inv, MadeInv, FixtureInv, mode = "tests", Body
    PROVE  FixtureInv'
  <1>0. UNCHANGED fixvars /\ ObjectsOf("nvme0n1") \subseteq Namespaces
    <2>1. UNCHANGED fixvars
      BY DEF Body
    <2>2. ObjectsOf("nvme0n1") \subseteq Namespaces
      BY DEF MadeInv, Fixture, ObjectsOf
    <2> QED
      BY <2>1, <2>2
  <1>1. pcie' = pcie /\ ns' = ns
    BY DEF Body, Reset, InitController, CreateQpair, Format, VerifyEnable,
           DeleteQpair, objects
  <1>2. broken' \subseteq Unfinished \cup {"reset_with_qpairs"}
    BY DEF FixtureInv, Body, Reset, InitController, CreateQpair, Format,
           VerifyEnable, DeleteQpair, Unfinished
  <1>3. \A n \in verify_on' : ns[n] # None
    BY <1>0 DEF FixtureInv, Body, Reset, InitController, CreateQpair, Format,
           VerifyEnable, DeleteQpair, Usable
  <1>4. made' = made /\ mode' = mode /\ phase' = phase
    BY <1>0 DEF fixvars
  <1> QED
    BY <1>1, <1>2, <1>3, <1>4, SameFixtures DEF FixtureInv

(* A set-up: the fixture is new, and what it needs is there. *)
LEMMA SetUpKeepsFixtures ==
    ASSUME Inv, MadeInv, FixtureInv, mode = "tests", SetUpNext
    PROVE  FixtureInv'
  <1>1. PICK name \in wanted \ SetUpNames,
              o \in Pcies \cup Namespaces \cup Qpairs \cup {None} :
               /\ Needs[name] \subseteq SetUpNames
               /\ SetUp(name, o)
               /\ made' = Append(made, [name |-> name, object |-> o])
    BY DEF SetUpNext
  <1>2. [name |-> name, object |-> o] \in Fixture
    BY <1>1 DEF SetUp, Fixture
  <1>3. /\ Len(made) \in Nat /\ Len(made') = Len(made) + 1
        /\ \A i \in 1 .. Len(made) : made'[i] = made[i]
        /\ made'[Len(made) + 1].name = name
        /\ made'[Len(made) + 1].object = o
    BY <1>1, <1>2 DEF MadeInv
  <1>4. /\ \A i \in 1 .. Len(made) : made[i].name # name
        /\ \A m \in Needs[name] : \E j \in 1 .. Len(made) : made[j].name = m
    BY <1>1 DEF SetUpNames, MadeInv
  <1>5. UNCHANGED <<mode, phase, wanted>> /\ phase = "setup"
    BY DEF SetUpNext
  <1>6. \A i, j \in 1 .. Len(made') : made'[i].name = made'[j].name => i = j
    BY <1>3, <1>4 DEF FixtureInv
  <1>7. \A i \in 1 .. Len(made') : \A m \in Needs[made'[i].name] :
            \E j \in 1 .. i - 1 : made'[j].name = m
    <2> SUFFICES ASSUME NEW i \in 1 .. Len(made'),
                        NEW m \in Needs[made'[i].name]
                 PROVE  \E j \in 1 .. i - 1 : made'[j].name = m
      OBVIOUS
    <2>1. CASE i \in 1 .. Len(made)
      <3>1. PICK j \in 1 .. i - 1 : made[j].name = m
        BY <1>3, <2>1 DEF FixtureInv
      <3> QED
        BY <1>3, <2>1, <3>1
    <2>2. CASE i = Len(made) + 1
      <3>1. PICK j \in 1 .. Len(made) : made[j].name = m
        BY <1>3, <1>4, <2>2
      <3> QED
        BY <1>3, <2>2, <3>1
    <2> QED
      BY <1>3, <2>1, <2>2
  <1>a. /\ \A n \in verify_on : ns[n] # None
        /\ broken \subseteq Unfinished \cup {"reset_with_qpairs"}
    BY DEF FixtureInv
  <1>b. \A p \in Pcies : pcie[p] = "open" =>
            \E i \in 1 .. Len(made) : made[i].name = "pcie"
                                      /\ made[i].object = p
    BY DEF FixtureInv
  <1>c. \A n \in Namespaces : ns[n] # None =>
            \E i \in 1 .. Len(made) : made[i].name = "nvme0n1"
                                      /\ made[i].object = n
    BY DEF FixtureInv
  <1>8. /\ \A p \in Pcies : pcie'[p] = "open" =>
               pcie[p] = "open" \/ (name = "pcie" /\ o = p)
        /\ \A n \in Namespaces : ns'[n] # None =>
               ns[n] # None \/ (name = "nvme0n1" /\ o = n)
        /\ \A n \in verify_on' : ns'[n] # None
        /\ broken' \subseteq Unfinished \cup {"reset_with_qpairs"}
    <2>1. CASE name = "pcie" /\ o \in Pcies /\ OpenPcie(o)
      BY <1>a, <2>1 DEF OpenPcie, Inv, TypeInv
    <2>2. CASE InitController
      BY <1>a, <2>2 DEF InitController
    <2>3. CASE name = "nvme0n1" /\ o \in Namespaces
               /\ \E enough \in BOOLEAN : OpenNamespace(o, enough)
      <3>1. \A n \in Namespaces : ns[n] = None
        BY <1>4, <1>c, <2>3
      <3>2. attached # None
        BY <2>3 DEF OpenNamespace, Inv, PcieInv
      <3>3. OpenNs(attached) = {}
        BY <3>1, <3>2 DEF OpenNs
      <3>4. /\ broken' = broken /\ pcie' = pcie /\ verify_on' = verify_on
            /\ ns' = ns \/ ns' = [ns EXCEPT ![o] = attached]
        BY <2>3, <3>3 DEF OpenNamespace
      <3> QED
        BY <1>a, <2>3, <3>1, <3>4 DEF Inv, TypeInv
    <2>4. CASE o \in Qpairs /\ CreateQpair(o)
      BY <1>a, <2>4 DEF CreateQpair
    <2>5. CASE SetUpVerify
      <3>1. CASE \E n \in ObjectsOf("nvme0n1") : VerifyEnable(n, TRUE)
        <4>1. PICK n \in ObjectsOf("nvme0n1") : VerifyEnable(n, TRUE)
          BY <3>1
        <4>2. /\ pcie' = pcie /\ ns' = ns /\ broken' = broken
              /\ verify_on' = verify_on \cup {n}
          BY <4>1 DEF VerifyEnable, objects
        <4>3. ns[n] # None
          BY <4>1 DEF VerifyEnable, Usable
        <4> QED
          BY <1>a, <4>2, <4>3
      <3>2. CASE UNCHANGED vars
        BY <1>a, <3>2 DEF vars, objects
      <3> QED
        BY <2>5, <3>1, <3>2 DEF SetUpVerify
    <2> QED
      BY <1>1, <2>1, <2>2, <2>3, <2>4, <2>5
      DEF SetUp, SetUpPcie, SetUpNvme0, SetUpNamespace, SetUpQpair
  <1>9. \A p \in Pcies : pcie'[p] = "open" =>
            \E i \in 1 .. Len(made') : made'[i].name = "pcie"
                                       /\ made'[i].object = p
    <2> SUFFICES ASSUME NEW p \in Pcies, pcie'[p] = "open"
                 PROVE  \E i \in 1 .. Len(made') : made'[i].name = "pcie"
                                                   /\ made'[i].object = p
      OBVIOUS
    <2>1. CASE name = "pcie" /\ o = p
      BY <1>3, <2>1
    <2>2. CASE pcie[p] = "open"
      <3>1. PICK i \in 1 .. Len(made) : made[i].name = "pcie"
                                        /\ made[i].object = p
        BY <1>b, <2>2
      <3> QED
        BY <1>3, <3>1
    <2> QED
      BY <1>8, <2>1, <2>2
  <1>10. \A n \in Namespaces : ns'[n] # None =>
             \E i \in 1 .. Len(made') : made'[i].name = "nvme0n1"
                                        /\ made'[i].object = n
    <2> SUFFICES ASSUME NEW n \in Namespaces, ns'[n] # None
                 PROVE  \E i \in 1 .. Len(made') : made'[i].name = "nvme0n1"
                                                   /\ made'[i].object = n
      OBVIOUS
    <2>1. CASE name = "nvme0n1" /\ o = n
      BY <1>3, <2>1
    <2>2. CASE ns[n] # None
      <3>1. PICK i \in 1 .. Len(made) : made[i].name = "nvme0n1"
                                        /\ made[i].object = n
        BY <1>c, <2>2
      <3> QED
        BY <1>3, <3>1
    <2> QED
      BY <1>8, <2>1, <2>2
  <1> QED
    BY <1>5, <1>6, <1>7, <1>8, <1>9, <1>10 DEF FixtureInv

(* Without its last element a sequence is one shorter. *)
LEMMA FrontLength ==
    ASSUME NEW S, NEW s \in Seq(S), s # <<>>
    PROVE  Len(SubSeq(s, 1, Len(s) - 1)) = Len(s) - 1
  <1> DEFINE n == Len(s) - 1
             t == [i \in 1 .. n |-> s[i]]
  <1>1. n \in Nat /\ n + 1 = Len(s)
    OBVIOUS
  <1>2. SubSeq(s, 1, n) = t
    BY <1>1
  <1>3. t \in Seq(S) /\ DOMAIN t = 1 .. n
    <2>1. t \in [1 .. n -> S]
      BY <1>1
    <2> QED
      BY <1>1, <2>1
  <1>4. Len(t) = n
    <2> HIDE DEF n, t
    <2> QED
      BY <1>1, <1>3
  <1> QED
    BY <1>1, <1>2, <1>4

(* A finalizer: the fixture that is last goes, and nothing made before it
   needs it; a Pcie is the last only when its Namespace is gone. *)
LEMMA FinishKeepsFixtures ==
    ASSUME Inv, MadeInv, FixtureInv, mode = "tests", FinishLast
    PROVE  FixtureInv'
  <1> DEFINE f == made[Len(made)]
  <1>1. /\ Len(made) \in Nat \ {0} /\ Len(made') = Len(made) - 1
        /\ \A i \in 1 .. Len(made') : made'[i] = made[i]
        /\ f \in Fixture
    <2>1. made \in Seq(Fixture) /\ made # <<>>
      BY DEF FinishLast, MadeInv
    <2>2. Len(made) \in Nat \ {0} /\ f \in Fixture
      BY <2>1
    <2>3. made' = SubSeq(made, 1, Len(made) - 1)
      BY DEF FinishLast
    <2> HIDE DEF f
    <2>4. made' = [i \in 1 .. Len(made) - 1 |-> made[i]]
      BY <2>1, <2>2, <2>3
    <2>5. Len(made') = Len(made) - 1
      BY <2>1, <2>3, FrontLength
    <2> QED
      BY <2>2, <2>4, <2>5
  <1>0. \A i \in 1 .. Len(made) : \A m \in Needs[made[i].name] :
            \E j \in 1 .. i - 1 : made[j].name = m
    BY DEF FixtureInv
  <1>2. \A i \in 1 .. Len(made) : i \in 1 .. Len(made') \/ made[i] = f
    BY <1>1
  <1>3. UNCHANGED <<mode, phase, wanted>> /\ phase = "teardown" /\ Finish(f)
    BY DEF FinishLast
  <1>4. \A i, j \in 1 .. Len(made') : made'[i].name = made'[j].name => i = j
    BY <1>1 DEF FixtureInv
  <1>5. \A i \in 1 .. Len(made') : \A m \in Needs[made'[i].name] :
            \E j \in 1 .. i - 1 : made'[j].name = m
    <2> SUFFICES ASSUME NEW i \in 1 .. Len(made'),
                        NEW m \in Needs[made'[i].name]
                 PROVE  \E j \in 1 .. i - 1 : made'[j].name = m
      OBVIOUS
    <2>1. i \in 1 .. Len(made) /\ made'[i] = made[i]
      BY <1>1
    <2>2. PICK j \in 1 .. i - 1 : made[j].name = m
      BY <1>0, <2>1
    <2> QED
      BY <1>1, <2>1, <2>2
  <1>6. f.name = "pcie" => \A n \in Namespaces : ns[n] = None
    <2> SUFFICES ASSUME f.name = "pcie", NEW n \in Namespaces, ns[n] # None
                 PROVE  FALSE
      OBVIOUS
    <2>1. PICK i \in 1 .. Len(made) : made[i].name = "nvme0n1"
      BY DEF FixtureInv
    <2>2. "nvme0" \in Needs["nvme0n1"] /\ "pcie" \in Needs["nvme0"]
      BY DEF Needs
    <2>3. PICK j \in 1 .. i - 1 : made[j].name = "nvme0"
      BY <1>0, <2>1, <2>2
    <2>4. j \in 1 .. Len(made)
      BY <1>1, <2>3
    <2>5. PICK k \in 1 .. j - 1 : made[k].name = "pcie"
      BY <1>0, <2>2, <2>3, <2>4
    <2>6. k \in 1 .. Len(made) /\ Len(made) \in 1 .. Len(made) /\ k # Len(made)
      BY <1>1, <2>4, <2>5
    <2> QED
      BY <2>5, <2>6 DEF FixtureInv
  <1>a. /\ \A n \in verify_on : ns[n] # None
        /\ broken \subseteq Unfinished \cup {"reset_with_qpairs"}
    BY DEF FixtureInv
  <1>7. /\ \A p \in Pcies : pcie'[p] = "open" =>
               pcie[p] = "open" /\ ~(f.name = "pcie" /\ f.object = p)
        /\ \A n \in Namespaces : ns'[n] # None =>
               ns[n] # None /\ ~(f.name = "nvme0n1" /\ f.object = n)
        /\ \A n \in verify_on' : ns'[n] # None
        /\ broken' \subseteq Unfinished \cup {"reset_with_qpairs"}
    <2>1. CASE f.name = "pcie" /\ FinishPcie(f.object)
      <3>1. f.object \in Pcies
        BY <1>1, <2>1 DEF Fixture
      <3>2. OpenNs(f.object) = {}
        BY <1>6, <2>1, <3>1, NoneAssumption DEF OpenNs
      <3> QED
        BY <1>a, <2>1, <3>1, <3>2 DEF FinishPcie, ClosePcie, Inv, TypeInv
    <2>2. CASE f.name = "nvme0n1" /\ FinishNamespace(f.object)
      <3>1. f.object \in Namespaces
        BY <1>1, <2>2 DEF Fixture
      <3> QED
        BY <1>a, <2>2, <3>1 DEF FinishNamespace, CloseNamespace, Inv, TypeInv,
                                Unfinished
    <2>3. CASE f.name = "qpair" /\ FinishQpair(f.object)
      BY <1>a, <2>3 DEF FinishQpair, DeleteQpair, vars, objects
    <2>4. CASE f.name \in {"nvme0", "verify"} /\ UNCHANGED vars
      BY <1>a, <2>4 DEF vars, objects
    <2> QED
      BY <1>3, <2>1, <2>2, <2>3, <2>4 DEF Finish
  <1>8. \A p \in Pcies : pcie'[p] = "open" =>
            \E i \in 1 .. Len(made') : made'[i].name = "pcie"
                                       /\ made'[i].object = p
    BY <1>1, <1>2, <1>7 DEF FixtureInv
  <1>9. \A n \in Namespaces : ns'[n] # None =>
            \E i \in 1 .. Len(made') : made'[i].name = "nvme0n1"
                                       /\ made'[i].object = n
    BY <1>1, <1>2, <1>7 DEF FixtureInv
  <1> QED
    BY <1>3, <1>4, <1>5, <1>7, <1>8, <1>9 DEF FixtureInv

(* Every step of a test keeps the invariant of the fixtures. *)
LEMMA StepKeepsFixtures ==
    Inv /\ MadeInv /\ FixtureInv /\ [FNext]_<<vars, fixvars>> => FixtureInv'
  <1> SUFFICES ASSUME Inv, MadeInv, FixtureInv, [FNext]_<<vars, fixvars>>
               PROVE  FixtureInv'
    OBVIOUS
  <1>1. CASE UNCHANGED <<vars, fixvars>>
    BY <1>1 DEF FixtureInv, vars, objects, fixvars
  <1>2. CASE mode = "script" /\ UNCHANGED fixvars
    BY <1>2 DEF FixtureInv, fixvars
  <1>3. CASE mode = "tests" /\ UNCHANGED <<vars, mode, made>>
             /\ (phase' = "between" => made = <<>>)
    <2>1. /\ made' = made /\ pcie' = pcie /\ ns' = ns /\ broken' = broken
          /\ verify_on' = verify_on
      BY <1>3 DEF vars, objects
    <2>2. /\ \A n \in verify_on' : ns[n] # None
          /\ broken' \subseteq Unfinished \cup {"reset_with_qpairs"}
      BY <1>3, <2>1 DEF FixtureInv
    <2> QED
      BY <1>3, <2>1, <2>2, SameFixtures
  <1>4. CASE mode = "tests" /\ SetUpNext
    BY <1>4, SetUpKeepsFixtures
  <1>5. CASE mode = "tests" /\ Body
    BY <1>5, BodyKeepsFixtures
  <1>6. CASE mode = "tests" /\ FinishLast
    BY <1>6, FinishKeepsFixtures
  <1> QED
    BY <1>1, <1>2, <1>3, <1>4, <1>5, <1>6
    DEF FNext, Tests, NextTest, SetUpRaises, RunTest, BodyEnds, TestEnds

(* Whatever a test does with its fixtures and wherever it raises, they close in
   the order the driver needs, and the next test starts without a controller,
   a queue pair, a Namespace or a checksum table; the memory of a table stays
   only after a reset that was not brought to its end. *)
THEOREM TestsIndependent == FSpec => []TestsAreIndependent
  <1>1. FInit => MadeInv /\ FixtureInv
    BY DEF FInit, Init, MadeInv, FixtureInv
  <1>2. FSpec => []Inv
    BY TestsAreScripts, InvAlways, PTL
  <1>3. FSpec => []NothingLeft
    BY TestsAreScripts, LeavesNothing, PTL
  <1>4. Inv /\ FixtureInv /\ NothingLeft => TestsAreIndependent
    <2> SUFFICES ASSUME Inv, FixtureInv, NothingLeft, mode = "tests",
                        phase = "between"
                 PROVE  /\ attached = None /\ verify_on = {}
                        /\ \A p \in Pcies : pcie[p] # "open"
                        /\ \A n \in Namespaces : ns[n] = None
                        /\ zone => broken \cap Unfinished # {}
      BY DEF TestsAreIndependent, FixtureInv
    <2>1. 1 .. Len(made) = {}
      BY DEF FixtureInv
    <2>2. /\ \A p \in Pcies : pcie[p] # "open"
          /\ \A n \in Namespaces : ns[n] = None
      BY <2>1 DEF FixtureInv
    <2>3. attached = None
      BY <2>2 DEF Inv, TypeInv, PcieInv
    <2>4. verify_on = {}
      BY <2>2 DEF Inv, TypeInv, FixtureInv
    <2>5. zone => broken \cap Unfinished # {}
      BY <2>3 DEF NothingLeft, FixtureInv, Unfinished
    <2> QED
      BY <2>2, <2>3, <2>4, <2>5
  <1> QED
    BY <1>1, <1>2, <1>3, <1>4, MadeKept, StepKeepsFixtures, PTL DEF FSpec
=============================================================================
