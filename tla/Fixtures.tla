------------------------------ MODULE Fixtures ------------------------------
(***************************************************************************)
(* Tests that get their objects from the fixtures of conftest.py, one test *)
(* after the other in one process, on top of module Lifecycle.  pytest is  *)
(* external: it sets up what a test asks for, each fixture after those it  *)
(* takes as parameters, runs the test, and finishes the fixtures in the    *)
(* opposite order, also when a set-up or the test has raised.              *)
(***************************************************************************)
EXTENDS Lifecycle, Sequences

VARIABLES mode,    \* "script": calls in any order; "tests": with fixtures
          phase,   \* of the tests: "between", "setup", "body" or "teardown"
          wanted,  \* fixtures the test asks for, with those they need
          made     \* fixtures set up, in order: [name, object]

fixvars == <<mode, phase, wanted, made>>

(* The parameters of the fixtures. *)
Needs == [pcie |-> {}, nvme0 |-> {"pcie"}, nvme0n1 |-> {"nvme0"},
          qpair |-> {"nvme0"}, verify |-> {"nvme0n1"}]

Names == DOMAIN Needs

SetUpNames == {made[i].name : i \in DOMAIN made}

ObjectsOf(name) == {made[i].object : i \in {j \in DOMAIN made :
                                               made[j].name = name}}

FInit ==
    /\ Init
    /\ mode \in {"script", "tests"}
    /\ phase = "between" /\ wanted = {} /\ made = <<>>

-----------------------------------------------------------------------------
(* What a fixture does before its yield; o is the object it yields. *)
SetUpPcie(o) == OpenPcie(o)

SetUpNvme0 == InitController

SetUpNamespace(o) == \E enough \in BOOLEAN : OpenNamespace(o, enough)

SetUpQpair(o) == CreateQpair(o)

SetUpVerify == IF crc_table
               THEN \E n \in ObjectsOf("nvme0n1") : VerifyEnable(n, TRUE)
               ELSE Live /\ UNCHANGED vars

SetUp(name, o) ==
    \/ name = "pcie" /\ o \in Pcies /\ SetUpPcie(o)
    \/ name = "nvme0" /\ o = None /\ SetUpNvme0
    \/ name = "nvme0n1" /\ o \in Namespaces /\ SetUpNamespace(o)
    \/ name = "qpair" /\ o \in Qpairs /\ SetUpQpair(o)
    \/ name = "verify" /\ o = None /\ SetUpVerify

(* And after it.  nvme0 and verify do nothing. *)
FinishPcie(o) == ClosePcie(o)

MutFinishNamespace_Not(o) == Live /\ UNCHANGED vars

FinishNamespace(o) == CloseNamespace(o)

(* Qpair.delete of a queue pair the test has deleted itself does nothing. *)
FinishQpair(o) == IF qp[o].ptr # None THEN DeleteQpair(o)
                                      ELSE Live /\ UNCHANGED vars

Finish(f) ==
    \/ f.name = "pcie" /\ FinishPcie(f.object)
    \/ f.name = "nvme0n1" /\ FinishNamespace(f.object)
    \/ f.name = "qpair" /\ FinishQpair(f.object)
    \/ f.name \in {"nvme0", "verify"} /\ Live /\ UNCHANGED vars

-----------------------------------------------------------------------------
(* pytest. *)
NextTest(names) ==
    /\ phase = "between" /\ phase' = "setup"
    /\ \A name \in names : Needs[name] \subseteq names
    /\ wanted' = names
    /\ UNCHANGED <<vars, mode, made>>

SetUpNext ==
    /\ phase = "setup"
    /\ \E name \in wanted \ SetUpNames :
         /\ Needs[name] \subseteq SetUpNames
         /\ \E o \in Pcies \cup Namespaces \cup Qpairs \cup {None} :
              /\ SetUp(name, o)
              /\ made' = Append(made, [name |-> name, object |-> o])
    /\ UNCHANGED <<mode, phase, wanted>>

(* A set-up raises: no device, no answer, no memory, no queue. *)
SetUpRaises ==
    /\ phase = "setup" /\ SetUpNames # wanted /\ phase' = "teardown"
    /\ UNCHANGED <<vars, mode, wanted, made>>

RunTest ==
    /\ phase = "setup" /\ SetUpNames = wanted /\ phase' = "body"
    /\ UNCHANGED <<vars, mode, wanted, made>>

(* What a test does with its fixtures, and with queue pairs of its own, which
   may be collected as late as in a later test. *)
Body ==
    /\ phase = "body"
    /\ \/ "nvme0" \in wanted
          /\ \/ \E found \in BOOLEAN : Reset(found)
             \/ InitController
             \/ \E q \in Qpairs \ ObjectsOf("qpair") : CreateQpair(q)
       \/ \E n \in ObjectsOf("nvme0n1") :
             Format(n) \/ \E on \in BOOLEAN : VerifyEnable(n, on)
       \/ \E q \in Qpairs : DeleteQpair(q)
    /\ UNCHANGED fixvars

(* The test returns or raises. *)
BodyEnds ==
    /\ phase = "body" /\ phase' = "teardown"
    /\ UNCHANGED <<vars, mode, wanted, made>>

FinishLast ==
    /\ phase = "teardown" /\ made # <<>>
    /\ Finish(made[Len(made)])
    /\ made' = SubSeq(made, 1, Len(made) - 1)
    /\ UNCHANGED <<mode, phase, wanted>>

TestEnds ==
    /\ phase = "teardown" /\ made = <<>>
    /\ phase' = "between" /\ wanted' = {}
    /\ UNCHANGED <<vars, mode, made>>

Tests == \/ (\E names \in SUBSET Names : NextTest(names))
         \/ SetUpNext \/ SetUpRaises \/ RunTest \/ Body \/ BodyEnds
         \/ FinishLast \/ TestEnds

FNext == \/ mode = "script" /\ Next /\ UNCHANGED fixvars
         \/ mode = "tests" /\ Tests

FSpec == FInit /\ [][FNext]_<<vars, fixvars>>

-----------------------------------------------------------------------------
(* What a reset does that is not brought to its end. *)
Unfinished == {"device_lost", "closed_uninitialised"}

(* NothingLeft for any script; and tests with fixtures do not depend on each
   other: whatever a test does with its objects, and wherever a set-up or the
   test raises, the fixtures close in the order the driver needs, and between
   two tests there is no controller, no queue pair, no Namespace and no
   checksum table.  The exceptions are the resets that are not brought to
   their end: the memory of the table then stays. *)
TestsAreIndependent ==
    /\ NothingLeft
    /\ mode = "tests" => broken \subseteq Unfinished \cup {"reset_with_qpairs"}
    /\ mode = "tests" /\ phase = "between" =>
           /\ attached = None /\ verify_on = {}
           /\ \A p \in Pcies : pcie[p] # "open"
           /\ \A n \in Namespaces : ns[n] = None
           /\ zone => broken \cap Unfinished # {}
=============================================================================
