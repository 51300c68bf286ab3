---------------------------- MODULE WorkerProcess ----------------------------
(***************************************************************************)
(* The processes around an ioworker (src/driver_wrap.pyx): the script's    *)
(* process starts worker processes, collects their results and resets the  *)
(* device (controller, PCIe or subsystem reset, power cycle), for which    *)
(* _driver_cleanup asks all workers to terminate.  A worker attaches to    *)
(* the controller as a secondary process and detaches under a lock, and    *)
(* returns its result through a queue.                                     *)
(*                                                                         *)
(* IOWorker models what happens inside ioworker_entry; here it only ends.  *)
(***************************************************************************)
EXTENDS Integers, Sequences

CONSTANTS Workers,   \* _IOWorker objects, each with a process of its own
          RETRY      \* retries of _driver_cleanup (100 in the code)

ASSUME RetryAssumption == RETRY \in Nat \ {0}

NoOne == "none"

ASSUME WorkersAssumption == NoOne \notin Workers

STARTED == 1   \* the first item of a queue; every other one is an error code

VARIABLES parent,    \* what the script's process is doing
          subject,   \* the worker it is starting or closing
          retry,
          pc,        \* per worker: where its process is
          error,     \* per worker
          q,         \* per worker: the queue for returning the result
          locker,    \* the namespace's lock: who holds it
          attached,  \* workers that are secondary processes of the controller
          term,      \* DCFG_IOW_TERM in the driver's shared configuration
          timed_out  \* some _driver_cleanup has raised TimeoutError

vars == <<parent, subject, retry, pc, error, q, locker, attached, term,
          timed_out>>

script == <<parent, subject, retry, timed_out>>

Init ==
    /\ parent = "idle" /\ subject = NoOne /\ retry = 0
    /\ pc = [w \in Workers |-> "new"]
    /\ error = [w \in Workers |-> 0]
    /\ q = [w \in Workers |-> <<>>]
    /\ locker = NoOne /\ attached = {}
    /\ term = FALSE /\ timed_out = FALSE

Goto(w, label) == pc' = [pc EXCEPT ![w] = label]
Put(w, item) == q' = [q EXCEPT ![w] = Append(@, item)]
Get(w) == q' = [q EXCEPT ![w] = Tail(@)]

-----------------------------------------------------------------------------
(* start(): the process, then the first item of the queue. *)
MutStart_NoWait(w) ==
    /\ parent = "idle" /\ pc[w] = "new"
    /\ Goto(w, "init")
    /\ UNCHANGED <<script, error, q, locker, attached, term>>

Start(w) ==
    /\ parent = "idle" /\ pc[w] = "new"
    /\ Goto(w, "init")
    /\ parent' = "starting" /\ subject' = w
    /\ UNCHANGED <<retry, timed_out, error, q, locker, attached, term>>

(* An item other than STARTED is the result: it goes back to the queue. *)
FinishStart ==
    /\ parent = "starting" /\ q[subject] # <<>>
    /\ parent' = "idle" /\ subject' = NoOne
    /\ q' = [q EXCEPT ![subject] =
                 IF Head(@) = STARTED THEN Tail(@)
                                      ELSE Append(Tail(@), Head(@))]
    /\ UNCHANGED <<retry, timed_out, pc, error, locker, attached, term>>

(* close(): the result is taken out of the queue, then the process joined. *)
MutClose_JoinFirst(w) ==
    /\ parent = "idle" /\ pc[w] # "new" /\ pc[w] # "closed"
    /\ parent' = "joining" /\ subject' = w
    /\ UNCHANGED <<retry, timed_out, pc, error, q, locker, attached, term>>

Close(w) ==
    /\ parent = "idle" /\ pc[w] # "new" /\ pc[w] # "closed"
    /\ parent' = "closing" /\ subject' = w
    /\ UNCHANGED <<retry, timed_out, pc, error, q, locker, attached, term>>

TakeResult ==
    /\ parent = "closing" /\ q[subject] # <<>>
    /\ Get(subject)
    /\ parent' = "joining"
    /\ UNCHANGED <<subject, retry, timed_out, pc, error, locker, attached, term>>

Join ==
    /\ parent = "joining" /\ pc[subject] = "exited"
    /\ Goto(subject, "closed")
    /\ parent' = "idle" /\ subject' = NoOne
    /\ UNCHANGED <<retry, timed_out, error, q, locker, attached, term>>

-----------------------------------------------------------------------------
(* _driver_cleanup, at the beginning of every reset. *)
Reset ==
    /\ parent = "idle"
    /\ IF attached = {}
       THEN parent' = "reset" /\ UNCHANGED <<term, retry>>
       ELSE parent' = "cleanup" /\ term' = TRUE /\ retry' = RETRY
    /\ UNCHANGED <<subject, timed_out, pc, error, q, locker, attached>>

SecondariesGone == attached = {}

CleanupRetry ==
    /\ parent = "cleanup" /\ ~SecondariesGone /\ retry > 1
    /\ retry' = retry - 1
    /\ UNCHANGED <<parent, subject, timed_out, pc, error, q, locker, attached,
                   term>>

(* The TimeoutError leaves the flag as it is. *)
CleanupTimeout ==
    /\ parent = "cleanup" /\ ~SecondariesGone /\ retry = 1
    /\ parent' = "idle" /\ retry' = 0 /\ timed_out' = TRUE
    /\ UNCHANGED <<subject, pc, error, q, locker, attached, term>>

CleanupEnd ==
    /\ parent = "cleanup" /\ SecondariesGone
    /\ term' = FALSE /\ parent' = "reset" /\ retry' = 0
    /\ UNCHANGED <<subject, timed_out, pc, error, q, locker, attached>>

(* The device is reset and the controller initialised again. *)
ResetDone ==
    /\ parent = "reset"
    /\ parent' = "idle"
    /\ UNCHANGED <<subject, retry, timed_out, pc, error, q, locker, attached,
                   term>>

-----------------------------------------------------------------------------
(* A worker: "ready: create resources" with the lock. *)
AcquireForInit(w) ==
    /\ pc[w] = "init" /\ locker = NoOne
    /\ locker' = w /\ Goto(w, "creating")
    /\ UNCHANGED <<script, error, q, attached, term>>

CreateResources(w) ==
    /\ pc[w] = "creating"
    /\ attached' = attached \cup {w} /\ locker' = NoOne
    /\ Goto(w, "created")
    /\ UNCHANGED <<script, error, q, term>>

(* An exception: an argument is refused or memory lacks before the lock is
   taken, a resource cannot be created, or the common start time has passed
   when the worker begins to sleep until it. *)
InitFails(w) ==
    /\ pc[w] \in {"init", "creating", "created"}
    /\ attached' \in {attached} \cup
          (IF pc[w] = "creating" THEN {attached \cup {w}} ELSE {})
    /\ locker' = IF locker = w THEN NoOne ELSE locker
    /\ error' = [error EXCEPT ![w] = -1]
    /\ Goto(w, "result")
    /\ UNCHANGED <<script, q, term>>

PutStarted(w) ==
    /\ pc[w] = "created"
    /\ Put(w, STARTED) /\ Goto(w, "io")
    /\ UNCHANGED <<script, error, locker, attached, term>>

(* ioworker_entry returns; -6 stands for every error of its own, -1 is that of
   an exception while the tables are copied. *)
IoEnds(w) ==
    /\ pc[w] = "io"
    /\ \E e \in {0, -1, -6} \cup (IF term THEN {-7} ELSE {}) :
           error' = [error EXCEPT ![w] = e]
    /\ Goto(w, "result")
    /\ UNCHANGED <<script, q, locker, attached, term>>

(* ioworker_entry divides by the number of completed commands, which may be 0
   when it is terminated or times out (IOWorker, DivideByZero). *)
IoCrashes(w) ==
    /\ pc[w] = "io"
    /\ Goto(w, "crashed")
    /\ UNCHANGED <<script, error, q, locker, attached, term>>

(* The result; a terminated worker reports no error.  fast_exit: only a
   worker without error waits for the result to be collected. *)
PutResult(w) ==
    /\ pc[w] = "result"
    /\ Put(w, IF error[w] = -7 THEN 0 ELSE error[w])
    /\ Goto(w, IF error[w] = 0 THEN "collect" ELSE "cleanup")
    /\ UNCHANGED <<script, error, locker, attached, term>>

Collected(w) ==
    /\ pc[w] = "collect" /\ q[w] = <<>>
    /\ Goto(w, "cleanup")
    /\ UNCHANGED <<script, error, q, locker, attached, term>>

AcquireForCleanup(w) ==
    /\ pc[w] = "cleanup" /\ locker = NoOne
    /\ locker' = w /\ Goto(w, "deleting")
    /\ UNCHANGED <<script, error, q, attached, term>>

(* qpair, namespace and controller are closed "in right order". *)
MutDetach_OnlySuccess(w) == IF error[w] = 0 THEN attached \ {w} ELSE attached

Detach(w) == attached \ {w}

CloseResources(w) ==
    /\ pc[w] = "deleting"
    /\ attached' = Detach(w) /\ locker' = NoOne
    /\ Goto(w, "exited")
    /\ UNCHANGED <<script, error, q, term>>

Worker(w) ==
    \/ AcquireForInit(w) \/ CreateResources(w) \/ InitFails(w)
    \/ PutStarted(w) \/ IoEnds(w) \/ IoCrashes(w) \/ PutResult(w)
    \/ Collected(w) \/ AcquireForCleanup(w) \/ CloseResources(w)

(* __enter__ and __exit__ of a with statement.  After an exception in its body
   __exit__ raises before the close, so a worker may never be closed. *)
With(w) == Start(w) \/ Close(w)

(* What the script calls, and what a call goes on to do by itself. *)
Calls == (\E w \in Workers : With(w)) \/ Reset

InCall == \/ FinishStart \/ TakeResult \/ Join \/ CleanupRetry
          \/ CleanupTimeout \/ CleanupEnd \/ ResetDone

Next == Calls \/ InCall \/ \E w \in Workers : Worker(w)

(* Every process keeps running, and the lock is granted in the end to each
   worker that keeps asking for it. *)
Spec == /\ Init /\ [][Next]_vars /\ WF_vars(InCall)
        /\ \A w \in Workers :
               /\ WF_vars(Worker(w))
               /\ SF_vars(AcquireForInit(w)) /\ SF_vars(AcquireForCleanup(w))

(* running: there is no result yet; close() removes the queue. *)
running(w) == pc[w] # "closed" /\ q[w] = <<>>

-----------------------------------------------------------------------------
TypeOK ==
    /\ parent \in {"idle", "starting", "closing", "joining", "cleanup", "reset"}
    /\ subject \in Workers \cup {NoOne}
    /\ retry \in 0 .. RETRY
    /\ \A w \in Workers : error[w] \in {0, -1, -6, -7} /\ Len(q[w]) <= 2
    /\ locker \in Workers \cup {NoOne}
    /\ attached \subseteq Workers

(* "wait all IO Qpair closed": when the device is reset, no worker is attached
   to the controller, and the request to terminate is withdrawn unless an
   earlier cleanup was given up.  It rests on start() waiting for the worker:
   none is half way through its creation when a reset begins. *)
NoSecondaryDuringReset ==
    parent = "reset" => attached = {} /\ (term => timed_out)

(* A worker process that is gone is not attached and does not hold the lock;
   and workers are asked to terminate only while a cleanup is going on, or
   after one that raised TimeoutError, so that those started later run. *)
ExitedIsDetached ==
    /\ TypeOK
    /\ \A w \in Workers : pc[w] \in {"exited", "closed"} =>
                              w \notin attached /\ locker # w
    /\ term => parent = "cleanup" \/ timed_out

(* start(), close() and the resets return (or raise) as long as no worker has
   crashed: "get data from queue before joinging the subprocess, otherwise
   deadlock".  A script that asks running again and again is told in the end
   that a worker it has started runs no more, unless its process has died. *)
CallsReturn ==
    /\ parent # "idle" ~> parent = "idle" \/ \E w \in Workers : pc[w] = "crashed"
    /\ \A w \in Workers :
          pc[w] # "new" ~> ~running(w) \/ pc[w] = "crashed"
=============================================================================
