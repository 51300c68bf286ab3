------------------------- MODULE WorkerProcessProofs -------------------------
(***************************************************************************)
(* The safety properties of WorkerProcess for every set of workers and     *)
(* every number of retries.                                                *)
(*                                                                         *)
(* That no worker is attached during a reset is not inductive by itself: a *)
(* worker may still be about to attach.  The strengthening says that such  *)
(* a worker keeps the script in start(), because nothing is in its queue;  *)
(* that the lock is held by whoever creates or deletes resources and by    *)
(* nobody else; and how long a queue can be at each place of its worker.   *)
(***************************************************************************)
EXTENDS WorkerProcess, TLAPS

Labels == {"new", "init", "creating", "created", "io", "result", "collect",
           "cleanup", "deleting", "exited", "closed", "crashed"}

Errors == {0, -1, -6, -7}

(* Types, with the worker a call is about. *)
TypeInv ==
    /\ parent \in {"idle", "starting", "closing", "joining", "cleanup", "reset"}
    /\ subject \in Workers \cup {NoOne}
    /\ parent \in {"starting", "closing", "joining"} => subject \in Workers
    /\ retry \in 0 .. RETRY
    /\ pc \in [Workers -> Labels]
    /\ error \in [Workers -> Errors]
    /\ q \in [Workers -> Seq(Int)]
    /\ locker \in Workers \cup {NoOne}
    /\ attached \subseteq Workers
    /\ term \in BOOLEAN /\ timed_out \in BOOLEAN

(* A worker that has not reported anything keeps the script in start(). *)
StartInv ==
    \A w \in Workers :
        /\ pc[w] = "new" => q[w] = <<>>
        /\ pc[w] \in {"init", "creating", "created"} =>
               parent = "starting" /\ subject = w /\ q[w] = <<>>

(* At most STARTED and the result are in a queue. *)
QueueInv ==
    \A w \in Workers :
        /\ pc[w] \in {"io", "result"} => Len(q[w]) <= 1
        /\ Len(q[w]) <= 2

LockInv ==
    \A w \in Workers : pc[w] \in {"creating", "deleting"} <=> locker = w

GoneInv ==
    \A w \in Workers : pc[w] \in {"exited", "closed"} => w \notin attached

TermInv == term => parent = "cleanup" \/ timed_out

Inv ==
    /\ TypeInv /\ StartInv /\ QueueInv /\ LockInv /\ GoneInv /\ TermInv
    /\ NoSecondaryDuringReset

-----------------------------------------------------------------------------
(* The initial state (_IOWorker.__init__) satisfies the invariant. *)
LEMMA InitInv == Init => Inv
  <1> SUFFICES ASSUME Init PROVE Inv
    OBVIOUS
  <1>a. <<>> \in Seq(Int) /\ Len(<<>>) = 0
    OBVIOUS
  <1>1. TypeInv
    <2>1. retry \in 0 .. RETRY
      BY RetryAssumption DEF Init
    <2>2. pc \in [Workers -> Labels] /\ error \in [Workers -> Errors]
      BY DEF Init, Labels, Errors
    <2>3. q \in [Workers -> Seq(Int)]
      BY <1>a DEF Init
    <2> QED
      BY <2>1, <2>2, <2>3 DEF Init, TypeInv
  <1>2. StartInv /\ QueueInv
    BY <1>a DEF Init, StartInv, QueueInv
  <1>3. LockInv /\ GoneInv
    BY WorkersAssumption DEF Init, LockInv, GoneInv
  <1>4. TermInv /\ NoSecondaryDuringReset
    BY DEF Init, TermInv, NoSecondaryDuringReset
  <1> QED
    BY <1>1, <1>2, <1>3, <1>4 DEF Inv

(* A step of the script in start() or close() preserves it. *)
LEMMA StartKeepsInv ==
    ASSUME Inv, NEW w \in Workers, Start(w)
    PROVE  Inv'
  <1>1. TypeInv'
    BY DEF Inv, TypeInv, Start, Goto, Labels
  <1>2. StartInv'
    BY DEF Inv, TypeInv, StartInv, Start, Goto
  <1>3. QueueInv'
    BY DEF Inv, TypeInv, StartInv, QueueInv, Start, Goto
  <1>4. LockInv' /\ GoneInv'
    BY DEF Inv, TypeInv, LockInv, GoneInv, Start, Goto
  <1>5. TermInv' /\ NoSecondaryDuringReset'
    BY DEF Inv, TermInv, NoSecondaryDuringReset, Start
  <1> QED
    BY <1>1, <1>2, <1>3, <1>4, <1>5 DEF Inv

(* start() returns, with or without a worker. *)
LEMMA FinishStartKeepsInv ==
    ASSUME Inv, FinishStart
    PROVE  Inv'
  <1>a. subject \in Workers /\ q[subject] \in Seq(Int) /\ q[subject] # <<>>
    BY DEF Inv, TypeInv, FinishStart
  <1>b. PICK s \in Seq(Int) : /\ q' = [q EXCEPT ![subject] = s]
                              /\ Len(s) <= Len(q[subject])
    <2> DEFINE s == IF Head(q[subject]) = STARTED THEN Tail(q[subject])
                    ELSE Append(Tail(q[subject]), Head(q[subject]))
    <2>1. s \in Seq(Int) /\ Len(s) <= Len(q[subject])
      BY <1>a
    <2>2. q' = [q EXCEPT ![subject] = s]
      BY DEF FinishStart
    <2> QED
      BY <2>1, <2>2
  <1>1. TypeInv'
    BY <1>a, <1>b DEF Inv, TypeInv, FinishStart
  <1>2. StartInv'
    BY <1>a, <1>b DEF Inv, TypeInv, StartInv, FinishStart
  <1>3. QueueInv'
    BY <1>a, <1>b DEF Inv, TypeInv, QueueInv, FinishStart
  <1>4. LockInv' /\ GoneInv'
    BY DEF Inv, LockInv, GoneInv, FinishStart
  <1>5. TermInv' /\ NoSecondaryDuringReset'
    BY DEF Inv, TermInv, NoSecondaryDuringReset, FinishStart
  <1> QED
    BY <1>1, <1>2, <1>3, <1>4, <1>5 DEF Inv

(* close() takes on a worker that was started. *)
LEMMA CloseKeepsInv ==
    ASSUME Inv, NEW w \in Workers, Close(w)
    PROVE  Inv'
  <1>1. TypeInv'
    BY DEF Inv, TypeInv, Close
  <1>2. StartInv'
    BY DEF Inv, TypeInv, StartInv, Close
  <1>3. QueueInv'
    BY DEF Inv, TypeInv, QueueInv, Close
  <1>4. LockInv' /\ GoneInv'
    BY DEF Inv, TypeInv, LockInv, GoneInv, Close
  <1>5. TermInv' /\ NoSecondaryDuringReset'
    BY DEF Inv, TypeInv, TermInv, NoSecondaryDuringReset, Close
  <1> QED
    BY <1>1, <1>2, <1>3, <1>4, <1>5 DEF Inv

(* It takes the result out of the queue, *)
LEMMA TakeResultKeepsInv ==
    ASSUME Inv, TakeResult
    PROVE  Inv'
  <1>a. subject \in Workers /\ q[subject] \in Seq(Int) /\ q[subject] # <<>>
    BY DEF Inv, TypeInv, TakeResult
  <1>b. /\ Tail(q[subject]) \in Seq(Int)
        /\ Len(Tail(q[subject])) <= Len(q[subject])
    BY <1>a
  <1>1. TypeInv'
    BY <1>a, <1>b DEF Inv, TypeInv, TakeResult, Get
  <1>2. StartInv'
    BY <1>a, <1>b DEF Inv, TypeInv, StartInv, TakeResult, Get
  <1>3. QueueInv'
    BY <1>a, <1>b DEF Inv, TypeInv, QueueInv, TakeResult, Get
  <1>4. LockInv' /\ GoneInv'
    BY DEF Inv, TypeInv, LockInv, GoneInv, TakeResult
  <1>5. TermInv' /\ NoSecondaryDuringReset'
    BY DEF Inv, TypeInv, TermInv, NoSecondaryDuringReset, TakeResult
  <1> QED
    BY <1>1, <1>2, <1>3, <1>4, <1>5 DEF Inv

(* and joins the process that has exited. *)
LEMMA JoinKeepsInv ==
    ASSUME Inv, Join
    PROVE  Inv'
  <1>a. subject \in Workers
    BY DEF Inv, TypeInv, Join
  <1>1. TypeInv'
    BY <1>a DEF Inv, TypeInv, Join, Goto, Labels
  <1>2. StartInv'
    BY <1>a DEF Inv, TypeInv, StartInv, Join, Goto
  <1>3. QueueInv'
    BY <1>a DEF Inv, TypeInv, QueueInv, Join, Goto
  <1>4. LockInv' /\ GoneInv'
    BY <1>a DEF Inv, TypeInv, LockInv, GoneInv, Join, Goto
  <1>5. TermInv' /\ NoSecondaryDuringReset'
    BY DEF Inv, TypeInv, TermInv, NoSecondaryDuringReset, Join
  <1> QED
    BY <1>1, <1>2, <1>3, <1>4, <1>5 DEF Inv

(* A reset begins: at once, or with a cleanup that sets the terminate flag. *)
LEMMA ResetKeepsInv ==
    ASSUME Inv, Reset
    PROVE  Inv'
  <1>1. TypeInv'
    <2>1. RETRY \in 0 .. RETRY
      BY RetryAssumption
    <2>2. CASE attached = {}
      BY <2>2 DEF Inv, TypeInv, Reset
    <2>3. CASE attached # {}
      BY <2>1, <2>3 DEF Inv, TypeInv, Reset
    <2> QED
      BY <2>2, <2>3
  <1>2. StartInv'
    BY DEF Inv, TypeInv, StartInv, Reset
  <1>3. QueueInv'
    BY DEF Inv, TypeInv, QueueInv, Reset
  <1>4. LockInv' /\ GoneInv'
    BY DEF Inv, TypeInv, LockInv, GoneInv, Reset
  <1>5. TermInv' /\ NoSecondaryDuringReset'
    BY DEF Inv, TypeInv, TermInv, NoSecondaryDuringReset, Reset
  <1> QED
    BY <1>1, <1>2, <1>3, <1>4, <1>5 DEF Inv

(* The rest of _driver_cleanup and of the reset. *)
LEMMA CleanupKeepsInv ==
    ASSUME Inv, (CleanupRetry \/ CleanupTimeout \/ CleanupEnd \/ ResetDone)
    PROVE  Inv'
  <1>1. TypeInv'
    <2>0. 0 \in 0 .. RETRY
      BY RetryAssumption
    <2>1. CASE CleanupRetry
      <3>1. retry' \in 0 .. RETRY
        BY <2>1, RetryAssumption DEF Inv, TypeInv, CleanupRetry
      <3> QED
        BY <2>1, <3>1 DEF Inv, TypeInv, CleanupRetry
    <2>2. CASE CleanupTimeout
      BY <2>0, <2>2 DEF Inv, TypeInv, CleanupTimeout
    <2>3. CASE CleanupEnd
      BY <2>0, <2>3 DEF Inv, TypeInv, CleanupEnd
    <2>4. CASE ResetDone
      BY <2>4 DEF Inv, TypeInv, ResetDone
    <2> QED
      BY <2>1, <2>2, <2>3, <2>4
  <1>2. StartInv'
    BY DEF Inv, TypeInv, StartInv, CleanupRetry, CleanupTimeout, CleanupEnd,
        ResetDone
  <1>3. QueueInv'
    BY DEF Inv, TypeInv, QueueInv, CleanupRetry, CleanupTimeout, CleanupEnd,
        ResetDone
  <1>4. LockInv' /\ GoneInv'
    BY DEF Inv, TypeInv, LockInv, GoneInv, CleanupRetry, CleanupTimeout,
        CleanupEnd, ResetDone
  <1>5. TermInv' /\ NoSecondaryDuringReset'
    BY DEF Inv, TypeInv, TermInv, NoSecondaryDuringReset, CleanupRetry,
        CleanupTimeout, CleanupEnd, ResetDone, SecondariesGone
  <1> QED
    BY <1>1, <1>2, <1>3, <1>4, <1>5 DEF Inv

(* The lock is taken by a worker that is being started. *)
LEMMA AcquireForInitKeepsInv ==
    ASSUME Inv, NEW w \in Workers, AcquireForInit(w)
    PROVE  Inv'
  <1>1. TypeInv'
    BY DEF Inv, TypeInv, AcquireForInit, script, Goto, Labels
  <1>2. StartInv'
    BY DEF Inv, TypeInv, StartInv, AcquireForInit, script, Goto
  <1>3. QueueInv'
    BY DEF Inv, TypeInv, QueueInv, AcquireForInit, script, Goto
  <1>4. LockInv' /\ GoneInv'
    BY WorkersAssumption DEF Inv, TypeInv, LockInv, GoneInv, AcquireForInit,
        script, Goto
  <1>5. TermInv' /\ NoSecondaryDuringReset'
    BY DEF Inv, TypeInv, StartInv, TermInv, NoSecondaryDuringReset,
        AcquireForInit, script
  <1> QED
    BY <1>1, <1>2, <1>3, <1>4, <1>5 DEF Inv

(* It attaches while the script is in start(), so not during a reset. *)
LEMMA CreateResourcesKeepsInv ==
    ASSUME Inv, NEW w \in Workers, CreateResources(w)
    PROVE  Inv'
  <1>1. TypeInv'
    BY DEF Inv, TypeInv, CreateResources, script, Goto, Labels
  <1>2. StartInv'
    BY DEF Inv, TypeInv, StartInv, CreateResources, script, Goto
  <1>3. QueueInv'
    BY DEF Inv, TypeInv, QueueInv, CreateResources, script, Goto
  <1>4. LockInv' /\ GoneInv'
    BY WorkersAssumption DEF Inv, TypeInv, LockInv, GoneInv, CreateResources,
        script, Goto
  <1>5. TermInv' /\ NoSecondaryDuringReset'
    BY DEF Inv, TypeInv, StartInv, TermInv, NoSecondaryDuringReset,
        CreateResources, script
  <1> QED
    BY <1>1, <1>2, <1>3, <1>4, <1>5 DEF Inv

(* It fails to create its resources. *)
LEMMA InitFailsKeepsInv ==
    ASSUME Inv, NEW w \in Workers, InitFails(w)
    PROVE  Inv'
  <1>1. TypeInv'
    BY DEF Inv, TypeInv, InitFails, script, Goto, Labels, Errors
  <1>2. StartInv'
    BY DEF Inv, TypeInv, StartInv, InitFails, script, Goto
  <1>3. QueueInv'
    BY DEF Inv, TypeInv, QueueInv, InitFails, script, StartInv, Goto
  <1>4. LockInv' /\ GoneInv'
    BY WorkersAssumption DEF Inv, TypeInv, LockInv, GoneInv, InitFails,
        script, Goto
  <1>5. TermInv' /\ NoSecondaryDuringReset'
    BY DEF Inv, TypeInv, StartInv, TermInv, NoSecondaryDuringReset, InitFails,
        script
  <1> QED
    BY <1>1, <1>2, <1>3, <1>4, <1>5 DEF Inv

(* It lets start() return. *)
LEMMA PutStartedKeepsInv ==
    ASSUME Inv, NEW w \in Workers, PutStarted(w)
    PROVE  Inv'
  <1>a. /\ Append(q[w], STARTED) \in Seq(Int)
        /\ Len(Append(q[w], STARTED)) = Len(q[w]) + 1
    BY DEF Inv, TypeInv, STARTED
  <1>b. Len(q[w]) = 0
    BY DEF Inv, StartInv, PutStarted
  <1>1. TypeInv'
    BY <1>a DEF Inv, TypeInv, PutStarted, script, Goto, Put, Labels
  <1>2. StartInv'
    BY <1>a DEF Inv, TypeInv, StartInv, PutStarted, script, Goto, Put
  <1>3. QueueInv'
    BY <1>a, <1>b DEF Inv, TypeInv, QueueInv, PutStarted, script, Goto, Put
  <1>4. LockInv' /\ GoneInv'
    BY DEF Inv, TypeInv, LockInv, GoneInv, PutStarted, script, Goto
  <1>5. TermInv' /\ NoSecondaryDuringReset'
    BY DEF Inv, TypeInv, StartInv, TermInv, NoSecondaryDuringReset,
        PutStarted, script
  <1> QED
    BY <1>1, <1>2, <1>3, <1>4, <1>5 DEF Inv

(* ioworker_entry returns, *)
LEMMA IoEndsKeepsInv ==
    ASSUME Inv, NEW w \in Workers, IoEnds(w)
    PROVE  Inv'
  <1>1. TypeInv'
    BY DEF Inv, TypeInv, IoEnds, script, Goto, Labels, Errors
  <1>2. StartInv'
    BY DEF Inv, TypeInv, StartInv, IoEnds, script, Goto
  <1>3. QueueInv'
    BY DEF Inv, TypeInv, QueueInv, IoEnds, script, Goto
  <1>4. LockInv' /\ GoneInv'
    BY DEF Inv, TypeInv, LockInv, GoneInv, IoEnds, script, Goto
  <1>5. TermInv' /\ NoSecondaryDuringReset'
    BY DEF Inv, TypeInv, StartInv, TermInv, NoSecondaryDuringReset, IoEnds,
        script
  <1> QED
    BY <1>1, <1>2, <1>3, <1>4, <1>5 DEF Inv

(* or takes its process with it. *)
LEMMA IoCrashesKeepsInv ==
    ASSUME Inv, NEW w \in Workers, IoCrashes(w)
    PROVE  Inv'
  <1>1. TypeInv'
    BY DEF Inv, TypeInv, IoCrashes, script, Goto, Labels
  <1>2. StartInv'
    BY DEF Inv, TypeInv, StartInv, IoCrashes, script, Goto
  <1>3. QueueInv'
    BY DEF Inv, TypeInv, QueueInv, IoCrashes, script, Goto
  <1>4. LockInv' /\ GoneInv'
    BY DEF Inv, TypeInv, LockInv, GoneInv, IoCrashes, script, Goto
  <1>5. TermInv' /\ NoSecondaryDuringReset'
    BY DEF Inv, TypeInv, StartInv, TermInv, NoSecondaryDuringReset, IoCrashes,
        script
  <1> QED
    BY <1>1, <1>2, <1>3, <1>4, <1>5 DEF Inv

(* The result is put into the queue, *)
LEMMA PutResultKeepsInv ==
    ASSUME Inv, NEW w \in Workers, PutResult(w)
    PROVE  Inv'
  <1> DEFINE e == IF error[w] = -7 THEN 0 ELSE error[w]
  <1>0. e \in Int
    <2>1. error[w] \in Errors
      BY DEF Inv, TypeInv
    <2>2. error[w] \in Int
      BY <2>1 DEF Errors
    <2>3. CASE error[w] = -7
      <3>1. e = 0
        BY <2>3
      <3> QED
        BY <3>1
    <2>4. CASE error[w] # -7
      <3>1. e = error[w]
        BY <2>4
      <3> QED
        BY <2>2, <3>1
    <2> QED
      BY <2>3, <2>4
  <1>a. q' = [q EXCEPT ![w] = Append(q[w], e)]
    BY DEF PutResult, Put
  <1>b. Append(q[w], e) \in Seq(Int) /\ Len(Append(q[w], e)) = Len(q[w]) + 1
    BY <1>0 DEF Inv, TypeInv
  <1> HIDE DEF e
  <1>1. TypeInv'
    BY <1>a, <1>b DEF Inv, TypeInv, PutResult, script, Goto, Labels
  <1>2. StartInv'
    BY <1>a, <1>b DEF Inv, TypeInv, StartInv, PutResult, script, Goto
  <1>3. QueueInv'
    BY <1>a, <1>b DEF Inv, TypeInv, QueueInv, PutResult, script, Goto
  <1>4. LockInv' /\ GoneInv'
    BY DEF Inv, TypeInv, LockInv, GoneInv, PutResult, script, Goto
  <1>5. TermInv' /\ NoSecondaryDuringReset'
    BY DEF Inv, TypeInv, StartInv, TermInv, NoSecondaryDuringReset, PutResult,
        script
  <1> QED
    BY <1>1, <1>2, <1>3, <1>4, <1>5 DEF Inv

(* is collected, *)
LEMMA CollectedKeepsInv ==
    ASSUME Inv, NEW w \in Workers, Collected(w)
    PROVE  Inv'
  <1>1. TypeInv'
    BY DEF Inv, TypeInv, Collected, script, Goto, Labels
  <1>2. StartInv'
    BY DEF Inv, TypeInv, StartInv, Collected, script, Goto
  <1>3. QueueInv'
    BY DEF Inv, TypeInv, QueueInv, Collected, script, Goto
  <1>4. LockInv' /\ GoneInv'
    BY DEF Inv, TypeInv, LockInv, GoneInv, Collected, script, Goto
  <1>5. TermInv' /\ NoSecondaryDuringReset'
    BY DEF Inv, TypeInv, StartInv, TermInv, NoSecondaryDuringReset, Collected,
        script
  <1> QED
    BY <1>1, <1>2, <1>3, <1>4, <1>5 DEF Inv

(* and the lock is taken again *)
LEMMA AcquireForCleanupKeepsInv ==
    ASSUME Inv, NEW w \in Workers, AcquireForCleanup(w)
    PROVE  Inv'
  <1>1. TypeInv'
    BY DEF Inv, TypeInv, AcquireForCleanup, script, Goto, Labels
  <1>2. StartInv'
    BY DEF Inv, TypeInv, StartInv, AcquireForCleanup, script, Goto
  <1>3. QueueInv'
    BY DEF Inv, TypeInv, QueueInv, AcquireForCleanup, script, Goto
  <1>4. LockInv' /\ GoneInv'
    BY WorkersAssumption DEF Inv, TypeInv, LockInv, GoneInv,
        AcquireForCleanup, script, Goto
  <1>5. TermInv' /\ NoSecondaryDuringReset'
    BY DEF Inv, TypeInv, StartInv, TermInv, NoSecondaryDuringReset,
        AcquireForCleanup, script
  <1> QED
    BY <1>1, <1>2, <1>3, <1>4, <1>5 DEF Inv

(* to detach. *)
LEMMA CloseResourcesKeepsInv ==
    ASSUME Inv, NEW w \in Workers, CloseResources(w)
    PROVE  Inv'
  <1>1. TypeInv'
    BY DEF Inv, TypeInv, CloseResources, script, Goto, Labels, Detach
  <1>2. StartInv'
    BY DEF Inv, TypeInv, StartInv, CloseResources, script, Goto
  <1>3. QueueInv'
    BY DEF Inv, TypeInv, QueueInv, CloseResources, script, Goto
  <1>4. LockInv' /\ GoneInv'
    BY WorkersAssumption DEF Inv, TypeInv, LockInv, GoneInv, CloseResources,
        script, Goto, Detach
  <1>5. TermInv' /\ NoSecondaryDuringReset'
    BY DEF Inv, TypeInv, StartInv, TermInv, NoSecondaryDuringReset,
        CloseResources, script, Detach
  <1> QED
    BY <1>1, <1>2, <1>3, <1>4, <1>5 DEF Inv

(* Every step preserves the invariant. *)
LEMMA NextKeepsInv == Inv /\ [Next]_vars => Inv'
  <1> SUFFICES ASSUME Inv, [Next]_vars PROVE Inv'
    OBVIOUS
  <1>1. CASE Calls
    BY <1>1, StartKeepsInv, CloseKeepsInv, ResetKeepsInv DEF Calls, With
  <1>2. CASE InCall
    BY <1>2, FinishStartKeepsInv, TakeResultKeepsInv, JoinKeepsInv,
       CleanupKeepsInv DEF InCall
  <1>3. ASSUME NEW w \in Workers, Worker(w) PROVE Inv'
    BY <1>3, AcquireForInitKeepsInv, CreateResourcesKeepsInv,
       InitFailsKeepsInv, PutStartedKeepsInv, IoEndsKeepsInv,
       IoCrashesKeepsInv, PutResultKeepsInv, CollectedKeepsInv,
       AcquireForCleanupKeepsInv, CloseResourcesKeepsInv DEF Worker
  <1>4. CASE UNCHANGED vars
    BY <1>4 DEF vars, Inv, TypeInv, StartInv, QueueInv, LockInv, GoneInv,
       TermInv, NoSecondaryDuringReset
  <1> QED
    BY <1>1, <1>2, <1>3, <1>4 DEF Next

(* The inductive invariant holds in every state of every behaviour of the
   script and its worker processes. *)
THEOREM InvAlways == Spec => []Inv
  <1>1. Init /\ [][Next]_vars => []Inv
    BY InitInv, NextKeepsInv, PTL
  <1> QED
    BY <1>1, PTL DEF Spec

(* "wait all IO Qpair closed": no worker is attached to the controller while
   the device is reset, however many workers there are and however long
   _driver_cleanup tries. *)
THEOREM ResetIsAlone == Spec => []NoSecondaryDuringReset
  <1>1. Inv => NoSecondaryDuringReset
    BY DEF Inv
  <1> QED
    BY <1>1, InvAlways, PTL

(* A worker that is gone has detached and released the lock, its queue never
   held more than two items, and a terminate flag that is set outside of a
   cleanup comes from one that has timed out. *)
THEOREM WorkersLeave == Spec => []ExitedIsDetached
  <1>1. Inv => ExitedIsDetached
    <2> SUFFICES ASSUME Inv PROVE ExitedIsDetached
      OBVIOUS
    <2>1. TypeOK
      BY DEF Inv, TypeInv, QueueInv, TypeOK, Errors
    <2>2. \A w \in Workers : pc[w] \in {"exited", "closed"} =>
                                 w \notin attached /\ locker # w
      BY DEF Inv, LockInv, GoneInv
    <2> QED
      BY <2>1, <2>2 DEF Inv, TermInv, ExitedIsDetached
  <1> QED
    BY <1>1, InvAlways, PTL

(* The lock of the namespace excludes: two workers are never creating or
   deleting their resources at the same time. *)
Exclusive ==
    \A v, w \in Workers :
        /\ pc[v] \in {"creating", "deleting"}
        /\ pc[w] \in {"creating", "deleting"}
        => v = w

(* It does so for any number of workers (`with locker` in _ioworker). *)
THEOREM LockExcludes == Spec => []Exclusive
  <1>1. Inv => Exclusive
    BY DEF Inv, LockInv, Exclusive
  <1> QED
    BY <1>1, InvAlways, PTL
=============================================================================
