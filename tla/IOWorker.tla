------------------------------ MODULE IOWorker ------------------------------
(***************************************************************************)
(* ioworker_entry (src/ioworker.c): one worker process that keeps up to    *)
(* qdepth-1 commands outstanding on its queue pair until an io count, a    *)
(* time limit, the end of a replayed io sequence, an error, a timeout or   *)
(* the terminate flag stops it.  The loop runs in one process; the device, *)
(* the clock and the main process, which sets the terminate flag, run      *)
(* beside it and interleave with every step of it.                         *)
(*                                                                         *)
(* An io_ctx is a number.  A tick of the clock stands for the resolution   *)
(* of timeval_gettimeofday; a second is SEC ticks.  Which LBA a command    *)
(* goes to is not part of this module: an LBA conflict, which puts the     *)
(* request on qpair->queued_req, is a choice made while other commands     *)
(* are outstanding.                                                        *)
(***************************************************************************)
EXTENDS Integers, Sequences, FiniteSets

CONSTANTS Args,      \* the argument records a run may start with
          SEC,       \* ticks in a second
          GRACE,     \* seconds the loop waits past the time limit (30 in code)
          IO_COUNT_MAX,  \* (unsigned long)-1: no limit on the io count
          MaxTime,   \* bound: the clock stops here
          MaxIO      \* bound: commands the device completes

(* Namespace.ioworker asserts "qdepth should be in [2, 1024]"; the other
   arguments are unsigned. *)
ASSUME ArgsAssumption ==
    \A a \in Args :
        a \in [qdepth : Nat \ {0, 1}, io_count : Nat, seconds : Nat, delay : Nat,
              io_sequence : Seq(Nat), cmdlog_len : Nat, per_second : BOOLEAN,
              oversize : BOOLEAN]

ASSUME LimitsAssumption ==
    /\ {SEC, GRACE, MaxTime, MaxIO} \subseteq Nat
    /\ IO_COUNT_MAX \in Nat \ {0}

VARIABLES args,      \* struct ioworker_args
          pc,        \* entry, top, poll, reap, final, returned, crashed
          clock,     \* real time
          now,       \* the loop's variable now
          ctx,       \* io_ctx: where it is, its time_sent, its trace entry
          pending,   \* pending_io_list
          head_io,   \* the loop's copy of the first pending ctx, or NONE
          queued,    \* qpair->queued_req
          cq,        \* completions posted by the device, not yet reaped
          gctx,      \* struct ioworker_global_ctx, and counts of submitted
                     \* and lost commands and the completion history
          rets,      \* struct ioworker_rets: reads plus nonreads, and the error
          log,       \* args->cmdlog_list
          term,      \* DCFG_IOW_TERM of the shared config word
          ret        \* the return value

vars == <<args, pc, clock, now, ctx, pending, head_io, queued, cq, gctx, rets,
          log, term, ret>>

NONE == 0

IsSequence == args.io_sequence # <<>>

(* "revise args": no io count means no limit. *)
IoCount(a) == IF a.io_count = 0 THEN IO_COUNT_MAX ELSE a.io_count

(* "reserve one depth in the queue", after clipping qdepth to the count. *)
Depth(a) == (IF IoCount(a) < a.qdepth THEN IoCount(a) + 1 ELSE a.qdepth) - 1

Ctxs == 1 .. Depth(args)

InState(s) == {c \in Ctxs : ctx[c].at = s}

Due == args.seconds * SEC
Deadline == (args.seconds + GRACE) * SEC

-----------------------------------------------------------------------------
Init ==
    /\ args \in Args
    /\ pc = "entry" /\ clock = 0 /\ now = 0
    /\ ctx = [c \in Ctxs |-> [at |-> "idle", time |-> 0, entry |-> 0,
                              serial |-> 0]]
    /\ pending = <<>> /\ head_io = NONE /\ queued = <<>> /\ cq = <<>>
    /\ gctx = [sent |-> 0, cplt |-> 0, finish |-> FALSE, seq_index |-> 0,
               io_due |-> 0, submitted |-> 0, lost |-> 0, log_index |-> 0,
               next_sec |-> SEC, till_last_sec |-> 0, per_second |-> <<>>,
               history |-> <<>>]
    /\ rets = [count |-> 0, error |-> 0]
    /\ log = [i \in 1 .. args.cmdlog_len |-> 0]
    /\ term = FALSE /\ ret = 0

(* The size check and the buffer pool: the two early returns. *)
RejectOversize ==
    /\ pc = "entry" /\ args.oversize /\ ~IsSequence
    /\ rets' = [rets EXCEPT !.error = 2] /\ ret' = -2 /\ pc' = "returned"
    /\ UNCHANGED <<args, clock, now, ctx, pending, head_io, queued, cq, gctx,
                   log, term>>

BufferPoolFails ==
    /\ pc = "entry" /\ (~args.oversize \/ IsSequence)
    /\ ret' = -5 /\ pc' = "returned"
    /\ UNCHANGED <<args, clock, now, ctx, pending, head_io, queued, cq, gctx,
                   rets, log, term>>

(* The ctxs of the first batch: all of them, or one per trace entry. *)
FirstBatch ==
    IF IsSequence /\ Len(args.io_sequence) < Depth(args)
    THEN Len(args.io_sequence) ELSE Depth(args)

FirstTime(c) ==
    IF IsSequence THEN args.io_sequence[c]
    ELSE IF args.delay > 0 THEN c * args.delay
    ELSE clock

StartBatch ==
    /\ pc = "entry" /\ (~args.oversize \/ IsSequence)
    /\ ctx' = [c \in Ctxs |->
                 IF c <= FirstBatch
                 THEN [ctx[c] EXCEPT !.at = "pending", !.time = FirstTime(c),
                                     !.entry = IF IsSequence THEN c ELSE 0]
                 ELSE ctx[c]]
    /\ pending' = [c \in 1 .. FirstBatch |-> c]
    /\ head_io' = IF FirstBatch = 0 THEN NONE ELSE 1
    /\ gctx' = [gctx EXCEPT
                  !.sent = FirstBatch,
                  !.seq_index = IF IsSequence THEN FirstBatch ELSE 0,
                  !.io_due = IF IsSequence THEN 0 ELSE FirstBatch * args.delay]
    /\ pc' = "top"
    /\ UNCHANGED <<args, clock, now, queued, cq, rets, log, term, ret>>

-----------------------------------------------------------------------------
(* The condition of the main loop. *)
MutRunning_NotDrained == ~gctx.finish \/ head_io # NONE

Running == gctx.sent # gctx.cplt \/ ~gctx.finish \/ head_io # NONE

HeadIsDue == head_io # NONE /\ clock > ctx[head_io].time

LoopExits ==
    /\ pc = "top" /\ ~Running
    /\ pc' = "final"
    /\ UNCHANGED <<args, clock, now, ctx, pending, head_io, queued, cq, gctx,
                   rets, log, term, ret>>

(* External: where nvme_qpair_submit_request puts a request.  It can only be
   held for an LBA conflict while another command holds its LBAs. *)
Outcomes(c) ==
    {"device", "failed"} \cup
    (IF (InState("device") \cup InState("cq")) \ {c} # {} THEN {"queued"} ELSE {})

(* ioworker_send_one for the head of the pending list, then the removal of
   the head.  A failed submission ends the sending; the ctx is gone, and
   io_count_sent still counts it. *)
SendHead(out) ==
    /\ pc = "top" /\ Running
    /\ HeadIsDue
    /\ out \in Outcomes(head_io)
    /\ now' = clock
    /\ ctx' = [ctx EXCEPT ![head_io] =
                 [ctx[head_io] EXCEPT
                     !.at = out,
                     !.time = IF out = "failed" THEN @ ELSE clock,
                     !.serial = gctx.submitted + 1]]
    /\ pending' = Tail(pending)
    /\ queued' = IF out = "queued" THEN Append(queued, head_io) ELSE queued
    /\ gctx' = [gctx EXCEPT
                  !.finish = @ \/ out = "failed",
                  !.lost = IF out = "failed" THEN @ + 1 ELSE @,
                  !.submitted = @ + 1]
    /\ pc' = "poll"
    /\ UNCHANGED <<args, clock, head_io, cq, rets, log, term, ret>>

NothingToSend ==
    /\ pc = "top" /\ Running
    /\ ~HeadIsDue
    /\ now' = clock /\ pc' = "poll"
    /\ UNCHANGED <<args, clock, ctx, pending, head_io, queued, cq, gctx, rets,
                   log, term, ret>>

MutTimedOut_Never == FALSE

TimedOut == now > Deadline

BreakOnTimeout ==
    /\ pc = "poll" /\ TimedOut
    /\ ret' = -4 /\ pc' = "final"
    /\ UNCHANGED <<args, clock, now, ctx, pending, head_io, queued, cq, gctx,
                   rets, log, term>>

BreakOnTerminate ==
    /\ pc = "poll" /\ ~TimedOut /\ term
    /\ ret' = -7 /\ pc' = "final"
    /\ UNCHANGED <<args, clock, now, ctx, pending, head_io, queued, cq, gctx,
                   rets, log, term>>

StartReaping ==
    /\ pc = "poll" /\ ~TimedOut /\ ~term
    /\ now' = clock /\ pc' = "reap"
    /\ UNCHANGED <<args, clock, ctx, pending, head_io, queued, cq, gctx, rets,
                   log, term, ret>>

-----------------------------------------------------------------------------
(* ioworker_send_one_is_finish, on the counters the callback has updated. *)
IsFinish(g) ==
    \/ IsSequence /\ g.seq_index >= Len(args.io_sequence)
    \/ g.sent = IoCount(args)
    \/ clock > Due

(* ioworker_update_io_count_per_second. *)
CountSecond(g, count) ==
    IF args.per_second /\ clock > g.next_sec
    THEN [g EXCEPT !.next_sec = @ + SEC,
                   !.per_second = Append(@, count - g.till_last_sec),
                   !.till_last_sec = count]
    ELSE g

(* The ring index of the io log: the slot to write, then the index to keep. *)
LogSlot(i) == IF i = args.cmdlog_len THEN 0 ELSE i

(* When the ctx is sent again: the next trace entry, or the next io slot. *)
TraceLeft == IsSequence /\ gctx.seq_index < Len(args.io_sequence)

MutNextTime_NoDelay(c) ==
    IF TraceLeft THEN args.io_sequence[gctx.seq_index + 1] ELSE ctx[c].time

NextTime(c) ==
    IF TraceLeft THEN args.io_sequence[gctx.seq_index + 1]
    ELSE IF ~IsSequence /\ args.delay > 0 THEN gctx.io_due + args.delay
    ELSE ctx[c].time

MutAdvance_SameEntry(g) ==
    [g EXCEPT !.cplt = @ + 1,
              !.io_due = IF IsSequence THEN @ ELSE @ + args.delay]

Advance(g) ==
    [g EXCEPT !.cplt = @ + 1,
              !.seq_index = IF TraceLeft THEN @ + 1 ELSE @,
              !.io_due = IF IsSequence THEN @ ELSE @ + args.delay]

(* The finish flag after a completion: it stays set, an error sets it, and
   otherwise the end conditions are evaluated. *)
Finishing(err, g) == gctx.finish \/ err \/ IsFinish(g)

(* ioworker_one_cb, for the next completion: statistics, the next trace
   entry or io slot, the error, the per-second counter, the finish flag, and
   the ctx back on the pending list unless the worker is finishing. *)
ioworker_one_cb ==
    /\ pc = "reap" /\ cq # <<>>
    /\ LET c      == Head(cq).ctx
           err    == Head(cq).err
           g1     == Advance(gctx)
           finish == Finishing(err, g1)
           g2     == CountSecond(g1, rets.count + 1)
           slot   == LogSlot(gctx.log_index)
       IN
       /\ rets' = [count |-> rets.count + 1,
                   error |-> IF err /\ rets.error = 0 THEN 1 ELSE rets.error]
       /\ gctx' = [g2 EXCEPT
                     !.finish = finish,
                     !.sent = IF finish THEN @ ELSE @ + 1,
                     !.log_index = IF args.cmdlog_len = 0 THEN @ ELSE slot + 1,
                     !.history = IF args.cmdlog_len = 0 THEN @
                                 ELSE Append(@, ctx[c].serial)]
       /\ ctx' = [ctx EXCEPT ![c] =
                    [ctx[c] EXCEPT
                        !.at = IF finish THEN "idle" ELSE "pending",
                        !.time = NextTime(c),
                        !.entry = IF TraceLeft THEN gctx.seq_index + 1 ELSE @]]
       /\ pending' = IF finish THEN pending ELSE Append(pending, c)
       /\ log' = IF args.cmdlog_len = 0 THEN log
                 ELSE [log EXCEPT ![slot + 1] = ctx[c].serial]
    /\ cq' = Tail(cq)
    /\ UNCHANGED <<args, pc, clock, now, head_io, queued, term, ret>>

FirstOf(s) == IF s = <<>> THEN NONE ELSE Head(s)

(* No more completions and no conflicting request: next iteration. *)
NextIteration ==
    /\ pc = "reap" /\ cq = <<>> /\ queued = <<>>
    /\ head_io' = FirstOf(pending)
    /\ pc' = "top"
    /\ UNCHANGED <<args, clock, now, ctx, pending, queued, cq, gctx, rets, log,
                   term, ret>>

(* queued_req after a retry: a request that conflicts again goes last. *)
MutRequeue_Dropped(out) == Tail(queued)

Requeue(out) == IF out = "queued" THEN Append(Tail(queued), Head(queued))
                                  ELSE Tail(queued)

(* "retry one queued request for LBA confliction", result not looked at. *)
RetryQueued(out) ==
    /\ pc = "reap" /\ cq = <<>> /\ queued # <<>>
    /\ out \in Outcomes(Head(queued))
    /\ ctx' = [ctx EXCEPT ![Head(queued)].at = out]
    /\ queued' = Requeue(out)
    /\ gctx' = [gctx EXCEPT !.lost = IF out = "failed" THEN @ + 1 ELSE @]
    /\ head_io' = FirstOf(pending)
    /\ pc' = "top"
    /\ UNCHANGED <<args, clock, now, pending, cq, rets, log, term, ret>>

(* The io log in completion order: from the oldest slot on. *)
MutRotated_AsIs == log

Rotated == SubSeq(log, gctx.log_index + 1, args.cmdlog_len)
           \o SubSeq(log, 1, gctx.log_index)

(* The end of ioworker_entry: the average latency divides by the number of
   completed commands; then the io log is rotated to completion order. *)
Return ==
    /\ pc = "final" /\ rets.count # 0
    /\ log' = Rotated
    /\ pc' = "returned"
    /\ UNCHANGED <<args, clock, now, ctx, pending, head_io, queued, cq, gctx,
                   rets, term, ret>>

DivideByZero ==
    /\ pc = "final" /\ rets.count = 0
    /\ pc' = "crashed"
    /\ UNCHANGED <<args, clock, now, ctx, pending, head_io, queued, cq, gctx,
                   rets, log, term, ret>>

-----------------------------------------------------------------------------
(* External: the device posts completions in any order; time passes; the main
   process sets the terminate flag (Pcie._config). *)
DeviceCompletes(c, err) ==
    /\ pc \notin {"returned", "crashed"}
    /\ ctx[c].at = "device" /\ gctx.cplt + Len(cq) < MaxIO
    /\ ctx' = [ctx EXCEPT ![c].at = "cq"]
    /\ cq' = Append(cq, [ctx |-> c, err |-> err])
    /\ UNCHANGED <<args, pc, clock, now, pending, head_io, queued, gctx, rets,
                   log, term, ret>>

Tick ==
    /\ pc \notin {"returned", "crashed"} /\ clock < MaxTime
    /\ clock' = clock + 1
    /\ UNCHANGED <<args, pc, now, ctx, pending, head_io, queued, cq, gctx,
                   rets, log, term, ret>>

SetTerminate ==
    /\ pc \notin {"returned", "crashed"} /\ ~term
    /\ term' = TRUE
    /\ UNCHANGED <<args, pc, clock, now, ctx, pending, head_io, queued, cq,
                   gctx, rets, log, ret>>

Loop ==
    \/ RejectOversize \/ BufferPoolFails \/ StartBatch
    \/ LoopExits \/ NothingToSend
    \/ \E out \in {"device", "failed", "queued"} : SendHead(out)
    \/ BreakOnTimeout \/ BreakOnTerminate \/ StartReaping
    \/ ioworker_one_cb \/ NextIteration
    \/ \E out \in {"device", "failed", "queued"} : RetryQueued(out)
    \/ Return \/ DivideByZero

Environment ==
    \/ \E c \in Ctxs, err \in BOOLEAN : DeviceCompletes(c, err)
    \/ Tick \/ SetTerminate

Next == Loop \/ Environment

(* The worker has its own core and never blocks; time passes.  Nothing is
   assumed of the device. *)
Spec == Init /\ [][Next]_vars /\ WF_vars(Loop) /\ WF_vars(Tick)

-----------------------------------------------------------------------------
LoopStates == {"top", "poll", "reap", "final"}
Ended == pc \in {"returned", "crashed"}

TypeOK ==
    /\ pc \in LoopStates \cup {"entry", "returned", "crashed"}
    /\ clock \in 0 .. MaxTime /\ now \in 0 .. MaxTime
    /\ \A c \in Ctxs : ctx[c].at \in {"idle", "pending", "device", "queued",
                                      "cq", "failed"}
    /\ head_io \in Ctxs \cup {NONE}
    /\ gctx.log_index \in 0 .. args.cmdlog_len
    /\ ret \in {0, -2, -4, -5, -7}

(* Every command counted as sent is in exactly one place: waiting, held for
   an LBA conflict, at the device, completed, or lost in a failed submission.
   A request the retry at the end of an iteration dropped would break this,
   and the loop would wait for it until its timeout.  The head_io the loop acts
   on is the first of those that wait: it is read at the end of an iteration
   and used, and removed, in the next one.  And a worker that returns 0 with no
   device error has come to the count, the time or the end of the trace. *)
EveryIoAccountedFor ==
    /\ TypeOK
    /\ pc \in LoopStates =>
           gctx.sent = gctx.cplt + Len(pending) + Len(queued) + Len(cq)
                       + Cardinality(InState("device")) + gctx.lost
    /\ pc = "top" => head_io = FirstOf(pending)
    /\ pc = "returned" /\ ret = 0 /\ rets.error = 0 =>
           \/ gctx.cplt = IoCount(args)
           \/ clock > Due
           \/ IsSequence /\ gctx.seq_index = Len(args.io_sequence)

(* With an iops limit no prefix of the run exceeds it: the n-th command is
   not submitted before n delays have passed. *)
Throttled ==
    args.delay > 0 /\ ~IsSequence =>
        \/ gctx.submitted = 0
        \/ gctx.submitted * args.delay < clock

(* Trace entries are submitted in trace order, each at most once: what waits
   is in order and comes after everything that was submitted. *)
TraceInOrder ==
    IsSequence =>
        /\ \A i, j \in 1 .. Len(pending) :
              i < j => ctx[pending[i]].entry < ctx[pending[j]].entry
        /\ \A p \in InState("pending"), c \in InState("device")
                \cup InState("queued") \cup InState("cq") :
              ctx[c].entry < ctx[p].entry

(* The io log the caller gets is the last commands completed, the latest one
   at its end, unused places first. *)
LogIsLastCompleted ==
    pc = "returned" /\ ret \notin {-2, -5} =>
        \A k \in 1 .. args.cmdlog_len :
            log[args.cmdlog_len + 1 - k] =
                IF k <= Len(gctx.history)
                THEN gctx.history[Len(gctx.history) + 1 - k] ELSE 0

(* The worker ends, whatever the device, the submissions and the main process
   do: at the latest GRACE seconds after its time limit. *)
Terminates == <>Ended

(* The worker implements IoRun: never more commands than io_count, none after
   the finish flag is set by an error or an end condition, and a return of 0
   only when everything sent has completed, before the buffers are freed. *)
AbsState ==
    IF pc = "entry" THEN "new"
    ELSE IF ret \in {-2, -5} THEN "rejected"
    ELSE IF ret \in {-4, -7} THEN "aborted"
    ELSE IF pc \in {"final", "returned", "crashed"} THEN "finished"
    ELSE IF gctx.finish THEN "closing"
    ELSE "open"

Promise == INSTANCE IoRun WITH
    Limit <- IoCount(args), Window <- Depth(args),
    issued <- gctx.sent, done <- gctx.cplt, state <- AbsState

ImplementsIoRun == Promise!IoRunSpec

-----------------------------------------------------------------------------
(* "all remaining IOs are sending in callbacks till end": a replay that ends
   without any error or time limit has submitted the whole trace. *)
WholeTraceReplayed ==
    pc = "returned" /\ ret = 0 /\ rets.error = 0 /\ IsSequence
      /\ clock <= Due /\ args.io_count = 0 =>
        gctx.submitted = Len(args.io_sequence)
=============================================================================
