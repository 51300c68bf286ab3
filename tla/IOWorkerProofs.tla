--------------------------- MODULE IOWorkerProofs ---------------------------
(***************************************************************************)
(* Proofs about IOWorker, for any arguments: every command is accounted    *)
(* for, the rate and the order of a trace are kept, the io log is the last *)
(* commands completed, and the worker implements IoRun.                    *)
(*                                                                         *)
(* Every ctx is in one place, and the lists are the ctxs whose state they  *)
(* stand for, each of them once (PlaceInv); from this follow the sum of    *)
(* the commands (SumInv), the times of what waits (RateInv) and the order  *)
(* of what waits and what was submitted (TraceInv).                        *)
(***************************************************************************)
EXTENDS IOWorker, FiniteSetTheorems, TLAPS

Ats == {"idle", "pending", "device", "queued", "cq", "failed"}

Contexts == [at : Ats, time : Nat, entry : Nat, serial : Nat]

Completions == [ctx : Ctxs, err : BOOLEAN]

Globals ==
    [sent : Nat, cplt : Nat, finish : BOOLEAN, seq_index : Nat, io_due : Nat,
     submitted : Nat, lost : Nat, log_index : Nat, next_sec : Nat,
     till_last_sec : Nat, per_second : Seq(Int), history : Seq(Nat)]

TypeInv ==
    /\ args \in Args
    /\ pc \in LoopStates \cup {"entry", "returned", "crashed"}
    /\ clock \in 0 .. MaxTime /\ now \in 0 .. MaxTime
    /\ ctx \in [Ctxs -> Contexts]
    /\ pending \in Seq(Ctxs) /\ queued \in Seq(Ctxs) /\ cq \in Seq(Completions)
    /\ head_io \in Ctxs \cup {NONE}
    /\ gctx \in Globals
    /\ rets \in [count : Nat, error : Nat]
    /\ log \in [1 .. args.cmdlog_len -> Nat]
    /\ term \in BOOLEAN /\ ret \in {0, -2, -4, -5, -7}

PendingInv ==
    /\ \A i \in 1 .. Len(pending) : ctx[pending[i]].at = "pending"
    /\ \A i, j \in 1 .. Len(pending) : i # j => pending[i] # pending[j]
    /\ \A c \in Ctxs : ctx[c].at = "pending" =>
           \E i \in 1 .. Len(pending) : pending[i] = c

HeldInv ==
    /\ \A i \in 1 .. Len(queued) : ctx[queued[i]].at = "queued"
    /\ \A i, j \in 1 .. Len(queued) : i # j => queued[i] # queued[j]

CompletedInv ==
    /\ \A i \in 1 .. Len(cq) : ctx[cq[i].ctx].at = "cq"
    /\ \A i, j \in 1 .. Len(cq) : i # j => cq[i].ctx # cq[j].ctx

PlaceInv == PendingInv /\ HeldInv /\ CompletedInv

AtDevice == Cardinality(InState("device"))

Sum(s, c, p, q, r, d, l) == s = c + p + q + r + d + l

SumInv ==
    Sum(gctx.sent, gctx.cplt, Len(pending), Len(queued), Len(cq), AtDevice,
        gctx.lost)

(* Why a worker is finishing. *)
Reason ==
    \/ rets.error # 0
    \/ gctx.lost > 0
    \/ gctx.sent = IoCount(args)
    \/ clock > Due
    \/ IsSequence /\ gctx.seq_index = Len(args.io_sequence)

EndInv ==
    /\ pc = "entry" =>
           /\ \A c \in Ctxs : ctx[c].at = "idle" /\ ctx[c].entry = 0
           /\ pending = <<>> /\ queued = <<>> /\ cq = <<>>
           /\ gctx.submitted = 0 /\ gctx.cplt = 0 /\ gctx.lost = 0
           /\ gctx.sent = 0 /\ ~gctx.finish
    /\ pc \in {"entry", "top", "poll", "reap"} => ret = 0
    /\ pc \in {"final", "returned", "crashed"} /\ ret = 0 =>
           gctx.finish /\ gctx.sent = gctx.cplt
    /\ ret \in {-2, -5} => pc = "returned"
    /\ pc = "top" => head_io = FirstOf(pending)
    /\ gctx.finish => Reason
    /\ gctx.sent <= IoCount(args)
    /\ IsSequence => gctx.seq_index <= Len(args.io_sequence)

RateInv ==
    args.delay > 0 /\ ~IsSequence =>
        /\ gctx.submitted = 0 \/ gctx.submitted * args.delay < clock
        /\ \A k \in 1 .. Len(pending) :
               ctx[pending[k]].time = (gctx.submitted + k) * args.delay
        /\ ~gctx.finish =>
               gctx.io_due = (gctx.submitted + Len(pending)) * args.delay

TraceInv ==
    IsSequence =>
        /\ \A c \in Ctxs : ctx[c].entry <= gctx.seq_index
        /\ \A i, j \in 1 .. Len(pending) :
               i < j => ctx[pending[i]].entry < ctx[pending[j]].entry
        /\ \A p, c \in Ctxs :
               ctx[p].at = "pending" /\ ctx[c].at \in {"device", "queued", "cq"} =>
                   ctx[c].entry < ctx[p].entry

(* Where the k-th latest completion is in the ring, and what it is. *)
PlaceIn(L, x, k) == IF k <= x THEN x + 1 - k ELSE L + x + 1 - k

LatestOf(h, k) == IF k <= Len(h) THEN h[Len(h) + 1 - k] ELSE 0

Place(k) == PlaceIn(args.cmdlog_len, gctx.log_index, k)

Latest(k) == LatestOf(gctx.history, k)

LogInv ==
    /\ gctx.log_index <= args.cmdlog_len
    /\ pc # "returned" =>
           \A k \in 1 .. args.cmdlog_len : log[Place(k)] = Latest(k)
    /\ pc = "returned" /\ ret \notin {-2, -5} =>
           \A k \in 1 .. args.cmdlog_len :
               log[args.cmdlog_len + 1 - k] = Latest(k)

Inv == TypeInv /\ PlaceInv /\ SumInv /\ EndInv /\ RateInv /\ TraceInv /\ LogInv

-----------------------------------------------------------------------------
(* What the arguments and the limits are. *)
LEMMA ArgTypes ==
    ASSUME args \in Args
    PROVE  /\ args.qdepth \in Nat /\ args.qdepth >= 2
           /\ args.io_count \in Nat /\ args.seconds \in Nat /\ args.delay \in Nat
           /\ args.io_sequence \in Seq(Nat) /\ args.cmdlog_len \in Nat
           /\ SEC \in Nat /\ GRACE \in Nat /\ MaxTime \in Nat
           /\ IoCount(args) \in Nat /\ IoCount(args) >= 1
           /\ Depth(args) \in Nat /\ Depth(args) >= 1
           /\ Depth(args) <= IoCount(args)
           /\ NONE \notin Ctxs /\ 1 \in Ctxs /\ Ctxs \subseteq Nat
<1>1. /\ args.qdepth \in Nat /\ args.qdepth >= 2
      /\ args.io_count \in Nat /\ args.seconds \in Nat /\ args.delay \in Nat
      /\ args.io_sequence \in Seq(Nat) /\ args.cmdlog_len \in Nat
  BY ArgsAssumption
<1>2. /\ SEC \in Nat /\ GRACE \in Nat /\ MaxTime \in Nat
      /\ IO_COUNT_MAX \in Nat /\ IO_COUNT_MAX >= 1
  BY LimitsAssumption
<1>3. IoCount(args) \in Nat /\ IoCount(args) >= 1
  BY <1>1, <1>2 DEF IoCount
<1>4. Depth(args) \in Nat /\ Depth(args) >= 1 /\ Depth(args) <= IoCount(args)
  BY <1>1, <1>3 DEF Depth
<1>5. NONE \notin Ctxs /\ 1 \in Ctxs /\ Ctxs \subseteq Nat
  BY <1>4 DEF Ctxs, NONE
<1> QED
  BY <1>1, <1>2, <1>3, <1>4, <1>5

(* The fields of the global context and of a ctx. *)
LEMMA FieldTypes ==
    ASSUME TypeInv
    PROVE  /\ gctx.sent \in Nat /\ gctx.cplt \in Nat /\ gctx.finish \in BOOLEAN
           /\ gctx.seq_index \in Nat /\ gctx.io_due \in Nat
           /\ gctx.submitted \in Nat /\ gctx.lost \in Nat
           /\ gctx.log_index \in Nat /\ gctx.history \in Seq(Nat)
           /\ gctx.next_sec \in Nat /\ gctx.till_last_sec \in Nat
           /\ gctx.per_second \in Seq(Int)
           /\ rets.count \in Nat /\ rets.error \in Nat
           /\ \A c \in Ctxs : /\ ctx[c] \in Contexts
                              /\ ctx[c].at \in Ats /\ ctx[c].time \in Nat
                              /\ ctx[c].entry \in Nat /\ ctx[c].serial \in Nat
<1>1. gctx \in Globals /\ rets \in [count : Nat, error : Nat]
  BY DEF TypeInv
<1>2. \A c \in Ctxs : ctx[c] \in Contexts
  BY DEF TypeInv
<1> QED
  BY <1>1, <1>2 DEF Globals, Contexts

(* The ctxs at the device are finitely many. *)
LEMMA DeviceFinite ==
    ASSUME TypeInv
    PROVE  IsFiniteSet(InState("device")) /\ AtDevice \in Nat
<1>1. IsFiniteSet(Ctxs)
  BY ArgTypes, FS_Interval DEF Ctxs, TypeInv
<1>2. InState("device") \subseteq Ctxs
  BY DEF InState
<1> QED
  BY <1>1, <1>2, FS_Subset, FS_CardinalityType DEF AtDevice

(* A ctx that changes is counted where it was and where it goes. *)
LEMMA DeviceCount ==
    ASSUME TypeInv, NEW c \in Ctxs, NEW v, UNCHANGED args,
           ctx' = [ctx EXCEPT ![c] = v]
    PROVE  AtDevice' = AtDevice - (IF ctx[c].at = "device" THEN 1 ELSE 0)
                                + (IF v.at = "device" THEN 1 ELSE 0)
<1> DEFINE D == InState("device")
<1>1. IsFiniteSet(D) /\ AtDevice = Cardinality(D) /\ AtDevice \in Nat
  BY DeviceFinite DEF AtDevice
<1>2. Ctxs' = Ctxs
  BY DEF Ctxs
<1>3. \A d \in Ctxs : ctx'[d] = IF d = c THEN v ELSE ctx[d]
  BY DEF TypeInv
<1>4. AtDevice' = Cardinality(InState("device")')
  BY DEF AtDevice
<1>5. (c \in D) <=> (ctx[c].at = "device")
  BY DEF InState
<1>6. CASE v.at = "device"
  <2>1. InState("device")' = D \cup {c}
    BY <1>2, <1>3, <1>6 DEF InState
  <2> HIDE DEF D
  <2> QED
    BY <2>1, <1>1, <1>4, <1>5, <1>6, FS_AddElement
<1>7. CASE v.at # "device"
  <2>1. InState("device")' = D \ {c}
    BY <1>2, <1>3, <1>7 DEF InState
  <2> HIDE DEF D
  <2> QED
    BY <2>1, <1>1, <1>4, <1>5, <1>7, FS_RemoveElement
<1> QED
  BY <1>6, <1>7

(* The invariant holds of a worker that was just called. *)
LEMMA InitInv == Init => Inv
<1> SUFFICES ASSUME Init PROVE Inv
  OBVIOUS
<1> USE DEF Init
<1>0. args \in Args
  OBVIOUS
<1>1. TypeInv
  <2>1. ctx \in [Ctxs -> Contexts]
    BY DEF Contexts, Ats
  <2>2. gctx \in Globals
    <3>1. <<>> \in Seq(Int) /\ <<>> \in Seq(Nat) /\ SEC \in Nat
      BY <1>0, ArgTypes
    <3> QED
      BY <3>1 DEF Globals
  <2>3. /\ pending \in Seq(Ctxs) /\ queued \in Seq(Ctxs)
        /\ cq \in Seq(Completions)
    OBVIOUS
  <2>4. clock \in 0 .. MaxTime /\ now \in 0 .. MaxTime
    BY <1>0, ArgTypes
  <2>5. rets \in [count : Nat, error : Nat] /\ log \in [1 .. args.cmdlog_len -> Nat]
    OBVIOUS
  <2>6. pc \in LoopStates \cup {"entry", "returned", "crashed"}
    OBVIOUS
  <2> QED
    BY <2>1, <2>2, <2>3, <2>4, <2>5, <2>6 DEF TypeInv
<1>2. \A c \in Ctxs : ctx[c].at = "idle" /\ ctx[c].entry = 0
  OBVIOUS
<1>3. Len(pending) = 0 /\ Len(queued) = 0 /\ Len(cq) = 0
  OBVIOUS
<1>4. PlaceInv
  BY <1>2, <1>3 DEF PlaceInv, PendingInv, HeldInv, CompletedInv
<1>5. AtDevice = 0
  <2>1. InState("device") = {}
    BY <1>2 DEF InState
  <2> QED
    BY <2>1, FS_EmptySet DEF AtDevice
<1>6. /\ gctx.sent = 0 /\ gctx.cplt = 0 /\ gctx.lost = 0 /\ gctx.finish = FALSE
      /\ gctx.seq_index = 0 /\ gctx.io_due = 0 /\ gctx.submitted = 0
      /\ gctx.log_index = 0 /\ gctx.history = <<>>
  OBVIOUS
<1>7. SumInv
  BY <1>3, <1>5, <1>6 DEF SumInv, Sum
<1>8. EndInv
  BY <1>0, <1>2, <1>6, ArgTypes DEF EndInv, IsSequence
<1>9. RateInv
  <2>1. (gctx.submitted + Len(pending)) * args.delay = 0
    BY <1>0, <1>3, <1>6, ArgTypes
  <2> QED
    BY <2>1, <1>3, <1>6 DEF RateInv
<1>10. TraceInv
  BY <1>2, <1>3, <1>6 DEF TraceInv
<1>11. LogInv
  <2>1. \A k \in 1 .. args.cmdlog_len : Place(k) \in 1 .. args.cmdlog_len
    <3>1. args.cmdlog_len \in Nat /\ gctx.log_index = 0
      BY <1>0, <1>6, ArgTypes
    <3> HIDE DEF Init
    <3> QED
      BY <3>1 DEF Place, PlaceIn
  <2>2. \A k \in 1 .. args.cmdlog_len : log[Place(k)] = 0
    BY <2>1
  <2>3. \A k \in 1 .. args.cmdlog_len : Latest(k) = 0
    BY <1>0, <1>6, ArgTypes DEF Latest, LatestOf
  <2>4. gctx.log_index <= args.cmdlog_len /\ pc = "entry"
    BY <1>0, <1>6, ArgTypes
  <2> HIDE DEF Init
  <2> QED
    BY <2>2, <2>3, <2>4 DEF LogInv
<1> QED
  BY <1>1, <1>4, <1>7, <1>8, <1>9, <1>10, <1>11 DEF Inv

-----------------------------------------------------------------------------
(* A step that leaves the ctxs, the lists and the counters alone keeps what is
   said of them; time only passes. *)
LEMMA QuietKeeps ==
    ASSUME Inv, UNCHANGED <<args, ctx, pending, queued, cq, gctx>>,
           clock' \in 0 .. MaxTime, clock' >= clock
    PROVE  PlaceInv' /\ SumInv' /\ RateInv' /\ TraceInv'
<1> USE DEF Inv
<1>1. Ctxs' = Ctxs /\ IsSequence' = IsSequence
  BY DEF Ctxs, IsSequence
<1>2. PlaceInv'
  BY <1>1 DEF PlaceInv, PendingInv, HeldInv, CompletedInv
<1>3. AtDevice' = AtDevice
  BY <1>1 DEF AtDevice, InState
<1>4. SumInv'
  BY <1>3 DEF SumInv
<1>5. TraceInv'
  BY <1>1 DEF TraceInv
<1>6. RateInv'
  <2>1. args.delay \in Nat /\ gctx.submitted \in Nat /\ MaxTime \in Nat
    BY ArgTypes, FieldTypes DEF TypeInv
  <2>2. clock \in Nat /\ clock' \in Nat
    BY <2>1 DEF TypeInv
  <2> DEFINE t == gctx.submitted * args.delay
  <2>3. t \in Nat
    BY <2>1
  <2>4. t' = t
    OBVIOUS
  <2> HIDE DEF t
  <2>5. t < clock => t' < clock'
    BY <2>2, <2>3, <2>4
  <2> USE DEF t
  <2> QED
    BY <2>5, <1>1 DEF RateInv
<1> QED
  BY <1>2, <1>4, <1>5, <1>6

(* The time limit and the clock are numbers of ticks. *)
LEMMA TimeTypes ==
    ASSUME TypeInv
    PROVE  Due \in Nat /\ clock \in Nat /\ MaxTime \in Nat
<1>1. args.seconds \in Nat /\ SEC \in Nat /\ MaxTime \in Nat
  BY ArgTypes DEF TypeInv
<1>2. Due \in Nat
  BY <1>1 DEF Due
<1>3. clock \in Nat
  BY <1>1 DEF TypeInv
<1> QED
  BY <1>1, <1>2, <1>3

(* What a worker is finishing for stays true. *)
LEMMA ReasonKept ==
    ASSUME Inv, UNCHANGED <<args, gctx>>, Reason,
           rets' = rets \/ rets'.error # 0,
           clock' \in 0 .. MaxTime, clock' >= clock
    PROVE  Reason'
<1>1. Due' = Due /\ IsSequence' = IsSequence
  BY DEF Due, IsSequence
<1>2. Due \in Nat /\ clock \in Nat /\ clock' \in Nat
  BY TimeTypes DEF Inv
<1>3. clock > Due => clock' > Due'
  BY <1>1, <1>2
<1> QED
  BY <1>1, <1>3 DEF Reason

(* The log is kept while it is not rotated. *)
LEMMA LogKept ==
    ASSUME Inv, UNCHANGED <<args, gctx, log>>,
           \/ pc' = pc /\ ret' = ret
           \/ pc # "returned" /\ pc' # "returned"
           \/ pc' = "returned" /\ ret' \in {-2, -5}
    PROVE  LogInv'
<1>1. \A k \in 1 .. args.cmdlog_len : Place(k)' = Place(k) /\ Latest(k)' = Latest(k)
  BY DEF Place, Latest
<1> QED
  BY <1>1 DEF Inv, LogInv

(* The steps of the loop, of the clock and of the main process that only move
   the program counter, the clock and the flags. *)
QuietStep ==
    \/ RejectOversize \/ BufferPoolFails \/ LoopExits \/ NothingToSend
    \/ BreakOnTimeout \/ BreakOnTerminate \/ StartReaping \/ NextIteration
    \/ DivideByZero \/ Tick \/ SetTerminate \/ UNCHANGED vars

(* Those steps keep the invariant. *)
LEMMA QuietInv ==
    ASSUME Inv, QuietStep
    PROVE  Inv'
<1>0. args \in Args /\ MaxTime \in Nat /\ clock \in 0 .. MaxTime /\ now \in 0 .. MaxTime
  BY ArgTypes DEF Inv, TypeInv
<1>1. UNCHANGED <<args, ctx, pending, queued, cq, gctx, log>>
  BY DEF QuietStep, RejectOversize, BufferPoolFails, LoopExits, NothingToSend,
         BreakOnTimeout, BreakOnTerminate, StartReaping, NextIteration,
         DivideByZero, Tick, SetTerminate, vars
<1>2. clock' = clock \/ (clock' = clock + 1 /\ clock < MaxTime)
  BY DEF QuietStep, RejectOversize, BufferPoolFails, LoopExits, NothingToSend,
         BreakOnTimeout, BreakOnTerminate, StartReaping, NextIteration,
         DivideByZero, Tick, SetTerminate, vars
<1>3. clock' \in 0 .. MaxTime /\ clock' >= clock
  BY <1>0, <1>2
<1>4. now' = now \/ now' = clock
  BY DEF QuietStep, RejectOversize, BufferPoolFails, LoopExits, NothingToSend,
         BreakOnTimeout, BreakOnTerminate, StartReaping, NextIteration,
         DivideByZero, Tick, SetTerminate, vars
<1>5. head_io' = head_io \/ head_io' = FirstOf(pending)
  BY DEF QuietStep, RejectOversize, BufferPoolFails, LoopExits, NothingToSend,
         BreakOnTimeout, BreakOnTerminate, StartReaping, NextIteration,
         DivideByZero, Tick, SetTerminate, vars
<1>6. rets' = rets \/ rets' = [rets EXCEPT !.error = 2]
  BY DEF QuietStep, RejectOversize, BufferPoolFails, LoopExits, NothingToSend,
         BreakOnTimeout, BreakOnTerminate, StartReaping, NextIteration,
         DivideByZero, Tick, SetTerminate, vars
<1>7. term' = term \/ term' = TRUE
  BY DEF QuietStep, RejectOversize, BufferPoolFails, LoopExits, NothingToSend,
         BreakOnTimeout, BreakOnTerminate, StartReaping, NextIteration,
         DivideByZero, Tick, SetTerminate, vars
(* How the program counter and the return value move. *)
<1>8. \/ pc = "entry" /\ pc' = "returned" /\ ret' \in {-2, -5}
      \/ pc = "top" /\ pc' = "final" /\ ~Running /\ ret' = ret
      \/ pc = "top" /\ pc' = "poll" /\ ret' = ret
      \/ pc = "poll" /\ pc' = "final" /\ ret' \in {-4, -7}
      \/ pc = "poll" /\ pc' = "reap" /\ ret' = ret
      \/ pc = "reap" /\ pc' = "top" /\ ret' = ret /\ head_io' = FirstOf(pending)
      \/ pc = "final" /\ pc' = "crashed" /\ ret' = ret
      \/ pc' = pc /\ ret' = ret /\ head_io' = head_io
  BY DEF QuietStep, RejectOversize, BufferPoolFails, LoopExits, NothingToSend,
         BreakOnTimeout, BreakOnTerminate, StartReaping, NextIteration,
         DivideByZero, Tick, SetTerminate, vars
<1>9. PlaceInv' /\ SumInv' /\ RateInv' /\ TraceInv'
  BY <1>1, <1>3, QuietKeeps
<1>10. LogInv'
  <2>1. \/ pc' = pc /\ ret' = ret
        \/ pc # "returned" /\ pc' # "returned"
        \/ pc' = "returned" /\ ret' \in {-2, -5}
    BY <1>8
  <2> QED
    BY <1>1, <2>1, LogKept
<1>11. TypeInv'
  <2>1. Ctxs' = Ctxs
    BY <1>1 DEF Ctxs
  <2>2. Completions' = Completions
    BY <2>1 DEF Completions
  <2>3. head_io' \in Ctxs \cup {NONE}
    BY <1>5 DEF Inv, TypeInv, FirstOf
  <2>4. rets' \in [count : Nat, error : Nat]
    BY <1>6 DEF Inv, TypeInv
  <2>5. /\ pc' \in LoopStates \cup {"entry", "returned", "crashed"}
        /\ ret' \in {0, -2, -4, -5, -7}
    BY <1>8 DEF Inv, TypeInv, LoopStates
  <2>6. now' \in 0 .. MaxTime /\ term' \in BOOLEAN
    BY <1>0, <1>4, <1>7 DEF Inv, TypeInv
  <2>7. /\ args' \in Args /\ ctx' \in [Ctxs -> Contexts]
        /\ pending' \in Seq(Ctxs) /\ queued' \in Seq(Ctxs)
        /\ cq' \in Seq(Completions) /\ gctx' \in Globals
        /\ log' \in [1 .. args'.cmdlog_len -> Nat]
    BY <1>1 DEF Inv, TypeInv
  <2> QED
    BY <1>3, <2>1, <2>2, <2>3, <2>4, <2>5, <2>6, <2>7 DEF TypeInv, Contexts
<1>12. EndInv'
  <2>1. Ctxs' = Ctxs /\ IsSequence' = IsSequence /\ FirstOf(pending)' = FirstOf(pending)
    BY <1>1 DEF Ctxs, IsSequence, FirstOf
  <2>2. rets' = rets \/ rets'.error # 0
    BY <1>6 DEF Inv, TypeInv
  <2>3. gctx'.finish => Reason'
    BY <1>1, <1>3, <2>2, ReasonKept DEF Inv, EndInv
  <2>4. /\ gctx'.sent <= IoCount(args')
        /\ IsSequence' => gctx'.seq_index <= Len(args'.io_sequence)
    BY <1>1, <2>1 DEF Inv, EndInv
  <2>5. pc' = "entry" => pc = "entry"
    BY <1>8
  <2>6. pc' = "entry" =>
           /\ \A c \in Ctxs' : ctx'[c].at = "idle" /\ ctx'[c].entry = 0
           /\ pending' = <<>> /\ queued' = <<>> /\ cq' = <<>>
           /\ gctx'.submitted = 0 /\ gctx'.cplt = 0 /\ gctx'.lost = 0
           /\ gctx'.sent = 0 /\ ~gctx'.finish
    BY <1>1, <2>1, <2>5 DEF Inv, EndInv
  <2>7. pc' \in {"entry", "top", "poll", "reap"} => ret' = 0
    BY <1>8 DEF Inv, EndInv
  <2>8. pc' = "top" => head_io' = FirstOf(pending)'
    BY <1>8, <2>1 DEF Inv, EndInv
  <2>9. ret' \in {-2, -5} => pc' = "returned"
    BY <1>8 DEF Inv, EndInv
  <2>10. ~Running => gctx.finish /\ gctx.sent = gctx.cplt
    BY DEF Running
  <2>11. pc' \in {"final", "returned", "crashed"} /\ ret' = 0 =>
             gctx'.finish /\ gctx'.sent = gctx'.cplt
    BY <1>1, <1>8, <2>10 DEF Inv, EndInv
  <2> QED
    BY <2>3, <2>4, <2>6, <2>7, <2>8, <2>9, <2>11 DEF EndInv
<1> QED
  BY <1>9, <1>10, <1>11, <1>12 DEF Inv

-----------------------------------------------------------------------------
(* The first batch. *)
LEMMA StartBatchInv ==
    ASSUME Inv, StartBatch
    PROVE  Inv'
<1> DEFINE F == FirstBatch
<1>0. TypeInv /\ args \in Args
  BY DEF Inv, TypeInv
<1>1. /\ F \in Nat /\ F >= 1 /\ F <= Depth(args)
      /\ IsSequence => F <= Len(args.io_sequence)
  <2>1. args.io_sequence \in Seq(Nat) /\ Depth(args) \in Nat /\ Depth(args) >= 1
    BY <1>0, ArgTypes
  <2>2. IsSequence => Len(args.io_sequence) >= 1
    BY <2>1 DEF IsSequence
  <2>3. Len(args.io_sequence) \in Nat
    BY <2>1
  <2> QED
    BY <2>1, <2>2, <2>3 DEF FirstBatch
<1>2. /\ UNCHANGED <<args, clock, now, queued, cq, rets, log, term, ret>>
      /\ pc = "entry" /\ pc' = "top"
      /\ pending' = [c \in 1 .. F |-> c]
      /\ head_io' = 1
  <2>1. /\ UNCHANGED <<args, clock, now, queued, cq, rets, log, term, ret>>
        /\ pc = "entry" /\ pc' = "top"
        /\ pending' = [c \in 1 .. F |-> c]
        /\ head_io' = IF F = 0 THEN NONE ELSE 1
    BY DEF StartBatch
  <2> HIDE DEF F
  <2>2. head_io' = 1
    BY <1>1, <2>1
  <2> QED
    BY <2>1, <2>2
<1>3. Ctxs' = Ctxs /\ IsSequence' = IsSequence /\ Completions' = Completions
  BY <1>2 DEF Ctxs, IsSequence, Completions
<1>4. 1 .. F \subseteq Ctxs
  BY <1>0, <1>1, ArgTypes DEF Ctxs
<1>5. /\ gctx' \in Globals
      /\ gctx'.sent = F
      /\ gctx'.seq_index = IF IsSequence THEN F ELSE 0
      /\ gctx'.io_due = IF IsSequence THEN 0 ELSE F * args.delay
      /\ gctx'.cplt = gctx.cplt /\ gctx'.finish = gctx.finish
      /\ gctx'.submitted = gctx.submitted /\ gctx'.lost = gctx.lost
      /\ gctx'.log_index = gctx.log_index /\ gctx'.history = gctx.history
  <2> DEFINE s == IF IsSequence THEN F ELSE 0
             e == IF IsSequence THEN 0 ELSE F * args.delay
  <2>1. F * args.delay \in Nat
    BY <1>0, <1>1, ArgTypes
  <2>2. F \in Nat /\ s \in Nat /\ e \in Nat
    BY <1>1, <2>1
  <2>3. gctx' = [gctx EXCEPT !.sent = F, !.seq_index = s, !.io_due = e]
    BY DEF StartBatch
  <2> HIDE DEF s, e, F
  <2>4. gctx \in Globals
    BY <1>0 DEF TypeInv
  <2>5. /\ gctx' \in Globals
        /\ gctx'.sent = F /\ gctx'.seq_index = s /\ gctx'.io_due = e
        /\ gctx'.cplt = gctx.cplt /\ gctx'.finish = gctx.finish
        /\ gctx'.submitted = gctx.submitted /\ gctx'.lost = gctx.lost
        /\ gctx'.log_index = gctx.log_index /\ gctx'.history = gctx.history
    BY <2>2, <2>3, <2>4 DEF Globals
  <2> QED
    BY <2>5 DEF s, e
<1>6. \A c \in Ctxs : FirstTime(c) \in Nat \/ c > F
  <2>1. args.io_sequence \in Seq(Nat) /\ args.delay \in Nat /\ clock \in Nat
    BY <1>0, ArgTypes, TimeTypes
  <2>2. \A c \in 1 .. F : c * args.delay \in Nat
    BY <2>1, <1>1
  <2>3. \A c \in 1 .. F : IsSequence => args.io_sequence[c] \in Nat
    BY <2>1, <1>1
  <2> HIDE DEF F
  <2>4. \A c \in 1 .. F : FirstTime(c) \in Nat
    BY <2>1, <2>2, <2>3 DEF FirstTime
  <2>5. \A c \in Ctxs : c \in 1 .. F \/ c > F
    BY <1>0, <1>1, ArgTypes DEF Ctxs
  <2> QED
    BY <2>4, <2>5
<1>7. \A c \in Ctxs :
          /\ ctx'[c] \in Contexts
          /\ ctx'[c].at = IF c <= F THEN "pending" ELSE "idle"
          /\ ctx'[c].entry = IF c <= F /\ IsSequence THEN c ELSE 0
          /\ c <= F => ctx'[c].time = FirstTime(c)
  <2> SUFFICES ASSUME NEW c \in Ctxs
               PROVE  /\ ctx'[c] \in Contexts
                      /\ ctx'[c].at = IF c <= F THEN "pending" ELSE "idle"
                      /\ ctx'[c].entry = IF c <= F /\ IsSequence THEN c ELSE 0
                      /\ c <= F => ctx'[c].time = FirstTime(c)
    OBVIOUS
  <2>1. ctx[c] \in Contexts /\ ctx[c].at = "idle" /\ ctx[c].entry = 0
    BY <1>0, <1>2, FieldTypes DEF Inv, EndInv
  <2> DEFINE t == FirstTime(c)
             n == IF IsSequence THEN c ELSE 0
  <2>2. ctx'[c] = IF c <= F THEN [ctx[c] EXCEPT !.at = "pending", !.time = t, !.entry = n]
                            ELSE ctx[c]
    BY DEF StartBatch
  <2>3. c \in Nat /\ n \in Nat
    BY <1>0, ArgTypes
  <2>4. c <= F => t \in Nat
    BY <1>1, <1>6, <2>3
  <2>5. n = IF IsSequence THEN c ELSE 0
    OBVIOUS
  <2>6. t = FirstTime(c)
    OBVIOUS
  <2> HIDE DEF t, n, F
  <2>7. CASE c <= F
    BY <2>1, <2>2, <2>3, <2>4, <2>5, <2>6, <2>7 DEF Contexts, Ats
  <2>8. CASE ~(c <= F)
    BY <2>1, <2>2, <2>8
  <2> QED
    BY <2>7, <2>8
<1>8. /\ pending' \in Seq(Ctxs) /\ Len(pending') = F
      /\ \A i \in 1 .. F : pending'[i] = i
  <2>1. pending' \in [1 .. F -> Ctxs]
    BY <1>2, <1>4
  <2> QED
    BY <1>1, <1>2, <2>1
<1> HIDE DEF F
<1>9. TypeInv'
  <2>1. ctx' \in [Ctxs -> Contexts]
    <3>1. DOMAIN ctx' = Ctxs /\ ctx' = [c \in Ctxs |-> ctx'[c]]
      BY DEF StartBatch
    <3> QED
      BY <3>1, <1>7
  <2>2. head_io' \in Ctxs \cup {NONE}
    BY <1>0, <1>2, ArgTypes
  <2>3. pc' \in LoopStates \cup {"entry", "returned", "crashed"}
    BY <1>2 DEF LoopStates
  <2>4. Contexts' = Contexts /\ Globals' = Globals
    BY DEF Contexts, Globals
  <2> QED
    BY <1>0, <1>2, <1>3, <1>5, <1>8, <2>1, <2>2, <2>3, <2>4 DEF TypeInv
<1>10. Len(queued') = 0 /\ Len(cq') = 0
  BY <1>2 DEF Inv, EndInv
<1>11. PlaceInv'
  <2>1. \A c \in Ctxs : c <= F => c \in 1 .. F
    BY <1>0, <1>1, ArgTypes DEF Ctxs
  <2>2. \A i \in 1 .. F : i \in Ctxs /\ i <= F
    BY <1>1, <1>4
  <2>3. \A i \in 1 .. Len(pending') : ctx'[pending'[i]].at = "pending"
    BY <1>7, <1>8, <2>2
  <2>4. \A c \in Ctxs : ctx'[c].at = "pending" =>
            \E i \in 1 .. Len(pending') : pending'[i] = c
    BY <1>7, <1>8, <2>1
  <2>5. \A i, j \in 1 .. Len(pending') : i # j => pending'[i] # pending'[j]
    BY <1>8
  <2> QED
    BY <1>3, <1>10, <2>3, <2>4, <2>5 DEF PlaceInv, PendingInv, HeldInv, CompletedInv
<1>12. SumInv'
  <2>1. InState("device")' = {}
    BY <1>3, <1>7 DEF InState
  <2>2. AtDevice' = 0
    BY <2>1, FS_EmptySet DEF AtDevice
  <2>3. gctx'.cplt = 0 /\ gctx'.lost = 0
    BY <1>2, <1>5 DEF Inv, EndInv
  <2> QED
    BY <1>1, <1>5, <1>8, <1>10, <2>2, <2>3 DEF SumInv, Sum
<1>13. EndInv'
  <2>1. ~gctx'.finish /\ ret' = 0
    BY <1>2, <1>5 DEF Inv, EndInv
  <2>2. gctx'.sent <= IoCount(args')
    BY <1>0, <1>1, <1>2, <1>5, ArgTypes
  <2>3. FirstOf(pending)' = 1
    BY <1>1, <1>8 DEF FirstOf
  <2>4. IsSequence' => gctx'.seq_index <= Len(args'.io_sequence)
    BY <1>1, <1>2, <1>3, <1>5
  <2> QED
    BY <1>2, <2>1, <2>2, <2>3, <2>4 DEF EndInv
<1>14. RateInv'
  <2> SUFFICES ASSUME args.delay > 0, ~IsSequence
               PROVE  /\ gctx'.submitted = 0
                      /\ \A k \in 1 .. Len(pending') :
                             ctx'[pending'[k]].time = (gctx'.submitted + k) * args.delay
                      /\ gctx'.io_due = (gctx'.submitted + Len(pending')) * args.delay
    BY <1>2, <1>3 DEF RateInv
  <2>1. gctx'.submitted = 0
    BY <1>2, <1>5 DEF Inv, EndInv
  <2>2. gctx'.io_due = F * args.delay /\ 0 + F = F
    BY <1>1, <1>5
  <2>3. ASSUME NEW k \in 1 .. Len(pending')
        PROVE  ctx'[pending'[k]].time = (gctx'.submitted + k) * args.delay
    <3>1. k \in 1 .. F /\ pending'[k] = k /\ k \in Ctxs /\ k <= F /\ 0 + k = k
      BY <1>1, <1>4, <1>8
    <3>2. FirstTime(k) = k * args.delay
      BY DEF FirstTime
    <3> QED
      BY <3>1, <3>2, <2>1, <1>7
  <2> QED
    BY <2>1, <2>2, <2>3, <1>8
<1>15. TraceInv'
  <2> SUFFICES ASSUME IsSequence
               PROVE  /\ \A c \in Ctxs : ctx'[c].entry <= gctx'.seq_index
                      /\ \A i, j \in 1 .. Len(pending') :
                             i < j => ctx'[pending'[i]].entry < ctx'[pending'[j]].entry
                      /\ \A c \in Ctxs : ctx'[c].at \notin {"device", "queued", "cq"}
    BY <1>3 DEF TraceInv
  <2>1. \A c \in Ctxs : ctx'[c].entry <= gctx'.seq_index
    <3>1. gctx'.seq_index = F
      BY <1>5
    <3>2. \A c \in Ctxs : c \in Nat /\ ctx'[c].entry = IF c <= F THEN c ELSE 0
      BY <1>0, <1>7, ArgTypes
    <3> QED
      BY <1>1, <3>1, <3>2
  <2>2. \A i \in 1 .. F : pending'[i] = i /\ i \in Ctxs /\ ctx'[i].entry = i
    BY <1>1, <1>4, <1>7, <1>8
  <2> QED
    BY <2>1, <2>2, <1>1, <1>7, <1>8
<1>16. LogInv'
  <2>1. \A k \in 1 .. args.cmdlog_len : Place(k)' = Place(k) /\ Latest(k)' = Latest(k)
    BY <1>2, <1>5 DEF Place, Latest
  <2> QED
    BY <1>2, <1>5, <2>1 DEF Inv, LogInv
<1> QED
  BY <1>9, <1>11, <1>12, <1>13, <1>14, <1>15, <1>16 DEF Inv

-----------------------------------------------------------------------------
(* One delay more. *)
LEMMA OneMore ==
    ASSUME NEW n \in Nat, NEW d \in Nat
    PROVE  (n + 1) * d = n * d + d
OBVIOUS

(* The moves of a command that keep the sum: from the pending list to the
   held ones, to the device or nowhere; from the held ones to the device or
   nowhere; from the device to the completions; reaped, and replaced. *)
LEMMA SumMoves ==
    ASSUME NEW s \in Int, NEW c \in Int, NEW p \in Int, NEW q \in Int,
           NEW r \in Int, NEW d \in Int, NEW l \in Int,
           Sum(s, c, p, q, r, d, l)
    PROVE  /\ Sum(s, c, p - 1, q + 1, r, d, l)
           /\ Sum(s, c, p - 1, q, r, d + 1, l)
           /\ Sum(s, c, p - 1, q, r, d, l + 1)
           /\ Sum(s, c, p, q - 1, r, d + 1, l)
           /\ Sum(s, c, p, q - 1, r, d, l + 1)
           /\ Sum(s, c, p, q, r + 1, d - 1, l)
           /\ Sum(s, c + 1, p, q, r - 1, d, l)
           /\ Sum(s + 1, c + 1, p + 1, q, r - 1, d, l)
BY DEF Sum

(* Where a submission can put a command. *)
LEMMA OutcomeKinds ==
    ASSUME NEW c, NEW out \in Outcomes(c)
    PROVE  out \in {"device", "failed", "queued"}
BY DEF Outcomes

(* The submission of the head of the pending list. *)
LEMMA SendHeadInv ==
    ASSUME Inv, NEW out, SendHead(out)
    PROVE  Inv'
<1>0. TypeInv /\ args \in Args /\ PlaceInv /\ EndInv
  BY DEF Inv, TypeInv
<1>1. /\ UNCHANGED <<args, clock, head_io, cq, rets, log, term, ret>>
      /\ pc = "top" /\ pc' = "poll" /\ now' = clock
      /\ pending' = Tail(pending)
      /\ queued' = IF out = "queued" THEN Append(queued, head_io) ELSE queued
      /\ head_io # NONE /\ clock > ctx[head_io].time
      /\ out \in {"device", "failed", "queued"}
  BY OutcomeKinds DEF SendHead, HeadIsDue
<1>2. Ctxs' = Ctxs /\ IsSequence' = IsSequence /\ Completions' = Completions
  BY <1>1 DEF Ctxs, IsSequence, Completions
<1>3. /\ pending \in Seq(Ctxs) /\ pending # <<>> /\ Len(pending) \in Nat
      /\ Len(pending) >= 1 /\ head_io = pending[1] /\ head_io \in Ctxs
  <2>1. pending \in Seq(Ctxs) /\ head_io = FirstOf(pending)
    BY <1>0, <1>1 DEF EndInv, TypeInv
  <2>2. pending # <<>>
    BY <1>1, <2>1 DEF FirstOf
  <2> QED
    BY <2>1, <2>2 DEF FirstOf
<1>4. PICK h : h = head_io
  OBVIOUS
<1>5. h \in Ctxs /\ ctx[h] \in Contexts /\ ctx[h].at = "pending"
  <2>1. h \in Ctxs /\ 1 \in 1 .. Len(pending) /\ h = pending[1]
    BY <1>3, <1>4
  <2> QED
    BY <1>0, <2>1, FieldTypes DEF PlaceInv, PendingInv
<1>6. PICK v : /\ ctx' = [ctx EXCEPT ![h] = v] /\ v \in Contexts
               /\ v.at = out /\ v.entry = ctx[h].entry
  <2> DEFINE n == gctx.submitted + 1
             v == [ctx[head_io] EXCEPT !.at = out,
                                       !.time = IF out = "failed" THEN @ ELSE clock,
                                       !.serial = n]
  <2>1. ctx' = [ctx EXCEPT ![head_io] = v]
    BY DEF SendHead
  <2>2. n \in Nat /\ clock \in Nat
    <3>1. gctx.submitted \in Nat
      BY <1>0, FieldTypes
    <3> QED
      BY <1>0, <3>1, TimeTypes
  <2>3. out \in Ats /\ ctx[head_io] \in Contexts
    BY <1>1, <1>4, <1>5 DEF Ats
  <2> HIDE DEF n
  <2>4. v \in Contexts /\ v.at = out /\ v.entry = ctx[head_io].entry
    BY <2>2, <2>3 DEF Contexts
  <2> QED
    BY <1>4, <2>1, <2>4
<1>7. \A c \in Ctxs : ctx'[c] = IF c = h THEN v ELSE ctx[c]
  BY <1>0, <1>6 DEF TypeInv
<1>8. /\ gctx' \in Globals
      /\ gctx'.sent = gctx.sent /\ gctx'.cplt = gctx.cplt
      /\ gctx'.finish = (gctx.finish \/ out = "failed")
      /\ gctx'.lost = IF out = "failed" THEN gctx.lost + 1 ELSE gctx.lost
      /\ gctx'.submitted = gctx.submitted + 1
      /\ gctx'.seq_index = gctx.seq_index /\ gctx'.io_due = gctx.io_due
      /\ gctx'.log_index = gctx.log_index /\ gctx'.history = gctx.history
  <2> DEFINE f == gctx.finish \/ out = "failed"
             l == IF out = "failed" THEN gctx.lost + 1 ELSE gctx.lost
             n == gctx.submitted + 1
  <2>1. gctx \in Globals
    BY <1>0 DEF TypeInv
  <2>2. gctx' = [gctx EXCEPT !.finish = f, !.lost = l, !.submitted = n]
    BY <2>1 DEF SendHead, Globals
  <2>3. f \in BOOLEAN /\ l \in Nat /\ n \in Nat
    <3>1. gctx.finish \in BOOLEAN /\ gctx.lost \in Nat /\ gctx.submitted \in Nat
      BY <1>0, FieldTypes
    <3> QED
      BY <3>1
  <2> HIDE DEF f, l, n
  <2>4. /\ gctx' \in Globals
        /\ gctx'.sent = gctx.sent /\ gctx'.cplt = gctx.cplt
        /\ gctx'.finish = f /\ gctx'.lost = l /\ gctx'.submitted = n
        /\ gctx'.seq_index = gctx.seq_index /\ gctx'.io_due = gctx.io_due
        /\ gctx'.log_index = gctx.log_index /\ gctx'.history = gctx.history
    BY <2>1, <2>2, <2>3 DEF Globals
  <2> QED
    BY <2>4 DEF f, l, n
<1>9. /\ pending' \in Seq(Ctxs) /\ Len(pending') = Len(pending) - 1
      /\ \A i \in 1 .. Len(pending') : /\ pending'[i] = pending[i + 1]
                                       /\ i + 1 \in 1 .. Len(pending)
                                       /\ pending[i + 1] \in Ctxs
                                       /\ pending[i + 1] # h
  <2>1. /\ pending' \in Seq(Ctxs) /\ Len(pending') = Len(pending) - 1
        /\ \A i \in 1 .. Len(pending') : /\ pending'[i] = pending[i + 1]
                                         /\ i + 1 \in 1 .. Len(pending)
                                         /\ pending[i + 1] \in Ctxs
    BY <1>1, <1>3
  <2>2. \A i \in 1 .. Len(pending') : pending[i + 1] # pending[1]
    <3>1. \A i \in 1 .. Len(pending') : i + 1 # 1 /\ 1 \in 1 .. Len(pending)
      BY <1>3, <2>1
    <3> QED
      BY <1>0, <2>1, <3>1 DEF PlaceInv, PendingInv
  <2> QED
    BY <2>1, <2>2, <1>3, <1>4
<1>10. /\ queued \in Seq(Ctxs) /\ queued' \in Seq(Ctxs)
       /\ Len(queued) \in Nat
       /\ Len(queued') = IF out = "queued" THEN Len(queued) + 1 ELSE Len(queued)
       /\ \A i \in 1 .. Len(queued') : queued'[i] = IF i <= Len(queued) THEN queued[i] ELSE h
       /\ \A i \in 1 .. Len(queued') : i \in 1 .. Len(queued) \/ (i = Len(queued) + 1 /\ out = "queued")
       /\ \A i \in 1 .. Len(queued) : queued[i] \in Ctxs /\ queued[i] # h
  <2>1. queued \in Seq(Ctxs)
    BY <1>0 DEF TypeInv
  <2>2. \A i \in 1 .. Len(queued) : queued[i] \in Ctxs /\ queued[i] # h
    BY <1>0, <1>5, <2>1 DEF PlaceInv, HeldInv
  <2>3. CASE out = "queued"
    <3>1. queued' = Append(queued, h)
      BY <1>1, <1>4, <2>3
    <3> QED
      BY <1>5, <2>1, <2>2, <2>3, <3>1
  <2>4. CASE out # "queued"
    <3>1. queued' = queued
      BY <1>1, <2>4
    <3> QED
      BY <2>1, <2>2, <2>4, <3>1
  <2> QED
    BY <2>3, <2>4
<1>11. \A i \in 1 .. Len(cq) : cq[i].ctx \in Ctxs /\ cq[i].ctx # h
  <2>1. cq \in Seq(Completions)
    BY <1>0 DEF TypeInv
  <2>2. \A i \in 1 .. Len(cq) : cq[i] \in Completions
    BY <2>1
  <2>3. \A i \in 1 .. Len(cq) : cq[i].ctx \in Ctxs
    BY <2>2 DEF Completions
  <2> QED
    BY <1>0, <1>5, <2>3 DEF PlaceInv, CompletedInv
<1>12. TypeInv'
  <2>1. ctx' \in [Ctxs -> Contexts]
    BY <1>0, <1>5, <1>6 DEF TypeInv
  <2>2. pc' \in LoopStates \cup {"entry", "returned", "crashed"}
    BY <1>1 DEF LoopStates
  <2>3. Contexts' = Contexts /\ Globals' = Globals
    BY DEF Contexts, Globals
  <2> QED
    BY <1>0, <1>1, <1>2, <1>8, <1>9, <1>10, <2>1, <2>2, <2>3 DEF TypeInv
<1>13. PlaceInv'
  <2>1. ASSUME NEW i \in 1 .. Len(pending')
        PROVE  ctx'[pending'[i]].at = "pending"
    <3>1. ctx[pending[i + 1]].at = "pending"
      BY <1>0, <1>9 DEF PlaceInv, PendingInv
    <3> QED
      BY <1>7, <1>9, <3>1
  <2>2. ASSUME NEW i \in 1 .. Len(pending'), NEW j \in 1 .. Len(pending'), i # j
        PROVE  pending'[i] # pending'[j]
    <3>1. i + 1 # j + 1
      BY <2>2
    <3>2. i + 1 \in 1 .. Len(pending) /\ j + 1 \in 1 .. Len(pending)
      BY <1>9
    <3>3. pending[i + 1] # pending[j + 1]
      BY <1>0, <3>1, <3>2 DEF PlaceInv, PendingInv
    <3> QED
      BY <1>9, <3>3
  <2>3. ASSUME NEW c \in Ctxs, ctx'[c].at = "pending"
        PROVE  \E i \in 1 .. Len(pending') : pending'[i] = c
    <3>1. c # h /\ ctx[c].at = "pending"
      BY <1>1, <1>6, <1>7, <2>3
    <3>2. PICK i \in 1 .. Len(pending) : pending[i] = c
      BY <1>0, <3>1 DEF PlaceInv, PendingInv
    <3>3. i # 1
      BY <1>3, <1>4, <3>1, <3>2
    <3>4. i - 1 \in 1 .. Len(pending') /\ (i - 1) + 1 = i
      BY <1>3, <1>9, <3>3
    <3> QED
      BY <1>9, <3>2, <3>4
  <2>4. \A i \in 1 .. Len(queued') : ctx'[queued'[i]].at = "queued"
    BY <1>0, <1>5, <1>6, <1>7, <1>10 DEF PlaceInv, HeldInv
  <2>5. \A i, j \in 1 .. Len(queued') : i # j => queued'[i] # queued'[j]
    BY <1>0, <1>10 DEF PlaceInv, HeldInv
  <2>6. \A i \in 1 .. Len(cq') : ctx'[cq'[i].ctx].at = "cq"
    BY <1>0, <1>1, <1>7, <1>11 DEF PlaceInv, CompletedInv
  <2>7. \A i, j \in 1 .. Len(cq') : i # j => cq'[i].ctx # cq'[j].ctx
    BY <1>0, <1>1 DEF PlaceInv, CompletedInv
  <2> QED
    BY <1>2, <2>1, <2>2, <2>3, <2>4, <2>5, <2>6, <2>7 DEF PlaceInv, PendingInv, HeldInv, CompletedInv
<1>14. SumInv'
  <2>1. AtDevice' = AtDevice + (IF out = "device" THEN 1 ELSE 0)
    <3>1. AtDevice' = AtDevice - (IF ctx[h].at = "device" THEN 1 ELSE 0)
                               + (IF v.at = "device" THEN 1 ELSE 0)
      BY <1>0, <1>1, <1>5, <1>6, DeviceCount
    <3>2. AtDevice \in Nat
      BY <1>0, DeviceFinite
    <3> QED
      BY <1>5, <1>6, <3>1, <3>2
  <2>2. Len(cq') = Len(cq) /\ Len(cq) \in Nat
    BY <1>0, <1>1 DEF TypeInv
  <2>3. SumInv
    BY DEF Inv
  <2>4. /\ gctx.sent \in Nat /\ gctx.cplt \in Nat /\ gctx.lost \in Nat
        /\ AtDevice \in Nat
    BY <1>0, FieldTypes, DeviceFinite
  <2>5. /\ gctx.sent \in Int /\ gctx.cplt \in Int /\ Len(pending) \in Int
        /\ Len(queued) \in Int /\ Len(cq) \in Int /\ AtDevice \in Int
        /\ gctx.lost \in Int
    BY <1>3, <1>10, <2>2, <2>4
  <2>6. /\ Sum(gctx.sent, gctx.cplt, Len(pending) - 1, Len(queued) + 1, Len(cq),
               AtDevice, gctx.lost)
        /\ Sum(gctx.sent, gctx.cplt, Len(pending) - 1, Len(queued), Len(cq),
               AtDevice + 1, gctx.lost)
        /\ Sum(gctx.sent, gctx.cplt, Len(pending) - 1, Len(queued), Len(cq),
               AtDevice, gctx.lost + 1)
    BY <2>3, <2>5, SumMoves DEF SumInv
  <2>7. /\ out = "queued" => Len(queued') = Len(queued) + 1
        /\ out # "queued" => Len(queued') = Len(queued)
        /\ out = "device" => AtDevice' = AtDevice + 1
        /\ out # "device" => AtDevice' = AtDevice
        /\ out = "failed" => gctx'.lost = gctx.lost + 1
        /\ out # "failed" => gctx'.lost = gctx.lost
        /\ gctx'.sent = gctx.sent /\ gctx'.cplt = gctx.cplt
        /\ Len(pending') = Len(pending) - 1
    <3>1. /\ Len(queued') = IF out = "queued" THEN Len(queued) + 1 ELSE Len(queued)
          /\ Len(pending') = Len(pending) - 1
      BY <1>9, <1>10
    <3>2. /\ gctx'.lost = IF out = "failed" THEN gctx.lost + 1 ELSE gctx.lost
          /\ gctx'.sent = gctx.sent /\ gctx'.cplt = gctx.cplt
      BY <1>8
    <3> QED
      BY <2>1, <2>4, <3>1, <3>2
  <2> QED
    BY <1>1, <2>2, <2>6, <2>7, Zenon DEF SumInv
<1>15. EndInv'
  <2>1. ret' = 0
    BY <1>0, <1>1 DEF EndInv
  <2>2. gctx'.finish => Reason'
    <3>1. out = "failed" => gctx'.lost > 0
      BY <1>0, <1>8, FieldTypes
    <3>2. gctx.lost > 0 => gctx'.lost > 0
      BY <1>0, <1>8, FieldTypes
    <3>3. Reason => Reason'
      BY <1>1, <1>2, <1>8, <3>2 DEF Reason, Due
    <3>4. gctx'.lost > 0 => Reason'
      BY DEF Reason
    <3> QED
      BY <1>0, <1>8, <3>1, <3>3, <3>4 DEF EndInv
  <2> QED
    BY <1>0, <1>1, <1>2, <1>8, <2>1, <2>2 DEF EndInv
<1>16. RateInv'
  <2> SUFFICES ASSUME args.delay > 0, ~IsSequence
               PROVE  /\ gctx'.submitted * args.delay < clock
                      /\ \A k \in 1 .. Len(pending') :
                             ctx'[pending'[k]].time = (gctx'.submitted + k) * args.delay
                      /\ ~gctx'.finish =>
                             gctx'.io_due = (gctx'.submitted + Len(pending')) * args.delay
    BY <1>1, <1>2 DEF RateInv
  <2>1. /\ \A k \in 1 .. Len(pending) :
               ctx[pending[k]].time = (gctx.submitted + k) * args.delay
        /\ ~gctx.finish =>
               gctx.io_due = (gctx.submitted + Len(pending)) * args.delay
    BY DEF Inv, RateInv
  <2>2. gctx.submitted \in Nat
    BY <1>0, FieldTypes
  <2>3. gctx'.submitted * args.delay < clock
    <3>1. 1 \in 1 .. Len(pending) /\ ctx[pending[1]].time = (gctx.submitted + 1) * args.delay
      BY <1>3, <2>1
    <3>2. ctx[pending[1]].time = gctx'.submitted * args.delay
      BY <1>8, <3>1
    <3>3. ctx[pending[1]].time \in Nat /\ clock \in Nat /\ clock > ctx[pending[1]].time
      BY <1>0, <1>1, <1>3, FieldTypes, TimeTypes
    <3> QED
      BY <3>2, <3>3
  <2>4. ASSUME NEW k \in 1 .. Len(pending')
        PROVE  ctx'[pending'[k]].time = (gctx'.submitted + k) * args.delay
    <3>1. ctx'[pending'[k]] = ctx[pending[k + 1]]
      BY <1>7, <1>9
    <3>2. gctx'.submitted + k = gctx.submitted + (k + 1)
      BY <1>8, <2>2
    <3>3. ctx[pending[k + 1]].time = (gctx.submitted + (k + 1)) * args.delay
      BY <1>9, <2>1
    <3> QED
      BY <3>1, <3>2, <3>3
  <2>5. gctx'.submitted + Len(pending') = gctx.submitted + Len(pending)
    BY <1>3, <1>8, <1>9, <2>2
  <2> QED
    BY <1>8, <2>1, <2>3, <2>4, <2>5
<1>17. TraceInv'
  <2> SUFFICES ASSUME IsSequence
               PROVE  /\ \A c \in Ctxs : ctx'[c].entry <= gctx'.seq_index
                      /\ \A i, j \in 1 .. Len(pending') :
                             i < j => ctx'[pending'[i]].entry < ctx'[pending'[j]].entry
                      /\ \A p, c \in Ctxs :
                             ctx'[p].at = "pending" /\ ctx'[c].at \in {"device", "queued", "cq"}
                                 => ctx'[c].entry < ctx'[p].entry
    BY <1>2 DEF TraceInv
  <2>1. /\ \A c \in Ctxs : ctx[c].entry <= gctx.seq_index
        /\ \A i, j \in 1 .. Len(pending) :
               i < j => ctx[pending[i]].entry < ctx[pending[j]].entry
        /\ \A p, c \in Ctxs :
               ctx[p].at = "pending" /\ ctx[c].at \in {"device", "queued", "cq"}
                   => ctx[c].entry < ctx[p].entry
    BY DEF Inv, TraceInv
  <2>2. \A c \in Ctxs : ctx'[c].entry = ctx[c].entry
    BY <1>6, <1>7
  <2>3. \A i, j \in 1 .. Len(pending') :
            i < j => ctx'[pending'[i]].entry < ctx'[pending'[j]].entry
    <3>1. \A i, j \in 1 .. Len(pending') : i < j => i + 1 < j + 1
      OBVIOUS
    <3> QED
      BY <1>9, <2>1, <2>2, <3>1
  (* The head of the list comes before the rest of it. *)
  <2>4. ASSUME NEW p \in Ctxs, ctx'[p].at = "pending"
        PROVE  ctx[p].at = "pending" /\ ctx[h].entry < ctx[p].entry
    <3>1. p # h /\ ctx[p].at = "pending"
      BY <1>1, <1>6, <1>7, <2>4
    <3>2. PICK i \in 1 .. Len(pending) : pending[i] = p
      BY <1>0, <3>1 DEF PlaceInv, PendingInv
    <3>3. 1 < i /\ 1 \in 1 .. Len(pending)
      BY <1>3, <1>4, <3>1, <3>2
    <3> QED
      BY <1>3, <1>4, <2>1, <3>1, <3>2, <3>3
  <2>5. \A c \in Ctxs : ctx'[c].at \in {"device", "queued", "cq"} =>
            c = h \/ ctx[c].at \in {"device", "queued", "cq"}
    BY <1>7
  <2> QED
    BY <1>8, <2>1, <2>2, <2>3, <2>4, <2>5
<1>18. LogInv'
  <2>1. \A k \in 1 .. args.cmdlog_len : Place(k)' = Place(k) /\ Latest(k)' = Latest(k)
    BY <1>1, <1>8 DEF Place, Latest
  <2> QED
    BY <1>1, <1>8, <2>1 DEF Inv, LogInv
<1> QED
  BY <1>12, <1>13, <1>14, <1>15, <1>16, <1>17, <1>18 DEF Inv

-----------------------------------------------------------------------------
(* The completions name ctxs that are completed, each of them once. *)
LEMMA CompletionTypes ==
    ASSUME TypeInv
    PROVE  /\ cq \in Seq(Completions) /\ Len(cq) \in Nat
           /\ \A i \in 1 .. Len(cq) : /\ cq[i] \in Completions
                                      /\ cq[i].ctx \in Ctxs /\ cq[i].err \in BOOLEAN
<1>1. cq \in Seq(Completions)
  BY DEF TypeInv
<1>2. \A i \in 1 .. Len(cq) : cq[i] \in Completions
  BY <1>1
<1>3. \A i \in 1 .. Len(cq) : cq[i].ctx \in Ctxs /\ cq[i].err \in BOOLEAN
  BY <1>2 DEF Completions
<1> QED
  BY <1>1, <1>2, <1>3

(* A ctx that is not on the pending list becomes v, and does not go there. *)
MovesBeside(h, v) ==
    /\ ctx' = [ctx EXCEPT ![h] = v]
    /\ ctx[h].at = "device" \/ ctx[h].at = "queued"
    /\ v.at # "pending" /\ v.entry = ctx[h].entry
    /\ UNCHANGED <<args, pending, clock>>
    /\ gctx'.submitted = gctx.submitted /\ gctx'.io_due = gctx.io_due
    /\ gctx'.seq_index = gctx.seq_index /\ gctx'.finish = gctx.finish

(* It leaves the list, its times and its order as they are. *)
LEMMA PendingKept ==
    ASSUME Inv, NEW h \in Ctxs, NEW v, MovesBeside(h, v)
    PROVE  /\ RateInv' /\ TraceInv'
           /\ \A i \in 1 .. Len(pending) : pending[i] # h /\ ctx'[pending[i]] = ctx[pending[i]]
           /\ \A c \in Ctxs : ctx'[c] = IF c = h THEN v ELSE ctx[c]
<1> USE DEF MovesBeside
<1>0. TypeInv /\ PlaceInv /\ RateInv /\ TraceInv
  BY DEF Inv
<1>1. Ctxs' = Ctxs /\ IsSequence' = IsSequence
  BY DEF Ctxs, IsSequence
<1>2. \A c \in Ctxs : ctx'[c] = IF c = h THEN v ELSE ctx[c]
  BY <1>0 DEF TypeInv
<1>3. \A i \in 1 .. Len(pending) : pending[i] \in Ctxs /\ pending[i] # h
  BY <1>0 DEF TypeInv, PlaceInv, PendingInv
<1>4. \A i \in 1 .. Len(pending) : ctx'[pending[i]] = ctx[pending[i]]
  BY <1>2, <1>3
<1>5. RateInv'
  BY <1>0, <1>1, <1>4 DEF RateInv
<1>6. TraceInv'
  <2>1. \A c \in Ctxs : ctx'[c].entry = ctx[c].entry
    BY <1>2
  <2>2. \A c \in Ctxs : ctx'[c].at = "pending" => ctx[c].at = "pending"
    BY <1>2
  <2>3. \A c \in Ctxs : ctx'[c].at \in {"device", "queued", "cq"} =>
            ctx[c].at \in {"device", "queued", "cq"}
    BY <1>2
  <2>4. ASSUME IsSequence, NEW p \in Ctxs, NEW c \in Ctxs, ctx'[p].at = "pending",
               ctx'[c].at \in {"device", "queued", "cq"}
        PROVE  ctx'[c].entry < ctx'[p].entry
    <3>1. ctx[c].entry < ctx[p].entry
      BY <1>0, <2>2, <2>3, <2>4 DEF TraceInv
    <3> QED
      BY <2>1, <3>1
  <2>5. IsSequence => \A c \in Ctxs : ctx'[c].entry <= gctx'.seq_index
    BY <1>0, <2>1 DEF TraceInv
  <2>6. IsSequence => \A i, j \in 1 .. Len(pending') :
            i < j => ctx'[pending'[i]].entry < ctx'[pending'[j]].entry
    BY <1>0, <1>4 DEF TraceInv
  <2> QED
    BY <1>1, <2>4, <2>5, <2>6 DEF TraceInv
<1> QED
  BY <1>2, <1>3, <1>4, <1>5, <1>6

(* The device posts a completion. *)
LEMMA DeviceCompletesInv ==
    ASSUME Inv, NEW h \in Ctxs, NEW err \in BOOLEAN, DeviceCompletes(h, err)
    PROVE  Inv'
<1>0. TypeInv /\ args \in Args /\ PlaceInv /\ EndInv /\ SumInv
  BY DEF Inv, TypeInv
<1>1. /\ UNCHANGED <<args, pc, clock, now, pending, head_io, queued, gctx, rets,
                     log, term, ret>>
      /\ pc \notin {"returned", "crashed"}
      /\ ctx[h].at = "device"
      /\ cq' = Append(cq, [ctx |-> h, err |-> err])
  BY DEF DeviceCompletes
<1>2. Ctxs' = Ctxs /\ IsSequence' = IsSequence /\ Completions' = Completions
  BY <1>1 DEF Ctxs, IsSequence, Completions
<1>3. PICK v : /\ ctx' = [ctx EXCEPT ![h] = v] /\ v \in Contexts
               /\ v.at = "cq" /\ v.entry = ctx[h].entry
  <2> DEFINE v == [ctx[h] EXCEPT !.at = "cq"]
  <2>1. ctx' = [ctx EXCEPT ![h] = v]
    BY <1>0 DEF DeviceCompletes, TypeInv, Contexts
  <2>2. ctx[h] \in Contexts /\ "cq" \in Ats
    BY <1>0, FieldTypes DEF Ats
  <2>3. v \in Contexts /\ v.at = "cq" /\ v.entry = ctx[h].entry
    BY <2>2 DEF Contexts
  <2> QED
    BY <2>1, <2>3
<1>4. /\ RateInv' /\ TraceInv'
      /\ \A i \in 1 .. Len(pending) : ctx'[pending[i]] = ctx[pending[i]]
      /\ \A c \in Ctxs : ctx'[c] = IF c = h THEN v ELSE ctx[c]
  <2>1. MovesBeside(h, v)
    BY <1>1, <1>3 DEF MovesBeside
  <2> QED
    BY <2>1, PendingKept
<1>5. /\ Len(cq) \in Nat /\ Len(cq') = Len(cq) + 1 /\ cq' \in Seq(Completions)
      /\ \A i \in 1 .. Len(cq) : cq'[i] = cq[i] /\ cq[i].ctx \in Ctxs
      /\ cq'[Len(cq) + 1].ctx = h
      /\ \A i \in 1 .. Len(cq') : i \in 1 .. Len(cq) \/ i = Len(cq) + 1
  <2> DEFINE e == [ctx |-> h, err |-> err]
  <2>1. e \in Completions /\ e.ctx = h
    BY DEF Completions
  <2>2. cq' = Append(cq, e)
    BY <1>1
  <2> HIDE DEF e
  <2> QED
    BY <1>0, <2>1, <2>2, CompletionTypes
<1>6. \A i \in 1 .. Len(cq) : cq[i].ctx # h
  BY <1>0, <1>1 DEF PlaceInv, CompletedInv
<1>7. TypeInv'
  <2>1. ctx' \in [Ctxs -> Contexts]
    BY <1>0, <1>3 DEF TypeInv
  <2>2. Contexts' = Contexts /\ Globals' = Globals
    BY DEF Contexts, Globals
  <2> QED
    BY <1>0, <1>1, <1>2, <1>5, <2>1, <2>2 DEF TypeInv
<1>8. PlaceInv'
  <2>1. \A i \in 1 .. Len(pending') : ctx'[pending'[i]].at = "pending"
    BY <1>0, <1>1, <1>4 DEF PlaceInv, PendingInv
  <2>2. \A c \in Ctxs : ctx'[c].at = "pending" => ctx[c].at = "pending"
    BY <1>3, <1>4
  <2>3. \A i \in 1 .. Len(queued) : queued[i] \in Ctxs
    BY <1>0 DEF TypeInv
  <2>4. \A i \in 1 .. Len(queued') : ctx'[queued'[i]].at = "queued"
    BY <1>0, <1>1, <1>4, <2>3 DEF PlaceInv, HeldInv
  <2>5. ASSUME NEW i \in 1 .. Len(cq')
        PROVE  ctx'[cq'[i].ctx].at = "cq"
    <3>1. CASE i \in 1 .. Len(cq)
      <4>1. ctx[cq[i].ctx].at = "cq"
        BY <1>0, <3>1 DEF PlaceInv, CompletedInv
      <4> QED
        BY <1>3, <1>4, <1>5, <3>1, <4>1
    <3>2. CASE i = Len(cq) + 1
      BY <1>3, <1>4, <1>5, <3>2
    <3> QED
      BY <1>5, <3>1, <3>2
  <2>6. ASSUME NEW i \in 1 .. Len(cq'), NEW j \in 1 .. Len(cq'), i # j
        PROVE  cq'[i].ctx # cq'[j].ctx
    <3>1. CASE i \in 1 .. Len(cq) /\ j \in 1 .. Len(cq)
      BY <1>0, <1>5, <2>6, <3>1 DEF PlaceInv, CompletedInv
    <3>2. CASE i \in 1 .. Len(cq) /\ j = Len(cq) + 1
      BY <1>5, <1>6, <3>2
    <3>3. CASE i = Len(cq) + 1 /\ j \in 1 .. Len(cq)
      BY <1>5, <1>6, <3>3
    <3> QED
      BY <1>5, <2>6, <3>1, <3>2, <3>3
  <2>7. PendingInv'
    BY <1>0, <1>1, <1>2, <2>1, <2>2 DEF PlaceInv, PendingInv
  <2>8. HeldInv'
    BY <1>0, <1>1, <2>4 DEF PlaceInv, HeldInv
  <2> QED
    BY <2>5, <2>6, <2>7, <2>8 DEF PlaceInv, CompletedInv
<1>9. SumInv'
  <2>1. AtDevice' = AtDevice - (IF ctx[h].at = "device" THEN 1 ELSE 0)
                             + (IF v.at = "device" THEN 1 ELSE 0)
    BY <1>0, <1>1, <1>3, DeviceCount
  <2>2. AtDevice \in Int /\ Len(pending) \in Int /\ Len(queued) \in Int
    BY <1>0, DeviceFinite DEF TypeInv
  <2>3. AtDevice' = AtDevice - 1
    BY <1>1, <1>3, <2>1, <2>2
  <2>4. /\ gctx.sent \in Int /\ gctx.cplt \in Int /\ gctx.lost \in Int
        /\ Len(cq) \in Int
    <3>1. gctx.sent \in Nat /\ gctx.cplt \in Nat /\ gctx.lost \in Nat
      BY <1>0, FieldTypes
    <3>2. Len(cq) \in Nat
      BY <1>0, CompletionTypes
    <3> QED
      BY <3>1, <3>2
  <2>5. Sum(gctx.sent, gctx.cplt, Len(pending), Len(queued), Len(cq) + 1,
            AtDevice - 1, gctx.lost)
    BY <1>0, <2>2, <2>4, SumMoves DEF SumInv
  <2> QED
    BY <1>1, <1>5, <2>3, <2>5, Zenon DEF SumInv
<1>10. EndInv'
  <2>1. pc # "entry"
    BY <1>0, <1>1 DEF EndInv
  <2>2. Reason => Reason'
    BY <1>1, <1>2 DEF Reason, Due
  <2>3. FirstOf(pending)' = FirstOf(pending)
    BY <1>1 DEF FirstOf
  <2> QED
    BY <1>0, <1>1, <1>2, <2>1, <2>2, <2>3 DEF EndInv
<1>11. LogInv'
  BY <1>1, LogKept
<1> QED
  BY <1>4, <1>7, <1>8, <1>9, <1>10, <1>11 DEF Inv

-----------------------------------------------------------------------------
(* A held command is retried: it goes to the device, to the end of the held
   ones, or nowhere. *)
LEMMA RetryQueuedInv ==
    ASSUME Inv, NEW out, RetryQueued(out)
    PROVE  Inv'
<1>0. TypeInv /\ args \in Args /\ PlaceInv /\ EndInv /\ SumInv
  BY DEF Inv, TypeInv
<1>1. /\ UNCHANGED <<args, clock, now, pending, cq, rets, log, term, ret>>
      /\ pc = "reap" /\ pc' = "top" /\ queued # <<>>
      /\ head_io' = FirstOf(pending)
      /\ queued' = Requeue(out)
      /\ out \in {"device", "failed", "queued"}
  BY OutcomeKinds DEF RetryQueued
<1>2. Ctxs' = Ctxs /\ IsSequence' = IsSequence /\ Completions' = Completions
  BY <1>1 DEF Ctxs, IsSequence, Completions
<1>3. /\ queued \in Seq(Ctxs) /\ Len(queued) \in Nat /\ Len(queued) >= 1
      /\ Head(queued) = queued[1] /\ queued[1] \in Ctxs
  <2>1. queued \in Seq(Ctxs)
    BY <1>0 DEF TypeInv
  <2> QED
    BY <1>1, <2>1
<1>4. PICK h \in Ctxs : h = Head(queued)
  BY <1>3
<1>5. ctx[h] \in Contexts /\ ctx[h].at = "queued"
  <2>1. 1 \in 1 .. Len(queued) /\ h = queued[1]
    BY <1>3, <1>4
  <2> QED
    BY <1>0, <2>1, FieldTypes DEF PlaceInv, HeldInv
<1>6. PICK v : /\ ctx' = [ctx EXCEPT ![h] = v] /\ v \in Contexts
               /\ v.at = out /\ v.entry = ctx[h].entry
  <2> DEFINE v == [ctx[h] EXCEPT !.at = out]
  <2>1. ctx' = [ctx EXCEPT ![h] = v]
    BY <1>0, <1>4 DEF RetryQueued, TypeInv, Contexts
  <2>2. out \in Ats
    BY <1>1 DEF Ats
  <2>3. v \in Contexts /\ v.at = out /\ v.entry = ctx[h].entry
    BY <1>5, <2>2 DEF Contexts
  <2> QED
    BY <2>1, <2>3
<1>7. /\ gctx' \in Globals
      /\ gctx'.sent = gctx.sent /\ gctx'.cplt = gctx.cplt
      /\ gctx'.finish = gctx.finish
      /\ gctx'.lost = IF out = "failed" THEN gctx.lost + 1 ELSE gctx.lost
      /\ gctx'.submitted = gctx.submitted
      /\ gctx'.seq_index = gctx.seq_index /\ gctx'.io_due = gctx.io_due
      /\ gctx'.log_index = gctx.log_index /\ gctx'.history = gctx.history
  <2> DEFINE l == IF out = "failed" THEN gctx.lost + 1 ELSE gctx.lost
  <2>1. gctx \in Globals
    BY <1>0 DEF TypeInv
  <2>2. gctx' = [gctx EXCEPT !.lost = l]
    BY <2>1 DEF RetryQueued, Globals
  <2>3. l \in Nat
    BY <1>0, FieldTypes
  <2> HIDE DEF l
  <2>4. /\ gctx' \in Globals
        /\ gctx'.sent = gctx.sent /\ gctx'.cplt = gctx.cplt
        /\ gctx'.finish = gctx.finish /\ gctx'.lost = l
        /\ gctx'.submitted = gctx.submitted
        /\ gctx'.seq_index = gctx.seq_index /\ gctx'.io_due = gctx.io_due
        /\ gctx'.log_index = gctx.log_index /\ gctx'.history = gctx.history
    BY <2>1, <2>2, <2>3 DEF Globals
  <2> QED
    BY <2>4 DEF l
<1>8. /\ RateInv' /\ TraceInv'
      /\ \A i \in 1 .. Len(pending) : ctx'[pending[i]] = ctx[pending[i]]
      /\ \A c \in Ctxs : ctx'[c] = IF c = h THEN v ELSE ctx[c]
  <2>1. MovesBeside(h, v)
    <3>1. v.at # "pending" /\ v.entry = ctx[h].entry /\ ctx' = [ctx EXCEPT ![h] = v]
      BY <1>1, <1>6
    <3> QED
      BY <1>1, <1>5, <1>7, <3>1 DEF MovesBeside
  <2> QED
    BY <2>1, PendingKept
(* The held ones: those after the first, and the first again at the end. *)
<1>9. /\ queued' \in Seq(Ctxs)
      /\ out = "queued" => Len(queued') = Len(queued)
      /\ out # "queued" => Len(queued') = Len(queued) - 1
      /\ \A i \in 1 .. Len(queued') :
             \/ /\ i + 1 \in 1 .. Len(queued) /\ queued'[i] = queued[i + 1]
                /\ queued[i + 1] \in Ctxs /\ queued[i + 1] # h
             \/ i = Len(queued) /\ queued'[i] = h /\ out = "queued"
  <2>1. PICK n : n = Len(queued)
    OBVIOUS
  <2>2. n \in Nat /\ n >= 1
    BY <1>3, <2>1
  <2>3. PICK t : t = Tail(queued)
    OBVIOUS
  <2>4. t \in Seq(Ctxs) /\ Len(t) = n - 1 /\ \A i \in 1 .. n - 1 : t[i] = queued[i + 1]
    BY <1>1, <1>3, <2>1, <2>3
  <2>5. \A i \in 1 .. n - 1 : /\ i + 1 \in 1 .. n /\ i + 1 # 1 /\ 1 \in 1 .. n
    BY <2>2
  <2>6. \A i \in 1 .. n - 1 : queued[i + 1] # queued[1]
    BY <1>0, <2>1, <2>5 DEF PlaceInv, HeldInv
  <2>7. \A i \in 1 .. n - 1 : queued[i + 1] \in Ctxs
    BY <1>3, <2>1, <2>5
  <2>8. CASE out = "queued"
    <3>1. queued' = Append(t, h)
      BY <1>1, <1>4, <2>3, <2>8 DEF Requeue
    <3>2. /\ queued' \in Seq(Ctxs) /\ Len(queued') = n
          /\ \A i \in 1 .. n : queued'[i] = IF i <= n - 1 THEN t[i] ELSE h
      BY <2>2, <2>4, <3>1
    <3>3. \A i \in 1 .. n : i \in 1 .. n - 1 \/ i = n
      BY <2>2
    <3>4. ~(n <= n - 1)
      BY <2>2
    <3>5. n \in 1 .. n
      BY <2>2
    <3>6. \A i \in 1 .. n - 1 : i <= n - 1 /\ i \in 1 .. n
      BY <2>2
    <3>7. queued'[n] = h /\ \A i \in 1 .. n - 1 : queued'[i] = queued[i + 1]
      BY <2>4, <3>2, <3>4, <3>5, <3>6
    <3> QED
      BY <1>3, <1>4, <2>1, <2>5, <2>6, <2>7, <2>8, <3>2, <3>3, <3>7
  <2>9. CASE out # "queued"
    <3>1. queued' = t
      BY <1>1, <2>3, <2>9 DEF Requeue
    <3> QED
      BY <1>3, <1>4, <2>1, <2>4, <2>5, <2>6, <2>7, <2>9, <3>1
  <2> QED
    BY <2>8, <2>9
<1>10. TypeInv'
  <2>1. ctx' \in [Ctxs -> Contexts]
    BY <1>0, <1>6 DEF TypeInv
  <2>2. Contexts' = Contexts /\ Globals' = Globals
    BY DEF Contexts, Globals
  <2>3. head_io' \in Ctxs \cup {NONE}
    BY <1>0, <1>1 DEF TypeInv, FirstOf
  <2>4. pc' \in LoopStates \cup {"entry", "returned", "crashed"}
    BY <1>1 DEF LoopStates
  <2> QED
    BY <1>0, <1>1, <1>2, <1>7, <1>9, <2>1, <2>2, <2>3, <2>4 DEF TypeInv
<1>11. PlaceInv'
  <2>1. \A i \in 1 .. Len(pending') : ctx'[pending'[i]].at = "pending"
    BY <1>0, <1>1, <1>8 DEF PlaceInv, PendingInv
  <2>2. \A c \in Ctxs : ctx'[c].at = "pending" => ctx[c].at = "pending"
    BY <1>1, <1>6, <1>8
  <2>3. ASSUME NEW i \in 1 .. Len(queued')
        PROVE  ctx'[queued'[i]].at = "queued"
    <3>1. CASE i + 1 \in 1 .. Len(queued) /\ queued'[i] = queued[i + 1]
               /\ queued[i + 1] \in Ctxs /\ queued[i + 1] # h
      <4>1. ctx[queued[i + 1]].at = "queued"
        BY <1>0, <3>1 DEF PlaceInv, HeldInv
      <4> QED
        BY <1>8, <3>1, <4>1
    <3>2. CASE queued'[i] = h /\ out = "queued"
      BY <1>6, <1>8, <3>2
    <3> QED
      BY <1>9, <3>1, <3>2
  <2>4. ASSUME NEW i \in 1 .. Len(queued'), NEW j \in 1 .. Len(queued'), i # j
        PROVE  queued'[i] # queued'[j]
    <3>1. i + 1 # j + 1
      BY <2>4
    <3>2. i + 1 \in 1 .. Len(queued) /\ j + 1 \in 1 .. Len(queued) =>
              queued[i + 1] # queued[j + 1]
      BY <1>0, <3>1 DEF PlaceInv, HeldInv
    <3> QED
      BY <1>9, <2>4, <3>2
  <2>5. \A i \in 1 .. Len(cq) : cq[i].ctx \in Ctxs /\ cq[i].ctx # h
    BY <1>0, <1>5, CompletionTypes DEF PlaceInv, CompletedInv
  <2>6. \A i \in 1 .. Len(cq') : ctx'[cq'[i].ctx].at = "cq"
    BY <1>0, <1>1, <1>8, <2>5 DEF PlaceInv, CompletedInv
  <2>7. PendingInv'
    BY <1>0, <1>1, <1>2, <2>1, <2>2 DEF PlaceInv, PendingInv
  <2>8. CompletedInv'
    BY <1>0, <1>1, <2>6 DEF PlaceInv, CompletedInv
  <2> QED
    BY <2>3, <2>4, <2>7, <2>8 DEF PlaceInv, HeldInv
<1>12. SumInv'
  <2>1. AtDevice' = AtDevice - (IF ctx[h].at = "device" THEN 1 ELSE 0)
                             + (IF v.at = "device" THEN 1 ELSE 0)
    BY <1>0, <1>1, <1>6, DeviceCount
  <2>2. AtDevice \in Int /\ Len(pending) \in Int /\ Len(queued) \in Int
    BY <1>0, DeviceFinite DEF TypeInv
  <2>3. /\ out = "device" => AtDevice' = AtDevice + 1
        /\ out # "device" => AtDevice' = AtDevice
    BY <1>5, <1>6, <2>1, <2>2
  <2>4. /\ gctx.sent \in Int /\ gctx.cplt \in Int /\ gctx.lost \in Int
        /\ Len(cq) \in Int
    BY <1>0, CompletionTypes, FieldTypes
  <2>5. /\ Sum(gctx.sent, gctx.cplt, Len(pending), Len(queued) - 1, Len(cq),
               AtDevice + 1, gctx.lost)
        /\ Sum(gctx.sent, gctx.cplt, Len(pending), Len(queued) - 1, Len(cq),
               AtDevice, gctx.lost + 1)
    BY <1>0, <2>2, <2>4, SumMoves DEF SumInv
  <2>6. /\ out = "failed" => gctx'.lost = gctx.lost + 1
        /\ out # "failed" => gctx'.lost = gctx.lost
    BY <1>7
  <2> QED
    BY <1>0, <1>1, <1>7, <1>9, <2>3, <2>5, <2>6, Zenon DEF SumInv
<1>13. EndInv'
  <2>1. gctx.lost > 0 => gctx'.lost > 0
    <3>1. gctx.lost \in Nat
      BY <1>0, FieldTypes
    <3> QED
      BY <1>7, <3>1
  <2>2. Reason => Reason'
    BY <1>1, <1>2, <1>7, <2>1 DEF Reason, Due
  <2>3. FirstOf(pending)' = FirstOf(pending)
    BY <1>1 DEF FirstOf
  <2> QED
    BY <1>0, <1>1, <1>2, <1>7, <2>2, <2>3 DEF EndInv
<1>14. LogInv'
  <2>1. \A k \in 1 .. args.cmdlog_len : Place(k)' = Place(k) /\ Latest(k)' = Latest(k)
    BY <1>1, <1>7 DEF Place, Latest
  <2> QED
    BY <1>1, <1>7, <2>1 DEF Inv, LogInv
<1> QED
  BY <1>8, <1>10, <1>11, <1>12, <1>13, <1>14 DEF Inv

-----------------------------------------------------------------------------
(* What two sequences put together are. *)
LEMMA Joined ==
    ASSUME NEW a \in Seq(Nat), NEW b \in Seq(Nat)
    PROVE  /\ a \o b \in Seq(Nat) /\ Len(a \o b) = Len(a) + Len(b)
           /\ \A i \in 1 .. Len(a) + Len(b) :
                  (a \o b)[i] = IF i <= Len(a) THEN a[i] ELSE b[i - Len(a)]
OBVIOUS

(* Turned at the index, the ring is the completions in their order. *)
LEMMA RotatedPlaces ==
    ASSUME NEW L \in Nat, NEW x \in 0 .. L, NEW f \in [1 .. L -> Nat]
    PROVE  LET g == SubSeq(f, x + 1, L) \o SubSeq(f, 1, x)
           IN  /\ g \in [1 .. L -> Nat]
               /\ \A k \in 1 .. L : g[L + 1 - k] = f[PlaceIn(L, x, k)]
<1> DEFINE a == SubSeq(f, x + 1, L)
           b == SubSeq(f, 1, x)
           g == a \o b
<1>1. f \in Seq(Nat) /\ Len(f) = L
  OBVIOUS
<1>2. /\ a \in Seq(Nat) /\ Len(a) = L - x
      /\ \A i \in 1 .. L - x : a[i] = f[x + i]
  BY <1>1
<1>3. b \in Seq(Nat) /\ Len(b) = x /\ \A i \in 1 .. x : b[i] = f[i]
  BY <1>1
<1> HIDE DEF a, b
<1>4. /\ g \in Seq(Nat) /\ Len(g) = L
      /\ \A i \in 1 .. L : g[i] = IF i <= L - x THEN a[i] ELSE b[i - (L - x)]
  <2>0. a \in Seq(Nat) /\ b \in Seq(Nat)
    BY <1>2, <1>3
  <2>1. g \in Seq(Nat) /\ Len(g) = Len(a) + Len(b)
    BY <2>0, Joined
  <2>2. \A i \in 1 .. Len(a) + Len(b) :
            g[i] = IF i <= Len(a) THEN a[i] ELSE b[i - Len(a)]
    BY <2>0, Joined
  <2>3. Len(a) + Len(b) = L
    BY <1>2, <1>3
  <2> QED
    BY <1>2, <2>1, <2>2, <2>3
<1> HIDE DEF g
<1>5. g \in [1 .. L -> Nat]
  BY <1>4
<1>6. ASSUME NEW k \in 1 .. L
      PROVE  g[L + 1 - k] = f[PlaceIn(L, x, k)]
  <2>1. CASE k <= x
    <3>1. /\ L + 1 - k \in 1 .. L /\ ~(L + 1 - k <= L - x)
          /\ (L + 1 - k) - (L - x) = x + 1 - k /\ x + 1 - k \in 1 .. x
      BY <2>1
    <3> QED
      BY <1>3, <1>4, <2>1, <3>1 DEF PlaceIn
  <2>2. CASE ~(k <= x)
    <3>1. /\ L + 1 - k \in 1 .. L /\ L + 1 - k <= L - x
          /\ x + (L + 1 - k) = L + x + 1 - k /\ L + 1 - k \in 1 .. L - x
      BY <2>2
    <3> QED
      BY <1>2, <1>4, <2>2, <3>1 DEF PlaceIn
  <2> QED
    BY <2>1, <2>2
<1> QED
  BY <1>5, <1>6 DEF g, a, b

(* The return of the worker. *)
LEMMA ReturnInv ==
    ASSUME Inv, Return
    PROVE  Inv'
<1>0. TypeInv /\ args \in Args /\ EndInv /\ LogInv
  BY DEF Inv, TypeInv
<1>1. /\ UNCHANGED <<args, clock, now, ctx, pending, head_io, queued, cq, gctx,
                     rets, term, ret>>
      /\ pc = "final" /\ pc' = "returned" /\ log' = Rotated
  BY DEF Return
<1>2. Ctxs' = Ctxs /\ IsSequence' = IsSequence /\ Completions' = Completions
  BY <1>1 DEF Ctxs, IsSequence, Completions
<1>3. PlaceInv' /\ SumInv' /\ RateInv' /\ TraceInv'
  <2>1. clock' \in 0 .. MaxTime /\ clock' >= clock
    BY <1>0, <1>1, TimeTypes DEF TypeInv
  <2> QED
    BY <1>1, <2>1, QuietKeeps
<1>4. /\ log' \in [1 .. args.cmdlog_len -> Nat]
      /\ \A k \in 1 .. args.cmdlog_len : log'[args.cmdlog_len + 1 - k] = log[Place(k)]
  <2>1. /\ args.cmdlog_len \in Nat /\ gctx.log_index \in 0 .. args.cmdlog_len
        /\ log \in [1 .. args.cmdlog_len -> Nat]
    <3>1. args.cmdlog_len \in Nat /\ gctx.log_index \in Nat
      BY <1>0, ArgTypes, FieldTypes
    <3>2. gctx.log_index <= args.cmdlog_len
      BY <1>0 DEF LogInv
    <3>3. log \in [1 .. args.cmdlog_len -> Nat]
      BY <1>0 DEF TypeInv
    <3> QED
      BY <3>1, <3>2, <3>3
  <2>2. log' = SubSeq(log, gctx.log_index + 1, args.cmdlog_len)
               \o SubSeq(log, 1, gctx.log_index)
    BY <1>1 DEF Rotated
  <2> QED
    BY <2>1, <2>2, RotatedPlaces DEF Place
<1>5. TypeInv'
  <2>1. Contexts' = Contexts /\ Globals' = Globals
    BY DEF Contexts, Globals
  <2> QED
    BY <1>0, <1>1, <1>2, <1>4, <2>1 DEF TypeInv
<1>6. EndInv'
  <2>1. Reason => Reason'
    BY <1>1, <1>2 DEF Reason, Due
  <2>2. FirstOf(pending)' = FirstOf(pending)
    BY <1>1 DEF FirstOf
  <2> QED
    BY <1>0, <1>1, <1>2, <2>1, <2>2 DEF EndInv
<1>7. LogInv'
  <2>1. \A k \in 1 .. args.cmdlog_len : Latest(k)' = Latest(k)
    BY <1>1 DEF Latest
  <2>2. \A k \in 1 .. args.cmdlog_len : log[Place(k)] = Latest(k)
    BY <1>0, <1>1 DEF LogInv
  <2> QED
    BY <1>0, <1>1, <1>4, <2>1, <2>2 DEF LogInv
<1> QED
  BY <1>3, <1>5, <1>6, <1>7 DEF Inv

-----------------------------------------------------------------------------
(* The counters after a completion. *)
LEMMA CbCounters ==
    ASSUME Inv, ioworker_one_cb
    PROVE  LET e   == Head(cq).err
               fin == gctx'.finish
           IN /\ gctx' \in Globals
              /\ fin = \/ gctx.finish \/ e
                       \/ IsSequence /\ gctx'.seq_index >= Len(args.io_sequence)
                       \/ gctx.sent = IoCount(args)
                       \/ clock > Due
              /\ gctx'.cplt = gctx.cplt + 1
              /\ gctx'.sent = IF fin THEN gctx.sent ELSE gctx.sent + 1
              /\ gctx'.seq_index = IF TraceLeft THEN gctx.seq_index + 1
                                                ELSE gctx.seq_index
              /\ gctx'.io_due = IF IsSequence THEN gctx.io_due
                                              ELSE gctx.io_due + args.delay
              /\ gctx'.submitted = gctx.submitted /\ gctx'.lost = gctx.lost
              /\ gctx'.log_index = IF args.cmdlog_len = 0 THEN gctx.log_index
                                   ELSE LogSlot(gctx.log_index) + 1
              /\ gctx'.history = IF args.cmdlog_len = 0 THEN gctx.history
                                 ELSE Append(gctx.history, ctx[Head(cq).ctx].serial)
<1>0. TypeInv /\ args \in Args /\ gctx \in Globals
  BY DEF Inv, TypeInv
<1>1. /\ gctx.sent \in Nat /\ gctx.cplt \in Nat /\ gctx.seq_index \in Nat
      /\ gctx.io_due \in Nat /\ gctx.log_index \in Nat /\ gctx.history \in Seq(Nat)
      /\ gctx.next_sec \in Nat /\ gctx.per_second \in Seq(Int)
      /\ gctx.till_last_sec \in Nat /\ gctx.finish \in BOOLEAN
      /\ rets.count \in Nat /\ SEC \in Nat /\ args.delay \in Nat
      /\ args.cmdlog_len \in Nat
  BY <1>0, FieldTypes, ArgTypes
<1>2. PICK g1 : g1 = Advance(gctx)
  OBVIOUS
<1> DEFINE s1 == IF TraceLeft THEN gctx.seq_index + 1 ELSE gctx.seq_index
           d1 == IF IsSequence THEN gctx.io_due ELSE gctx.io_due + args.delay
<1>3. /\ g1 \in Globals /\ g1.cplt = gctx.cplt + 1 /\ g1.sent = gctx.sent
      /\ g1.seq_index = s1 /\ g1.io_due = d1
      /\ g1.submitted = gctx.submitted /\ g1.lost = gctx.lost
      /\ g1.log_index = gctx.log_index /\ g1.history = gctx.history
      /\ g1.next_sec = gctx.next_sec /\ g1.per_second = gctx.per_second
      /\ g1.till_last_sec = gctx.till_last_sec /\ g1.finish = gctx.finish
  <2> DEFINE c1 == gctx.cplt + 1
  <2>1. g1 = [gctx EXCEPT !.cplt = c1, !.seq_index = s1, !.io_due = d1]
    BY <1>0, <1>2 DEF Advance, Globals
  <2>2. c1 \in Nat /\ s1 \in Nat /\ d1 \in Nat
    <3>1. gctx.cplt + 1 \in Nat /\ gctx.seq_index + 1 \in Nat
      <4>1. gctx.cplt \in Nat /\ gctx.seq_index \in Nat
        BY <1>1
      <4> QED
        BY <4>1
    <3>2. gctx.io_due + args.delay \in Nat
      <4>1. gctx.io_due \in Nat /\ args.delay \in Nat
        BY <1>1
      <4> QED
        BY <4>1
    <3> QED
      BY <1>1, <3>1, <3>2
  <2>3. c1 = gctx.cplt + 1
    OBVIOUS
  <2> HIDE DEF c1, s1, d1
  <2> QED
    BY <1>0, <2>1, <2>2, <2>3 DEF Globals
<1>4. PICK g2 : g2 = CountSecond(g1, rets.count + 1)
  OBVIOUS
<1>5. /\ g2 \in Globals /\ g2.cplt = g1.cplt /\ g2.sent = g1.sent
      /\ g2.seq_index = g1.seq_index /\ g2.io_due = g1.io_due
      /\ g2.submitted = g1.submitted /\ g2.lost = g1.lost
      /\ g2.log_index = g1.log_index /\ g2.history = g1.history
  <2> DEFINE n  == g1.next_sec + SEC
             m  == (rets.count + 1) - g1.till_last_sec
             ps == Append(g1.per_second, m)
             t  == rets.count + 1
  <2>1. n \in Nat /\ m \in Int /\ t \in Nat
    <3>1. g1.next_sec \in Nat /\ g1.till_last_sec \in Nat
      BY <1>1, <1>3
    <3>2. SEC \in Nat /\ rets.count \in Nat
      BY <1>1
    <3> QED
      BY <3>1, <3>2
  <2>2. ps \in Seq(Int)
    BY <1>1, <1>3, <2>1
  <2>3. g2 = g1 \/ g2 = [g1 EXCEPT !.next_sec = n, !.per_second = ps, !.till_last_sec = t]
    BY <1>3, <1>4 DEF CountSecond, Globals
  <2> HIDE DEF n, m, ps, t
  <2>4. g1 \in Globals
    BY <1>3
  <2> QED
    BY <2>1, <2>2, <2>3, <2>4 DEF Globals
<1>6. PICK c \in Ctxs : c = Head(cq).ctx
  <2>1. cq # <<>>
    BY DEF ioworker_one_cb
  <2>2. 1 \in 1 .. Len(cq) /\ Head(cq) = cq[1]
    BY <1>0, <2>1, CompletionTypes
  <2> QED
    BY <1>0, <2>2, CompletionTypes
<1> DEFINE fin == Finishing(Head(cq).err, g1)
           s2  == IF fin THEN g2.sent ELSE g2.sent + 1
           x2  == IF args.cmdlog_len = 0 THEN g2.log_index ELSE LogSlot(gctx.log_index) + 1
           h2  == IF args.cmdlog_len = 0 THEN g2.history
                  ELSE Append(g2.history, ctx[c].serial)
<1>7. gctx' = [g2 EXCEPT !.finish = fin, !.sent = s2, !.log_index = x2, !.history = h2]
  BY <1>2, <1>4, <1>5, <1>6 DEF ioworker_one_cb, Globals
<1>8. fin \in BOOLEAN /\ s2 \in Nat /\ x2 \in Nat /\ h2 \in Seq(Nat)
  <2>1. ctx[c].serial \in Nat
    BY <1>0, FieldTypes
  <2>2. fin \in BOOLEAN
    BY DEF Finishing
  <2>3. s2 \in Nat
    <3>1. g2.sent \in Nat
      BY <1>1, <1>3, <1>5
    <3> QED
      BY <3>1
  <2>4. x2 \in Nat
    <3>1. g2.log_index \in Nat /\ gctx.log_index \in Nat
      BY <1>1, <1>3, <1>5
    <3> QED
      BY <3>1 DEF LogSlot
  <2>5. h2 \in Seq(Nat)
    <3>1. g2.history \in Seq(Nat)
      BY <1>1, <1>3, <1>5
    <3> QED
      BY <2>1, <3>1
  <2> QED
    BY <2>2, <2>3, <2>4, <2>5
<1>9. /\ gctx' \in Globals
      /\ gctx'.finish = fin /\ gctx'.sent = s2 /\ gctx'.log_index = x2
      /\ gctx'.history = h2 /\ gctx'.cplt = g2.cplt
      /\ gctx'.seq_index = g2.seq_index /\ gctx'.io_due = g2.io_due
      /\ gctx'.submitted = g2.submitted /\ gctx'.lost = g2.lost
  <2> HIDE DEF fin, s2, x2, h2
  <2> QED
    BY <1>5, <1>7, <1>8 DEF Globals
<1>10. fin = \/ gctx.finish \/ Head(cq).err
             \/ IsSequence /\ gctx'.seq_index >= Len(args.io_sequence)
             \/ gctx.sent = IoCount(args)
             \/ clock > Due
  BY <1>3, <1>5, <1>9 DEF Finishing, IsFinish
<1> QED
  BY <1>2, <1>3, <1>5, <1>6, <1>9, <1>10

(* The ring f with index x holds the latest of h; the index after x. *)
RingHolds(L, x, f, h) == \A k \in 1 .. L : f[PlaceIn(L, x, k)] = LatestOf(h, k)

RingNext(L, x) == (IF x = L THEN 0 ELSE x) + 1

(* A completion written to the ring is the latest one, and the others are one
   place older. *)
LEMMA RingPut ==
    ASSUME NEW L \in Nat \ {0}, NEW x \in 0 .. L, NEW f \in [1 .. L -> Nat],
           NEW h \in Seq(Nat), NEW n \in Nat, RingHolds(L, x, f, h)
    PROVE  LET y == RingNext(L, x)
               g == [f EXCEPT ![y] = n]
           IN  /\ y \in 1 .. L /\ g \in [1 .. L -> Nat]
               /\ RingHolds(L, y, g, Append(h, n))
<1> DEFINE y == RingNext(L, x)
           g == [f EXCEPT ![y] = n]
<1>1. y \in 1 .. L /\ y = IF x = L THEN 1 ELSE x + 1
  BY DEF RingNext
<1> HIDE DEF y
<1>2. /\ g \in [1 .. L -> Nat] /\ g[y] = n
      /\ \A i \in 1 .. L : i # y => g[i] = f[i]
  BY <1>1
<1> HIDE DEF g
<1>3. PICK m : m = Len(h)
  OBVIOUS
<1>4. PICK h2 : h2 = Append(h, n)
  OBVIOUS
<1>5. /\ m \in Nat /\ Len(h2) = m + 1 /\ h2[m + 1] = n
      /\ \A i \in 1 .. m : h2[i] = h[i]
  BY <1>3, <1>4
<1>6. ASSUME NEW k \in 1 .. L
      PROVE  g[PlaceIn(L, y, k)] = LatestOf(h2, k)
  <2>1. CASE k = 1
    <3>1. PlaceIn(L, y, k) = y
      BY <1>1, <2>1 DEF PlaceIn
    <3>2. k <= m + 1 /\ (m + 1) + 1 - k = m + 1
      BY <1>5, <2>1
    <3>3. LatestOf(h2, k) = n
      BY <1>5, <3>2 DEF LatestOf
    <3> QED
      BY <1>2, <3>1, <3>3
  <2>2. CASE k # 1
    <3>1. k - 1 \in 1 .. L
      BY <2>2
    <3>2. /\ PlaceIn(L, y, k) = PlaceIn(L, x, k - 1)
          /\ PlaceIn(L, y, k) \in 1 .. L /\ PlaceIn(L, y, k) # y
      <4>1. CASE x = L
        BY <1>1, <2>2, <4>1 DEF PlaceIn
      <4>2. CASE x # L
        BY <1>1, <2>2, <4>2 DEF PlaceIn
      <4> QED
        BY <4>1, <4>2
    <3>3. LatestOf(h2, k) = LatestOf(h, k - 1)
      <4>1. CASE k <= m + 1
        <5>1. /\ k - 1 <= m /\ (m + 1) + 1 - k = m + 1 - (k - 1)
              /\ m + 1 - (k - 1) \in 1 .. m
          BY <1>5, <2>2, <4>1
        <5> QED
          BY <1>3, <1>5, <4>1, <5>1 DEF LatestOf
      <4>2. CASE ~(k <= m + 1)
        <5>1. ~(k - 1 <= m)
          BY <1>5, <4>2
        <5> QED
          BY <1>3, <1>5, <4>2, <5>1 DEF LatestOf
      <4> QED
        BY <4>1, <4>2
    <3>4. f[PlaceIn(L, x, k - 1)] = LatestOf(h, k - 1)
      BY <3>1 DEF RingHolds
    <3> QED
      BY <1>2, <3>2, <3>3, <3>4
  <2> QED
    BY <2>1, <2>2
<1> QED
  BY <1>1, <1>2, <1>4, <1>6 DEF g, y, RingHolds

-----------------------------------------------------------------------------
(* What the callback does to the ctx it is called for, and to the lists. *)
LEMMA CbLists ==
    ASSUME Inv, ioworker_one_cb
    PROVE  /\ UNCHANGED <<args, pc, clock, now, head_io, queued, term, ret>>
           /\ pc = "reap" /\ cq # <<>> /\ cq' = Tail(cq)
           /\ Head(cq).ctx \in Ctxs /\ Head(cq).err \in BOOLEAN
           /\ ctx[Head(cq).ctx].at = "cq"
           /\ pending' = IF gctx'.finish THEN pending
                                         ELSE Append(pending, Head(cq).ctx)
           /\ rets' \in [count : Nat, error : Nat]
           /\ Head(cq).err => rets'.error # 0
           /\ rets.error # 0 => rets'.error # 0
           /\ \E v \in Contexts :
                  /\ ctx' = [ctx EXCEPT ![Head(cq).ctx] = v]
                  /\ v.at = IF gctx'.finish THEN "idle" ELSE "pending"
                  /\ v.time = NextTime(Head(cq).ctx)
                  /\ v.entry = IF TraceLeft THEN gctx.seq_index + 1
                               ELSE ctx[Head(cq).ctx].entry
<1>0. TypeInv /\ args \in Args /\ PlaceInv
  BY DEF Inv, TypeInv
<1>1. /\ UNCHANGED <<args, pc, clock, now, head_io, queued, term, ret>>
      /\ pc = "reap" /\ cq # <<>> /\ cq' = Tail(cq)
  BY DEF ioworker_one_cb
<1>2. 1 \in 1 .. Len(cq) /\ Head(cq) = cq[1]
  BY <1>0, <1>1, CompletionTypes
<1>3. PICK c : c = Head(cq).ctx
  OBVIOUS
<1>4. PICK err : err = Head(cq).err
  OBVIOUS
<1>5. c \in Ctxs /\ err \in BOOLEAN /\ ctx[c].at = "cq" /\ ctx[c] \in Contexts
  <2>1. cq[1].ctx \in Ctxs /\ cq[1].err \in BOOLEAN /\ ctx[cq[1].ctx].at = "cq"
    BY <1>0, <1>2, CompletionTypes DEF PlaceInv, CompletedInv
  <2> QED
    BY <1>0, <1>2, <1>3, <1>4, <2>1, FieldTypes
<1>6. PICK fin : fin = Finishing(err, Advance(gctx))
  OBVIOUS
<1>7. fin \in BOOLEAN
  BY <1>6 DEF Finishing
<1>8. gctx'.finish = fin
  <2>1. PICK g2 : g2 = CountSecond(Advance(gctx), rets.count + 1)
    OBVIOUS
  <2>2. "finish" \in DOMAIN g2
    <3>1. gctx \in Globals
      BY <1>0 DEF TypeInv
    <3> QED
      BY <2>1, <3>1 DEF CountSecond, Advance, Globals
  <2> QED
    BY <1>3, <1>4, <1>6, <2>1, <2>2 DEF ioworker_one_cb
<1>9. pending' = IF fin THEN pending ELSE Append(pending, c)
  BY <1>3, <1>4, <1>6 DEF ioworker_one_cb
<1>10. rets' = [count |-> rets.count + 1,
                error |-> IF err /\ rets.error = 0 THEN 1 ELSE rets.error]
  BY <1>4 DEF ioworker_one_cb
<1>11. rets.count \in Nat /\ rets.error \in Nat
  BY <1>0, FieldTypes
<1>12. /\ rets' \in [count : Nat, error : Nat]
       /\ err => rets'.error # 0
       /\ rets.error # 0 => rets'.error # 0
  <2>1. rets.count + 1 \in Nat
    BY <1>11
  <2>2. (IF err /\ rets.error = 0 THEN 1 ELSE rets.error) \in Nat
    BY <1>11
  <2>3. rets' \in [count : Nat, error : Nat]
    BY <1>10, <2>1, <2>2
  <2> QED
    BY <1>10, <1>11, <2>3
<1> DEFINE a == IF fin THEN "idle" ELSE "pending"
           t == NextTime(c)
           n == IF TraceLeft THEN gctx.seq_index + 1 ELSE ctx[c].entry
           v == [ctx[c] EXCEPT !.at = a, !.time = t, !.entry = n]
<1>13. ctx' = [ctx EXCEPT ![c] = v]
  BY <1>3, <1>4, <1>5, <1>6 DEF ioworker_one_cb, Contexts
<1>14. a \in Ats /\ n \in Nat
  <2>1. gctx.seq_index \in Nat /\ ctx[c].entry \in Nat
    BY <1>0, <1>5, FieldTypes
  <2>2. n \in Nat
    BY <2>1
  <2> QED
    BY <1>7, <2>2 DEF Ats
<1>15. t \in Nat
  <2>1. /\ ctx[c].time \in Nat /\ gctx.io_due \in Nat /\ gctx.seq_index \in Nat
        /\ args.delay \in Nat /\ args.io_sequence \in Seq(Nat)
    BY <1>0, <1>5, FieldTypes, ArgTypes
  <2>2. TraceLeft => gctx.seq_index + 1 \in 1 .. Len(args.io_sequence)
    BY <2>1 DEF TraceLeft
  <2>3. TraceLeft => args.io_sequence[gctx.seq_index + 1] \in Nat
    BY <2>1, <2>2
  <2>4. gctx.io_due + args.delay \in Nat
    BY <2>1
  <2> QED
    BY <2>1, <2>3, <2>4 DEF NextTime
<1>16. v \in Contexts /\ v.at = a /\ v.time = t /\ v.entry = n
  <2> HIDE DEF a, t, n
  <2> QED
    BY <1>5, <1>14, <1>15 DEF Contexts
<1>17. \E w \in Contexts : /\ ctx' = [ctx EXCEPT ![c] = w]
                           /\ w.at = a /\ w.time = t /\ w.entry = n
  <2> HIDE DEF v
  <2> QED
    BY <1>13, <1>16
<1> HIDE DEF v
<1> QED
  BY <1>1, <1>3, <1>4, <1>5, <1>8, <1>9, <1>12, <1>17

(* A completion. *)
LEMMA CbInv ==
    ASSUME Inv, ioworker_one_cb
    PROVE  Inv'
<1>0. TypeInv /\ args \in Args /\ PlaceInv /\ EndInv /\ SumInv
  BY DEF Inv, TypeInv
<1>1. /\ UNCHANGED <<args, pc, clock, now, head_io, queued, term, ret>>
      /\ pc = "reap" /\ cq # <<>> /\ cq' = Tail(cq)
  BY CbLists
<1>2. Ctxs' = Ctxs /\ IsSequence' = IsSequence /\ Completions' = Completions
  BY <1>1 DEF Ctxs, IsSequence, Completions
<1>3. PICK c \in Ctxs : c = Head(cq).ctx /\ ctx[c].at = "cq"
  BY CbLists
<1>4. PICK fin : fin = gctx'.finish
  OBVIOUS
<1>5. PICK v \in Contexts : /\ ctx' = [ctx EXCEPT ![c] = v]
                            /\ v.at = IF fin THEN "idle" ELSE "pending"
                            /\ v.time = NextTime(c)
                            /\ v.entry = IF TraceLeft THEN gctx.seq_index + 1
                                         ELSE ctx[c].entry
  BY <1>3, <1>4, CbLists
<1>6. pending' = IF fin THEN pending ELSE Append(pending, c)
  BY <1>3, <1>4, CbLists
<1>7. /\ gctx' \in Globals
      /\ gctx'.cplt = gctx.cplt + 1
      /\ gctx'.sent = IF fin THEN gctx.sent ELSE gctx.sent + 1
      /\ gctx'.seq_index = IF TraceLeft THEN gctx.seq_index + 1 ELSE gctx.seq_index
      /\ gctx'.io_due = IF IsSequence THEN gctx.io_due ELSE gctx.io_due + args.delay
      /\ gctx'.submitted = gctx.submitted /\ gctx'.lost = gctx.lost
  BY <1>4, CbCounters
<1>8. fin = \/ gctx.finish \/ Head(cq).err
            \/ IsSequence /\ gctx'.seq_index >= Len(args.io_sequence)
            \/ gctx.sent = IoCount(args)
            \/ clock > Due
  BY <1>4, CbCounters
<1>9. fin \in BOOLEAN
  BY <1>8
<1>10. \A d \in Ctxs : ctx'[d] = IF d = c THEN v ELSE ctx[d]
  BY <1>0, <1>5 DEF TypeInv
<1>11. /\ pending \in Seq(Ctxs) /\ Len(pending) \in Nat
       /\ \A i \in 1 .. Len(pending) : pending[i] \in Ctxs /\ pending[i] # c
  <2>1. pending \in Seq(Ctxs)
    BY <1>0 DEF TypeInv
  <2>2. \A i \in 1 .. Len(pending) : ctx[pending[i]].at = "pending"
    BY <1>0 DEF PlaceInv, PendingInv
  <2> QED
    BY <1>3, <2>1, <2>2
<1>12. /\ pending' \in Seq(Ctxs)
       /\ fin => Len(pending') = Len(pending)
       /\ ~fin => Len(pending') = Len(pending) + 1 /\ pending'[Len(pending) + 1] = c
       /\ \A i \in 1 .. Len(pending) : pending'[i] = pending[i] /\ i \in 1 .. Len(pending')
       /\ \A i \in 1 .. Len(pending') :
              i \in 1 .. Len(pending) \/ (~fin /\ i = Len(pending) + 1)
  <2>1. CASE fin
    BY <1>6, <1>11, <2>1
  <2>2. CASE ~fin
    <3>1. pending' = Append(pending, c)
      BY <1>6, <2>2
    <3> QED
      BY <1>11, <2>2, <3>1
  <2> QED
    BY <2>1, <2>2
<1>13. /\ Len(cq) \in Nat /\ Len(cq) >= 1 /\ Len(cq') = Len(cq) - 1
       /\ cq' \in Seq(Completions)
       /\ \A i \in 1 .. Len(cq') : /\ cq'[i] = cq[i + 1] /\ i + 1 \in 1 .. Len(cq)
                                   /\ cq[i + 1].ctx \in Ctxs /\ cq[i + 1].ctx # c
  <2>1. cq \in Seq(Completions)
    BY <1>0, CompletionTypes
  <2>2. /\ Len(cq) \in Nat /\ Len(cq) >= 1 /\ Len(cq') = Len(cq) - 1
        /\ cq' \in Seq(Completions) /\ Head(cq) = cq[1]
        /\ \A i \in 1 .. Len(cq') : cq'[i] = cq[i + 1]
    BY <1>1, <2>1
  <2>3. \A i \in 1 .. Len(cq') : i + 1 \in 1 .. Len(cq) /\ 1 \in 1 .. Len(cq) /\ i + 1 # 1
    BY <2>2
  <2>4. \A i \in 1 .. Len(cq') : cq[i + 1].ctx # cq[1].ctx
    BY <1>0, <2>3 DEF PlaceInv, CompletedInv
  <2>5. \A i \in 1 .. Len(cq') : cq[i + 1].ctx \in Ctxs
    BY <1>0, <2>3, CompletionTypes
  <2> QED
    BY <1>3, <2>2, <2>3, <2>4, <2>5
<1>14. \A i \in 1 .. Len(queued) : queued[i] \in Ctxs /\ queued[i] # c
  <2>1. queued \in Seq(Ctxs)
    BY <1>0 DEF TypeInv
  <2> QED
    BY <1>0, <1>3, <2>1 DEF PlaceInv, HeldInv
<1>15. PlaceInv'
  <2>1. ASSUME NEW i \in 1 .. Len(pending')
        PROVE  ctx'[pending'[i]].at = "pending"
    <3>1. CASE i \in 1 .. Len(pending)
      <4>1. ctx[pending[i]].at = "pending"
        BY <1>0, <3>1 DEF PlaceInv, PendingInv
      <4> QED
        BY <1>10, <1>11, <1>12, <3>1, <4>1
    <3>2. CASE ~fin /\ i = Len(pending) + 1
      BY <1>5, <1>10, <1>12, <3>2
    <3> QED
      BY <1>12, <3>1, <3>2
  <2>2. ASSUME NEW i \in 1 .. Len(pending'), NEW j \in 1 .. Len(pending'), i # j
        PROVE  pending'[i] # pending'[j]
    <3>1. CASE i \in 1 .. Len(pending) /\ j \in 1 .. Len(pending)
      BY <1>0, <1>12, <2>2, <3>1 DEF PlaceInv, PendingInv
    <3>2. CASE i \in 1 .. Len(pending) /\ ~fin /\ j = Len(pending) + 1
      BY <1>11, <1>12, <3>2
    <3>3. CASE ~fin /\ i = Len(pending) + 1 /\ j \in 1 .. Len(pending)
      BY <1>11, <1>12, <3>3
    <3> QED
      BY <1>12, <2>2, <3>1, <3>2, <3>3
  <2>3. ASSUME NEW d \in Ctxs, ctx'[d].at = "pending"
        PROVE  \E i \in 1 .. Len(pending') : pending'[i] = d
    <3>1. CASE d = c
      <4>1. ~fin
        BY <1>5, <1>10, <2>3, <3>1
      <4>2. Len(pending) + 1 \in 1 .. Len(pending')
        <5>1. Len(pending) \in Nat /\ Len(pending') = Len(pending) + 1
          BY <1>11, <1>12, <4>1
        <5> QED
          BY <5>1
      <4> QED
        BY <1>12, <3>1, <4>1, <4>2
    <3>2. CASE d # c
      <4>1. ctx[d].at = "pending"
        BY <1>10, <2>3, <3>2
      <4>2. PICK i \in 1 .. Len(pending) : pending[i] = d
        BY <1>0, <4>1 DEF PlaceInv, PendingInv
      <4> QED
        BY <1>12, <4>2
    <3> QED
      BY <3>1, <3>2
  <2>4. \A i \in 1 .. Len(queued') : ctx'[queued'[i]].at = "queued"
    BY <1>0, <1>1, <1>10, <1>14 DEF PlaceInv, HeldInv
  <2>5. ASSUME NEW i \in 1 .. Len(cq')
        PROVE  ctx'[cq'[i].ctx].at = "cq"
    <3>1. ctx[cq[i + 1].ctx].at = "cq"
      BY <1>0, <1>13 DEF PlaceInv, CompletedInv
    <3> QED
      BY <1>10, <1>13, <3>1
  <2>6. ASSUME NEW i \in 1 .. Len(cq'), NEW j \in 1 .. Len(cq'), i # j
        PROVE  cq'[i].ctx # cq'[j].ctx
    <3>1. i + 1 # j + 1
      BY <2>6
    <3>2. cq[i + 1].ctx # cq[j + 1].ctx
      BY <1>0, <1>13, <3>1 DEF PlaceInv, CompletedInv
    <3> QED
      BY <1>13, <3>2
  <2>7. PendingInv'
    BY <1>2, <2>1, <2>2, <2>3 DEF PendingInv
  <2>8. HeldInv'
    BY <1>0, <1>1, <2>4 DEF PlaceInv, HeldInv
  <2> QED
    BY <2>5, <2>6, <2>7, <2>8 DEF PlaceInv, CompletedInv
<1>16. SumInv'
  <2>1. AtDevice' = AtDevice - (IF ctx[c].at = "device" THEN 1 ELSE 0)
                             + (IF v.at = "device" THEN 1 ELSE 0)
    BY <1>0, <1>1, <1>5, DeviceCount
  <2>2. AtDevice \in Int /\ Len(pending) \in Int /\ Len(queued) \in Int
    BY <1>0, DeviceFinite DEF TypeInv
  <2>3. v.at # "device"
    BY <1>5
  <2>4. AtDevice' = AtDevice
    BY <1>3, <2>1, <2>2, <2>3
  <2>5. /\ gctx.sent \in Int /\ gctx.cplt \in Int /\ gctx.lost \in Int
        /\ Len(cq) \in Int
    <3>1. gctx.sent \in Nat /\ gctx.cplt \in Nat /\ gctx.lost \in Nat
      BY <1>0, FieldTypes
    <3> QED
      BY <1>13, <3>1
  <2>6. /\ Sum(gctx.sent, gctx.cplt + 1, Len(pending), Len(queued), Len(cq) - 1,
               AtDevice, gctx.lost)
        /\ Sum(gctx.sent + 1, gctx.cplt + 1, Len(pending) + 1, Len(queued), Len(cq) - 1,
               AtDevice, gctx.lost)
    BY <1>0, <2>2, <2>5, SumMoves DEF SumInv
  <2>7. /\ fin => gctx'.sent = gctx.sent
        /\ ~fin => gctx'.sent = gctx.sent + 1
    BY <1>7
  <2> QED
    BY <1>1, <1>7, <1>12, <1>13, <2>4, <2>6, <2>7, Zenon DEF SumInv
(* A worker that goes on with a trace has an entry left. *)
<1>17. IsSequence /\ ~fin =>
           TraceLeft /\ v.entry = gctx.seq_index + 1 /\ gctx'.seq_index = gctx.seq_index + 1
  <2>1. gctx.seq_index \in Nat /\ Len(args.io_sequence) \in Nat
    <3>1. gctx.seq_index \in Nat
      BY <1>0, FieldTypes
    <3>2. args.io_sequence \in Seq(Nat)
      BY <1>0, ArgTypes
    <3> QED
      BY <3>1, <3>2
  <2>2. IsSequence /\ ~fin => ~(gctx'.seq_index >= Len(args.io_sequence))
    BY <1>8
  <2>3. IsSequence /\ ~fin => TraceLeft
    BY <1>7, <2>1, <2>2 DEF TraceLeft
  <2> QED
    BY <1>5, <1>7, <2>3
<1>18. EndInv'
  <2>1. /\ gctx.seq_index \in Nat /\ Len(args.io_sequence) \in Nat
        /\ gctx.sent \in Nat /\ IoCount(args) \in Nat
    <3>1. gctx.seq_index \in Nat /\ gctx.sent \in Nat
      BY <1>0, FieldTypes
    <3>2. args.io_sequence \in Seq(Nat) /\ IoCount(args) \in Nat
      BY <1>0, ArgTypes
    <3> QED
      BY <3>1, <3>2
  <2>2. gctx'.sent <= IoCount(args')
    <3>1. gctx.sent <= IoCount(args)
      BY <1>0 DEF EndInv
    <3>2. ~fin => gctx.sent # IoCount(args)
      BY <1>8
    <3>3. gctx'.sent = IF fin THEN gctx.sent ELSE gctx.sent + 1
      BY <1>7
    <3>4. gctx'.sent <= IoCount(args)
      BY <2>1, <3>1, <3>2, <3>3
    <3> QED
      BY <1>1, <3>4
  <2>3. IsSequence => gctx'.seq_index <= Len(args.io_sequence)
    <3>1. IsSequence => gctx.seq_index <= Len(args.io_sequence)
      BY <1>0 DEF EndInv
    <3>2. gctx'.seq_index = IF TraceLeft THEN gctx.seq_index + 1 ELSE gctx.seq_index
      BY <1>7
    <3> QED
      BY <2>1, <3>1, <3>2 DEF TraceLeft
  <2>4. ASSUME gctx'.finish PROVE Reason'
    <3>1. Due' = Due
      BY <1>1 DEF Due
    <3>2. gctx'.sent = gctx.sent
      BY <1>4, <1>7, <2>4
    <3>3. ASSUME Reason PROVE Reason'
      <4>1. CASE rets.error # 0
        <5>1. rets'.error # 0
          BY <4>1, CbLists
        <5> QED
          BY <5>1 DEF Reason
      <4>2. CASE gctx.lost > 0
        BY <1>7, <4>2 DEF Reason
      <4>3. CASE gctx.sent = IoCount(args)
        BY <1>1, <3>2, <4>3 DEF Reason
      <4>4. CASE clock > Due
        BY <1>1, <3>1, <4>4 DEF Reason
      <4>5. CASE IsSequence /\ gctx.seq_index = Len(args.io_sequence)
        <5>1. gctx'.seq_index = gctx.seq_index
          BY <1>7, <2>1, <4>5 DEF TraceLeft
        <5> QED
          BY <1>1, <1>2, <4>5, <5>1 DEF Reason
      <4> QED
        BY <3>3, <4>1, <4>2, <4>3, <4>4, <4>5 DEF Reason
    <3>4. Head(cq).err => Reason'
      <4>1. Head(cq).err => rets'.error # 0
        BY CbLists
      <4> QED
        BY <4>1 DEF Reason
    <3>5. IsSequence /\ gctx'.seq_index >= Len(args.io_sequence) => Reason'
      <4>1. gctx'.seq_index \in Nat
        BY <1>7 DEF Globals
      <4>2. IsSequence /\ gctx'.seq_index >= Len(args.io_sequence) =>
                IsSequence' /\ gctx'.seq_index = Len(args'.io_sequence)
        BY <1>1, <1>2, <2>1, <2>3, <4>1
      <4> QED
        BY <4>2 DEF Reason
    <3>6. gctx.sent = IoCount(args) => Reason'
      BY <1>1, <3>2 DEF Reason
    <3>7. clock > Due => Reason'
      BY <1>1, <3>1 DEF Reason
    <3>8. gctx.finish => Reason'
      BY <1>0, <3>3 DEF EndInv
    <3> QED
      BY <1>4, <1>8, <2>4, <3>4, <3>5, <3>6, <3>7, <3>8
  <2>5. ret' = 0 /\ pc' = "reap"
    BY <1>0, <1>1 DEF EndInv
  <2> QED
    <3>1. pc' \notin {"entry", "top", "final", "returned", "crashed"}
      BY <2>5
    <3>2. ret' = 0 /\ ret' \notin {-2, -5}
      BY <2>5
    <3>3. IsSequence' => gctx'.seq_index <= Len(args'.io_sequence)
      BY <1>1, <1>2, <2>3
    <3> QED
      BY <2>2, <2>4, <3>1, <3>2, <3>3 DEF EndInv
<1>19. RateInv'
  <2> SUFFICES ASSUME args.delay > 0, ~IsSequence
               PROVE  /\ gctx'.submitted = 0 \/ gctx'.submitted * args.delay < clock
                      /\ \A k \in 1 .. Len(pending') :
                             ctx'[pending'[k]].time = (gctx'.submitted + k) * args.delay
                      /\ ~fin =>
                             gctx'.io_due = (gctx'.submitted + Len(pending')) * args.delay
    BY <1>1, <1>2, <1>4 DEF RateInv
  <2>1. /\ gctx.submitted = 0 \/ gctx.submitted * args.delay < clock
        /\ \A k \in 1 .. Len(pending) :
               ctx[pending[k]].time = (gctx.submitted + k) * args.delay
        /\ ~gctx.finish =>
               gctx.io_due = (gctx.submitted + Len(pending)) * args.delay
    BY DEF Inv, RateInv
  <2>2. gctx.submitted \in Nat /\ args.delay \in Nat
    BY <1>0, FieldTypes, ArgTypes
  <2>3. ~fin => gctx.io_due + args.delay = (gctx.submitted + (Len(pending) + 1)) * args.delay
    <3>1. PICK n : n = gctx.submitted + Len(pending)
      OBVIOUS
    <3>2. n \in Nat /\ n + 1 = gctx.submitted + (Len(pending) + 1)
      BY <1>11, <2>2, <3>1
    <3>3. (n + 1) * args.delay = n * args.delay + args.delay
      BY <2>2, <3>2, OneMore
    <3>4. ~fin => gctx.io_due = n * args.delay
      BY <1>8, <2>1, <3>1
    <3> QED
      BY <3>2, <3>3, <3>4, Zenon
  <2>4. v.time = gctx.io_due + args.delay
    BY <1>5 DEF NextTime, TraceLeft
  <2>5. \A k \in 1 .. Len(pending) : ctx'[pending'[k]] = ctx[pending[k]]
    BY <1>10, <1>11, <1>12
  <2>6. ASSUME NEW k \in 1 .. Len(pending')
        PROVE  ctx'[pending'[k]].time = (gctx'.submitted + k) * args.delay
    <3>1. CASE k \in 1 .. Len(pending)
      BY <1>7, <2>1, <2>5, <3>1
    <3>2. CASE ~fin /\ k = Len(pending) + 1
      <4>1. ctx'[pending'[k]] = v
        BY <1>10, <1>12, <3>2
      <4> QED
        BY <1>7, <2>3, <2>4, <3>2, <4>1, Zenon
    <3> QED
      BY <1>12, <3>1, <3>2
  <2>7. ~fin => gctx'.io_due = (gctx'.submitted + Len(pending')) * args.delay
    <3>1. gctx'.io_due = gctx.io_due + args.delay /\ gctx'.submitted = gctx.submitted
      BY <1>7
    <3> QED
      BY <1>12, <2>3, <3>1, Zenon
  <2> QED
    BY <1>7, <2>1, <2>6, <2>7
<1>20. TraceInv'
  <2> SUFFICES ASSUME IsSequence
               PROVE  /\ \A d \in Ctxs : ctx'[d].entry <= gctx'.seq_index
                      /\ \A i, j \in 1 .. Len(pending') :
                             i < j => ctx'[pending'[i]].entry < ctx'[pending'[j]].entry
                      /\ \A p, d \in Ctxs :
                             ctx'[p].at = "pending" /\ ctx'[d].at \in {"device", "queued", "cq"}
                                 => ctx'[d].entry < ctx'[p].entry
    BY <1>2 DEF TraceInv
  <2>1. /\ \A d \in Ctxs : ctx[d].entry <= gctx.seq_index
        /\ \A i, j \in 1 .. Len(pending) :
               i < j => ctx[pending[i]].entry < ctx[pending[j]].entry
        /\ \A p, d \in Ctxs :
               ctx[p].at = "pending" /\ ctx[d].at \in {"device", "queued", "cq"}
                   => ctx[d].entry < ctx[p].entry
    BY DEF Inv, TraceInv
  <2>2. gctx.seq_index \in Nat /\ \A d \in Ctxs : ctx[d].entry \in Nat
    BY <1>0, FieldTypes
  <2>3. /\ gctx.seq_index <= gctx'.seq_index /\ gctx'.seq_index \in Nat
        /\ v.entry <= gctx'.seq_index
    <3>1. /\ gctx'.seq_index = IF TraceLeft THEN gctx.seq_index + 1 ELSE gctx.seq_index
          /\ v.entry = IF TraceLeft THEN gctx.seq_index + 1 ELSE ctx[c].entry
      BY <1>5, <1>7
    <3>2. ctx[c].entry <= gctx.seq_index /\ ctx[c].entry \in Nat
      BY <2>1, <2>2
    <3> QED
      BY <2>2, <3>1, <3>2
  <2>4. ASSUME NEW d \in Ctxs PROVE ctx'[d].entry <= gctx'.seq_index
    <3>1. CASE d = c
      BY <1>10, <2>3, <3>1
    <3>2. CASE d # c
      <4>1. ctx'[d] = ctx[d]
        BY <1>10, <3>2
      <4>2. ctx[d].entry \in Nat /\ ctx[d].entry <= gctx.seq_index
        BY <2>1, <2>2
      <4> QED
        BY <2>2, <2>3, <4>1, <4>2
    <3> QED
      BY <3>1, <3>2
  <2>5. ~fin => \A d \in Ctxs : ctx[d].entry < v.entry
    BY <1>17, <2>1, <2>2
  <2>6. \A i \in 1 .. Len(pending) : ctx'[pending'[i]] = ctx[pending[i]]
    BY <1>10, <1>11, <1>12
  <2>7. ASSUME NEW i \in 1 .. Len(pending'), NEW j \in 1 .. Len(pending'), i < j
        PROVE  ctx'[pending'[i]].entry < ctx'[pending'[j]].entry
    <3>1. i \in 1 .. Len(pending)
      <4>1. i # Len(pending) + 1
        BY <1>11, <1>12, <2>7
      <4> QED
        BY <1>12, <4>1
    <3>2. CASE j \in 1 .. Len(pending)
      BY <2>1, <2>6, <2>7, <3>1, <3>2
    <3>3. CASE ~fin /\ j = Len(pending) + 1
      <4>1. ctx'[pending'[j]] = v
        BY <1>10, <1>12, <3>3
      <4> QED
        BY <1>11, <2>5, <2>6, <3>1, <3>3, <4>1
    <3> QED
      BY <1>12, <3>2, <3>3
  <2>8. ASSUME NEW p \in Ctxs, NEW d \in Ctxs, ctx'[p].at = "pending",
               ctx'[d].at \in {"device", "queued", "cq"}
        PROVE  ctx'[d].entry < ctx'[p].entry
    <3>1. d # c /\ ctx'[d] = ctx[d]
      BY <1>5, <1>10, <2>8
    <3>2. CASE p = c
      <4>1. ~fin /\ ctx'[p] = v
        BY <1>5, <1>10, <2>8, <3>2
      <4> QED
        BY <2>5, <3>1, <4>1
    <3>3. CASE p # c
      <4>1. ctx'[p] = ctx[p]
        BY <1>10, <3>3
      <4> QED
        BY <2>1, <2>8, <3>1, <4>1
    <3> QED
      BY <3>2, <3>3
  <2> QED
    BY <2>4, <2>7, <2>8
<1>21. log' \in [1 .. args.cmdlog_len -> Nat] /\ LogInv'
  <2>1. /\ args.cmdlog_len \in Nat /\ gctx.log_index \in 0 .. args.cmdlog_len
        /\ log \in [1 .. args.cmdlog_len -> Nat]
        /\ gctx.history \in Seq(Nat) /\ ctx[c].serial \in Nat
        /\ \A k \in 1 .. args.cmdlog_len : log[Place(k)] = Latest(k)
    <3>1. args.cmdlog_len \in Nat /\ gctx.log_index \in Nat
      BY <1>0, ArgTypes, FieldTypes
    <3>2. LogInv
      BY DEF Inv
    <3>3. gctx.log_index \in 0 .. args.cmdlog_len
      BY <3>1, <3>2 DEF LogInv
    <3>4. gctx.history \in Seq(Nat) /\ ctx[c].serial \in Nat
      BY <1>0, FieldTypes
    <3>5. log \in [1 .. args.cmdlog_len -> Nat]
      BY <1>0 DEF TypeInv
    <3>6. \A k \in 1 .. args.cmdlog_len : log[Place(k)] = Latest(k)
      BY <1>1, <3>2 DEF LogInv
    <3> QED
      BY <3>1, <3>3, <3>4, <3>5, <3>6
  <2>2. pc' # "returned"
    BY <1>1
  <2>3. CASE args.cmdlog_len = 0
    <3>1. log' = log
      BY <2>3 DEF ioworker_one_cb
    <3>2. gctx'.log_index = gctx.log_index
      BY <2>3, CbCounters
    <3>3. gctx'.log_index <= args'.cmdlog_len /\ 1 .. args'.cmdlog_len = {}
      BY <1>1, <2>1, <2>3, <3>2
    <3> QED
      BY <2>1, <2>2, <3>1, <3>3 DEF LogInv
  <2>4. CASE args.cmdlog_len # 0
    <3>1. PICK y : y = LogSlot(gctx.log_index) + 1
      OBVIOUS
    <3>2. y = (IF gctx.log_index = args.cmdlog_len THEN 0 ELSE gctx.log_index) + 1
      BY <3>1 DEF LogSlot
    <3>3. gctx'.log_index = y /\ gctx'.history = Append(gctx.history, ctx[c].serial)
      BY <1>3, <2>4, <3>1, CbCounters
    <3>4. log' = [log EXCEPT ![y] = ctx[c].serial]
      BY <1>3, <2>4, <3>1 DEF ioworker_one_cb
    <3>5. args.cmdlog_len \in Nat \ {0}
      BY <2>1, <2>4
    <3>6. /\ y \in 1 .. args.cmdlog_len
          /\ log' \in [1 .. args.cmdlog_len -> Nat]
          /\ \A k \in 1 .. args.cmdlog_len :
                 log'[PlaceIn(args.cmdlog_len, y, k)]
                     = LatestOf(Append(gctx.history, ctx[c].serial), k)
      <4>1. PICK L, x, f, h, n : /\ L = args.cmdlog_len /\ x = gctx.log_index
                                 /\ f = log /\ h = gctx.history /\ n = ctx[c].serial
        OBVIOUS
      <4>2. /\ L \in Nat \ {0} /\ x \in 0 .. L /\ f \in [1 .. L -> Nat]
            /\ h \in Seq(Nat) /\ n \in Nat
            /\ RingHolds(L, x, f, h)
        BY <2>1, <3>5, <4>1 DEF Place, Latest, RingHolds
      <4>3. y = RingNext(L, x)
        BY <3>2, <4>1 DEF RingNext
      <4>4. /\ y \in 1 .. L
            /\ [f EXCEPT ![y] = n] \in [1 .. L -> Nat]
            /\ RingHolds(L, y, [f EXCEPT ![y] = n], Append(h, n))
        BY <4>2, <4>3, RingPut
      <4> QED
        BY <3>4, <4>1, <4>4 DEF RingHolds
    <3>7. \A k \in 1 .. args.cmdlog_len : log'[Place(k)'] = Latest(k)'
      BY <1>1, <3>3, <3>6 DEF Place, Latest
    <3>8. gctx'.log_index <= args'.cmdlog_len
      BY <1>1, <2>1, <3>3, <3>6
    <3>9. \A k \in 1 .. args'.cmdlog_len : log'[Place(k)'] = Latest(k)'
      BY <1>1, <3>7
    <3> QED
      BY <2>2, <3>6, <3>8, <3>9 DEF LogInv
  <2> QED
    BY <2>3, <2>4
<1>22. TypeInv'
  <2>1. ctx' \in [Ctxs -> Contexts]
    BY <1>0, <1>5 DEF TypeInv
  <2>2. Contexts' = Contexts /\ Globals' = Globals
    BY DEF Contexts, Globals
  <2>3. rets' \in [count : Nat, error : Nat]
    BY CbLists
  <2> QED
    BY <1>0, <1>1, <1>2, <1>7, <1>12, <1>13, <1>21, <2>1, <2>2, <2>3 DEF TypeInv
<1> QED
  BY <1>15, <1>16, <1>18, <1>19, <1>20, <1>21, <1>22 DEF Inv

-----------------------------------------------------------------------------
(* Every step of the worker, of the device, of the clock and of the main
   process keeps the invariant. *)
LEMMA StepInv == Inv /\ [Next]_vars => Inv'
<1> SUFFICES ASSUME Inv, [Next]_vars PROVE Inv'
  OBVIOUS
<1>1. CASE QuietStep
  BY <1>1, QuietInv
<1>2. CASE StartBatch
  BY <1>2, StartBatchInv
<1>3. ASSUME NEW out \in {"device", "failed", "queued"}, SendHead(out) PROVE Inv'
  BY <1>3, SendHeadInv
<1>4. ASSUME NEW out \in {"device", "failed", "queued"}, RetryQueued(out) PROVE Inv'
  BY <1>4, RetryQueuedInv
<1>5. CASE ioworker_one_cb
  BY <1>5, CbInv
<1>6. CASE Return
  BY <1>6, ReturnInv
<1>7. ASSUME NEW c \in Ctxs, NEW err \in BOOLEAN, DeviceCompletes(c, err) PROVE Inv'
  BY <1>7, DeviceCompletesInv
<1> QED
  BY <1>1, <1>2, <1>3, <1>4, <1>5, <1>6, <1>7 DEF Next, Loop, Environment, QuietStep

(* The inductive invariant holds in every reachable state of a worker. *)
THEOREM InvAlways == Spec => []Inv
<1>1. Init => Inv
  BY InitInv
<1>2. Inv /\ [Next]_vars => Inv'
  BY StepInv
<1> QED
  BY <1>1, <1>2, PTL DEF Spec

(* Every command counted as sent is waiting, held, at the device, completed
   or lost; the head the loop acts on is the first that waits; and a return of
   0 without an error has a reason. *)
THEOREM EveryIoAlwaysAccountedFor == Spec => []EveryIoAccountedFor
<1>1. Inv => EveryIoAccountedFor
  <2> SUFFICES ASSUME Inv PROVE EveryIoAccountedFor
    OBVIOUS
  <2>0. TypeInv /\ EndInv /\ SumInv /\ LogInv /\ args \in Args
    BY DEF Inv, TypeInv
  <2>1. TypeOK
    <3>1. \A c \in Ctxs : ctx[c].at \in Ats
      BY <2>0, FieldTypes
    <3>2. gctx.log_index \in 0 .. args.cmdlog_len
      <4>1. args.cmdlog_len \in Nat /\ gctx.log_index \in Nat
        BY <2>0, ArgTypes, FieldTypes
      <4> QED
        BY <2>0, <4>1 DEF LogInv
    <3> QED
      BY <2>0, <3>1, <3>2 DEF TypeInv, TypeOK, Ats
  <2>2. gctx.sent = gctx.cplt + Len(pending) + Len(queued) + Len(cq)
                    + Cardinality(InState("device")) + gctx.lost
    BY <2>0 DEF SumInv, Sum, AtDevice
  <2>3. ASSUME pc = "returned", ret = 0, rets.error = 0
        PROVE  \/ gctx.cplt = IoCount(args)
               \/ clock > Due
               \/ IsSequence /\ gctx.seq_index = Len(args.io_sequence)
    <3>1. gctx.finish /\ gctx.sent = gctx.cplt /\ Reason
      BY <2>0, <2>3 DEF EndInv
    <3>2. /\ gctx.cplt \in Nat /\ gctx.lost \in Nat /\ AtDevice \in Nat
          /\ Len(pending) \in Nat /\ Len(queued) \in Nat /\ Len(cq) \in Nat
      <4>1. gctx.cplt \in Nat /\ gctx.lost \in Nat
        BY <2>0, FieldTypes
      <4>2. AtDevice \in Nat /\ Len(cq) \in Nat
        BY <2>0, DeviceFinite, CompletionTypes
      <4>3. pending \in Seq(Ctxs) /\ queued \in Seq(Ctxs)
        BY <2>0 DEF TypeInv
      <4> QED
        BY <4>1, <4>2, <4>3
    <3>3. gctx.sent = gctx.cplt + Len(pending) + Len(queued) + Len(cq) + AtDevice
                      + gctx.lost
      BY <2>0 DEF SumInv, Sum
    <3>4. gctx.lost = 0
      BY <3>1, <3>2, <3>3
    <3> QED
      BY <2>3, <3>1, <3>4 DEF Reason
  <2>4. pc = "top" => head_io = FirstOf(pending)
    BY <2>0 DEF EndInv
  <2> QED
    BY <2>1, <2>2, <2>3, <2>4 DEF EveryIoAccountedFor
<1> QED
  BY <1>1, InvAlways, PTL

(* No prefix of a run exceeds its iops limit. *)
THEOREM AlwaysThrottled == Spec => []Throttled
<1>1. Inv => Throttled
  BY DEF Inv, RateInv, Throttled
<1> QED
  BY <1>1, InvAlways, PTL

(* A trace is submitted in its order, each entry at most once. *)
THEOREM TraceAlwaysInOrder == Spec => []TraceInOrder
<1>1. Inv => TraceInOrder
  BY DEF Inv, TraceInv, TraceInOrder, InState
<1> QED
  BY <1>1, InvAlways, PTL

(* The io log a worker returns is the last commands completed, in order. *)
THEOREM LogAlwaysLastCompleted == Spec => []LogIsLastCompleted
<1>1. Inv => LogIsLastCompleted
  BY DEF Inv, LogInv, LogIsLastCompleted, Latest, LatestOf
<1> QED
  BY <1>1, InvAlways, PTL

-----------------------------------------------------------------------------
(* A step that changes neither the counts nor the abstract state. *)
LEMMA AbsStutter ==
    ASSUME UNCHANGED args, gctx'.sent = gctx.sent, gctx'.cplt = gctx.cplt,
           AbsState' = AbsState
    PROVE  UNCHANGED Promise!absvars
BY DEF Promise!absvars, IoCount, Depth

(* Every step of the worker is a step of IoRun or changes nothing of it. *)
LEMMA StepImplements ==
    ASSUME Inv, [Next]_vars
    PROVE  [Promise!IoRunNext]_(Promise!absvars)
<1>0. TypeInv /\ EndInv /\ SumInv /\ args \in Args
  BY DEF Inv, TypeInv
<1>1. ASSUME UNCHANGED args
      PROVE  UNCHANGED <<IoCount(args), Depth(args)>>
  BY <1>1 DEF IoCount, Depth
<1>2. CASE RejectOversize \/ BufferPoolFails
  <2>1. /\ UNCHANGED <<args, gctx>> /\ pc = "entry" /\ pc' = "returned"
        /\ ret' \in {-2, -5}
    BY <1>2 DEF RejectOversize, BufferPoolFails
  <2>2. AbsState = "new" /\ AbsState' = "rejected"
    BY <2>1 DEF AbsState
  <2> QED
    BY <1>1, <2>1, <2>2 DEF Promise!IoRunNext, Promise!Reject
<1>3. CASE StartBatch
  <2>1. UNCHANGED <<args, ret>> /\ pc = "entry" /\ pc' = "top"
    BY <1>3 DEF StartBatch
  <2>2. Inv'
    BY <1>3, StartBatchInv
  <2>3. gctx'.sent = FirstBatch /\ gctx'.cplt = gctx.cplt /\ gctx'.finish = gctx.finish
    BY <1>0, <1>3 DEF StartBatch, TypeInv, Globals
  <2>4. FirstBatch \in 1 .. Depth(args)
    <3>1. args.io_sequence \in Seq(Nat) /\ Depth(args) \in Nat /\ Depth(args) >= 1
      BY <1>0, ArgTypes
    <3>2. IsSequence => Len(args.io_sequence) >= 1
      BY <3>1 DEF IsSequence
    <3>3. Len(args.io_sequence) \in Nat
      BY <3>1
    <3> QED
      BY <3>1, <3>2, <3>3 DEF FirstBatch
  <2>5. gctx'.sent <= IoCount(args)
    BY <2>1, <2>2 DEF Inv, EndInv
  <2>6. AbsState = "new" /\ AbsState' = "open"
    <3>1. ret = 0 /\ ~gctx.finish
      BY <1>0, <2>1 DEF EndInv
    <3> QED
      BY <2>1, <2>3, <3>1 DEF AbsState
  <2> QED
    BY <1>1, <2>1, <2>3, <2>4, <2>5, <2>6 DEF Promise!IoRunNext, Promise!Start
<1>4. CASE LoopExits
  <2>1. UNCHANGED <<args, gctx, ret>> /\ pc = "top" /\ pc' = "final" /\ ~Running
    BY <1>4 DEF LoopExits
  <2>2. gctx.finish /\ gctx.sent = gctx.cplt /\ ret = 0
    BY <1>0, <2>1 DEF Running, EndInv
  <2>3. AbsState = "closing" /\ AbsState' = "finished"
    BY <2>1, <2>2 DEF AbsState
  <2> QED
    BY <1>1, <2>1, <2>2, <2>3 DEF Promise!IoRunNext, Promise!Finish
<1>5. CASE BreakOnTimeout \/ BreakOnTerminate
  <2>1. /\ UNCHANGED <<args, gctx>> /\ pc = "poll" /\ pc' = "final"
        /\ ret' \in {-4, -7}
    BY <1>5 DEF BreakOnTimeout, BreakOnTerminate
  <2>2. ret = 0
    BY <1>0, <2>1 DEF EndInv
  <2>3. AbsState \in {"open", "closing"} /\ AbsState' = "aborted"
    BY <2>1, <2>2 DEF AbsState
  <2> QED
    BY <1>1, <2>1, <2>3 DEF Promise!IoRunNext, Promise!Abort
<1>6. CASE NothingToSend \/ StartReaping \/ NextIteration
  <2>1. /\ UNCHANGED <<args, gctx, ret>> /\ pc \in {"top", "poll", "reap"}
        /\ pc' \in {"top", "poll", "reap"}
    BY <1>6 DEF NothingToSend, StartReaping, NextIteration
  <2>2. AbsState' = AbsState
    BY <2>1 DEF AbsState
  <2> QED
    BY <2>1, <2>2, AbsStutter
<1>7. CASE Return \/ DivideByZero
  <2>1. /\ UNCHANGED <<args, gctx, ret>> /\ pc = "final"
        /\ pc' \in {"returned", "crashed"}
    BY <1>7 DEF Return, DivideByZero
  <2>2. AbsState' = AbsState
    BY <2>1 DEF AbsState
  <2> QED
    BY <2>1, <2>2, AbsStutter
<1>8. CASE Tick \/ SetTerminate \/ UNCHANGED vars
  <2>1. UNCHANGED <<args, gctx, ret, pc>>
    BY <1>8 DEF Tick, SetTerminate, vars
  <2>2. AbsState' = AbsState
    BY <2>1 DEF AbsState
  <2> QED
    BY <2>1, <2>2, AbsStutter
<1>9. ASSUME NEW c \in Ctxs, NEW err \in BOOLEAN, DeviceCompletes(c, err)
      PROVE  [Promise!IoRunNext]_(Promise!absvars)
  <2>1. UNCHANGED <<args, gctx, ret, pc>>
    BY <1>9 DEF DeviceCompletes
  <2>2. AbsState' = AbsState
    BY <2>1 DEF AbsState
  <2> QED
    BY <2>1, <2>2, AbsStutter
<1>10. ASSUME NEW out, SendHead(out)
       PROVE  [Promise!IoRunNext]_(Promise!absvars)
  <2>1. UNCHANGED <<args, ret>> /\ pc = "top" /\ pc' = "poll"
    BY <1>10 DEF SendHead
  <2>2. /\ gctx'.sent = gctx.sent /\ gctx'.cplt = gctx.cplt
        /\ gctx'.finish = (gctx.finish \/ out = "failed")
    BY <1>0, <1>10 DEF SendHead, TypeInv, Globals
  <2>3. ret = 0 /\ gctx.finish \in BOOLEAN
    BY <1>0, <2>1, FieldTypes DEF EndInv
  <2>4. CASE gctx'.finish = gctx.finish
    <3>1. AbsState' = AbsState
      BY <2>1, <2>4 DEF AbsState
    <3> QED
      BY <2>1, <2>2, <3>1, AbsStutter
  <2>5. CASE ~gctx.finish /\ gctx'.finish
    <3>1. AbsState = "open" /\ AbsState' = "closing"
      BY <2>1, <2>3, <2>5 DEF AbsState
    <3> QED
      BY <1>1, <2>1, <2>2, <3>1 DEF Promise!IoRunNext, Promise!Close
  <2> QED
    BY <2>2, <2>3, <2>4, <2>5
<1>11. ASSUME NEW out, RetryQueued(out)
       PROVE  [Promise!IoRunNext]_(Promise!absvars)
  <2>1. UNCHANGED <<args, ret>> /\ pc = "reap" /\ pc' = "top"
    BY <1>11 DEF RetryQueued
  <2>2. /\ gctx'.sent = gctx.sent /\ gctx'.cplt = gctx.cplt
        /\ gctx'.finish = gctx.finish
    BY <1>0, <1>11 DEF RetryQueued, TypeInv, Globals
  <2>3. AbsState' = AbsState
    BY <2>1, <2>2 DEF AbsState
  <2> QED
    BY <2>1, <2>2, <2>3, AbsStutter
<1>12. CASE ioworker_one_cb
  <2>1. UNCHANGED <<args, ret, pc>> /\ pc = "reap" /\ cq # <<>>
    BY <1>12, CbLists
  <2>2. PICK fin : fin = gctx'.finish
    OBVIOUS
  <2>3. /\ gctx'.cplt = gctx.cplt + 1
        /\ fin => gctx'.sent = gctx.sent
        /\ ~fin => gctx'.sent = gctx.sent + 1
        /\ fin \in BOOLEAN
        /\ gctx.finish => fin
        /\ ~fin => gctx.sent # IoCount(args)
    BY <1>12, <2>2, CbCounters
  <2>4. ret = 0
    BY <1>0, <2>1 DEF EndInv
  <2>5. gctx.cplt < gctx.sent
    <3>1. /\ gctx.cplt \in Nat /\ gctx.lost \in Nat /\ AtDevice \in Nat
          /\ Len(pending) \in Nat /\ Len(queued) \in Nat /\ Len(cq) \in Nat
      <4>1. gctx.cplt \in Nat /\ gctx.lost \in Nat
        BY <1>0, FieldTypes
      <4>2. AtDevice \in Nat /\ Len(cq) \in Nat
        BY <1>0, DeviceFinite, CompletionTypes
      <4>3. pending \in Seq(Ctxs) /\ queued \in Seq(Ctxs)
        BY <1>0 DEF TypeInv
      <4> QED
        BY <4>1, <4>2, <4>3
    <3>2. Len(cq) >= 1
      BY <1>0, <2>1, CompletionTypes
    <3>3. gctx.sent = gctx.cplt + Len(pending) + Len(queued) + Len(cq) + AtDevice
                      + gctx.lost
      BY <1>0 DEF SumInv, Sum
    <3> QED
      BY <3>1, <3>2, <3>3
  <2>6. CASE fin
    <3>1. AbsState \in {"open", "closing"} /\ AbsState' = "closing"
      BY <2>1, <2>2, <2>4, <2>6 DEF AbsState
    <3> QED
      BY <1>1, <2>1, <2>3, <2>5, <2>6, <3>1 DEF Promise!IoRunNext, Promise!Drain
  <2>7. CASE ~fin
    <3>1. AbsState = "open" /\ AbsState' = "open"
      BY <2>1, <2>2, <2>3, <2>4, <2>7 DEF AbsState
    <3>2. gctx.sent < IoCount(args)
      <4>1. gctx.sent \in Nat /\ IoCount(args) \in Nat
        BY <1>0, FieldTypes, ArgTypes
      <4>2. gctx.sent <= IoCount(args) /\ gctx.sent # IoCount(args)
        BY <1>0, <2>3, <2>7 DEF EndInv
      <4> QED
        BY <4>1, <4>2
    <3> QED
      BY <1>1, <2>1, <2>3, <2>5, <2>7, <3>1, <3>2 DEF Promise!IoRunNext, Promise!Replace
  <2> QED
    BY <2>3, <2>6, <2>7
<1> QED
  BY <1>2, <1>3, <1>4, <1>5, <1>6, <1>7, <1>8, <1>9, <1>10, <1>11, <1>12
     DEF Next, Loop, Environment

(* The worker implements IoRun: its counts and its flags move as IoRun's do,
   whatever its lists, the device and the clock do. *)
THEOREM WorkerImplementsIoRun == Spec => ImplementsIoRun
<1>1. Init => Promise!IoRunInit
  <2> SUFFICES ASSUME Init PROVE Promise!IoRunInit
    OBVIOUS
  <2>1. args \in Args /\ pc = "entry" /\ gctx.sent = 0 /\ gctx.cplt = 0
    BY DEF Init
  <2>2. IoCount(args) \in Nat \ {0} /\ Depth(args) \in Nat \ {0}
    BY <2>1, ArgTypes
  <2>3. AbsState = "new"
    BY <2>1 DEF AbsState
  <2> QED
    BY <2>1, <2>2, <2>3 DEF Promise!IoRunInit
<1>2. Inv /\ [Next]_vars => [Promise!IoRunNext]_(Promise!absvars)
  BY StepImplements
<1> QED
  BY <1>1, <1>2, InvAlways, PTL DEF Spec, ImplementsIoRun, Promise!IoRunSpec
=============================================================================
