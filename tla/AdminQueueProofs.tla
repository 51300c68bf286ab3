-------------------------- MODULE AdminQueueProofs --------------------------
(***************************************************************************)
(* Proofs about AdminQueue: NeverFails and AersKeptArmed, for any number   *)
(* of AERs, commands and events.                                           *)
(*                                                                         *)
(* What a waitdone has still to wait for is its own missing completions,   *)
(* the AERs it has reaped in the place of commands, and what the frames    *)
(* below it have left; the commands that have not completed are never      *)
(* more.  With one AER they are exactly as many, as only one frame of the  *)
(* stack can have something left.                                          *)
(***************************************************************************)
EXTENDS AdminQueue, FiniteSetTheorems, TLAPS

Kinds  == {"cmd", "aer", "aborted"}
Frames == [reaped : Nat, expected : Nat, lieu : 0 .. MaxEvents]

(* waitdone is in its loop, or has just left it. *)
InLoop    == pc \in {"loop", "process", "clear", "unmask"}
Reaping   == InLoop \/ pc = "resend"
Active    == Reaping \/ pc = "lieu"

(* The AERs that the present call has reaped and not yet made up for. *)
ReapedAers == IF Reaping THEN _aer_waitdone ELSE 0
ToSend     == IF Reaping THEN _aer_resend ELSE 0

(* What the present call has still to wait for. *)
Missing == IF Reaping THEN Top.expected - Top.reaped + _aer_waitdone
           ELSE Top.lieu

TypeInv ==
    /\ intr_enabled \in BOOLEAN /\ armed \in Nat
    /\ cmds \in Nat /\ aers \in Nat /\ cq \in Seq(Kinds)
    /\ msg \in BOOLEAN /\ masked \in BOOLEAN /\ pended \in BOOLEAN
    /\ pc \in {"script", "loop", "process", "clear", "unmask", "resend",
               "lieu", "failed"}
    /\ stack \in Seq(Frames)
    /\ _reentry_flag \in BOOLEAN /\ _aer_resend \in Nat /\ _aer_waitdone \in Nat
    /\ sent \in 0 .. MaxCmds /\ done \in Nat
    /\ events \in 0 .. MaxEvents /\ aborted \in Nat

CountInv ==
    /\ sent = done + cmds + Posted({"cmd"})
    /\ aers + Posted({"aer", "aborted"}) + ReapedAers <= armed
    /\ Posted({"aer", "aborted"}) + ReapedAers <= events
    /\ ToSend <= ReapedAers
    /\ pc # "failed" => aers + Posted({"aer"}) + ToSend = armed - aborted

StackInv ==
    /\ pc = "script" => stack = <<>>
    /\ Active => stack # <<>>
    /\ Reaping => Top.lieu = 0
    /\ pc = "resend" => Top.reaped >= Top.expected
    /\ pc # "failed" => (_reentry_flag <=> InLoop)

(* acc[i] is what the first i frames have left to wait for. *)
Sums(acc) ==
    /\ acc \in [0 .. Len(stack) -> Nat] /\ acc[0] = 0
    /\ \A i \in 1 .. Len(stack) : acc[i] = acc[i - 1] + stack[i].lieu

DebtInv ==
    /\ pc = "script" => done = sent
    /\ Active => \E acc : Sums(acc) /\ sent - done <= acc[Len(stack) - 1] + Missing

OneAerInv ==
    armed <= 1 =>
        /\ pc # "failed"
        /\ \A i \in 1 .. Len(stack) - 1 : stack[i].lieu = 0
        /\ Active => sent - done = Missing
        /\ Active /\ ~Reaping => Missing <= 1

Inv == TypeInv /\ CountInv /\ StackInv /\ DebtInv /\ OneAerInv

-----------------------------------------------------------------------------
(* Completions of some kinds in a queue. *)
Count(s, kinds) == Cardinality({i \in DOMAIN s : s[i] \in kinds})

(* The bounds one by one. *)
LEMMA Bounds ==
    MaxAers \in Nat /\ MaxBatch \in Nat /\ MaxCmds \in Nat /\ MaxEvents \in Nat
  BY BoundsAssumption

(* They are finitely many, and none in an empty queue. *)
LEMMA CountType ==
    ASSUME NEW s \in Seq(Kinds), NEW kinds
    PROVE  /\ Count(s, kinds) \in Nat
           /\ IsFiniteSet({i \in DOMAIN s : s[i] \in kinds})
           /\ s = <<>> => Count(s, kinds) = 0
  <1> DEFINE I == {i \in DOMAIN s : s[i] \in kinds}
  <1>1. Len(s) \in Nat /\ DOMAIN s = 1 .. Len(s)
    OBVIOUS
  <1>2. IsFiniteSet(1 .. Len(s))
    BY <1>1, FS_Interval
  <1>3. IsFiniteSet(I)
    BY <1>1, <1>2, FS_Subset
  <1>4. Cardinality(I) \in Nat
    BY <1>3, FS_CardinalityType
  <1>5. s = <<>> => I = {}
    OBVIOUS
  <1>6. s = <<>> => Cardinality(I) = 0
    BY <1>5, FS_EmptySet
  <1> QED
    BY <1>3, <1>4, <1>6 DEF Count

(* A completion is posted. *)
LEMMA CountAppend ==
    ASSUME NEW s \in Seq(Kinds), NEW kind \in Kinds, NEW kinds
    PROVE  Count(Append(s, kind), kinds)
               = Count(s, kinds) + (IF kind \in kinds THEN 1 ELSE 0)
  <1> DEFINE r == Append(s, kind)
             n == Len(s) + 1
             I == {i \in DOMAIN s : s[i] \in kinds}
             J == {i \in DOMAIN r : r[i] \in kinds}
  <1>1. /\ Len(s) \in Nat /\ DOMAIN s = 1 .. Len(s)
        /\ r \in Seq(Kinds) /\ DOMAIN r = 1 .. n /\ r[n] = kind
        /\ \A i \in 1 .. Len(s) : r[i] = s[i]
    OBVIOUS
  <1> HIDE DEF r
  <1>2. n \in Nat /\ n \notin I /\ n \in 1 .. n
        /\ \A i : i \in 1 .. n <=> i \in 1 .. Len(s) \/ i = n
    BY <1>1
  <1>3. J = IF kind \in kinds THEN I \cup {n} ELSE I
    BY <1>1, <1>2
  <1>4. IsFiniteSet(I) /\ Cardinality(I) \in Nat
    BY CountType DEF Count
  <1>5. Cardinality(I \cup {n}) = Cardinality(I) + 1
    BY <1>2, <1>4, FS_AddElement
  <1> HIDE DEF I, J
  <1>6. Cardinality(J) = Cardinality(I) + (IF kind \in kinds THEN 1 ELSE 0)
    BY <1>3, <1>4, <1>5
  <1> QED
    BY <1>6 DEF Count, I, J, r

(* The oldest completion is processed. *)
LEMMA CountTail ==
    ASSUME NEW s \in Seq(Kinds), s # <<>>, NEW kinds
    PROVE  Count(s, kinds)
               = Count(Tail(s), kinds) + (IF Head(s) \in kinds THEN 1 ELSE 0)
  <1> DEFINE r == Tail(s)
             I == {i \in DOMAIN s : s[i] \in kinds}
             J == {i \in DOMAIN r : r[i] \in kinds}
             K == {i \in I : i # 1}
             f == [j \in J |-> j + 1]
  <1>1. /\ Len(s) \in Nat \ {0} /\ DOMAIN s = 1 .. Len(s)
        /\ r \in Seq(Kinds) /\ DOMAIN r = 1 .. Len(s) - 1
        /\ \A i \in 1 .. Len(s) - 1 : r[i] = s[i + 1]
        /\ Head(s) = s[1]
    OBVIOUS
  <1> HIDE DEF r
  <1>2. IsFiniteSet(I) /\ IsFiniteSet(J) /\ Cardinality(J) \in Nat
        /\ Cardinality(I) \in Nat
    BY <1>1, CountType DEF Count
  <1>3. f \in Bijection(J, K)
    <2>1. \A j \in J : j + 1 \in K
      BY <1>1
    <2>2. \A k \in K : k - 1 \in J /\ (k - 1) + 1 = k
      BY <1>1
    <2>3. \A j \in J, h \in J : j + 1 = h + 1 => j = h
      BY <1>1
    <2> HIDE DEF J, K
    <2>4. f \in Injection(J, K)
      BY <2>1, <2>3 DEF Injection, IsInjective
    <2>5. f \in Surjection(J, K)
      BY <2>1, <2>2 DEF Surjection
    <2> QED
      BY <2>4, <2>5 DEF Bijection
  <1>4. Cardinality(K) = Cardinality(J) /\ IsFiniteSet(K)
    BY <1>2, <1>3, FS_Bijection DEF ExistsBijection
  <1>5. 1 \notin K /\ I = IF Head(s) \in kinds THEN K \cup {1} ELSE K
    BY <1>1
  <1>6. Cardinality(K \cup {1}) = Cardinality(K) + 1
    BY <1>4, <1>5, FS_AddElement
  <1> HIDE DEF I, J, K
  <1>7. Cardinality(I) = Cardinality(J) + (IF Head(s) \in kinds THEN 1 ELSE 0)
    BY <1>2, <1>4, <1>5, <1>6
  <1> QED
    BY <1>7 DEF Count, I, J, r

-----------------------------------------------------------------------------
(* The queue of the admin queue pair: Posted is Count. *)
LEMMA PostedIsCount ==
    ASSUME TypeInv
    PROVE  /\ \A kinds : Posted(kinds) = Count(cq, kinds)
           /\ \A kinds : Posted(kinds) \in Nat
  <1>1. \A kinds : Posted(kinds) = Count(cq, kinds)
    BY DEF Posted, Count
  <1>2. \A kinds : Count(cq, kinds) \in Nat
    BY CountType DEF TypeInv
  <1> QED
    BY <1>1, <1>2

(* The frame of the present call, and the stack with another in its place. *)
LEMMA TopFrame ==
    ASSUME TypeInv, stack # <<>>
    PROVE  /\ Len(stack) \in Nat \ {0} /\ Top = stack[Len(stack)]
           /\ Top \in Frames
           /\ \A f \in Frames :
                  /\ SetTop(f) \in Seq(Frames) /\ Len(SetTop(f)) = Len(stack)
                  /\ SetTop(f) # <<>> /\ SetTop(f)[Len(stack)] = f
                  /\ \A i \in 1 .. Len(stack) - 1 : SetTop(f)[i] = stack[i]
  <1>1. /\ stack \in Seq(Frames) /\ Len(stack) \in Nat \ {0}
        /\ DOMAIN stack = 1 .. Len(stack) /\ Len(stack) \in DOMAIN stack
    BY DEF TypeInv
  <1>2. Top = stack[Len(stack)] /\ Top \in Frames
    BY <1>1 DEF Top, Last
  <1>3. ASSUME NEW f \in Frames
        PROVE  /\ SetTop(f) \in Seq(Frames) /\ Len(SetTop(f)) = Len(stack)
               /\ SetTop(f) # <<>> /\ SetTop(f)[Len(stack)] = f
               /\ \A i \in 1 .. Len(stack) - 1 : SetTop(f)[i] = stack[i]
    <2>1. SetTop(f) \in Seq(Frames) /\ Len(SetTop(f)) = Len(stack)
      BY <1>1 DEF SetTop
    <2>2. SetTop(f) # <<>>
      BY <1>1, <2>1
    <2>3. SetTop(f)[Len(stack)] = f
      BY <1>1 DEF SetTop
    <2>4. ASSUME NEW i \in 1 .. Len(stack) - 1 PROVE SetTop(f)[i] = stack[i]
      <3> DEFINE n == Len(stack)
      <3>1. n \in Nat \ {0} /\ i \in 1 .. n - 1 /\ DOMAIN stack = 1 .. n
        BY <1>1
      <3> HIDE DEF n
      <3>2. i \in 1 .. n /\ i # n
        BY <3>1
      <3>3. i \in DOMAIN stack /\ i # Len(stack)
        BY <3>1, <3>2 DEF n
      <3> QED
        BY <3>3 DEF SetTop
    <2> QED
      BY <2>1, <2>2, <2>3, <2>4
  <1> QED
    BY <1>1, <1>2, <1>3

(* The invariant holds before the first call. *)
LEMMA InitInv == Init => Inv
  <1> SUFFICES ASSUME Init PROVE Inv
    OBVIOUS
  <1>1. TypeInv
    <2>1. /\ armed \in Nat /\ 0 \in 0 .. MaxCmds /\ 0 \in 0 .. MaxEvents
          /\ <<>> \in Seq(Kinds) /\ <<>> \in Seq(Frames)
      BY Bounds DEF Init
    <2> QED
      BY <2>1 DEF Init, TypeInv
  <1>2. \A kinds : Posted(kinds) = 0
    BY <1>1, CountType, PostedIsCount DEF Init, TypeInv
  <1>3. CountInv
    BY <1>1, <1>2 DEF Init, CountInv, ReapedAers, ToSend, Reaping, InLoop, TypeInv
  <1>4. StackInv
    BY DEF Init, StackInv, Active, Reaping, InLoop
  <1>5. DebtInv
    BY DEF Init, DebtInv, Active, Reaping, InLoop
  <1>6. OneAerInv
    BY DEF Init, OneAerInv, Active, Reaping, InLoop
  <1> QED
    BY <1>1, <1>3, <1>4, <1>5, <1>6 DEF Inv

(* A step that leaves the calls where they are. *)
LEMMA CallsSame ==
    ASSUME StackInv, DebtInv, OneAerInv,
           UNCHANGED <<stack, armed, sent, done, _aer_waitdone>>,
           Reaping' = Reaping, Active' = Active,
           pc' = "script" <=> pc = "script", pc' = "failed" <=> pc = "failed"
    PROVE  DebtInv' /\ OneAerInv'
  <1>1. Missing' = Missing /\ Top' = Top
    BY DEF Missing, Top, Last
  <1>2. \A acc : Sums(acc)' <=> Sums(acc)
    BY DEF Sums
  <1>3. DebtInv'
    BY <1>1, <1>2 DEF DebtInv
  <1>4. OneAerInv'
    BY <1>1 DEF OneAerInv
  <1> QED
    BY <1>3, <1>4

(* The device completes a command or an AER. *)
LEMMA PostKeepsInv ==
    ASSUME Inv,
           CommandCompletes \/ \E kind \in {"aer", "aborted"} : AerCompletes(kind)
    PROVE  Inv'
  <1>1. PICK kind \in Kinds :
            /\ Post(kind)
            /\ kind = "cmd" => /\ cmds > 0 /\ cmds' = cmds - 1
                               /\ UNCHANGED <<aers, events, aborted>>
            /\ kind # "cmd" => /\ aers > 0 /\ events < MaxEvents
                               /\ aers' = aers - 1 /\ events' = events + 1
                               /\ aborted' = IF kind = "aborted" THEN aborted + 1
                                                                 ELSE aborted
                               /\ UNCHANGED cmds
    BY DEF CommandCompletes, AerCompletes, Kinds
  <1>2. /\ cq' = Append(cq, kind)
        /\ UNCHANGED <<intr_enabled, armed, masked, pc, stack, _reentry_flag,
                       _aer_resend, _aer_waitdone, done, sent>>
        /\ msg' \in BOOLEAN /\ pended' \in BOOLEAN
    BY <1>1 DEF Post, setup, globals, Inv, TypeInv
  <1>3. TypeInv'
    <2>1. cq' \in Seq(Kinds)
      BY <1>2 DEF Inv, TypeInv
    <2>2. cmds' \in Nat /\ aers' \in Nat /\ aborted' \in Nat
          /\ events' \in 0 .. MaxEvents
      BY <1>1, Bounds DEF Inv, TypeInv
    <2> QED
      BY <1>2, <2>1, <2>2 DEF Inv, TypeInv
  <1>4. \A kinds : Posted(kinds)' = Posted(kinds)
                                    + (IF kind \in kinds THEN 1 ELSE 0)
    <2>1. \A kinds : Posted(kinds)' = Count(cq', kinds)
      BY DEF Posted, Count
    <2> QED
      BY <1>2, <2>1, CountAppend, PostedIsCount DEF Inv, TypeInv
  <1>5. /\ InLoop' = InLoop /\ Reaping' = Reaping /\ Active' = Active
        /\ ReapedAers' = ReapedAers /\ ToSend' = ToSend
    BY <1>2 DEF InLoop, Reaping, Active, ReapedAers, ToSend
  <1>6. ReapedAers \in Nat /\ ToSend \in Nat
    BY DEF ReapedAers, ToSend, Inv, TypeInv
  <1>7. CountInv'
    <2> DEFINE c == Posted({"cmd"})
               a == Posted({"aer"})
               n == Posted({"aer", "aborted"})
    <2>1. c \in Nat /\ a \in Nat /\ n \in Nat
      BY PostedIsCount DEF Inv
    <2>2. /\ c' = c + (IF kind = "cmd" THEN 1 ELSE 0)
          /\ a' = a + (IF kind = "aer" THEN 1 ELSE 0)
          /\ n' = n + (IF kind = "cmd" THEN 0 ELSE 1)
      BY <1>4 DEF Kinds
    <2>3. /\ sent = done + cmds + c
          /\ aers + n + ReapedAers <= armed
          /\ n + ReapedAers <= events
          /\ ToSend <= ReapedAers
          /\ pc # "failed" => aers + a + ToSend = armed - aborted
      BY DEF Inv, CountInv
    <2> HIDE DEF c, a, n
    <2>4. /\ cmds \in Nat /\ aers \in Nat /\ armed \in Nat /\ events \in Nat
          /\ aborted \in Nat /\ sent \in Nat /\ done \in Nat
      BY Bounds DEF Inv, TypeInv
    <2>5. CASE kind = "cmd"
      <3>1. /\ sent' = done' + cmds' + c'
            /\ aers' + n' + ReapedAers' <= armed'
            /\ n' + ReapedAers' <= events'
            /\ ToSend' <= ReapedAers'
            /\ pc' # "failed" => aers' + a' + ToSend' = armed' - aborted'
        BY <1>1, <1>2, <1>5, <1>6, <2>1, <2>2, <2>3, <2>4, <2>5
      <3> QED
        BY <3>1 DEF CountInv, c, a, n
    <2>6. CASE kind # "cmd"
      <3>1. /\ sent' = done' + cmds' + c'
            /\ aers' + n' + ReapedAers' <= armed'
            /\ n' + ReapedAers' <= events'
            /\ ToSend' <= ReapedAers'
        BY <1>1, <1>2, <1>5, <1>6, <2>1, <2>2, <2>3, <2>4, <2>6
      <3>2. pc' # "failed" => aers' + a' + ToSend' = armed' - aborted'
        BY <1>1, <1>2, <1>5, <1>6, <2>1, <2>2, <2>3, <2>4, <2>6 DEF Kinds
      <3> QED
        BY <3>1, <3>2 DEF CountInv, c, a, n
    <2> QED
      BY <2>5, <2>6
  <1>8. StackInv'
    BY <1>2, <1>5 DEF Inv, StackInv, Top
  <1>9. DebtInv' /\ OneAerInv'
    BY <1>2, <1>5, CallsSame DEF Inv
  <1> QED
    BY <1>3, <1>7, <1>8, <1>9 DEF Inv

-----------------------------------------------------------------------------
(* The poll moves on, without a completion. *)
LEMMA PollKeepsInv ==
    ASSUME Inv, StartPoll \/ ProcessEnd \/ Clear \/ Unmask
    PROVE  Inv'
  <1>1. /\ InLoop /\ InLoop'
        /\ UNCHANGED <<intr_enabled, armed, cmds, aers, cq, stack,
                       _reentry_flag, _aer_resend, _aer_waitdone, sent, done,
                       events, aborted>>
        /\ msg' \in BOOLEAN /\ masked' \in BOOLEAN /\ pended' \in BOOLEAN
    BY DEF StartPoll, ProcessEnd, Clear, Unmask, InLoop, setup, device, globals,
       interrupt, Inv, TypeInv
  <1>2. TypeInv'
    BY <1>1 DEF Inv, TypeInv, InLoop
  <1>3. /\ Reaping /\ Reaping' /\ Active /\ Active'
        /\ pc \notin {"script", "failed", "resend"}
        /\ pc' \notin {"script", "failed", "resend"}
    BY <1>1 DEF InLoop, Reaping, Active
  <1>4. CountInv'
    BY <1>1, <1>3 DEF Inv, CountInv, ReapedAers, ToSend, Posted
  <1>5. StackInv'
    BY <1>1, <1>3 DEF Inv, StackInv, Top
  <1>6. DebtInv' /\ OneAerInv'
    BY <1>1, <1>3, CallsSame DEF Inv
  <1> QED
    BY <1>2, <1>4, <1>5, <1>6 DEF Inv

(* Enough is reaped. *)
LEMMA LeaveKeepsInv ==
    ASSUME Inv, LeaveLoop
    PROVE  Inv'
  <1>1. /\ pc = "loop" /\ pc' = "resend" /\ _reentry_flag' = FALSE
        /\ Top.reaped >= Top.expected
        /\ UNCHANGED <<intr_enabled, armed, cmds, aers, cq, msg, masked, pended,
                       stack, _aer_resend, _aer_waitdone, sent, done, events,
                       aborted>>
    BY DEF LeaveLoop, setup, device, interrupt
  <1>2. TypeInv'
    BY <1>1 DEF Inv, TypeInv
  <1>3. Reaping /\ Reaping' /\ Active /\ Active' /\ ~InLoop'
    BY <1>1 DEF InLoop, Reaping, Active
  <1>4. CountInv'
    BY <1>1, <1>3 DEF Inv, CountInv, ReapedAers, ToSend, Posted
  <1>5. StackInv'
    BY <1>1, <1>3 DEF Inv, StackInv, Top
  <1>6. DebtInv' /\ OneAerInv'
    BY <1>1, <1>3, CallsSame DEF Inv
  <1> QED
    BY <1>2, <1>4, <1>5, <1>6 DEF Inv

(* Nothing is left for the alarm: with one AER it does not go off. *)
LEMMA AlarmKeepsInv ==
    ASSUME Inv, Alarm
    PROVE  Inv'
  <1>1. /\ pc = "loop" /\ pc' = "failed" /\ _reentry_flag' = FALSE
        /\ Top.reaped < Top.expected /\ cmds = 0 /\ cq = <<>> /\ stack' = <<>>
        /\ UNCHANGED <<intr_enabled, armed, cmds, aers, cq, msg, masked, pended,
                       _aer_resend, _aer_waitdone, sent, done, events, aborted>>
    BY DEF Alarm, setup, device, interrupt
  <1>2. TypeInv'
    <2>1. <<>> \in Seq(Frames)
      OBVIOUS
    <2> QED
      BY <1>1, <2>1 DEF Inv, TypeInv
  <1>3. Reaping /\ Active /\ ~Reaping' /\ ~Active' /\ ~InLoop'
    BY <1>1 DEF InLoop, Reaping, Active
  <1>4. armed > 1
    <2>1. Top \in Frames
      BY <1>3, TopFrame DEF Inv, StackInv
    <2>2. Top.expected \in Nat /\ Top.reaped \in Nat
      BY <2>1 DEF Frames
    <2>3. Posted({"cmd"}) = 0
      BY <1>1, PostedIsCount, CountType DEF Inv, TypeInv
    <2>4. sent - done = 0
      BY <1>1, <2>3 DEF Inv, CountInv, TypeInv
    <2>5. Missing > 0
      BY <1>1, <1>3, <2>2 DEF Missing, Inv, TypeInv
    <2>6. ~(armed <= 1)
      BY <1>3, <2>4, <2>5 DEF Inv, OneAerInv
    <2> QED
      BY <2>6 DEF Inv, TypeInv
  <1>5. CountInv'
    <2>1. \A kinds : Posted(kinds)' = Posted(kinds) /\ Posted(kinds) \in Nat
      BY <1>1, PostedIsCount DEF Posted, Inv
    <2>2. /\ ReapedAers' = 0 /\ ToSend' = 0 /\ ReapedAers \in Nat
      BY <1>3 DEF ReapedAers, ToSend, Inv, TypeInv
    <2> QED
      BY <1>1, <2>1, <2>2 DEF Inv, CountInv, TypeInv
  <1>6. StackInv'
    BY <1>1, <1>3 DEF StackInv
  <1>7. DebtInv' /\ OneAerInv'
    <2>1. ~(armed' <= 1)
      BY <1>1, <1>4 DEF Inv, TypeInv
    <2> QED
      BY <1>1, <1>3, <2>1 DEF DebtInv, OneAerInv
  <1> QED
    BY <1>2, <1>5, <1>6, <1>7 DEF Inv

(* The arithmetic of a completion: one more is reaped, and it is a command or
   an AER. *)
LEMMA OneReaped ==
    ASSUME NEW s \in Nat, NEW d \in Nat, NEW d1 \in Nat, NEW w \in Nat,
           NEW w1 \in Nat, NEW e \in Nat, NEW r \in Nat, d1 + w1 = d + w + 1
    PROVE  /\ \A x \in Nat : s - d <= x + (e - r + w) =>
                             s - d1 <= x + (e - (r + 1) + w1)
           /\ s - d = e - r + w => s - d1 = e - (r + 1) + w1
  <1>1. d1 = d + w + 1 - w1
    OBVIOUS
  <1> QED
    BY <1>1

(* A completion is processed: a command is one less to wait for, an AER takes
   the place of one. *)
LEMMA ProcessKeepsInv ==
    ASSUME Inv, ProcessOne
    PROVE  Inv'
  <1>k. PICK kind : kind = Head(cq)
    OBVIOUS
  <1> DEFINE top == [Top EXCEPT !.reaped = @ + 1]
  <1>1. /\ pc = "process" /\ pc' = pc /\ cq # <<>> /\ cq' = Tail(cq)
        /\ stack' = SetTop(top)
        /\ done' = IF kind = "cmd" THEN done + 1 ELSE done
        /\ _aer_waitdone' = IF kind = "cmd" THEN _aer_waitdone
                                            ELSE _aer_waitdone + 1
        /\ _aer_resend' = IF kind = "aer" THEN _aer_resend + 1 ELSE _aer_resend
        /\ UNCHANGED <<intr_enabled, armed, cmds, aers, msg, masked, pended,
                       _reentry_flag, sent, events, aborted>>
    BY <1>k DEF ProcessOne, setup, device, interrupt
  <1>2. /\ cq \in Seq(Kinds) /\ kind \in Kinds /\ Tail(cq) \in Seq(Kinds)
    BY <1>1, <1>k DEF Inv, TypeInv
  <1>3. /\ Reaping /\ Reaping' /\ Active /\ Active' /\ InLoop /\ InLoop'
    BY <1>1 DEF InLoop, Reaping, Active
  <1>4. /\ Len(stack) \in Nat \ {0} /\ Top \in Frames
        /\ Top = stack[Len(stack)] /\ top \in Frames
        /\ top.reaped = Top.reaped + 1 /\ top.expected = Top.expected
        /\ top.lieu = Top.lieu
    <2>1. /\ Len(stack) \in Nat \ {0} /\ Top = stack[Len(stack)] /\ Top \in Frames
      BY <1>3, TopFrame DEF Inv, StackInv
    <2> QED
      BY <2>1 DEF Frames
  <1> HIDE DEF top
  <1>5. /\ stack' \in Seq(Frames) /\ Len(stack') = Len(stack) /\ stack' # <<>>
        /\ stack'[Len(stack)] = top
        /\ \A i \in 1 .. Len(stack) - 1 : stack'[i] = stack[i]
    BY <1>1, <1>3, <1>4, TopFrame DEF Inv, StackInv
  <1>6. Top' = top
    BY <1>5 DEF Top, Last
  <1>7. TypeInv'
    <2>1. /\ done' \in Nat /\ _aer_waitdone' \in Nat /\ _aer_resend' \in Nat
      BY <1>1 DEF Inv, TypeInv
    <2> QED
      BY <1>1, <1>2, <1>5, <2>1 DEF Inv, TypeInv
  <1>8. CountInv'
    <2> DEFINE c == Posted({"cmd"})
               a == Posted({"aer"})
               n == Posted({"aer", "aborted"})
    <2>1. c \in Nat /\ a \in Nat /\ n \in Nat /\ c' \in Nat /\ a' \in Nat
          /\ n' \in Nat
      <3>1. \A kinds : Posted(kinds)' = Count(cq', kinds)
        BY DEF Posted, Count
      <3>2. \A kinds : Count(cq', kinds) \in Nat
        BY <1>1, <1>2, CountType
      <3> QED
        BY <3>1, <3>2, PostedIsCount DEF Inv
    <2>2. /\ c' = c - (IF kind = "cmd" THEN 1 ELSE 0)
          /\ a' = a - (IF kind = "aer" THEN 1 ELSE 0)
          /\ n' = n - (IF kind = "cmd" THEN 0 ELSE 1)
      <3>1. \A kinds : Posted(kinds)' = Count(Tail(cq), kinds)
        BY <1>1 DEF Posted, Count
      <3>2. \A kinds : Posted(kinds)' = Posted(kinds)
                                        - (IF kind \in kinds THEN 1 ELSE 0)
        <4> SUFFICES ASSUME NEW kinds
                     PROVE  Posted(kinds)' = Posted(kinds)
                                             - (IF kind \in kinds THEN 1 ELSE 0)
          OBVIOUS
        <4> DEFINE before == Count(cq, kinds)
                   after  == Count(Tail(cq), kinds)
        <4>1. before = after + (IF kind \in kinds THEN 1 ELSE 0)
          BY <1>1, <1>2, <1>k, CountTail
        <4>2. before \in Nat /\ after \in Nat
          BY <1>2, CountType
        <4>3. Posted(kinds) = before /\ Posted(kinds)' = after
          BY <3>1, PostedIsCount DEF Inv
        <4> HIDE DEF before, after
        <4> QED
          BY <4>1, <4>2, <4>3
      <3> QED
        BY <1>2, <3>2 DEF Kinds
    <2>3. /\ sent = done + cmds + c
          /\ aers + n + _aer_waitdone <= armed
          /\ n + _aer_waitdone <= events
          /\ _aer_resend <= _aer_waitdone
          /\ aers + a + _aer_resend = armed - aborted
      BY <1>1, <1>3 DEF Inv, CountInv, ReapedAers, ToSend
    <2> HIDE DEF c, a, n
    <2>4. /\ cmds \in Nat /\ aers \in Nat /\ armed \in Nat /\ events \in Nat
          /\ aborted \in Nat /\ sent \in Nat /\ done \in Nat
          /\ _aer_waitdone \in Nat /\ _aer_resend \in Nat
      BY Bounds DEF Inv, TypeInv
    <2> DEFINE wd == _aer_waitdone
               rs == _aer_resend
    <2>6. /\ done' = IF kind = "cmd" THEN done + 1 ELSE done
          /\ wd' = IF kind = "cmd" THEN wd ELSE wd + 1
          /\ rs' = IF kind = "aer" THEN rs + 1 ELSE rs
          /\ UNCHANGED <<armed, cmds, aers, sent, events, aborted>>
      BY <1>1
    <2>5. /\ sent' = done' + cmds' + c'
          /\ aers' + n' + _aer_waitdone' <= armed'
          /\ n' + _aer_waitdone' <= events'
          /\ _aer_resend' <= _aer_waitdone'
          /\ aers' + a' + _aer_resend' = armed' - aborted'
      <3>1. CASE kind = "cmd"
        BY <2>1, <2>2, <2>3, <2>4, <2>6, <3>1
      <3>2. CASE kind = "aer"
        BY <2>1, <2>2, <2>3, <2>4, <2>6, <3>2
      <3>3. CASE kind = "aborted"
        BY <2>1, <2>2, <2>3, <2>4, <2>6, <3>3
      <3> QED
        BY <1>2, <3>1, <3>2, <3>3 DEF Kinds
    <2> QED
      BY <1>3, <2>5 DEF CountInv, ReapedAers, ToSend, c, a, n
  <1>9. StackInv'
    BY <1>1, <1>3, <1>4, <1>5, <1>6 DEF Inv, StackInv
  <1>10. /\ \A x \in Nat : sent - done <= x + Missing =>
                              sent' - done' <= x + Missing'
         /\ sent - done = Missing => sent' - done' = Missing'
    <2>1. /\ Missing = Top.expected - Top.reaped + _aer_waitdone
          /\ Missing' = Top.expected - (Top.reaped + 1) + _aer_waitdone'
      BY <1>3, <1>4, <1>6 DEF Missing
    <2>2. /\ sent \in Nat /\ done \in Nat /\ _aer_waitdone \in Nat
          /\ Top.expected \in Nat /\ Top.reaped \in Nat
      BY <1>4, Bounds DEF Inv, TypeInv, Frames
    <2>3. /\ done' = IF kind = "cmd" THEN done + 1 ELSE done
          /\ _aer_waitdone' = IF kind = "cmd" THEN _aer_waitdone
                                              ELSE _aer_waitdone + 1
          /\ sent' = sent
      BY <1>1
    <2>4. PICK e \in Nat, r \in Nat, w \in Nat, w1 \in Nat, d \in Nat, d1 \in Nat :
              /\ e = Top.expected /\ r = Top.reaped /\ w = _aer_waitdone
              /\ w1 = _aer_waitdone' /\ d = done /\ d1 = done'
      BY <1>7, <2>2 DEF TypeInv
    <2>5. d1 + w1 = d + w + 1
      <3>1. CASE kind = "cmd"
        BY <2>3, <2>4, <3>1
      <3>2. CASE kind # "cmd"
        BY <2>3, <2>4, <3>2
      <3> QED
        BY <3>1, <3>2
    <2>6. PICK s \in Nat : s = sent /\ s = sent'
      BY <2>2, <2>3
    <2>7. /\ Missing = e - r + w /\ Missing' = e - (r + 1) + w1
          /\ sent - done = s - d /\ sent' - done' = s - d1
      BY <2>1, <2>4, <2>6
    <2>8. /\ \A x \in Nat : s - d <= x + (e - r + w) =>
                            s - d1 <= x + (e - (r + 1) + w1)
          /\ s - d = e - r + w => s - d1 = e - (r + 1) + w1
      BY <2>5, OneReaped
    <2> QED
      BY <2>7, <2>8, Zenon
  <1>11. \A acc : Sums(acc) => Sums(acc)'
    <2> SUFFICES ASSUME NEW acc, Sums(acc) PROVE Sums(acc)'
      OBVIOUS
    <2>1. \A i \in 1 .. Len(stack) : stack'[i].lieu = stack[i].lieu
      BY <1>4, <1>5
    <2> QED
      BY <1>5, <2>1 DEF Sums
  <1>12. DebtInv'
    <2>1. PICK acc : Sums(acc) /\ sent - done <= acc[Len(stack) - 1] + Missing
      BY <1>3 DEF Inv, DebtInv
    <2>2. acc[Len(stack) - 1] \in Nat
      BY <1>4, <2>1 DEF Sums
    <2>3. sent' - done' <= acc[Len(stack) - 1] + Missing'
      BY <1>10, <2>1, <2>2
    <2>4. Sums(acc)' /\ sent' - done' <= acc[Len(stack') - 1] + Missing'
      BY <1>5, <1>11, <2>1, <2>3
    <2> QED
      BY <1>1, <2>4 DEF DebtInv
  <1>13. OneAerInv'
    <2>1. pc' # "failed" /\ armed' = armed
      BY <1>1
    <2> QED
      BY <1>3, <1>5, <1>10, <2>1 DEF Inv, OneAerInv
  <1> QED
    BY <1>7, <1>8, <1>9, <1>12, <1>13 DEF Inv

-----------------------------------------------------------------------------
(* The script sends commands and waits for them. *)
LEMMA SendKeepsInv ==
    ASSUME Inv, NEW n \in 1 .. MaxBatch, SendAndWait(n)
    PROVE  Inv'
  <1> DEFINE top == [reaped |-> 0, expected |-> n, lieu |-> 0]
  <1>1. /\ pc = "script" /\ sent + n <= MaxCmds /\ ~_reentry_flag
        /\ cmds' = cmds + n /\ sent' = sent + n
        /\ stack' = Append(<<>>, top)
        /\ pc' = "loop" /\ _reentry_flag' = TRUE
        /\ _aer_resend' = 0 /\ _aer_waitdone' = 0
        /\ UNCHANGED <<intr_enabled, armed, aers, cq, msg, masked, pended, done,
                       events, aborted>>
    <2>1. pc = "script" /\ Call(n, <<>>)
      BY DEF SendAndWait
    <2>2. ~_reentry_flag
      BY <2>1 DEF Inv, StackInv, InLoop
    <2> QED
      BY <2>1, <2>2 DEF SendAndWait, Call, setup, interrupt
  <1>2. n \in Nat /\ n > 0 /\ sent \in Nat /\ done \in Nat /\ cmds \in Nat
    BY Bounds DEF Inv, TypeInv
  <1>3. ~Reaping /\ Reaping' /\ Active' /\ InLoop'
    BY <1>1 DEF InLoop, Reaping, Active
  <1>4. top \in Frames /\ top.lieu = 0 /\ top.expected = n /\ top.reaped = 0
    <2>1. 0 \in 0 .. MaxEvents
      BY Bounds
    <2> QED
      BY <1>2, <2>1 DEF Frames
  <1> HIDE DEF top
  <1>5. stack' \in Seq(Frames) /\ Len(stack') = 1 /\ stack'[1] = top
        /\ stack' # <<>>
    BY <1>1, <1>4
  <1>6. Top' = top
    BY <1>5 DEF Top, Last
  <1>7. TypeInv'
    <2>1. sent' \in 0 .. MaxCmds /\ cmds' \in Nat
      BY <1>1, <1>2, Bounds
    <2> QED
      BY <1>1, <1>5, <2>1 DEF Inv, TypeInv
  <1>8. CountInv'
    <2>1. \A kinds : Posted(kinds)' = Posted(kinds) /\ Posted(kinds) \in Nat
      BY <1>1, PostedIsCount DEF Posted, Inv
    <2>2. /\ ReapedAers' = 0 /\ ToSend' = 0 /\ ReapedAers = 0 /\ ToSend = 0
      BY <1>1, <1>3 DEF ReapedAers, ToSend
    <2>3. sent' = done' + cmds' + Posted({"cmd"})'
      BY <1>1, <1>2, <2>1 DEF Inv, CountInv
    <2> QED
      BY <1>1, <2>1, <2>2, <2>3 DEF Inv, CountInv
  <1>9. StackInv'
    BY <1>1, <1>3, <1>4, <1>5, <1>6 DEF StackInv
  <1>10. Missing' = n /\ sent' - done' = n
    <2>1. Missing' = n - 0 + 0
      BY <1>1, <1>3, <1>4, <1>6 DEF Missing
    <2>2. done = sent
      BY <1>1 DEF Inv, DebtInv
    <2> QED
      BY <1>1, <1>2, <2>1, <2>2
  <1>11. DebtInv'
    <2> DEFINE acc == [i \in 0 .. 1 |-> 0]
    <2>1. Sums(acc)'
      <3>1. acc \in [0 .. 1 -> Nat] /\ acc[0] = 0 /\ acc[1] = 0
        OBVIOUS
      <3> HIDE DEF acc
      <3>2. \A i \in 1 .. 1 : acc[i] = acc[i - 1] + stack'[i].lieu
        BY <1>4, <1>5, <3>1
      <3> QED
        BY <1>5, <3>1, <3>2 DEF Sums
    <2>2. acc[0] = 0 /\ Len(stack') - 1 = 0
      BY <1>5
    <2> HIDE DEF acc
    <2>4. n <= 0 + n
      BY <1>2
    <2>3. sent' - done' <= acc[Len(stack') - 1] + Missing'
      BY <1>10, <2>2, <2>4, Zenon
    <2> QED
      BY <1>1, <2>1, <2>3 DEF DebtInv
  <1>12. OneAerInv'
    <2>1. 1 .. Len(stack') - 1 = {}
      BY <1>5
    <2> QED
      BY <1>1, <1>3, <1>10, <2>1 DEF OneAerInv
  <1> QED
    BY <1>7, <1>8, <1>9, <1>11, <1>12 DEF Inv

(* The loop is left: AERs are sent again, and the commands in whose place they
   came are counted. *)
LEMMA ResendKeepsInv ==
    ASSUME Inv, Resend
    PROVE  Inv'
  <1>k. PICK lieu : lieu = InLieu(Top)
    OBVIOUS
  <1> DEFINE top == [Top EXCEPT !.lieu = lieu]
  <1>1. /\ pc = "resend" /\ pc' = "lieu"
        /\ aers' = aers + _aer_resend
        /\ stack' = SetTop(top)
        /\ UNCHANGED <<intr_enabled, armed, cmds, cq, msg, masked, pended,
                       _reentry_flag, _aer_resend, _aer_waitdone, sent, done,
                       events, aborted>>
    BY <1>k DEF Resend, ToResend, setup, interrupt, globals
  <1>2. Reaping /\ ~Reaping' /\ Active /\ Active' /\ ~InLoop /\ ~InLoop'
    BY <1>1 DEF InLoop, Reaping, Active
  <1>3. /\ Len(stack) \in Nat \ {0} /\ Top = stack[Len(stack)] /\ Top \in Frames
        /\ Top.reaped >= Top.expected /\ Top.lieu = 0
    BY <1>1, <1>2, TopFrame DEF Inv, StackInv
  <1>4. /\ Top.reaped \in Nat /\ Top.expected \in Nat
        /\ _aer_waitdone \in Nat /\ _aer_resend \in Nat
        /\ sent \in Nat /\ done \in Nat
        /\ events \in Nat /\ events <= MaxEvents /\ armed \in Nat
        /\ aers \in Nat /\ aborted \in Nat
    BY <1>3, Bounds DEF Inv, TypeInv, Frames
  <1>5. \A kinds : Posted(kinds)' = Posted(kinds) /\ Posted(kinds) \in Nat
    BY <1>1, PostedIsCount DEF Posted, Inv
  <1>6. /\ ReapedAers = _aer_waitdone /\ ToSend = _aer_resend
        /\ ReapedAers' = 0 /\ ToSend' = 0
    BY <1>2 DEF ReapedAers, ToSend
  <1>7. _aer_waitdone <= events /\ _aer_waitdone <= armed
        /\ _aer_resend <= _aer_waitdone
    <2> DEFINE p == Posted({"aer", "aborted"})
    <2>1. p \in Nat /\ aers + p + _aer_waitdone <= armed
          /\ p + _aer_waitdone <= events /\ _aer_resend <= _aer_waitdone
      BY <1>5, <1>6 DEF Inv, CountInv
    <2> HIDE DEF p
    <2> QED
      BY <1>4, <2>1
  <1>8. /\ lieu \in Nat /\ lieu >= Missing /\ lieu <= _aer_waitdone
        /\ Missing >= 0 => lieu = Missing
        /\ Missing \in Int
    <2>1. /\ Missing = Top.expected - Top.reaped + _aer_waitdone
          /\ lieu = IF _aer_waitdone > Top.reaped - Top.expected
                    THEN _aer_waitdone - (Top.reaped - Top.expected) ELSE 0
      BY <1>2, <1>k DEF Missing, InLieu
    <2> QED
      BY <1>3, <1>4, <2>1
  <1>9. top \in Frames /\ top.lieu = lieu
    <2>1. lieu \in 0 .. MaxEvents
      BY <1>4, <1>7, <1>8, Bounds
    <2> QED
      BY <1>3, <2>1 DEF Frames
  <1> HIDE DEF top
  <1>10. /\ stack' \in Seq(Frames) /\ Len(stack') = Len(stack) /\ stack' # <<>>
         /\ stack'[Len(stack)] = top
         /\ \A i \in 1 .. Len(stack) - 1 : stack'[i] = stack[i]
    BY <1>1, <1>2, <1>9, TopFrame DEF Inv, StackInv
  <1>11. Top' = top /\ Missing' = lieu
    BY <1>2, <1>9, <1>10 DEF Top, Last, Missing
  <1>12. TypeInv'
    BY <1>1, <1>4, <1>10 DEF Inv, TypeInv
  <1>13. CountInv'
    <2>1. sent' = done' + cmds' + Posted({"cmd"})'
      BY <1>1, <1>5 DEF Inv, CountInv
    <2> DEFINE p == Posted({"aer", "aborted"})
               a == Posted({"aer"})
    <2>2. /\ p \in Nat /\ a \in Nat /\ p' = p /\ a' = a
      BY <1>5
    <2>3. /\ aers + p + _aer_waitdone <= armed /\ p + _aer_waitdone <= events
          /\ aers + a + _aer_resend = armed - aborted
      BY <1>1, <1>6 DEF Inv, CountInv
    <2> HIDE DEF p, a
    <2>4. /\ aers' + p' + 0 <= armed' /\ p' + 0 <= events'
          /\ aers' + a' + 0 = armed' - aborted'
      BY <1>1, <1>4, <1>7, <2>2, <2>3
    <2> QED
      BY <1>6, <2>1, <2>4 DEF CountInv, p, a
  <1>14. StackInv'
    <2>1. ~_reentry_flag
      BY <1>1, <1>2 DEF Inv, StackInv
    <2> QED
      BY <1>1, <1>2, <1>10, <2>1 DEF StackInv
  <1>15. DebtInv'
    <2>1. PICK acc : Sums(acc) /\ sent - done <= acc[Len(stack) - 1] + Missing
      BY <1>2 DEF Inv, DebtInv
    <2>m. PICK m : m = Len(stack)
      OBVIOUS
    <2> DEFINE new == [i \in 0 .. m |-> IF i = m THEN acc[m - 1] + lieu
                                                 ELSE acc[i]]
    <2>2. /\ m \in Nat \ {0} /\ acc \in [0 .. m -> Nat] /\ acc[0] = 0
          /\ \A i \in 1 .. m : acc[i] = acc[i - 1] + stack[i].lieu
      BY <1>3, <2>1, <2>m DEF Sums
    <2>3. /\ stack'[m].lieu = lieu
          /\ \A i \in 1 .. m - 1 : stack'[i].lieu = stack[i].lieu
      BY <1>9, <1>10, <2>m
    <2>4. sent - done <= acc[m - 1] + Missing
      BY <2>1, <2>m
    <2>5. m - 1 \in 0 .. m /\ acc[m - 1] \in Nat /\ m - 1 # m /\ 0 # m
      BY <2>2
    <2>6. new \in [0 .. m -> Nat] /\ new[0] = 0 /\ new[m - 1] = acc[m - 1]
      BY <1>8, <2>2, <2>5
    <2>7. \A i \in 1 .. m : new[i] = new[i - 1] + stack'[i].lieu
      BY <2>2, <2>3, <2>5
    <2> HIDE DEF new
    <2>8. Sums(new)'
      BY <1>10, <2>6, <2>7, <2>m DEF Sums
    <2>9. sent' - done' <= new[m - 1] + Missing'
      BY <1>1, <1>4, <1>8, <1>11, <2>4, <2>5, <2>6
    <2>10. Len(stack') - 1 = m - 1
      BY <1>10, <2>m
    <2> QED
      BY <1>1, <2>8, <2>9, <2>10 DEF DebtInv
  <1>16. OneAerInv'
    <2>1. sent >= done
      BY <1>4, <1>5 DEF Inv, CountInv, TypeInv
    <2>2. sent - done = Missing => sent' - done' = Missing'
      BY <1>1, <1>4, <1>8, <1>11, <2>1
    <2>3. pc' # "failed" /\ armed' = armed
      BY <1>1
    <2>4. armed <= 1 => Missing' <= 1
      BY <1>4, <1>7, <1>8, <1>11
    <2> QED
      BY <1>2, <1>10, <2>2, <2>3, <2>4 DEF Inv, OneAerInv
  <1> QED
    BY <1>12, <1>13, <1>14, <1>15, <1>16 DEF Inv

-----------------------------------------------------------------------------
(* waitdone calls itself for a command in whose place an AER came. *)
LEMMA NestedKeepsInv ==
    ASSUME Inv, WaitInLieu
    PROVE  Inv'
  <1>k. PICK m, left : m = Len(stack) /\ left = Top.lieu - 1
    OBVIOUS
  <1> DEFINE low == [Top EXCEPT !.lieu = left]
             top == [reaped |-> 0, expected |-> 1, lieu |-> 0]
  <1>1. /\ pc = "lieu" /\ Top.lieu > 0 /\ ~_reentry_flag
        /\ stack' = Append(SetTop(low), top)
        /\ pc' = "loop" /\ _reentry_flag' = TRUE
        /\ _aer_resend' = 0 /\ _aer_waitdone' = 0
        /\ UNCHANGED <<intr_enabled, armed, cmds, aers, cq, msg, masked, pended,
                       sent, done, events, aborted>>
    <2>1. pc = "lieu" /\ Call(1, SetTop(low))
      BY <1>k DEF WaitInLieu
    <2>2. ~_reentry_flag
      BY <2>1 DEF Inv, StackInv, InLoop
    <2> QED
      BY <2>1, <2>2 DEF WaitInLieu, Call, setup, device, interrupt
  <1>2. Active /\ ~Reaping /\ Reaping' /\ Active' /\ InLoop'
    BY <1>1 DEF InLoop, Reaping, Active
  <1>3. /\ m \in Nat \ {0} /\ Top = stack[m] /\ Top \in Frames
        /\ Top.lieu \in 0 .. MaxEvents
    BY <1>2, <1>k, TopFrame DEF Inv, StackInv, Frames
  <1>4. left \in Nat /\ left \in 0 .. MaxEvents /\ Top.lieu = left + 1
    BY <1>1, <1>3, <1>k, Bounds
  <1>5. low \in Frames /\ low.lieu = left /\ top \in Frames /\ top.lieu = 0
        /\ top.expected = 1 /\ top.reaped = 0
    <2>1. 0 \in 0 .. MaxEvents
      BY Bounds
    <2> QED
      BY <1>3, <1>4, <2>1 DEF Frames
  <1> HIDE DEF low, top
  <1>6. /\ stack' \in Seq(Frames) /\ Len(stack') = m + 1 /\ stack' # <<>>
        /\ stack'[m + 1] = top /\ stack'[m] = low
        /\ \A i \in 1 .. m - 1 : stack'[i] = stack[i]
    <2>1. PICK s : s = SetTop(low)
      OBVIOUS
    <2>2. /\ s \in Seq(Frames) /\ Len(s) = m /\ s[m] = low
          /\ \A i \in 1 .. m - 1 : s[i] = stack[i]
      BY <1>2, <1>5, <1>k, <2>1, TopFrame DEF Inv, StackInv
    <2>3. stack' = Append(s, top)
      BY <1>1, <2>1
    <2>4. /\ stack' \in Seq(Frames) /\ Len(stack') = m + 1
          /\ stack'[m + 1] = top
          /\ \A i \in 1 .. m : stack'[i] = s[i]
      BY <1>3, <1>5, <2>2, <2>3
    <2>5. m \in 1 .. m /\ \A i \in 1 .. m - 1 : i \in 1 .. m
      BY <1>3
    <2>6. stack' # <<>>
      BY <1>3, <2>4
    <2> QED
      BY <2>2, <2>4, <2>5, <2>6
  <1>7. Top' = top
    BY <1>6 DEF Top, Last
  <1>8. TypeInv'
    BY <1>1, <1>6 DEF Inv, TypeInv
  <1>9. CountInv'
    <2>1. \A kinds : Posted(kinds)' = Posted(kinds)
      BY <1>1 DEF Posted
    <2>2. /\ ReapedAers' = 0 /\ ToSend' = 0 /\ ReapedAers = 0 /\ ToSend = 0
      BY <1>1, <1>2 DEF ReapedAers, ToSend
    <2> QED
      BY <1>1, <2>1, <2>2 DEF Inv, CountInv
  <1>10. StackInv'
    BY <1>1, <1>2, <1>5, <1>6, <1>7 DEF StackInv
  <1>11. Missing' = 1 /\ Missing = left + 1
    <2>1. Missing' = 1 - 0 + 0 /\ Missing = left + 1
      BY <1>1, <1>2, <1>4, <1>5, <1>7 DEF Missing
    <2> QED
      BY <2>1
  <1>12. DebtInv'
    <2>1. PICK acc : Sums(acc) /\ sent - done <= acc[m - 1] + (left + 1)
      BY <1>2, <1>11, <1>k DEF Inv, DebtInv
    <2> DEFINE new == [i \in 0 .. m + 1 |-> IF i < m THEN acc[i]
                                            ELSE acc[m - 1] + left]
    <2>2. /\ acc \in [0 .. m -> Nat] /\ acc[0] = 0
          /\ \A i \in 1 .. m : acc[i] = acc[i - 1] + stack[i].lieu
      BY <1>k, <2>1 DEF Sums
    <2>3. /\ stack'[m + 1].lieu = 0 /\ stack'[m].lieu = left
          /\ \A i \in 1 .. m - 1 : stack'[i].lieu = stack[i].lieu
      BY <1>5, <1>6
    <2>4. m - 1 \in 0 .. m /\ acc[m - 1] \in Nat
      BY <1>3, <2>2
    <2>5. new \in [0 .. m + 1 -> Nat] /\ new[0] = 0 /\ new[m] = acc[m - 1] + left
      BY <1>3, <1>4, <2>2, <2>4
    <2>6. ASSUME NEW i \in 1 .. m + 1
          PROVE  new[i] = new[i - 1] + stack'[i].lieu
      <3>1. CASE i \in 1 .. m - 1
        BY <1>3, <2>2, <2>3, <3>1
      <3>2. CASE i = m
        BY <1>3, <1>4, <2>3, <2>4, <3>2
      <3>3. CASE i = m + 1
        BY <1>3, <1>4, <2>3, <2>4, <3>3
      <3> QED
        BY <1>3, <3>1, <3>2, <3>3
    <2> HIDE DEF new
    <2>7. Sums(new)'
      BY <1>6, <2>5, <2>6 DEF Sums
    <2>8. sent' - done' <= new[m] + Missing'
      <3>1. PICK x \in Nat : x = acc[m - 1]
        BY <2>4
      <3>2. sent - done <= (x + left) + 1
        BY <1>4, <2>1, <3>1 DEF Inv, TypeInv
      <3> QED
        BY <1>1, <1>11, <2>5, <3>1, <3>2
    <2>9. Len(stack') - 1 = m
      BY <1>3, <1>6
    <2> QED
      BY <1>1, <2>7, <2>8, <2>9 DEF DebtInv
  <1>13. OneAerInv'
    <2> SUFFICES ASSUME armed <= 1
                 PROVE  /\ \A i \in 1 .. m : stack'[i].lieu = 0
                        /\ sent - done = 1
      <3>1. pc' # "failed" /\ armed' = armed /\ sent' = sent /\ done' = done
        BY <1>1
      <3>2. Len(stack') - 1 = m
        BY <1>3, <1>6
      <3> QED
        BY <1>11, <3>1, <3>2 DEF OneAerInv
    <2>1. /\ \A i \in 1 .. m - 1 : stack[i].lieu = 0
          /\ sent - done = left + 1
      BY <1>2, <1>11, <1>k DEF Inv, OneAerInv
    <2>2. left + 1 <= 1
      BY <1>2, <1>11 DEF Inv, OneAerInv
    <2> QED
      BY <1>3, <1>4, <1>5, <1>6, <2>1, <2>2
  <1> QED
    BY <1>8, <1>9, <1>10, <1>12, <1>13 DEF Inv

(* A call of waitdone returns, to the script or to the call below. *)
LEMMA ReturnKeepsInv ==
    ASSUME Inv, Return
    PROVE  Inv'
  <1>k. PICK m : m = Len(stack)
    OBVIOUS
  <1>1. /\ pc = "lieu" /\ Top.lieu = 0 /\ stack' = SubSeq(stack, 1, m - 1)
        /\ pc' = IF m = 1 THEN "script" ELSE "lieu"
        /\ UNCHANGED <<intr_enabled, armed, cmds, aers, cq, msg, masked, pended,
                       _reentry_flag, _aer_resend, _aer_waitdone, sent, done,
                       events, aborted>>
    BY <1>k DEF Return, Front, setup, device, interrupt, globals
  <1>2. /\ Active /\ ~Reaping /\ ~Reaping' /\ ~InLoop /\ ~InLoop'
        /\ Active' <=> m # 1
    BY <1>1 DEF InLoop, Reaping, Active
  <1>3. m \in Nat \ {0} /\ Top = stack[m] /\ stack[m].lieu = 0
    BY <1>1, <1>2, <1>k, TopFrame DEF Inv, StackInv
  <1>4. /\ stack' \in Seq(Frames) /\ Len(stack') = m - 1
        /\ \A i \in 1 .. m - 1 : stack'[i] = stack[i]
        /\ m = 1 => stack' = <<>>
        /\ m # 1 => stack' # <<>>
    <2>1. /\ stack' \in Seq(Frames) /\ Len(stack') = m - 1
          /\ \A i \in 1 .. m - 1 : stack'[i] = stack[i]
      BY <1>1, <1>3, <1>k DEF Inv, TypeInv
    <2> QED
      BY <1>3, <2>1
  <1>5. TypeInv'
    BY <1>1, <1>4 DEF Inv, TypeInv
  <1>6. CountInv'
    <2>1. \A kinds : Posted(kinds)' = Posted(kinds)
      BY <1>1 DEF Posted
    <2>2. /\ ReapedAers' = 0 /\ ToSend' = 0 /\ ReapedAers = 0 /\ ToSend = 0
      BY <1>2 DEF ReapedAers, ToSend
    <2> QED
      BY <1>1, <2>1, <2>2 DEF Inv, CountInv
  <1>7. StackInv'
    BY <1>1, <1>2, <1>4 DEF Inv, StackInv
  <1>8. Missing = 0 /\ (m # 1 => Missing' = stack[m - 1].lieu)
    <2>1. m # 1 => m - 1 \in 1 .. m - 1
      BY <1>3
    <2> QED
      BY <1>1, <1>2, <1>4, <2>1 DEF Missing, Top, Last
  <1>9. sent >= done /\ sent \in Nat /\ done \in Nat
    BY PostedIsCount, Bounds DEF Inv, CountInv, TypeInv
  <1>10. DebtInv'
    <2>1. PICK acc : Sums(acc) /\ sent - done <= acc[m - 1] + 0
      BY <1>2, <1>8, <1>k DEF Inv, DebtInv
    <2>2. /\ acc \in [0 .. m -> Nat] /\ acc[0] = 0
          /\ \A i \in 1 .. m : acc[i] = acc[i - 1] + stack[i].lieu
      BY <1>k, <2>1 DEF Sums
    <2>3. CASE m = 1
      <3>1. sent - done <= 0
        BY <2>1, <2>2, <2>3
      <3> QED
        BY <1>1, <1>2, <1>9, <2>3, <3>1 DEF DebtInv
    <2>4. CASE m # 1
      <3> DEFINE new == [i \in 0 .. m - 1 |-> acc[i]]
      <3>1. new \in [0 .. m - 1 -> Nat] /\ new[0] = 0
        BY <1>3, <2>2
      <3>2. ASSUME NEW i \in 1 .. m - 1
            PROVE  new[i] = new[i - 1] + stack'[i].lieu
        <4>1. i \in 1 .. m /\ i \in 0 .. m - 1 /\ i - 1 \in 0 .. m - 1
          BY <1>3
        <4>2. new[i] = acc[i] /\ new[i - 1] = acc[i - 1]
          BY <4>1
        <4> QED
          BY <1>4, <2>2, <4>1, <4>2
      <3>3. new[m - 2] = acc[m - 2] /\ m - 1 \in 1 .. m
            /\ acc[m - 1] = acc[m - 2] + stack[m - 1].lieu
        <4>1. m - 2 \in 0 .. m - 1 /\ m - 1 \in 1 .. m /\ (m - 1) - 1 = m - 2
          BY <1>3, <2>4
        <4> QED
          BY <2>2, <4>1
      <3> HIDE DEF new
      <3>4. Sums(new)'
        BY <1>4, <3>1, <3>2 DEF Sums
      <3>5. sent' - done' <= new[m - 2] + Missing'
        <4>1. acc[m - 1] \in Nat
          BY <2>2, <3>3, <1>3
        <4>2. sent - done <= acc[m - 1]
          BY <2>1, <4>1
        <4> QED
          BY <1>1, <1>8, <2>4, <3>3, <4>2
      <3>6. Len(stack') - 1 = m - 2
        BY <1>3, <1>4
      <3> QED
        BY <1>1, <2>4, <3>4, <3>5, <3>6 DEF DebtInv
    <2> QED
      BY <2>3, <2>4
  <1>11. OneAerInv'
    <2> SUFFICES ASSUME armed <= 1 PROVE OneAerInv'
      BY <1>1 DEF OneAerInv
    <2>1. /\ \A i \in 1 .. m - 1 : stack[i].lieu = 0
          /\ sent - done = 0 /\ pc # "failed"
      BY <1>2, <1>8, <1>k DEF Inv, OneAerInv
    <2>2. \A i \in 1 .. Len(stack') - 1 : stack'[i].lieu = 0
      BY <1>3, <1>4, <2>1
    <2>3. m # 1 => Missing' = 0 /\ Missing' <= 1
      BY <1>3, <1>8, <2>1
    <2>4. pc' # "failed" /\ sent' = sent /\ done' = done
      BY <1>1
    <2> QED
      BY <1>2, <2>1, <2>2, <2>3, <2>4 DEF OneAerInv
  <1> QED
    BY <1>5, <1>6, <1>7, <1>10, <1>11 DEF Inv

-----------------------------------------------------------------------------
(* Every step of the specification keeps the invariant. *)
LEMMA NextKeepsInv ==
    ASSUME Inv, [Next]_vars
    PROVE  Inv'
  <1>1. CASE \E n \in 1 .. MaxBatch : SendAndWait(n)
    BY <1>1, SendKeepsInv
  <1>2. CASE CommandCompletes \/ \E kind \in {"aer", "aborted"} : AerCompletes(kind)
    BY <1>2, PostKeepsInv
  <1>3. CASE Driver
    <2>1. CASE StartPoll \/ ProcessEnd \/ Clear \/ Unmask
      BY <2>1, PollKeepsInv
    <2>2. CASE ProcessOne \/ LeaveLoop \/ Alarm
      BY <2>2, ProcessKeepsInv, LeaveKeepsInv, AlarmKeepsInv
    <2>3. CASE Resend \/ WaitInLieu \/ Return
      BY <2>3, ResendKeepsInv, NestedKeepsInv, ReturnKeepsInv
    <2> QED
      BY <1>3, <2>1, <2>2, <2>3 DEF Driver
  <1>4. CASE UNCHANGED vars
    <2>1. /\ InLoop' = InLoop /\ Reaping' = Reaping /\ Active' = Active
          /\ ReapedAers' = ReapedAers /\ ToSend' = ToSend /\ Top' = Top
      BY <1>4 DEF vars, InLoop, Reaping, Active, ReapedAers, ToSend, Top
    <2>2. TypeInv'
      BY <1>4 DEF vars, Inv, TypeInv
    <2>3. CountInv'
      BY <1>4, <2>1 DEF vars, Inv, CountInv, Posted
    <2>4. StackInv'
      BY <1>4, <2>1 DEF vars, Inv, StackInv
    <2>5. DebtInv' /\ OneAerInv'
      BY <1>4, <2>1, CallsSame DEF vars, Inv
    <2> QED
      BY <2>2, <2>3, <2>4, <2>5 DEF Inv
  <1> QED
    BY <1>1, <1>2, <1>3, <1>4 DEF Next

-----------------------------------------------------------------------------
(* The inductive invariant holds throughout. *)
THEOREM InvAlways == Spec => []Inv
  BY InitInv, NextKeepsInv, PTL DEF Spec

(* waitdone returns to the script only when all commands have completed,
   whatever number of AERs came in between, and with one AER neither its
   alarm nor its assert ends it. *)
THEOREM WaitdoneNeverFails == Spec => []NeverFails
  <1>1. Inv => NeverFails
    <2> SUFFICES ASSUME Inv PROVE NeverFails
      OBVIOUS
    <2>1. cmds \in 0 .. MaxCmds /\ done \in 0 .. sent
      BY PostedIsCount, Bounds DEF Inv, TypeInv, CountInv
    <2>2. aers \in 0 .. armed
      <3>1. ReapedAers \in Nat
        BY DEF ReapedAers, Inv, TypeInv
      <3> QED
        BY <3>1, PostedIsCount DEF Inv, TypeInv, CountInv
    <2>3. \A i \in DOMAIN stack : stack[i].lieu \in 0 .. MaxEvents
      <3>1. \A i \in DOMAIN stack : stack[i] \in Frames
        BY DEF Inv, TypeInv
      <3> QED
        BY <3>1 DEF Frames
    <2>4. TypeOK
      BY <2>1, <2>2, <2>3 DEF TypeOK, Inv, TypeInv
    <2> QED
      BY <2>4 DEF NeverFails, Inv, DebtInv, OneAerInv
  <1> QED
    BY <1>1, InvAlways, PTL

(* Every AER that completes is sent again, unless it was aborted: the number
   of AERs at the device is kept up. *)
THEOREM AersAlwaysArmed == Spec => []AersKeptArmed
  <1>1. Inv => AersKeptArmed
    <2> SUFFICES ASSUME Inv, pc = "script"
                 PROVE  aers + Posted({"aer"}) = armed - aborted
      BY DEF AersKeptArmed
    <2>1. ToSend = 0
      BY DEF ToSend, Reaping, InLoop
    <2>2. aers + Posted({"aer"}) + 0 = armed - aborted
      BY <2>1 DEF Inv, CountInv
    <2>3. aers \in Nat /\ Posted({"aer"}) \in Nat
      BY PostedIsCount DEF Inv, TypeInv
    <2> QED
      BY <2>2, <2>3
  <1> QED
    BY <1>1, InvAlways, PTL
=============================================================================
