---------------------------- MODULE QpairProofs ----------------------------
(***************************************************************************)
(* The safety properties of Qpair, for any queues, devices, vectors and    *)
(* number of commands.                                                     *)
(***************************************************************************)
EXTENDS Qpair, TLAPS

Pairs == [iv : Nat \cup {DEFAULT_IV}, ien : BOOLEAN, open : BOOLEAN]
Waits == [q : Qids \cup {0}, expected : 0 .. MaxCmds, reaped : 0 .. MaxCmds]

TypeInv ==
    /\ TypeOK
    /\ qp \in [Qids -> Pairs]
    /\ inflight \in [Qids -> Nat] /\ cq \in [Qids -> Nat]
    /\ wait \in Waits
    /\ nested \in BOOLEAN /\ lost_alarm \in BOOLEAN
    /\ fresh \in [Qids -> Nat] /\ clean \in [Qids -> BOOLEAN]

(* The commands of a queue have been sent; a queue that is closed has none, and
   there is no queue without an interrupt controller. *)
QueueInv ==
    /\ \A q \in Qids : inflight[q] + cq[q] <= sent
    /\ \A q \in Qids : inflight[q] > 0 => q \in Open
    /\ mode = "off" => Open = {}

(* The memzone exists as long as a controller uses it. *)
ZoneInv ==
    /\ ~failed => (zone <=> mode # "off")
    /\ failed => ~msix_usable /\ ~msi_tried

(* The flag is up during a wait, as long as its alarm was not lost; a lost alarm
   is not running any more. *)
WaitInv ==
    /\ wait # NoWait => wait.q \in Qids /\ wait.expected > 0 /\ mode # "off"
    /\ wait.reaped <= wait.expected
    /\ lost_alarm => wait # NoWait /\ ~alarm
    /\ ~lost_alarm => (_reentry_flag <=> wait # NoWait)
    /\ nested => lost_alarm

(* A queue that is clean still has its vector to itself, and its place in
   msg_data together with the interrupt held under the mask tells of its
   completions. *)
ExactInv ==
    \A q \in Qids : clean[q] =>
        /\ Own(q)
        /\ fresh[q] > 0 <=> msg_data[q] # 0 \/ q \in pending

Inv == TypeInv /\ QueueInv /\ ZoneInv /\ WaitInv /\ ExactInv

-----------------------------------------------------------------------------
(* intc_get_vec gives a vector the controller has. *)
LEMMA VecIsVector ==
    ASSUME TypeInv, NEW n \in Nat
    PROVE  n % dev.nvec \in Vectors /\ n % dev.nvec \in 0 .. dev.nvec - 1
  <1>1. dev.nvec \in 1 .. MAX_VECTOR_NUM /\ MAX_VECTOR_NUM \in 1 .. 256
    BY VectorsAssumption DEF TypeInv, TypeOK
  <1>2. n % dev.nvec \in 0 .. dev.nvec - 1
    BY <1>1
  <1> QED
    BY <1>1, <1>2 DEF Vectors

(* The vector of an open queue is one of the device, and fits into 8 bits. *)
LEMMA VecOfOpen ==
    ASSUME TypeInv, NEW q \in Open
    PROVE  /\ vec(q) \in Vectors /\ vec(q) \in 0 .. dev.nvec - 1
           /\ vec(q) % 256 = vec(q)
  <1>1. vec(q) \in Vectors /\ vec(q) \in 0 .. dev.nvec - 1
    BY VecIsVector DEF vec, TypeInv, TypeOK
  <1>2. \A v \in Vectors : v % 256 = v
    BY VectorsAssumption DEF Vectors
  <1> QED
    BY <1>1, <1>2

(* The device writes a byte, and with MSI-X the place of the vector only. *)
LEMMA MessageType ==
    ASSUME TypeInv, NEW v \in Vectors, v \in 0 .. dev.nvec - 1
    PROVE  /\ Message(msg_data, v) \in [Vectors -> 0 .. 255]
           /\ mode = "msix" => /\ Message(msg_data, v)[v] = 1
                               /\ \A u \in Vectors : u # v =>
                                      Message(msg_data, v)[u] = msg_data[u]
  <1>1. dev.nvec \in 1 .. MAX_VECTOR_NUM /\ MAX_VECTOR_NUM \in 1 .. 256
    BY VectorsAssumption DEF TypeInv, TypeOK
  <1>2. msg_data \in [Vectors -> 0 .. 255]
    BY DEF TypeInv, TypeOK
  <1>3. (1 \div dev.nvec) * dev.nvec + v \in 0 .. 255
    <2>1. CASE dev.nvec = 1
      BY <2>1
    <2>2. CASE dev.nvec > 1
      <3>1. 1 \div dev.nvec = 0
        BY <1>1, <2>2
      <3>2. (1 \div dev.nvec) * dev.nvec + v = v
        BY <1>1, <3>1
      <3>3. v \in 0 .. 255
        BY <1>1
      <3> QED
        BY <3>2, <3>3, Zenon
    <2>3. dev.nvec = 1 \/ dev.nvec > 1
      BY <1>1
    <2> QED
      BY <2>1, <2>2, <2>3, Zenon
  <1>4. CASE mode = "msix"
    <2>1. Message(msg_data, v) = [msg_data EXCEPT ![v] = 1]
      BY <1>4 DEF Message
    <2> QED
      BY <1>2, <2>1
  <1>5. CASE mode # "msix"
    <2> DEFINE d == (1 \div dev.nvec) * dev.nvec + v
    <2>1. Message(msg_data, v) = [msg_data EXCEPT ![0] = d]
      BY <1>5 DEF Message
    <2> HIDE DEF d
    <2>2. d \in 0 .. 255
      BY <1>3 DEF d
    <2> QED
      BY <1>2, <1>5, <2>1, <2>2
  <1> QED
    BY <1>4, <1>5

(* The invariant holds before the first call. *)
LEMMA InitInv ==
    ASSUME Init
    PROVE  Inv
  <1>1. TypeInv
    <2>1. NoQ \in Pairs /\ ~NoQ.open /\ NoWait \in Waits /\ NoWait.reaped = 0
      BY MaxCmdsAssumption DEF Pairs, Waits, NoQ, NoWait
    <2>2. Open = {}
      BY <2>1 DEF Init, Open
    <2>3. TypeOK
      <3>1. 0 \in 0 .. MaxCmds
        BY MaxCmdsAssumption
      <3>2. msg_data \in [Vectors -> 0 .. 255]
        BY DEF Init
      <3>3. inflight \in [Qids -> 0 .. MaxCmds] /\ cq \in [Qids -> 0 .. MaxCmds]
        BY <3>1 DEF Init
      <3>4. \A q \in Open : qp[q].iv \in Nat
        BY <2>2
      <3>5. mask \subseteq Vectors /\ pending \subseteq mask
        BY DEF Init
      <3>6. wait.reaped \in 0 .. MaxCmds /\ sent \in 0 .. MaxCmds
        BY <2>1, <3>1 DEF Init
      <3> QED
        BY <3>2, <3>3, <3>4, <3>5, <3>6 DEF Init, TypeOK
    <2> QED
      BY <2>1, <2>3 DEF Init, TypeInv
  <1>2. QueueInv
    BY DEF Init, QueueInv, Open, NoQ
  <1>3. ZoneInv
    BY DEF Init, ZoneInv
  <1>4. WaitInv
    BY DEF Init, WaitInv, NoWait
  <1>5. ExactInv
    BY DEF Init, ExactInv
  <1> QED
    BY <1>1, <1>2, <1>3, <1>4, <1>5 DEF Inv

-----------------------------------------------------------------------------
(* What a step leaves alone. *)
LEMMA ZoneSame ==
    ASSUME ZoneInv, UNCHANGED intc
    PROVE  ZoneInv'
  BY DEF ZoneInv, intc, msix_usable, msi_tried

(* What the invariants are about, when a step leaves it alone. *)
LEMMA WaitSame ==
    ASSUME WaitInv, UNCHANGED <<mode, waits>>
    PROVE  WaitInv'
  BY DEF WaitInv, waits

(* The same for the queues. *)
LEMMA QueueSame ==
    ASSUME QueueInv, UNCHANGED <<mode, qp, inflight, cq, sent>>
    PROVE  QueueInv'
  BY DEF QueueInv, Open

(* The same for what intc_isset reads. *)
LEMMA ExactSame ==
    ASSUME ExactInv, UNCHANGED <<dev, mode, qp, msg_data, pending, ghost>>
    PROVE  ExactInv'
  <1>1. \A q \in Qids : Own(q)' = Own(q)
    BY DEF Own, vec, Open
  <1> QED
    BY <1>1 DEF ExactInv, ghost

(* msix_intc_init and msi_intc_init fail on the device, not on the memzone. *)
LEMMA InitialiseKeepsInv ==
    ASSUME Inv, intc_init
    PROVE  Inv'
  <1>1. /\ mode = "off" /\ ~failed /\ ~zone
        /\ mode' \in {"off", "msix", "msi"} /\ zone' \in BOOLEAN
        /\ failed' \in BOOLEAN
        /\ msg_data' = [v \in Vectors |-> 0]
        /\ mask' = {} /\ pending' = {}
        /\ UNCHANGED <<dev, qp, inflight, cq, sent>>
        /\ UNCHANGED waits /\ UNCHANGED ghost
    BY DEF intc_init, Inv, ZoneInv, TypeInv, TypeOK
  <1>2. Open = {} /\ Open' = {} /\ wait = NoWait
    BY <1>1 DEF Inv, QueueInv, WaitInv, Open
  <1>3. TypeInv'
    BY <1>1 DEF Inv, TypeInv, TypeOK, Open, waits, ghost
  <1>4. QueueInv'
    BY <1>1, <1>2 DEF Inv, QueueInv
  <1>5. ZoneInv'
    BY <1>1 DEF intc_init, ZoneInv, msix_usable, msi_tried
  <1>6. WaitInv'
    BY <1>1, <1>2 DEF Inv, WaitInv, waits, NoWait
  <1>7. ExactInv'
    BY <1>1, <1>2 DEF Inv, ExactInv, Own, ghost
  <1> QED
    BY <1>3, <1>4, <1>5, <1>6, <1>7 DEF Inv

(* intc_fini, with no queue open. *)
LEMMA FinishKeepsInv ==
    ASSUME Inv, intc_fini
    PROVE  Inv'
  <1>1. /\ ~failed /\ wait = NoWait /\ Open = {}
        /\ mode' = "off" /\ zone' = FALSE
        /\ UNCHANGED <<dev, failed, qp, msg_data, mask, pending, inflight, cq,
                       sent>>
        /\ UNCHANGED waits /\ UNCHANGED ghost
    BY DEF intc_fini, Script, Running, Released, line
  <1>2. Open' = {}
    BY <1>1 DEF Open
  <1>3. TypeInv'
    BY <1>1 DEF Inv, TypeInv, TypeOK, Open, waits, ghost
  <1>4. QueueInv'
    BY <1>1, <1>2 DEF Inv, QueueInv
  <1>5. ZoneInv'
    BY <1>1 DEF Inv, ZoneInv
  <1>6. WaitInv'
    BY <1>1 DEF Inv, WaitInv, waits, NoWait
  <1>7. ExactInv'
    BY <1>1, <1>2 DEF Inv, ExactInv, Own, ghost
  <1> QED
    BY <1>3, <1>4, <1>5, <1>6, <1>7 DEF Inv

-----------------------------------------------------------------------------
(* A new queue takes the vector of those that had it to themselves. *)
LEMMA CreateKeepsInv ==
    ASSUME Inv, NEW q \in Qids, NEW ien \in BOOLEAN, NEW iv \in Ivs,
           Create(q, ien, iv)
    PROVE  Inv'
  <1> DEFINE i == IvOf(q, ien, iv)
  <1>1. /\ q \notin Open /\ mode # "off"
        /\ qp' = [qp EXCEPT ![q] = [iv |-> i, ien |-> ien, open |-> TRUE]]
        /\ fresh' = [fresh EXCEPT ![q] = 0]
        /\ clean' = [r \in Qids |-> clean[r] /\ r # q /\ vec(r) # i % dev.nvec]
        /\ UNCHANGED intc /\ UNCHANGED waits
        /\ UNCHANGED <<msg_data, mask, pending, inflight, cq, sent>>
    BY DEF Create, Script, Running, line
  <1>2. i \in Nat
    BY IvsAssumption, QidsAssumption DEF IvOf
  <1> HIDE DEF i
  <1>3. /\ qp' \in [Qids -> Pairs]
        /\ qp'[q].iv = i /\ qp'[q].open
        /\ \A r \in Qids : r # q => qp'[r] = qp[r]
    BY <1>1, <1>2 DEF Inv, TypeInv, Pairs
  <1>4. Open' = Open \cup {q}
    BY <1>3 DEF Open
  <1>5. dev' = dev /\ mode' = mode /\ zone' = zone /\ failed' = failed
    BY <1>1 DEF intc
  <1>6. TypeInv'
    <2>1. \A r \in Open' : qp'[r].iv \in Nat
      BY <1>2, <1>3, <1>4 DEF Inv, TypeInv, TypeOK, Open
    <2>2. TypeOK'
      BY <1>1, <1>5, <2>1 DEF Inv, TypeInv, TypeOK, waits
    <2>3. fresh' \in [Qids -> Nat] /\ clean' \in [Qids -> BOOLEAN]
      BY <1>1 DEF Inv, TypeInv
    <2> QED
      BY <1>1, <1>3, <2>2, <2>3 DEF Inv, TypeInv, waits
  <1>7. QueueInv'
    BY <1>1, <1>4, <1>5 DEF Inv, QueueInv
  <1>8. ExactInv'
    <2> SUFFICES ASSUME NEW r \in Qids, clean'[r]
                 PROVE  /\ Own(r)'
                        /\ fresh'[r] > 0 <=> msg_data[r] # 0 \/ r \in pending
      BY <1>1 DEF ExactInv
    <2>1. clean[r] /\ r # q /\ vec(r) # i % dev.nvec
      BY <1>1
    <2>2. Own(r) /\ (fresh[r] > 0 <=> msg_data[r] # 0 \/ r \in pending)
      BY <2>1 DEF Inv, ExactInv
    <2>3. fresh'[r] = fresh[r]
      BY <1>1, <2>1 DEF Inv, TypeInv
    <2>4. \A s \in Open : vec(s)' = vec(s)
      BY <1>1, <1>3, <1>5 DEF vec, Open
    <2>5. vec(q)' = i % dev.nvec
      BY <1>3, <1>5 DEF vec
    <2>6. Own(r)'
      BY <1>3, <1>4, <1>5, <2>1, <2>2, <2>4, <2>5 DEF Own
    <2> QED
      BY <2>2, <2>3, <2>6
  <1> QED
    BY <1>1, <1>5, <1>6, <1>7, <1>8, ZoneSame, WaitSame DEF Inv

(* A queue is deleted. *)
LEMMA DeleteKeepsInv ==
    ASSUME Inv, NEW q \in Qids, Delete(q)
    PROVE  Inv'
  <1>1. /\ q \in Open
        /\ qp' = [qp EXCEPT ![q] = NoQ]
        /\ inflight' = [inflight EXCEPT ![q] = 0]
        /\ cq' = [cq EXCEPT ![q] = 0]
        /\ clean' = [clean EXCEPT ![q] = FALSE]
        /\ UNCHANGED intc /\ UNCHANGED waits
        /\ UNCHANGED <<msg_data, mask, pending, fresh, sent>>
    BY DEF Delete, line
  <1>2. NoQ \in Pairs /\ ~NoQ.open
    BY DEF NoQ, Pairs
  <1>3. /\ qp' \in [Qids -> Pairs] /\ ~qp'[q].open
        /\ \A r \in Qids : r # q => qp'[r] = qp[r]
    BY <1>1, <1>2 DEF Inv, TypeInv
  <1>4. Open' = Open \ {q}
    BY <1>3 DEF Open
  <1>5. dev' = dev /\ mode' = mode /\ zone' = zone /\ failed' = failed
    BY <1>1 DEF intc
  <1>6. /\ inflight' \in [Qids -> 0 .. MaxCmds] /\ cq' \in [Qids -> 0 .. MaxCmds]
        /\ inflight' \in [Qids -> Nat] /\ cq' \in [Qids -> Nat]
    BY <1>1, MaxCmdsAssumption DEF Inv, TypeInv, TypeOK
  <1>7. TypeInv'
    <2>1. \A r \in Open' : qp'[r].iv \in Nat
      BY <1>3, <1>4 DEF Inv, TypeInv, TypeOK, Open
    <2>2. TypeOK'
      BY <1>1, <1>5, <1>6, <2>1 DEF Inv, TypeInv, TypeOK, waits
    <2>3. clean' \in [Qids -> BOOLEAN]
      BY <1>1 DEF Inv, TypeInv
    <2> QED
      BY <1>1, <1>3, <1>6, <2>2, <2>3 DEF Inv, TypeInv, waits
  <1>8. QueueInv'
    <2>1. \A r \in Qids : inflight'[r] <= inflight[r] /\ cq'[r] <= cq[r]
      BY <1>1, <1>6 DEF Inv, TypeInv
    <2>2. inflight'[q] = 0 /\ \A r \in Qids : r # q => inflight'[r] = inflight[r]
      BY <1>1 DEF Inv, TypeInv
    <2>3. \A r \in Qids : inflight'[r] + cq'[r] <= sent
      BY <1>6, <2>1 DEF Inv, QueueInv, TypeInv, TypeOK
    <2> QED
      BY <1>1, <1>4, <1>5, <2>2, <2>3 DEF Inv, QueueInv
  <1>9. ExactInv'
    <2> SUFFICES ASSUME NEW r \in Qids, clean'[r]
                 PROVE  /\ Own(r)'
                        /\ fresh[r] > 0 <=> msg_data[r] # 0 \/ r \in pending
      BY <1>1 DEF ExactInv
    <2>1. clean[r] /\ r # q
      BY <1>1 DEF Inv, TypeInv
    <2>2. Own(r) /\ (fresh[r] > 0 <=> msg_data[r] # 0 \/ r \in pending)
      BY <2>1 DEF Inv, ExactInv
    <2>3. \A s \in Open' : vec(s)' = vec(s)
      BY <1>3, <1>4, <1>5 DEF vec, Open
    <2> QED
      BY <1>3, <1>4, <1>5, <2>1, <2>2, <2>3 DEF Own
  <1> QED
    BY <1>1, <1>5, <1>7, <1>8, <1>9, ZoneSame, WaitSame DEF Inv

-----------------------------------------------------------------------------
(* A step that changes the vectors only: what it has to say for ExactInv. *)
LEMMA LineKeepsInv ==
    ASSUME Inv, UNCHANGED intc, UNCHANGED waits,
           UNCHANGED <<qp, inflight, cq, sent>>,
           msg_data' \in [Vectors -> 0 .. 255],
           mask' \subseteq Vectors, pending' \subseteq mask',
           fresh' \in [Qids -> Nat], clean' \in [Qids -> BOOLEAN],
           \A q \in Qids : clean'[q] =>
               /\ Own(q)
               /\ fresh'[q] > 0 <=> msg_data'[q] # 0 \/ q \in pending'
    PROVE  Inv'
  <1>1. dev' = dev /\ mode' = mode /\ zone' = zone /\ failed' = failed
    BY DEF intc
  <1>2. Open' = Open
    BY DEF Open
  <1>3. TypeInv'
    <2>1. TypeOK'
      BY <1>1, <1>2 DEF Inv, TypeInv, TypeOK, waits
    <2> QED
      BY <2>1 DEF Inv, TypeInv, waits
  <1>4. \A q \in Qids : Own(q)' = Own(q)
    BY <1>1, <1>2 DEF Own, vec
  <1>5. ExactInv'
    BY <1>4 DEF ExactInv
  <1> QED
    BY <1>1, <1>3, <1>5, ZoneSame, WaitSame, QueueSame DEF Inv

(* intc_clear writes the place of the queue itself: nobody else's completion is
   lost, if they have the vector to themselves. *)
LEMMA ClearKeepsInv ==
    ASSUME Inv, NEW q \in Qids, msix_clear(q)
    PROVE  Inv'
  <1>1. /\ q \in Open
        /\ msg_data' = [msg_data EXCEPT ![ClearIndex(q)] = 0]
        /\ fresh' = [fresh EXCEPT ![q] = IF vec(q) \in pending THEN @ ELSE 0]
        /\ clean' = [clean EXCEPT ![q] = @ \/ (Own(q) /\ vec(q) \notin pending)]
        /\ UNCHANGED intc /\ UNCHANGED waits
        /\ UNCHANGED <<qp, mask, pending, inflight, cq, sent>>
    BY DEF msix_clear
  <1>2. /\ msg_data \in [Vectors -> 0 .. 255] /\ fresh \in [Qids -> Nat]
        /\ clean \in [Qids -> BOOLEAN]
        /\ mask \subseteq Vectors /\ pending \subseteq mask
    BY DEF Inv, TypeInv, TypeOK
  <1>3. Qids \subseteq Vectors
    BY QidsAssumption, VectorsAssumption DEF Vectors
  <1>4. /\ msg_data' \in [Vectors -> 0 .. 255]
        /\ fresh' \in [Qids -> Nat] /\ clean' \in [Qids -> BOOLEAN]
    <2>1. msg_data' \in [Vectors -> 0 .. 255]
      <3> DEFINE k == ClearIndex(q)
      <3>1. msg_data' = [msg_data EXCEPT ![k] = 0]
        BY <1>1
      <3> HIDE DEF k
      <3>2. \A v \in Vectors : msg_data'[v] = IF v = k THEN 0 ELSE msg_data[v]
        BY <1>2, <3>1
      <3>3. \A v \in Vectors : msg_data'[v] \in 0 .. 255
        BY <1>2, <3>2
      <3>4. msg_data' = [v \in Vectors |-> msg_data'[v]]
        BY <1>2, <3>1
      <3> QED
        BY <3>3, <3>4
    <2>2. fresh' \in [Qids -> Nat]
      BY <1>1, <1>2
    <2> DEFINE b == clean[q] \/ (Own(q) /\ vec(q) \notin pending)
    <2>3. b \in BOOLEAN /\ clean' = [clean EXCEPT ![q] = b]
      BY <1>1
    <2> HIDE DEF b
    <2>4. clean' \in [Qids -> BOOLEAN]
      BY <1>2, <2>3
    <2> QED
      BY <2>1, <2>2, <2>4
  <1>5. ASSUME NEW r \in Qids, clean'[r]
        PROVE  /\ Own(r)
               /\ fresh'[r] > 0 <=> msg_data'[r] # 0 \/ r \in pending'
    <2>1. CASE r # q
      <3>1. clean[r] /\ fresh'[r] = fresh[r]
        BY <1>1, <1>2, <1>5, <2>1
      <3>2. Own(r) /\ (fresh[r] > 0 <=> msg_data[r] # 0 \/ r \in pending)
        BY <3>1 DEF Inv, ExactInv
      <3>3. ClearIndex(q) = q
        BY <3>2 DEF Own, ClearIndex
      <3>4. msg_data'[r] = msg_data[r]
        BY <1>1, <1>2, <1>3, <2>1, <3>3
      <3> QED
        BY <1>1, <3>1, <3>2, <3>4
    <2>2. CASE r = q
      <3>1. Own(q)
        BY <1>1, <1>2, <1>5, <2>2 DEF Inv, ExactInv
      <3>2. vec(q) = q /\ ClearIndex(q) = q
        BY <3>1 DEF Own, ClearIndex
      <3>3. msg_data'[q] = 0
        BY <1>1, <1>2, <1>3, <3>2
      <3>4. CASE q \in pending
        <4>1. clean[q]
          BY <1>1, <1>2, <1>5, <2>2, <3>2, <3>4
        <4>2. fresh[q] > 0
          BY <3>4, <4>1 DEF Inv, ExactInv
        <4> QED
          BY <1>1, <1>2, <2>2, <3>1, <3>2, <3>4, <4>2
      <3>5. CASE q \notin pending
        BY <1>1, <1>2, <2>2, <3>1, <3>2, <3>3, <3>5
      <3> QED
        BY <3>4, <3>5
    <2> QED
      BY <2>1, <2>2
  <1> QED
    BY <1>1, <1>2, <1>4, <1>5, LineKeepsInv

(* Masking and unmasking a vector. *)
LEMMA MaskKeepsInv ==
    ASSUME Inv, NEW q \in Qids, msix_mask(q)
    PROVE  Inv'
  <1>1. /\ q \in Open
        /\ mask' = mask \cup {vec(q)}
        /\ UNCHANGED intc /\ UNCHANGED waits
        /\ UNCHANGED <<qp, msg_data, pending, inflight, cq, fresh, clean, sent>>
    BY DEF msix_mask, MaskIndex
  <1>2. mask' \subseteq Vectors /\ pending' \subseteq mask'
    BY <1>1, VecOfOpen DEF Inv, TypeInv, TypeOK
  <1>3. /\ msg_data' \in [Vectors -> 0 .. 255]
        /\ fresh' \in [Qids -> Nat] /\ clean' \in [Qids -> BOOLEAN]
    BY <1>1 DEF Inv, TypeInv, TypeOK
  <1>4. \A r \in Qids : clean'[r] =>
            /\ Own(r)
            /\ fresh'[r] > 0 <=> msg_data'[r] # 0 \/ r \in pending'
    BY <1>1 DEF Inv, ExactInv
  <1> QED
    BY <1>1, <1>2, <1>3, <1>4, LineKeepsInv

(* An interrupt held is delivered to the place of its vector, that of the queue
   if it has the vector to itself. *)
LEMMA UnmaskKeepsInv ==
    ASSUME Inv, NEW q \in Qids, msix_unmask(q)
    PROVE  Inv'
  <1>1. /\ q \in Open
        /\ mask' = mask \ {vec(q)}
        /\ pending' = pending \ {vec(q)}
        /\ msg_data' = IF vec(q) \in pending THEN Message(msg_data, vec(q))
                                             ELSE msg_data
        /\ UNCHANGED intc /\ UNCHANGED waits
        /\ UNCHANGED <<qp, inflight, cq, fresh, clean, sent>>
    BY DEF msix_unmask
  <1>2. mask' \subseteq Vectors /\ pending' \subseteq mask'
    BY <1>1 DEF Inv, TypeInv, TypeOK
  <1>3. vec(q) \in Vectors /\ vec(q) \in 0 .. dev.nvec - 1
    BY <1>1, VecOfOpen DEF Inv
  <1>4. /\ Message(msg_data, vec(q)) \in [Vectors -> 0 .. 255]
        /\ mode = "msix" => /\ Message(msg_data, vec(q))[vec(q)] = 1
                            /\ \A u \in Vectors : u # vec(q) =>
                                 Message(msg_data, vec(q))[u] = msg_data[u]
    BY <1>3, MessageType DEF Inv
  <1>5. /\ msg_data' \in [Vectors -> 0 .. 255]
        /\ fresh' \in [Qids -> Nat] /\ clean' \in [Qids -> BOOLEAN]
    BY <1>1, <1>4 DEF Inv, TypeInv, TypeOK
  <1>6. Qids \subseteq Vectors
    BY QidsAssumption, VectorsAssumption DEF Vectors
  <1>7. ASSUME NEW r \in Qids, clean'[r]
        PROVE  /\ Own(r)
               /\ fresh'[r] > 0 <=> msg_data'[r] # 0 \/ r \in pending'
    <2>1. Own(r) /\ (fresh[r] > 0 <=> msg_data[r] # 0 \/ r \in pending)
      BY <1>1, <1>7 DEF Inv, ExactInv
    <2>2. mode = "msix"
      BY <2>1 DEF Own
    <2>3. CASE r = vec(q)
      BY <1>1, <1>4, <2>1, <2>2, <2>3
    <2>4. CASE r # vec(q)
      BY <1>1, <1>4, <1>6, <2>1, <2>2, <2>4
    <2> QED
      BY <2>3, <2>4
  <1> QED
    BY <1>1, <1>2, <1>5, <1>7, LineKeepsInv

-----------------------------------------------------------------------------
(* A command is sent. *)
LEMMA SendKeepsInv ==
    ASSUME Inv, NEW q \in Qids, Send(q)
    PROVE  Inv'
  <1>1. /\ q \in Open /\ sent < MaxCmds
        /\ inflight' = [inflight EXCEPT ![q] = @ + 1]
        /\ sent' = sent + 1
        /\ UNCHANGED intc /\ UNCHANGED waits /\ UNCHANGED ghost
        /\ UNCHANGED <<qp, msg_data, mask, pending, cq>>
    BY DEF Send, line
  <1>2. dev' = dev /\ mode' = mode /\ zone' = zone /\ failed' = failed
    BY <1>1 DEF intc
  <1>3. Open' = Open
    BY <1>1 DEF Open
  <1>4. /\ inflight \in [Qids -> Nat] /\ cq \in [Qids -> Nat]
        /\ sent \in 0 .. MaxCmds
    BY DEF Inv, TypeInv, TypeOK
  <1>5. /\ inflight' \in [Qids -> Nat] /\ sent' \in 0 .. MaxCmds
        /\ inflight'[q] = inflight[q] + 1
        /\ \A r \in Qids : r # q => inflight'[r] = inflight[r]
    BY <1>1, <1>4, MaxCmdsAssumption
  <1>6. QueueInv'
    <2>1. \A r \in Qids : inflight'[r] + cq[r] <= sent'
      BY <1>1, <1>4, <1>5 DEF Inv, QueueInv
    <2> QED
      BY <1>1, <1>2, <1>3, <1>5, <2>1 DEF Inv, QueueInv
  <1>7. inflight' \in [Qids -> 0 .. MaxCmds]
    BY <1>1, <1>4, <1>5, <1>6, MaxCmdsAssumption DEF QueueInv
  <1>8. TypeInv'
    <2>1. TypeOK'
      BY <1>1, <1>2, <1>3, <1>5, <1>7 DEF Inv, TypeInv, TypeOK, waits
    <2> QED
      BY <1>1, <1>5, <2>1 DEF Inv, TypeInv, waits, ghost
  <1> QED
    BY <1>1, <1>2, <1>6, <1>8, ZoneSame, WaitSame, ExactSame DEF Inv

(* A completion is signalled to the vector of its queue, or held under its mask;
   for a queue that shares no vector this is nobody else's. *)
LEMMA CompletionKeepsInv ==
    ASSUME Inv, NEW q \in Qids, DeviceCompletes(q)
    PROVE  Inv'
  <1>1. /\ inflight[q] > 0
        /\ inflight' = [inflight EXCEPT ![q] = @ - 1]
        /\ cq' = [cq EXCEPT ![q] = @ + 1]
        /\ UNCHANGED intc /\ UNCHANGED waits
        /\ UNCHANGED <<qp, clean, sent>> /\ UNCHANGED mask
    BY DEF DeviceCompletes, line
  <1>2. /\ qp[q].ien => fresh' = [fresh EXCEPT ![q] = @ + 1]
        /\ ~qp[q].ien => UNCHANGED <<fresh, msg_data, pending>>
        /\ qp[q].ien /\ vec(q) \in mask =>
               pending' = pending \cup {vec(q)} /\ msg_data' = msg_data
        /\ qp[q].ien /\ vec(q) \notin mask =>
               pending' = pending /\ msg_data' = Message(msg_data, vec(q))
    BY DEF DeviceCompletes, line
  <1>3. dev' = dev /\ mode' = mode /\ zone' = zone /\ failed' = failed
    BY <1>1 DEF intc
  <1>4. Open' = Open /\ q \in Open
    BY <1>1 DEF Open, Inv, QueueInv
  <1>5. /\ inflight \in [Qids -> Nat] /\ cq \in [Qids -> Nat]
        /\ sent \in 0 .. MaxCmds
        /\ \A r \in Qids : inflight[r] + cq[r] <= sent
    BY DEF Inv, TypeInv, TypeOK, QueueInv
  <1>6. /\ inflight' \in [Qids -> Nat] /\ cq' \in [Qids -> Nat]
        /\ inflight'[q] = inflight[q] - 1 /\ cq'[q] = cq[q] + 1
        /\ \A r \in Qids : r # q => inflight'[r] = inflight[r] /\ cq'[r] = cq[r]
    BY <1>1, <1>5
  <1>7. \A r \in Qids : inflight'[r] + cq'[r] <= sent
    BY <1>5, <1>6
  <1>8. /\ inflight' \in [Qids -> 0 .. MaxCmds]
        /\ cq' \in [Qids -> 0 .. MaxCmds]
    BY <1>5, <1>6, <1>7, MaxCmdsAssumption
  <1>9. QueueInv'
    <2>1. \A r \in Qids : inflight'[r] > 0 => r \in Open
      BY <1>4, <1>6 DEF Inv, QueueInv
    <2> QED
      BY <1>1, <1>3, <1>4, <1>7, <2>1 DEF Inv, QueueInv
  <1>10. vec(q) \in Vectors /\ vec(q) \in 0 .. dev.nvec - 1
    BY <1>4, VecOfOpen DEF Inv
  <1>11. /\ Message(msg_data, vec(q)) \in [Vectors -> 0 .. 255]
         /\ mode = "msix" => /\ Message(msg_data, vec(q))[vec(q)] = 1
                             /\ \A u \in Vectors : u # vec(q) =>
                                  Message(msg_data, vec(q))[u] = msg_data[u]
    BY <1>10, MessageType DEF Inv
  <1>12. /\ msg_data' \in [Vectors -> 0 .. 255] /\ pending' \subseteq mask
         /\ fresh' \in [Qids -> Nat]
    BY <1>2, <1>11 DEF Inv, TypeInv, TypeOK
  <1>13. TypeInv'
    <2>1. TypeOK'
      BY <1>1, <1>3, <1>4, <1>8, <1>12 DEF Inv, TypeInv, TypeOK, waits
    <2> QED
      BY <1>1, <1>6, <1>12, <2>1 DEF Inv, TypeInv, waits
  <1>14. \A r \in Qids : Own(r)' = Own(r)
    BY <1>1, <1>3, <1>4 DEF Own, vec
  <1>15. ExactInv'
    <2> SUFFICES ASSUME NEW r \in Qids, clean[r]
                 PROVE  Own(r) /\ (fresh'[r] > 0 <=> msg_data'[r] # 0
                                                     \/ r \in pending')
      BY <1>1, <1>14 DEF ExactInv
    <2>1. Own(r) /\ (fresh[r] > 0 <=> msg_data[r] # 0 \/ r \in pending)
      BY DEF Inv, ExactInv
    <2>2. /\ mode = "msix" /\ r \in Vectors /\ vec(r) = r
          /\ r # q => vec(q) # r
          /\ qp[r].ien
      BY <1>4, <2>1, QidsAssumption, VectorsAssumption DEF Own, Vectors
    <2>3. CASE r = q
      <3>1. fresh'[q] > 0
        BY <1>2, <2>2, <2>3 DEF Inv, TypeInv
      <3>2. msg_data'[q] # 0 \/ q \in pending'
        BY <1>2, <1>11, <2>2, <2>3
      <3> QED
        BY <2>1, <2>3, <3>1, <3>2
    <2>4. CASE r # q
      <3>1. fresh'[r] = fresh[r]
        BY <1>2, <2>4 DEF Inv, TypeInv
      <3>2. msg_data'[r] = msg_data[r] /\ (r \in pending' <=> r \in pending)
        BY <1>2, <1>11, <2>2, <2>4
      <3> QED
        BY <2>1, <3>1, <3>2
    <2> QED
      BY <2>3, <2>4
  <1> QED
    BY <1>1, <1>3, <1>9, <1>13, <1>15, ZoneSame, WaitSame DEF Inv

-----------------------------------------------------------------------------
(* A step of waitdone that leaves the queues and their vectors alone. *)
LEMMA WaitKeepsInv ==
    ASSUME Inv, UNCHANGED <<dev, zone, mode, qp, inflight, sent>>,
           UNCHANGED line, UNCHANGED ghost,
           cq' \in [Qids -> Nat], \A q \in Qids : cq'[q] <= cq[q],
           failed' \in BOOLEAN, wait' \in Waits, _reentry_flag' \in BOOLEAN,
           alarm' \in BOOLEAN, nested' \in BOOLEAN, lost_alarm' \in BOOLEAN,
           ZoneInv', WaitInv'
    PROVE  Inv'
  <1>1. Open' = Open
    BY DEF Open
  <1>2. /\ inflight \in [Qids -> Nat] /\ cq \in [Qids -> Nat]
        /\ inflight \in [Qids -> 0 .. MaxCmds] /\ cq \in [Qids -> 0 .. MaxCmds]
        /\ sent \in 0 .. MaxCmds
        /\ \A q \in Qids : inflight[q] + cq[q] <= sent
    BY DEF Inv, TypeInv, TypeOK, QueueInv
  <1>3. cq' \in [Qids -> 0 .. MaxCmds]
    <2>1. \A q \in Qids : cq'[q] \in 0 .. MaxCmds
      BY <1>2, MaxCmdsAssumption
    <2> QED
      BY <2>1
  <1>4. \A q \in Qids : inflight[q] + cq'[q] <= sent
    BY <1>2
  <1>5. QueueInv'
    BY <1>1, <1>4 DEF Inv, QueueInv
  <1>6. wait'.reaped \in 0 .. MaxCmds
    BY DEF Waits
  <1>7. TypeOK'
    BY <1>1, <1>3, <1>6 DEF Inv, TypeInv, TypeOK, line
  <1>8. TypeInv'
    BY <1>7 DEF Inv, TypeInv, ghost
  <1>9. ExactInv'
    BY ExactSame DEF Inv, line
  <1> QED
    BY <1>5, <1>8, <1>9 DEF Inv

(* The script starts a wait. *)
LEMMA WaitdoneKeepsInv ==
    ASSUME Inv, NEW q \in Qids, NEW n \in 1 .. MaxCmds, waitdone(q, n)
    PROVE  Inv'
  <1>1. /\ wait = NoWait /\ mode # "off" /\ ~nested
        /\ wait' = [q |-> q, expected |-> n, reaped |-> 0]
        /\ _reentry_flag' = TRUE /\ alarm' = TRUE
        /\ UNCHANGED intc /\ UNCHANGED line /\ UNCHANGED ghost
        /\ UNCHANGED <<qp, inflight, cq, nested, lost_alarm, sent>>
    BY DEF waitdone, Script, Running, AlarmSet
  <1>2. wait' \in Waits /\ wait' # NoWait
    BY <1>1, MaxCmdsAssumption DEF Waits, NoWait
  <1>3. ~lost_alarm
    BY <1>1 DEF Inv, WaitInv
  <1>4. WaitInv'
    BY <1>1, <1>2, <1>3 DEF Inv, WaitInv, intc
  <1>5. ZoneInv'
    BY <1>1, ZoneSame DEF Inv
  <1>6. cq' \in [Qids -> Nat] /\ \A r \in Qids : cq'[r] <= cq[r]
    BY <1>1 DEF Inv, TypeInv
  <1>7. /\ failed' \in BOOLEAN /\ nested' \in BOOLEAN /\ lost_alarm' \in BOOLEAN
        /\ _reentry_flag' \in BOOLEAN /\ alarm' \in BOOLEAN
    BY <1>1 DEF Inv, TypeInv, TypeOK, intc
  <1> QED
    BY <1>1, <1>2, <1>4, <1>5, <1>6, <1>7, WaitKeepsInv DEF intc

(* A round of the loop reaps one completion, so that the wait cannot end with
   more than it was asked for. *)
LEMMA OneReaped ==
    ASSUME Inv, wait.reaped < wait.expected, Reaped > 0,
           cq' = [cq EXCEPT ![wait.q] = @ - Reaped],
           wait' = [wait EXCEPT !.reaped = @ + Reaped]
    PROVE  /\ wait' \in Waits /\ wait # NoWait /\ wait' # NoWait
           /\ wait'.q = wait.q /\ wait'.expected = wait.expected
           /\ wait'.reaped <= wait'.expected
           /\ cq' \in [Qids -> Nat] /\ \A q \in Qids : cq'[q] <= cq[q]
  <1>1. wait \in Waits /\ cq \in [Qids -> Nat]
    BY DEF Inv, TypeInv
  <1>2. wait # NoWait
    BY DEF NoWait
  <1>3. wait.q \in Qids /\ wait.expected > 0
    BY <1>2 DEF Inv, WaitInv
  <1>4. Reaped = 1 /\ cq[wait.q] > 0
    BY <1>1, <1>3 DEF Reaped, max_completions
  <1>5. /\ wait'.q = wait.q /\ wait'.expected = wait.expected
        /\ wait'.reaped = wait.reaped + 1
    BY <1>1, <1>4 DEF Waits
  <1>6. wait' \in Waits /\ wait'.reaped <= wait'.expected
    BY <1>1, <1>4, <1>5, MaxCmdsAssumption DEF Waits
  <1>7. wait' # NoWait
    BY <1>3, <1>5 DEF NoWait
  <1>8. cq' \in [Qids -> Nat] /\ \A q \in Qids : cq'[q] <= cq[q]
    BY <1>1, <1>3, <1>4
  <1> QED
    BY <1>2, <1>5, <1>6, <1>7, <1>8

(* A wait reaps completions, whose callbacks may wait or lose the alarm. *)
LEMMA ReapKeepsInv ==
    ASSUME Inv, Reap \/ ReapWithWaitingCallback \/ AlarmInCallback
    PROVE  Inv'
  <1>1. /\ ~failed /\ ~nested /\ mode # "off"
        /\ wait.reaped < wait.expected /\ Reaped > 0
        /\ cq' = [cq EXCEPT ![wait.q] = @ - Reaped]
        /\ wait' = [wait EXCEPT !.reaped = @ + Reaped]
        /\ UNCHANGED intc /\ UNCHANGED line /\ UNCHANGED ghost
        /\ UNCHANGED <<qp, inflight, sent>>
    BY DEF Reap, ReapWithWaitingCallback, AlarmInCallback, Running
  <1>2. /\ wait' \in Waits /\ wait # NoWait /\ wait' # NoWait
        /\ wait'.q = wait.q /\ wait'.expected = wait.expected
        /\ wait'.reaped <= wait'.expected
        /\ cq' \in [Qids -> Nat] /\ \A q \in Qids : cq'[q] <= cq[q]
    BY <1>1, OneReaped
  <1>3. /\ alarm' \in BOOLEAN /\ _reentry_flag' \in BOOLEAN
        /\ nested' \in BOOLEAN /\ lost_alarm' \in BOOLEAN
        /\ lost_alarm' => ~alarm'
        /\ ~lost_alarm' => _reentry_flag'
        /\ nested' => lost_alarm'
    <2>1. /\ lost_alarm => ~alarm
          /\ ~lost_alarm => _reentry_flag
          /\ alarm \in BOOLEAN /\ _reentry_flag \in BOOLEAN
          /\ nested \in BOOLEAN /\ lost_alarm \in BOOLEAN
      BY <1>2 DEF Inv, WaitInv, TypeInv, TypeOK
    <2>2. CASE Reap
      BY <1>1, <2>1, <2>2 DEF Reap
    <2>3. CASE ReapWithWaitingCallback
      BY <2>1, <2>3 DEF ReapWithWaitingCallback, CallbackMayWait
    <2>4. CASE AlarmInCallback
      BY <1>1, <2>1, <2>4 DEF AlarmInCallback
    <2> QED
      BY <2>2, <2>3, <2>4
  <1>4. WaitInv'
    BY <1>1, <1>2, <1>3 DEF Inv, WaitInv, intc
  <1>5. ZoneInv'
    BY <1>1, ZoneSame DEF Inv
  <1>6. failed' \in BOOLEAN
    BY <1>1 DEF Inv, TypeInv, TypeOK, intc
  <1> QED
    BY <1>1, <1>2, <1>3, <1>4, <1>5, <1>6, WaitKeepsInv DEF intc

(* The alarm comes in the loop of a wait. *)
LEMMA TimeoutKeepsInv ==
    ASSUME Inv, AlarmInLoop
    PROVE  Inv'
  <1>1. /\ alarm /\ ~nested
        /\ wait' = NoWait /\ alarm' = FALSE /\ _reentry_flag' = FALSE
        /\ UNCHANGED intc /\ UNCHANGED line /\ UNCHANGED ghost
        /\ UNCHANGED <<qp, inflight, cq, nested, lost_alarm, sent>>
    BY DEF AlarmInLoop, FlagAfterAlarm, Running
  <1>2. ~lost_alarm
    BY <1>1 DEF Inv, WaitInv
  <1>3. wait' \in Waits /\ wait'.reaped <= wait'.expected
    BY <1>1, MaxCmdsAssumption DEF Waits, NoWait
  <1>4. WaitInv'
    BY <1>1, <1>2, <1>3 DEF WaitInv
  <1>5. ZoneInv'
    BY <1>1, ZoneSame DEF Inv
  <1>6. cq' \in [Qids -> Nat] /\ \A r \in Qids : cq'[r] <= cq[r]
    BY <1>1 DEF Inv, TypeInv
  <1>7. failed' \in BOOLEAN /\ nested' \in BOOLEAN /\ lost_alarm' \in BOOLEAN
    BY <1>1 DEF Inv, TypeInv, TypeOK, intc
  <1> QED
    BY <1>1, <1>3, <1>4, <1>5, <1>6, <1>7, WaitKeepsInv DEF intc

(* A wait has reaped what it waited for. *)
LEMMA EndKeepsInv ==
    ASSUME Inv, EndWait
    PROVE  Inv'
  <1>1. /\ ~failed /\ ~nested /\ wait.reaped >= wait.expected
        /\ failed' = (wait.reaped # wait.expected)
        /\ wait' = NoWait /\ alarm' = FALSE /\ _reentry_flag' = FALSE
        /\ lost_alarm' = FALSE
        /\ UNCHANGED line /\ UNCHANGED ghost
        /\ UNCHANGED <<dev, zone, mode, qp, inflight, cq, nested, sent>>
    BY DEF EndWait, Running
  <1>2. wait.reaped = wait.expected
    BY <1>1 DEF Inv, WaitInv, TypeInv, Waits
  <1>3. failed' = FALSE /\ failed = FALSE
    BY <1>1, <1>2 DEF Inv, TypeInv, TypeOK
  <1>4. wait' \in Waits /\ wait'.reaped <= wait'.expected
    BY <1>1, MaxCmdsAssumption DEF Waits, NoWait
  <1>5. WaitInv'
    BY <1>1, <1>4 DEF WaitInv
  <1>6. ZoneInv'
    BY <1>1, <1>3, ZoneSame DEF Inv, intc
  <1>7. cq' \in [Qids -> Nat] /\ \A r \in Qids : cq'[r] <= cq[r]
    BY <1>1 DEF Inv, TypeInv
  <1>8. nested' \in BOOLEAN
    BY <1>1 DEF Inv, TypeInv
  <1> QED
    BY <1>1, <1>3, <1>4, <1>5, <1>6, <1>7, <1>8, WaitKeepsInv

-----------------------------------------------------------------------------
(* Every step of the specification keeps the invariant. *)
LEMMA NextKeepsInv ==
    ASSUME Inv, [Next]_vars
    PROVE  Inv'
  <1>1. CASE intc_init
    BY <1>1, InitialiseKeepsInv
  <1>2. CASE intc_fini
    BY <1>2, FinishKeepsInv
  <1>3. ASSUME NEW q \in Qids, NEW ien \in BOOLEAN, NEW iv \in Ivs,
               Create(q, ien, iv)
        PROVE  Inv'
    BY <1>3, CreateKeepsInv
  <1>4. ASSUME NEW q \in Qids, Delete(q)
        PROVE  Inv'
    BY <1>4, DeleteKeepsInv
  <1>5. ASSUME NEW q \in Qids, msix_clear(q)
        PROVE  Inv'
    BY <1>5, ClearKeepsInv
  <1>6. ASSUME NEW q \in Qids, msix_mask(q)
        PROVE  Inv'
    BY <1>6, MaskKeepsInv
  <1>7. ASSUME NEW q \in Qids, msix_unmask(q)
        PROVE  Inv'
    BY <1>7, UnmaskKeepsInv
  <1>8. ASSUME NEW q \in Qids, Send(q)
        PROVE  Inv'
    BY <1>8, SendKeepsInv
  <1>9. ASSUME NEW q \in Qids, DeviceCompletes(q)
        PROVE  Inv'
    BY <1>9, CompletionKeepsInv
  <1>10. ASSUME NEW q \in Qids, NEW n \in 1 .. MaxCmds, waitdone(q, n)
         PROVE  Inv'
    BY <1>10, WaitdoneKeepsInv
  <1>11. CASE Reap \/ ReapWithWaitingCallback \/ AlarmInCallback
    BY <1>11, ReapKeepsInv
  <1>12. CASE AlarmInLoop
    BY <1>12, TimeoutKeepsInv
  <1>13. CASE EndWait
    BY <1>13, EndKeepsInv
  <1>14. CASE UNCHANGED vars
    <2>1. /\ UNCHANGED <<dev, zone, mode, failed, qp, inflight, cq, sent>>
          /\ UNCHANGED line /\ UNCHANGED ghost /\ UNCHANGED waits
      BY <1>14 DEF vars, intc
    <2>2. ZoneInv' /\ WaitInv'
      BY <2>1, ZoneSame, WaitSame DEF Inv, intc
    <2>3. /\ cq' \in [Qids -> Nat] /\ \A r \in Qids : cq'[r] <= cq[r]
          /\ wait' \in Waits /\ nested' \in BOOLEAN /\ lost_alarm' \in BOOLEAN
          /\ failed' \in BOOLEAN /\ _reentry_flag' \in BOOLEAN
          /\ alarm' \in BOOLEAN
      BY <2>1 DEF Inv, TypeInv, TypeOK, waits
    <2> QED
      BY <2>1, <2>2, <2>3, WaitKeepsInv
  <1> QED
    BY <1>1, <1>2, <1>3, <1>4, <1>5, <1>6, <1>7, <1>8, <1>9, <1>10, <1>11,
       <1>12, <1>13, <1>14
    DEF Next

(* For any devices, queues, vectors and number of commands. *)
THEOREM InvAlways ==
    Spec => []Inv
  <1>1. Init => Inv
    BY InitInv
  <1>2. Inv /\ [Next]_vars => Inv'
    BY NextKeepsInv
  <1> QED
    BY <1>1, <1>2, PTL DEF Spec

(* intc_isset and intc_clear: for a queue that has its vector to itself, what
   msix_isset tells the script is exact, masked or not, whatever is done to the
   other queues in between. *)
THEOREM IssetAlwaysExact ==
    Spec => []IssetIsExact
  <1>1. Inv => IssetIsExact
    <2> SUFFICES ASSUME Inv PROVE IssetIsExact
      OBVIOUS
    <2>1. ASSUME NEW q \in Qids, Own(q), clean[q]
          PROVE  fresh[q] > 0 <=> intc_isset(q) \/ vec(q) \in pending
      <3>1. vec(q) = q /\ mode = "msix" /\ q \in Open
        BY <2>1 DEF Own
      <3>2. intc_isset(q) <=> msg_data[q] # 0
        BY <3>1, VecOfOpen DEF intc_isset, Inv
      <3> QED
        BY <2>1, <3>1, <3>2 DEF Inv, ExactInv
    <2> QED
      BY <2>1 DEF IssetIsExact, Inv, TypeInv
  <1> QED
    BY <1>1, InvAlways, PTL

(* The asserts of intc_init and of Qpair.waitdone: a controller is initialised
   again whatever happened before, a wait reaps what it was asked for, and its
   flag neither lets a callback wait nor refuses the next call. *)
THEOREM AssertsAlwaysHold ==
    Spec => []AssertsHold
  <1>1. Inv => AssertsHold
    BY DEF Inv, ZoneInv, WaitInv, AssertsHold
  <1> QED
    BY <1>1, InvAlways, PTL
=============================================================================
