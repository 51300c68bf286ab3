-------------------------- MODULE DataVerifyProofs --------------------------
(***************************************************************************)
(* The properties of DataVerify for any namespace, table, set of processes *)
(* and requests, for scripts whose processes keep to LBAs of their own     *)
(* (RegionsApart) and whose lengths fit in 16 bits (LengthsFit).           *)
(*                                                                         *)
(* All of them rest on the locks: of two commands that are past the check  *)
(* in crc32_lock_lba none touches a table word of the other (LockInv).     *)
(* Hence between the device's execution of a command and its completion    *)
(* neither the media nor the checksums of its words change (DataInv).      *)
(***************************************************************************)
EXTENDS DataVerify, TLAPS

Values == {ZERO, BAD} \cup (LBAs \X Nat)

Buffers == UNION {[s -> Values] : s \in SUBSET LBAs}

Requests ==
    [at : {"free", "checked", "queued", "device", "done"},
     opc : {WRITE, READ, UNCORR, COMPARE, ZEROES, DSM, FLUSH},
     ranges : Seq(Nat \X Nat),
     buf : Buffers,
     ok : BOOLEAN, corrupt : BOOLEAN]

TypeInv ==
    /\ lock \in [Words -> BOOLEAN]
    /\ crc \in [Words -> Values \cup {NOMAP}]
    /\ token \in Nat \ {0}
    /\ media \in [LBAs -> Values]
    /\ req \in [Reqs -> Requests]
    /\ tainted \subseteq LBAs

(* A request works on LBAs of its process, and its lengths fit. *)
ShapeInv ==
    \A r \in Reqs : req[r].at # "free" =>
        /\ Extent(req[r]) \subseteq Region[Owner[r]]
        /\ \A i \in DOMAIN req[r].ranges : req[r].ranges[i][2] < WRAP
        /\ req[r].opc = WRITE => req[r].buf \in [Extent(req[r]) -> Values]

(* Past the check of crc32_lock_lba. *)
Past(r) == req[r].at \in {"checked", "device", "done"}

(* A process is in crc32_lock_lba for one request only; requests past the check
   are apart; the lock bits are those of the requests past the lock. *)
LockInv ==
    /\ \A r, s \in Reqs : req[r].at = "checked" /\ req[s].at = "checked"
                          /\ Owner[r] = Owner[s] => r = s
    /\ \A r, s \in Reqs : r # s /\ Past(r) /\ Past(s) =>
           Locked(req[r]) \cap Locked(req[s]) = {}
    /\ \A w \in Words : lock[w] <=> \E r \in InFlight : w \in Locked(req[r])

(* What an LBA can hold: its own number, with a token that was given out. *)
Good(l) == {ZERO, BAD} \cup {<<l, t>> : t \in 1 .. token}

ContentInv ==
    /\ \A l \in LBAs : media[l] \in Good(l)
    /\ \A w \in Words : crc[w] \in Good(w) \cup {NOMAP}
    /\ \A r \in Reqs : req[r].at # "free" /\ req[r].opc = WRITE =>
           \A l \in Extent(req[r]) : req[r].buf[l] \in Good(l)
    /\ \A r \in Reqs : req[r].at = "done" /\ req[r].opc = READ /\ req[r].ok
                       /\ ~req[r].corrupt =>
           \A l \in Extent(req[r]) : req[r].buf[l] \in Good(l) \ {BAD}

(* A command the device has executed leaves on the media what its completion
   will enter in the table; a read has seen what is still there. *)
DataInv ==
    /\ TableMatchesMedia
    /\ \A r \in Reqs : req[r].at = "done" /\ req[r].ok =>
           \A w \in Extent(req[r]) \cap Words :
               /\ req[r].opc = WRITE => media[w] = req[r].buf[w]
               /\ req[r].opc = UNCORR => media[w] = BAD
               /\ req[r].opc = READ /\ ~req[r].corrupt =>
                      media[w] = req[r].buf[w]

Inv == TypeInv /\ ShapeInv /\ LockInv /\ ContentInv /\ DataInv

-----------------------------------------------------------------------------
(* A length that fits is not changed by the conversion to 16 bits. *)
LEMMA Fits ==
    ASSUME NEW n \in Nat, n < WRAP
    PROVE  n % WRAP = n
  BY WrapAssumption

(* The words checked, locked and counted are then the same. *)
LEMMA SameWords ==
    ASSUME NEW q, q.ranges \in Seq(Nat \X Nat),
           \A i \in DOMAIN q.ranges : q.ranges[i][2] < WRAP
    PROVE  /\ Checked(q) = Locked(q)
           /\ Counted(q) = Extent(q) \cap Words
           /\ q.opc # FLUSH => Locked(q) = Extent(q) \cap Words
           /\ Locked(q) \subseteq Extent(q) \cap Words
  <1>1. \A i \in DOMAIN q.ranges : /\ q.ranges[i][1] \in Nat
                                   /\ q.ranges[i][2] \in Nat
                                   /\ q.ranges[i][2] % WRAP = q.ranges[i][2]
    BY Fits
  <1>2. Words \subseteq LBAs
    BY SizeAssumption DEF Words, LBAs
  <1> DEFINE In(i, w) == q.ranges[i][1] <= w /\ w < q.ranges[i][1] + q.ranges[i][2]
  <1>3. Extent(q) = {l \in LBAs : \E i \in DOMAIN q.ranges : In(i, l)}
    BY DEF Extent
  <1>4. UNION {WordsOf(q.ranges[i][1], q.ranges[i][2]) : i \in DOMAIN q.ranges}
           = {w \in Words : \E i \in DOMAIN q.ranges : In(i, w)}
    BY DEF WordsOf
  <1>5. UNION {WordsOf(q.ranges[i][1], q.ranges[i][2] % WRAP) : i \in DOMAIN q.ranges}
           = {w \in Words : \E i \in DOMAIN q.ranges : In(i, w)}
    BY <1>1 DEF WordsOf
  <1>6. {w \in Words : \E i \in DOMAIN q.ranges : In(i, w)} = Extent(q) \cap Words
    <2> HIDE DEF In
    <2> QED
      BY <1>2, <1>3
  <1> HIDE DEF In
  <1>7. /\ Locked(q) = IF q.opc = FLUSH THEN {} ELSE Extent(q) \cap Words
        /\ Checked(q) = IF q.opc = FLUSH THEN {} ELSE Extent(q) \cap Words
    BY <1>4, <1>5, <1>6, Zenon DEF Locked, Checked
  <1>8. Counted(q) = IF q.opc = DSM THEN Locked(q) ELSE Extent(q) \cap Words
    BY <1>5, <1>6, Zenon DEF Counted
  <1> QED
    BY <1>7, <1>8 DEF DSM, FLUSH

(* They depend on the opcode and the ranges only. *)
LEMMA SameCommand ==
    ASSUME NEW q, NEW p, q.opc = p.opc, q.ranges = p.ranges
    PROVE  /\ Extent(q) = Extent(p) /\ Locked(q) = Locked(p)
           /\ Checked(q) = Checked(p) /\ Counted(q) = Counted(p)
           /\ Modifies(q) = Modifies(p)
  BY DEF Extent, Locked, Checked, Counted, Modifies

(* Values for a set of LBAs are a buffer. *)
LEMMA BufferType ==
    ASSUME NEW S \in SUBSET LBAs, NEW f \in [S -> Values]
    PROVE  f \in Buffers
  BY DEF Buffers

(* What a correct device may hold at an LBA are values of the media. *)
LEMMA GoodIsValue ==
    ASSUME NEW l \in LBAs, token \in Nat \ {0}
    PROVE  Good(l) \subseteq Values
  BY DEF Good, Values

(* The words of a request that is not free. *)
LEMMA WordsOfRequest ==
    ASSUME TypeInv, ShapeInv, NEW r \in Reqs, req[r].at # "free"
    PROVE  /\ Checked(req[r]) = Locked(req[r])
           /\ Counted(req[r]) = Extent(req[r]) \cap Words
           /\ req[r].opc # FLUSH => Locked(req[r]) = Extent(req[r]) \cap Words
           /\ Locked(req[r]) \subseteq Extent(req[r]) \cap Words
           /\ Extent(req[r]) \subseteq LBAs
  <1>1. req[r].ranges \in Seq(Nat \X Nat)
    BY DEF TypeInv, Requests
  <1>2. \A i \in DOMAIN req[r].ranges : req[r].ranges[i][2] < WRAP
    BY DEF ShapeInv
  <1>3. Extent(req[r]) \subseteq LBAs
    BY DEF Extent
  <1> QED
    BY <1>1, <1>2, <1>3, SameWords

(* A modifying command in flight shares no word with another one. *)
LEMMA NoOverlap ==
    ASSUME TypeInv, ShapeInv, LockInv, NEW r \in Reqs, NEW s \in Reqs, r # s,
           Past(r), Past(s), req[r].opc # FLUSH, req[s].opc # FLUSH,
           NEW w \in Words, w \in Extent(req[r])
    PROVE  w \notin Extent(req[s])
  <1>1. req[r].at # "free" /\ req[s].at # "free"
    BY DEF Past
  <1>2. Locked(req[r]) = Extent(req[r]) \cap Words
        /\ Locked(req[s]) = Extent(req[s]) \cap Words
    BY <1>1, WordsOfRequest
  <1>3. Locked(req[r]) \cap Locked(req[s]) = {}
    BY DEF LockInv
  <1> QED
    BY <1>2, <1>3

(* The request of an unused slot. *)
LEMMA FreeIsRequest ==
    Free \in Requests /\ Free.at = "free"
  <1>1. NoData \in [{} -> Values]
    BY DEF NoData
  <1>2. NoData \in Buffers
    BY <1>1 DEF Buffers
  <1>3. <<>> \in Seq(Nat \X Nat)
    OBVIOUS
  <1> QED
    BY <1>2, <1>3 DEF Free, Requests

-----------------------------------------------------------------------------
(* Nothing is locked, mapped or in flight (Init). *)
LEMMA InitInv == Init => Inv
  <1> SUFFICES ASSUME Init PROVE Inv
    OBVIOUS
  <1>1. Free \in Requests
    BY FreeIsRequest
  <1>2. \A r \in Reqs : req[r].at = "free"
    BY DEF Init, Free
  <1>3. InFlight = {}
    BY <1>2 DEF InFlight
  <1>4. TypeInv
    BY <1>1, SizeAssumption DEF TypeInv, Init, Values
  <1>5. ShapeInv
    BY <1>2 DEF ShapeInv
  <1>6. LockInv
    BY <1>2, <1>3 DEF LockInv, Init, Past
  <1>7. ContentInv
    BY <1>2, SizeAssumption DEF ContentInv, Init, Good
  <1>8. DataInv
    BY <1>2 DEF DataInv, TableMatchesMedia, Init
  <1> QED
    BY <1>4, <1>5, <1>6, <1>7, <1>8 DEF Inv

-----------------------------------------------------------------------------
(* The blocks of a write get their LBAs, and tokens below the new one. *)
LEMMA FillIsGood ==
    ASSUME NEW c \in Commands, c.opc = WRITE, token \in Nat \ {0},
           NEW l \in Extent(c)
    PROVE  /\ c.ranges[1][2] \in Nat
           /\ Fill(c)[l] \in {<<l, t>> : t \in 1 .. token + c.ranges[1][2]}
  <1> DEFINE a == c.ranges[1][1]
             n == c.ranges[1][2]
  <1>1. c.ranges \in Seq(Nat \X Nat) /\ Len(c.ranges) = 1
    BY CommandsAssumption DEF WRITE, DSM
  <1>2. DOMAIN c.ranges = {1} /\ a \in Nat /\ n \in Nat
    BY <1>1
  <1> HIDE DEF a, n
  <1>3. Extent(c) = {k \in LBAs : a <= k /\ k < a + n}
    BY <1>2 DEF Extent, a, n
  <1>4. l \in Nat /\ a <= l /\ l < a + n /\ l <= NLB - 1
    BY <1>3, SizeAssumption DEF LBAs
  <1>5. a \in Extent(c)
    BY <1>2, <1>3, <1>4, SizeAssumption DEF LBAs
  <1>6. \A k \in Extent(c) : a <= k /\ k \in Nat
    BY <1>3, SizeAssumption DEF LBAs
  <1>7. Min(Extent(c)) \in Extent(c)
        /\ \A k \in Extent(c) : Min(Extent(c)) <= k
    BY <1>5, <1>6 DEF Min
  <1>8. Min(Extent(c)) = a
    <2>1. Min(Extent(c)) \in Nat /\ Min(Extent(c)) <= a /\ a <= Min(Extent(c))
      BY <1>5, <1>6, <1>7
    <2> HIDE DEF Min, Extent
    <2> QED
      BY <1>2, <2>1
  <1>9. Fill(c)[l] = <<l, token + l - a>>
    BY <1>8 DEF Fill
  <1>10. token + l - a \in 1 .. token + n
    BY <1>2, <1>4
  <1> QED
    BY <1>2, <1>9, <1>10 DEF n

-----------------------------------------------------------------------------
(* crc32_check_lock_bits: a request that finds no lock bit is apart from those
   past the check: their bits are set, or they belong to other processes. *)
LEMMA CheckFindsConflicts ==
    ASSUME RegionsApart, TypeInv, ShapeInv, LockInv,
           NEW r \in Reqs, NEW s \in Reqs, r # s, Past(s), Idle(Owner[r]),
           NEW q, Checked(q) = Locked(q), Locked(q) \subseteq Extent(q) \cap Words,
           Extent(q) \subseteq Region[Owner[r]], CanLock(q)
    PROVE  Locked(q) \cap Locked(req[s]) = {}
  <1>1. CASE s \in InFlight
    BY <1>1 DEF LockInv, CanLock
  <1>2. CASE req[s].at = "checked"
    <2>1. Owner[s] # Owner[r] /\ Owner[s] \in Procs /\ Owner[r] \in Procs
      BY <1>2, OwnerAssumption DEF Idle
    <2>2. Extent(req[s]) \subseteq Region[Owner[s]]
      BY <1>2 DEF ShapeInv
    <2>3. Locked(req[s]) \subseteq Extent(req[s])
      BY <1>2, WordsOfRequest
    <2> QED
      BY <2>1, <2>2, <2>3 DEF RegionsApart
  <1> QED
    BY <1>1, <1>2 DEF Past, InFlight

(* ns_cmd_io submits a command, or holds it for a locked LBA. *)
LEMMA SubmitKeepsInv ==
    ASSUME RegionsApart, LengthsFit, Inv, NEW r \in Reqs, NEW c \in Commands,
           ns_cmd_io(r, c)
    PROVE  Inv'
  <1> DEFINE b == IF c.opc = WRITE THEN Fill(c) ELSE NoData
             at == IF CanLock(c) THEN "checked" ELSE "queued"
             new == [at |-> at, opc |-> c.opc, ranges |-> c.ranges, buf |-> b,
                     ok |-> TRUE, corrupt |-> FALSE]
  <1>1. /\ c.opc \in {WRITE, READ, UNCORR, COMPARE, ZEROES, DSM, FLUSH}
        /\ c.ranges \in Seq(Nat \X Nat)
        /\ \A i \in DOMAIN c.ranges : c.ranges[i][2] < WRAP
    BY CommandsAssumption DEF LengthsFit
  <1>2. req' = [req EXCEPT ![r] = new]
    BY DEF ns_cmd_io
  <1>3. /\ UNCHANGED <<lock, crc, media, tainted>> /\ Idle(Owner[r])
        /\ Extent(c) \subseteq Region[Owner[r]] /\ req[r].at = "free"
        /\ token' = IF c.opc = WRITE THEN token + c.ranges[1][2] ELSE token
    BY DEF ns_cmd_io
  <1>4. Extent(new) = Extent(c) /\ Locked(new) = Locked(c)
    <2>1. new.opc = c.opc /\ new.ranges = c.ranges
      OBVIOUS
    <2> HIDE DEF new
    <2> QED
      BY <2>1, SameCommand
  <1>5. /\ Checked(c) = Locked(c) /\ Locked(c) \subseteq Extent(c) \cap Words
        /\ Extent(c) \subseteq LBAs
    BY <1>1, SameWords DEF Extent
  <1>6. /\ token \in Nat \ {0} /\ token' \in Nat \ {0} /\ token <= token'
        /\ c.opc = WRITE => \A l \in Extent(c) :
               /\ b[l] \in {<<l, t>> : t \in 1 .. token'}
    <2>1. token \in Nat \ {0}
      BY DEF Inv, TypeInv
    <2>2. c.opc = WRITE => c.ranges[1][2] \in Nat
      BY <1>1, CommandsAssumption DEF WRITE, DSM
    <2> QED
      BY <1>3, <2>1, <2>2, FillIsGood
  <1>7. \A l \in LBAs : Good(l) \subseteq Good(l)'
                        /\ {<<l, t>> : t \in 1 .. token'} \subseteq Good(l)'
                        /\ Good(l)' \subseteq Values
    <2>1. \A l \in LBAs : Good(l)' = {ZERO, BAD} \cup {<<l, t>> : t \in 1 .. token'}
      BY DEF Good
    <2> QED
      BY <1>6, <2>1 DEF Good, Values
  <1>8. c.opc = WRITE => b \in [Extent(c) -> Values]
    <2>1. SUFFICES ASSUME c.opc = WRITE PROVE b \in [Extent(c) -> Values]
      OBVIOUS
    <2>2. b = [l \in Extent(c) |-> b[l]]
      BY <2>1 DEF Fill
    <2> HIDE DEF b
    <2>3. \A l \in Extent(c) : b[l] \in Values
      BY <1>5, <1>6, <1>7, <2>1
    <2> QED
      BY <2>2, <2>3
  <1>9. b \in Buffers
    <2>1. NoData \in Buffers
      BY DEF NoData, Buffers
    <2>2. CASE c.opc = WRITE
      BY <1>5, <1>8, <2>2, BufferType
    <2> QED
      BY <2>1, <2>2
  <1>10. new \in Requests
    BY <1>1, <1>9 DEF Requests
  <1>11. /\ req'[r] = new
         /\ \A s \in Reqs : s # r => req'[s] = req[s]
    BY <1>2 DEF Inv, TypeInv
  <1>12. /\ new.at = at /\ new.opc = c.opc /\ new.ranges = c.ranges
         /\ new.buf = b /\ at \in {"checked", "queued"}
         /\ at = "checked" => CanLock(c)
    OBVIOUS
  <1> HIDE DEF new, at, b
  <1>13. InFlight' = InFlight
    BY <1>3, <1>11, <1>12 DEF InFlight
  <1>14. TypeInv'
    BY <1>2, <1>3, <1>6, <1>10 DEF Inv, TypeInv
  <1>15. ShapeInv'
    <2> SUFFICES ASSUME NEW s \in Reqs, req'[s].at # "free"
                 PROVE  /\ Extent(req'[s]) \subseteq Region[Owner[s]]
                        /\ \A i \in DOMAIN req'[s].ranges :
                               req'[s].ranges[i][2] < WRAP
                        /\ req'[s].opc = WRITE =>
                               req'[s].buf \in [Extent(req'[s]) -> Values]
      BY DEF ShapeInv
    <2>1. CASE s = r
      BY <1>1, <1>3, <1>4, <1>8, <1>11, <1>12, <2>1
    <2>2. CASE s # r
      BY <1>11, <2>2 DEF Inv, ShapeInv
    <2> QED
      BY <2>1, <2>2
  <1>16. LockInv'
    <2>1. \A s, u \in Reqs : req'[s].at = "checked" /\ req'[u].at = "checked"
                             /\ Owner[s] = Owner[u] => s = u
      BY <1>3, <1>11, <1>12 DEF Inv, LockInv, Idle
    <2>2. \A s \in Reqs : s # r /\ at = "checked" /\ Past(s) =>
              Locked(new) \cap Locked(req[s]) = {}
      BY <1>3, <1>4, <1>5, <1>12, CheckFindsConflicts DEF Inv
    <2>3. \A s, u \in Reqs : s # u /\ Past(s)' /\ Past(u)' =>
              Locked(req'[s]) \cap Locked(req'[u]) = {}
      <3> SUFFICES ASSUME NEW s \in Reqs, NEW u \in Reqs, s # u, Past(s)', Past(u)'
                   PROVE  Locked(req'[s]) \cap Locked(req'[u]) = {}
        OBVIOUS
      <3>1. CASE s # r /\ u # r
        BY <1>11, <3>1 DEF Inv, LockInv, Past
      <3>2. CASE s = r
        BY <1>11, <1>12, <2>2, <3>2 DEF Past
      <3>3. CASE u = r
        BY <1>11, <1>12, <2>2, <3>3 DEF Past
      <3> QED
        BY <3>1, <3>2, <3>3
    <2>4. \A s \in InFlight : s # r /\ req'[s] = req[s]
      BY <1>3, <1>11 DEF InFlight
    <2>5. \A w \in Words : lock'[w] <=> \E s \in InFlight' : w \in Locked(req'[s])
      BY <1>3, <1>13, <2>4 DEF Inv, LockInv
    <2> QED
      BY <2>1, <2>3, <2>5 DEF LockInv
  <1>17. ContentInv'
    <2>1. \A l \in LBAs : media'[l] \in Good(l)'
      BY <1>3, <1>7 DEF Inv, ContentInv
    <2>2. \A w \in Words : crc'[w] \in Good(w)' \cup {NOMAP}
      <3>1. Words \subseteq LBAs
        BY SizeAssumption DEF Words, LBAs
      <3> QED
        BY <1>3, <1>7, <3>1 DEF Inv, ContentInv
    <2>3. \A s \in Reqs : req'[s].at # "free" /\ req'[s].opc = WRITE =>
              \A l \in Extent(req'[s]) : req'[s].buf[l] \in Good(l)'
      <3> SUFFICES ASSUME NEW s \in Reqs, req'[s].at # "free",
                          req'[s].opc = WRITE, NEW l \in Extent(req'[s])
                   PROVE  req'[s].buf[l] \in Good(l)'
        OBVIOUS
      <3>0. l \in LBAs
        BY DEF Extent
      <3>1. CASE s = r
        BY <1>4, <1>6, <1>7, <1>11, <1>12, <3>0, <3>1
      <3>2. CASE s # r
        BY <1>7, <1>11, <3>0, <3>2 DEF Inv, ContentInv
      <3> QED
        BY <3>1, <3>2
    <2>4. \A s \in Reqs : req'[s].at = "done" /\ req'[s].opc = READ
                          /\ req'[s].ok /\ ~req'[s].corrupt =>
              \A l \in Extent(req'[s]) : req'[s].buf[l] \in Good(l)' \ {BAD}
      <3> SUFFICES ASSUME NEW s \in Reqs, req'[s].at = "done",
                          req'[s].opc = READ, req'[s].ok, ~req'[s].corrupt,
                          NEW l \in Extent(req'[s])
                   PROVE  req'[s].buf[l] \in Good(l)' \ {BAD}
        OBVIOUS
      <3>0. l \in LBAs
        BY DEF Extent
      <3>1. s # r
        BY <1>11, <1>12
      <3> QED
        BY <1>7, <1>11, <3>0, <3>1 DEF Inv, ContentInv
    <2> QED
      BY <2>1, <2>2, <2>3, <2>4 DEF ContentInv
  <1>18. DataInv'
    <2>1. \A s \in InFlight : s # r /\ req'[s] = req[s]
      BY <1>3, <1>11 DEF InFlight
    <2>2. TableMatchesMedia'
      BY <1>3, <1>13, <2>1 DEF Inv, DataInv, TableMatchesMedia
    <2>3. \A s \in Reqs : req'[s].at = "done" => req'[s] = req[s]
      BY <1>11, <1>12
    <2> QED
      BY <1>3, <2>2, <2>3 DEF Inv, DataInv
  <1> QED
    BY <1>14, <1>15, <1>16, <1>17, <1>18 DEF Inv

-----------------------------------------------------------------------------
(* A request keeps its command until it is free again. *)
Keeps(s) ==
    req'[s].at # "free" =>
        /\ req[s].at # "free"
        /\ req'[s].opc = req[s].opc /\ req'[s].ranges = req[s].ranges
        /\ req[s].opc = WRITE => req'[s].buf = req[s].buf

(* A request that only moves on keeps its command, and with it its words. *)
LEMMA KeptWords ==
    ASSUME NEW s \in Reqs, Keeps(s), req'[s].at # "free"
    PROVE  /\ Extent(req'[s]) = Extent(req[s])
           /\ Locked(req'[s]) = Locked(req[s])
           /\ Modifies(req'[s]) = Modifies(req[s])
           /\ req[s].at # "free" /\ req'[s].opc = req[s].opc
  BY SameCommand DEF Keeps

(* When all requests at most move on, they stay in the regions of their owners. *)
LEMMA ShapeKept ==
    ASSUME ShapeInv, \A s \in Reqs : Keeps(s)
    PROVE  ShapeInv'
  <1> SUFFICES ASSUME NEW s \in Reqs, req'[s].at # "free"
               PROVE  /\ Extent(req'[s]) \subseteq Region[Owner[s]]
                      /\ \A i \in DOMAIN req'[s].ranges :
                             req'[s].ranges[i][2] < WRAP
                      /\ req'[s].opc = WRITE =>
                             req'[s].buf \in [Extent(req'[s]) -> Values]
    BY DEF ShapeInv
  <1>1. Keeps(s)
    OBVIOUS
  <1>2. Extent(req'[s]) = Extent(req[s])
    BY <1>1, KeptWords
  <1> QED
    BY <1>1, <1>2 DEF ShapeInv, Keeps

(* When all requests at most move on, their data stay good. *)
LEMMA WrittenKept ==
    ASSUME ContentInv, \A s \in Reqs : Keeps(s), token' = token
    PROVE  /\ \A s \in Reqs : req'[s].at # "free" /\ req'[s].opc = WRITE =>
                  \A l \in Extent(req'[s]) : req'[s].buf[l] \in Good(l)'
           /\ \A l : Good(l)' = Good(l)
  <1>1. \A l : Good(l)' = Good(l)
    BY DEF Good
  <1>2. ASSUME NEW s \in Reqs, req'[s].at # "free", req'[s].opc = WRITE,
               NEW l \in Extent(req'[s])
        PROVE  req'[s].buf[l] \in Good(l)'
    <2>1. Keeps(s)
      OBVIOUS
    <2>2. Extent(req'[s]) = Extent(req[s])
      BY <1>2, <2>1, KeptWords
    <2>3. req[s].buf[l] \in Good(l)
      BY <1>2, <2>1, <2>2 DEF Keeps, ContentInv
    <2> QED
      BY <1>1, <1>2, <2>1, <2>3 DEF Keeps
  <1> QED
    BY <1>1, <1>2

(* A request moves on; everything else about it stays. *)
LEMMA Moves ==
    ASSUME req \in [Reqs -> Requests], NEW r \in Reqs, req[r].at # "free",
           NEW a \in {"checked", "queued", "device", "done"},
           req' = [req EXCEPT ![r].at = a]
    PROVE  /\ req' \in [Reqs -> Requests]
           /\ \A s \in Reqs : s # r => req'[s] = req[s]
           /\ req'[r].at = a
           /\ req'[r].opc = req[r].opc /\ req'[r].ranges = req[r].ranges
           /\ req'[r].buf = req[r].buf
           /\ \A s \in Reqs : Keeps(s)
  <1>1. req[r] \in Requests
    OBVIOUS
  <1>2. req'[r] = [req[r] EXCEPT !.at = a]
        /\ \A s \in Reqs : s # r => req'[s] = req[s]
    OBVIOUS
  <1>3. /\ [req[r] EXCEPT !.at = a] \in Requests
        /\ [req[r] EXCEPT !.at = a].at = a
        /\ [req[r] EXCEPT !.at = a].opc = req[r].opc
        /\ [req[r] EXCEPT !.at = a].ranges = req[r].ranges
        /\ [req[r] EXCEPT !.at = a].buf = req[r].buf
    BY <1>1 DEF Requests
  <1>4. req' \in [Reqs -> Requests]
    BY <1>3
  <1>5. \A s \in Reqs : Keeps(s)
    BY <1>2, <1>3 DEF Keeps
  <1> QED
    BY <1>2, <1>3, <1>4, <1>5

(* A held command is tried again. *)
LEMMA RetryKeepsInv ==
    ASSUME RegionsApart, Inv, NEW r \in Reqs, Retry(r)
    PROVE  Inv'
  <1>1. /\ req[r].at = "queued" /\ Idle(Owner[r]) /\ CanLock(req[r])
        /\ req' = [req EXCEPT ![r].at = "checked"]
        /\ UNCHANGED <<lock, crc, token, media, tainted>>
    BY DEF Retry
  <1>2. /\ req' \in [Reqs -> Requests]
        /\ \A s \in Reqs : s # r => req'[s] = req[s]
        /\ req'[r].at = "checked"
        /\ \A s \in Reqs : Keeps(s)
    BY <1>1, Moves DEF Inv, TypeInv
  <1>3. InFlight' = InFlight /\ r \notin InFlight
    BY <1>1, <1>2 DEF InFlight
  <1>4. TypeInv'
    BY <1>1, <1>2 DEF Inv, TypeInv
  <1>5. ShapeInv'
    BY <1>2, ShapeKept DEF Inv
  <1>6. LockInv'
    <2>1. \A s, u \in Reqs : req'[s].at = "checked" /\ req'[u].at = "checked"
                             /\ Owner[s] = Owner[u] => s = u
      BY <1>1, <1>2 DEF Inv, LockInv, Idle
    <2>2. \A s \in Reqs : s # r /\ Past(s) =>
              Locked(req[r]) \cap Locked(req[s]) = {}
      <3>1. /\ Checked(req[r]) = Locked(req[r])
            /\ Locked(req[r]) \subseteq Extent(req[r]) \cap Words
            /\ Extent(req[r]) \subseteq Region[Owner[r]]
        BY <1>1, WordsOfRequest DEF Inv, ShapeInv
      <3> QED
        BY <1>1, <3>1, CheckFindsConflicts DEF Inv
    <2>3. Locked(req'[r]) = Locked(req[r])
      BY <1>2, KeptWords
    <2>4. \A s, u \in Reqs : s # u /\ Past(s)' /\ Past(u)' =>
              Locked(req'[s]) \cap Locked(req'[u]) = {}
      <3> SUFFICES ASSUME NEW s \in Reqs, NEW u \in Reqs, s # u, Past(s)', Past(u)'
                   PROVE  Locked(req'[s]) \cap Locked(req'[u]) = {}
        OBVIOUS
      <3>1. CASE s # r /\ u # r
        BY <1>2, <3>1 DEF Inv, LockInv, Past
      <3>2. CASE s = r
        BY <1>2, <2>2, <2>3, <3>2 DEF Past
      <3>3. CASE u = r
        BY <1>2, <2>2, <2>3, <3>3 DEF Past
      <3> QED
        BY <3>1, <3>2, <3>3
    <2>5. \A w \in Words : lock'[w] <=> \E s \in InFlight' : w \in Locked(req'[s])
      <3>1. \A s \in InFlight : req'[s] = req[s]
        BY <1>2, <1>3 DEF InFlight
      <3> QED
        BY <1>1, <1>3, <3>1 DEF Inv, LockInv
    <2> QED
      BY <2>1, <2>4, <2>5 DEF LockInv
  <1>7. \A s \in Reqs : req'[s].at = "done" => req'[s] = req[s]
    BY <1>2
  <1>8. ContentInv'
    BY <1>1, <1>2, <1>7, WrittenKept DEF Inv, ContentInv
  <1>9. DataInv'
    <2>1. \A s \in InFlight : req'[s] = req[s]
      BY <1>2, <1>3 DEF InFlight
    <2>2. TableMatchesMedia'
      BY <1>1, <1>3, <2>1 DEF Inv, DataInv, TableMatchesMedia
    <2> QED
      BY <1>1, <1>7, <2>2 DEF Inv, DataInv
  <1> QED
    BY <1>4, <1>5, <1>6, <1>8, <1>9 DEF Inv

-----------------------------------------------------------------------------
(* Requests that were past the check before stay apart. *)
LEMMA StayApart ==
    ASSUME LockInv, \A s \in Reqs : Keeps(s),
           \A s \in Reqs : Past(s)' => Past(s),
           \A s \in Reqs : req'[s].at = "checked" => req[s].at = "checked"
    PROVE  /\ \A r, s \in Reqs : req'[r].at = "checked" /\ req'[s].at = "checked"
                                 /\ Owner[r] = Owner[s] => r = s
           /\ \A r, s \in Reqs : r # s /\ Past(r)' /\ Past(s)' =>
                  Locked(req'[r]) \cap Locked(req'[s]) = {}
  <1>1. \A s \in Reqs : Past(s)' => Locked(req'[s]) = Locked(req[s])
    BY KeptWords DEF Past
  <1> QED
    BY <1>1 DEF LockInv

(* The second half of a submission: the LBAs that were free are locked. *)
LEMMA LockKeepsInv ==
    ASSUME Inv, NEW r \in Reqs, crc32_lock_lba(r)
    PROVE  Inv'
  <1>1. /\ req[r].at = "checked"
        /\ req' = [req EXCEPT ![r].at = "device"]
        /\ lock' = [w \in Words |-> lock[w] \/ w \in Locked(req[r])]
        /\ UNCHANGED <<crc, token, media, tainted>>
    BY DEF crc32_lock_lba
  <1>2. /\ req' \in [Reqs -> Requests]
        /\ \A s \in Reqs : s # r => req'[s] = req[s]
        /\ req'[r].at = "device"
        /\ \A s \in Reqs : Keeps(s)
    BY <1>1, Moves DEF Inv, TypeInv
  <1>3. InFlight' = InFlight \cup {r} /\ r \notin InFlight
    BY <1>1, <1>2 DEF InFlight
  <1>4. TypeInv'
    BY <1>1, <1>2 DEF Inv, TypeInv
  <1>5. ShapeInv'
    BY <1>2, ShapeKept DEF Inv
  <1>6. \A s \in InFlight : s \in Reqs /\ req'[s] = req[s]
    BY <1>2, <1>3 DEF InFlight
  <1>7. LockInv'
    <2>1. Locked(req'[r]) = Locked(req[r])
      BY <1>2, KeptWords
    <2>2. \A w \in Words : lock'[w] <=> \E s \in InFlight' : w \in Locked(req'[s])
      BY <1>1, <1>3, <1>6, <2>1 DEF Inv, LockInv
    <2>3. \A s \in Reqs : /\ Past(s)' => Past(s)
                          /\ req'[s].at = "checked" => req[s].at = "checked"
      BY <1>1, <1>2 DEF Past
    <2> QED
      BY <1>2, <2>2, <2>3, StayApart DEF Inv, LockInv
  <1>8. \A s \in Reqs : req'[s].at = "done" => req'[s] = req[s]
    BY <1>2
  <1>9. ContentInv'
    BY <1>1, <1>2, <1>8, WrittenKept DEF Inv, ContentInv
  <1>10. DataInv'
    <2>1. TableMatchesMedia'
      BY <1>1, <1>3, <1>6 DEF Inv, DataInv, TableMatchesMedia
    <2> QED
      BY <1>1, <1>8, <2>1 DEF Inv, DataInv
  <1> QED
    BY <1>4, <1>5, <1>7, <1>9, <1>10 DEF Inv

-----------------------------------------------------------------------------
(* What the device may do to the media for a command. *)
Touched(q) == IF Modifies(q) THEN Extent(q) ELSE {}

(* What a device may write for a command are its own words. *)
LEMMA WrittenWithin ==
    ASSUME Inv, NEW r \in Reqs, req[r].at = "device",
           NEW f \in Written(req[r])
    PROVE  /\ DOMAIN f = Touched(req[r])
           /\ \A l \in DOMAIN f : f[l] \in Good(l)
           /\ req[r].opc = WRITE => f = req[r].buf
           /\ req[r].opc = UNCORR => \A l \in DOMAIN f : f[l] = BAD
  <1> DEFINE q == req[r]
  <1>1. q.opc \in {WRITE, READ, UNCORR, COMPARE, ZEROES, DSM, FLUSH}
    BY DEF Inv, TypeInv, Requests
  <1>2. Extent(q) \subseteq LBAs
    BY DEF Extent
  <1>3. CASE q.opc = WRITE
    <2>1. f = q.buf
      BY <1>3 DEF Written, WRITE, ZEROES, UNCORR, DSM
    <2>2. q.buf \in [Extent(q) -> Values] /\ \A l \in Extent(q) : q.buf[l] \in Good(l)
      BY <1>3 DEF Inv, ShapeInv, ContentInv
    <2> QED
      BY <1>3, <2>1, <2>2 DEF Touched, Modifies, WRITE, UNCORR
  <1>4. CASE q.opc = ZEROES
    <2>1. f = [l \in Extent(q) |-> ZERO]
      BY <1>4 DEF Written, WRITE, ZEROES, UNCORR, DSM
    <2> QED
      BY <1>4, <2>1 DEF Touched, Modifies, WRITE, UNCORR, ZEROES, Good
  <1>5. CASE q.opc = UNCORR
    <2>1. f = [l \in Extent(q) |-> BAD]
      BY <1>5 DEF Written, WRITE, ZEROES, UNCORR, DSM
    <2> QED
      BY <1>5, <2>1 DEF Touched, Modifies, WRITE, UNCORR, ZEROES, Good
  <1>6. CASE q.opc = DSM
    <2>1. f = [l \in Extent(q) |-> ZERO] \/ f = [l \in Extent(q) |-> media[l]]
      BY <1>6 DEF Written, WRITE, ZEROES, UNCORR, DSM
    <2>2. \A l \in Extent(q) : ZERO \in Good(l) /\ media[l] \in Good(l)
      BY <1>2 DEF Inv, ContentInv, Good
    <2> QED
      BY <1>6, <2>1, <2>2 DEF Touched, Modifies, WRITE, UNCORR, DSM
  <1>7. CASE q.opc \in {READ, COMPARE, FLUSH}
    <2>1. f = [l \in {} |-> ZERO]
      BY <1>7 DEF Written, WRITE, ZEROES, UNCORR, DSM, READ, COMPARE, FLUSH, NoData
    <2> QED
      BY <1>7, <2>1 DEF Touched, Modifies, WRITE, ZEROES, UNCORR, DSM, READ,
                        COMPARE, FLUSH
  <1> QED
    BY <1>1, <1>3, <1>4, <1>5, <1>6, <1>7

(* The device executes a command: it leaves the rest of the media alone, and
   what it does to the LBAs of the command concerns no other command. *)
Executes(r) ==
    /\ req[r].at = "device"
    /\ req' \in [Reqs -> Requests]
    /\ \A s \in Reqs : s # r => req'[s] = req[s]
    /\ req'[r].at = "done"
    /\ \A s \in Reqs : Keeps(s)
    /\ media' \in [LBAs -> Values]
    /\ \A l \in LBAs : media'[l] \in Good(l)
    /\ \A l \in LBAs : l \notin Touched(req[r]) => media'[l] = media[l]
    /\ req'[r].ok /\ req[r].opc = WRITE =>
           \A l \in Extent(req[r]) : media'[l] = req[r].buf[l]
    /\ req'[r].ok /\ req[r].opc = UNCORR =>
           \A l \in Extent(req[r]) : media'[l] = BAD
    /\ req'[r].ok /\ req[r].opc = READ /\ ~req'[r].corrupt =>
           \A l \in Extent(req[r]) : req'[r].buf[l] = media[l] /\ media[l] # BAD
    /\ UNCHANGED <<lock, crc, token, tainted>>

(* The device executes a command, whatever it makes of the data. *)
LEMMA ExecuteKeepsInv ==
    ASSUME Inv, NEW r \in Reqs, Executes(r)
    PROVE  Inv'
  <1>1. /\ req[r].at = "device" /\ req'[r].at = "done"
        /\ \A s \in Reqs : s # r => req'[s] = req[s]
        /\ \A s \in Reqs : Keeps(s)
        /\ UNCHANGED <<lock, crc, token, tainted>>
    BY DEF Executes
  <1>2. InFlight' = InFlight /\ r \in InFlight
    BY <1>1 DEF InFlight
  <1>3. TypeInv'
    BY <1>1 DEF Inv, TypeInv, Executes
  <1>4. ShapeInv'
    BY <1>1, ShapeKept DEF Inv
  <1>5. \A s \in InFlight : /\ Locked(req'[s]) = Locked(req[s])
                            /\ Extent(req'[s]) = Extent(req[s])
                            /\ Modifies(req'[s]) = Modifies(req[s])
    BY <1>1, <1>2, KeptWords DEF InFlight
  <1>6. LockInv'
    <2>1. \A w \in Words : lock'[w] <=> \E s \in InFlight' : w \in Locked(req'[s])
      BY <1>1, <1>2, <1>5 DEF Inv, LockInv
    <2>2. \A s \in Reqs : /\ Past(s)' => Past(s)
                          /\ req'[s].at = "checked" => req[s].at = "checked"
      BY <1>1 DEF Past
    <2> QED
      BY <1>1, <2>1, <2>2, StayApart DEF Inv, LockInv
  <1>7. Extent(req'[r]) = Extent(req[r]) /\ req'[r].opc = req[r].opc
        /\ Extent(req[r]) \subseteq LBAs
    BY <1>1, KeptWords DEF Extent
  <1>8. ContentInv'
    <2>0. \A l : Good(l)' = Good(l)
      BY <1>1 DEF Good
    <2>1. \A l \in LBAs : media'[l] \in Good(l)'
      BY <2>0 DEF Executes
    <2>2. \A w \in Words : crc'[w] \in Good(w)' \cup {NOMAP}
      BY <1>1, <2>0 DEF Inv, ContentInv
    <2>3. \A s \in Reqs : req'[s].at = "done" /\ req'[s].opc = READ
                          /\ req'[s].ok /\ ~req'[s].corrupt =>
              \A l \in Extent(req'[s]) : req'[s].buf[l] \in Good(l)' \ {BAD}
      <3> SUFFICES ASSUME NEW s \in Reqs, req'[s].at = "done",
                          req'[s].opc = READ, req'[s].ok, ~req'[s].corrupt,
                          NEW l \in Extent(req'[s])
                   PROVE  req'[s].buf[l] \in Good(l) \ {BAD}
        BY <2>0
      <3>1. CASE s # r
        BY <1>1, <3>1 DEF Inv, ContentInv
      <3>2. CASE s = r
        BY <1>7, <3>2 DEF Inv, ContentInv, Executes
      <3> QED
        BY <3>1, <3>2
    <2> QED
      BY <1>1, <2>1, <2>2, <2>3, WrittenKept DEF Inv, ContentInv
  <1>9. \A s \in Reqs, w \in Words :
            s # r /\ Past(s) /\ req[s].opc # FLUSH /\ w \in Extent(req[s]) =>
                media'[w] = media[w]
    <2> SUFFICES ASSUME NEW s \in Reqs, NEW w \in Words, s # r, Past(s),
                        req[s].opc # FLUSH, w \in Extent(req[s]),
                        w \in Touched(req[r])
                 PROVE  FALSE
      <3>1. Words \subseteq LBAs
        BY SizeAssumption DEF Words, LBAs
      <3> QED
        BY <3>1 DEF Executes
    <2>1. Modifies(req[r]) /\ w \in Extent(req[r])
      BY DEF Touched
    <2>2. Past(r) /\ req[r].opc # FLUSH
      BY <1>1, <2>1 DEF Past, Modifies, WRITE, UNCORR, ZEROES, DSM, FLUSH
    <2> QED
      BY <2>1, <2>2, NoOverlap DEF Inv
  <1>10. DataInv'
    <2>1. TableMatchesMedia'
      <3> SUFFICES ASSUME NEW w \in Words \ tainted,
                          ~ \E s \in InFlight : Modifies(req[s])
                                                /\ w \in Extent(req[s])
                   PROVE  crc[w] = NOMAP \/ crc[w] = media'[w]
        BY <1>1, <1>2, <1>5 DEF TableMatchesMedia
      <3>1. crc[w] = NOMAP \/ crc[w] = media[w]
        BY DEF Inv, DataInv, TableMatchesMedia
      <3>2. w \notin Touched(req[r])
        BY <1>2 DEF Touched
      <3>3. w \in LBAs
        BY SizeAssumption DEF Words, LBAs
      <3> QED
        BY <3>1, <3>2, <3>3 DEF Executes
    <2>2. ASSUME NEW s \in Reqs, req'[s].at = "done", req'[s].ok,
                 NEW w \in Extent(req'[s]) \cap Words
          PROVE  /\ req'[s].opc = WRITE => media'[w] = req'[s].buf[w]
                 /\ req'[s].opc = UNCORR => media'[w] = BAD
                 /\ req'[s].opc = READ /\ ~req'[s].corrupt =>
                        media'[w] = req'[s].buf[w]
      <3>1. CASE s = r
        <4>1. req[r].opc = WRITE => req'[r].buf = req[r].buf
          BY <1>1 DEF Keeps
        <4>2. req[r].opc = READ => w \notin Touched(req[r])
          BY DEF Touched, Modifies, WRITE, UNCORR, ZEROES, DSM, READ
        <4> QED
          BY <1>7, <2>2, <3>1, <4>1, <4>2 DEF Executes
      <3>2. CASE s # r
        <4>1. req'[s] = req[s] /\ Past(s)
          BY <1>1, <2>2, <3>2 DEF Past
        <4>2. CASE req[s].opc # FLUSH
          BY <1>9, <2>2, <3>2, <4>1, <4>2 DEF Inv, DataInv
        <4>3. CASE req[s].opc = FLUSH
          BY <4>1, <4>3 DEF FLUSH, WRITE, UNCORR, READ
        <4> QED
          BY <4>2, <4>3
      <3> QED
        BY <3>1, <3>2
    <2> QED
      BY <2>1, <2>2 DEF DataInv
  <1> QED
    BY <1>3, <1>4, <1>6, <1>8, <1>10 DEF Inv

(* Writing good data for some LBAs leaves the others as they are. *)
LEMMA OverlayStays ==
    ASSUME Inv, NEW f, NEW S \in SUBSET LBAs, \A l \in S : f[l] \in Good(l),
           media' = Overlay(f, S)
    PROVE  /\ media' \in [LBAs -> Values]
           /\ \A l \in LBAs : media'[l] \in Good(l)
           /\ \A l \in LBAs : l \notin S => media'[l] = media[l]
           /\ \A l \in S : media'[l] = f[l]
  <1>1. media' = [l \in LBAs |-> IF l \in S THEN f[l] ELSE media[l]]
    BY DEF Overlay
  <1>2. \A l \in LBAs : media'[l] \in Good(l)
    BY <1>1 DEF Inv, ContentInv
  <1>3. \A l \in LBAs : Good(l) \subseteq Values
    BY GoodIsValue DEF Inv, TypeInv
  <1>4. media' \in [LBAs -> Values]
    BY <1>1, <1>2, <1>3
  <1> QED
    BY <1>1, <1>2, <1>4

(* Success is an execution in the sense of the lemma above. *)
LEMMA SucceedsExecutes ==
    ASSUME Inv, NEW r \in Reqs, DeviceSucceeds(r)
    PROVE  Executes(r)
  <1> DEFINE b == IF req[r].opc = READ THEN [l \in Extent(req[r]) |-> media[l]]
                                      ELSE req[r].buf
  <1>1. /\ req[r].at = "device"
        /\ req' = [req EXCEPT ![r] = [req[r] EXCEPT !.at = "done", !.buf = b]]
        /\ UNCHANGED <<lock, crc, token, tainted>>
        /\ req[r].opc = READ => \A l \in Extent(req[r]) : media[l] # BAD
    <2>1. /\ req[r].at = "device"
          /\ UNCHANGED <<lock, crc, token, tainted>>
          /\ req[r].opc = READ => \A l \in Extent(req[r]) : media[l] # BAD
      BY DEF DeviceSucceeds
    <2>2. req' = [req EXCEPT ![r] =
                    [@ EXCEPT !.at = "done",
                              !.buf = IF req[r].opc = READ
                                      THEN [l \in Extent(req[r]) |-> media[l]]
                                      ELSE req[r].buf]]
      BY DEF DeviceSucceeds
    <2> QED
      BY <2>1, <2>2
  <1>2. req[r] \in Requests /\ Extent(req[r]) \subseteq LBAs
    BY DEF Inv, TypeInv, Extent
  <1>3. b \in Buffers
    <2>1. [l \in Extent(req[r]) |-> media[l]] \in [Extent(req[r]) -> Values]
      BY <1>2 DEF Inv, TypeInv
    <2>2. req[r].buf \in Buffers
      BY <1>2 DEF Requests
    <2> QED
      BY <1>2, <2>1, <2>2, BufferType
  <1>4. /\ req[r].opc = WRITE => b = req[r].buf
        /\ req[r].opc = READ => \A l \in Extent(req[r]) : b[l] = media[l]
    BY DEF READ, WRITE
  <1> HIDE DEF b
  <1>5. /\ req' \in [Reqs -> Requests]
        /\ \A s \in Reqs : s # r => req'[s] = req[s]
        /\ req'[r].at = "done" /\ req'[r].buf = b
        /\ req'[r].opc = req[r].opc /\ req'[r].ranges = req[r].ranges
    BY <1>1, <1>2, <1>3 DEF Inv, TypeInv, Requests
  <1>6. \A s \in Reqs : Keeps(s)
    BY <1>1, <1>4, <1>5 DEF Keeps
  <1>7. PICK f \in Written(req[r]) : media' = Overlay(f, DOMAIN f)
    BY DEF DeviceSucceeds
  <1>8. /\ DOMAIN f = Touched(req[r])
        /\ \A l \in DOMAIN f : f[l] \in Good(l)
        /\ req[r].opc = WRITE => f = req[r].buf
        /\ req[r].opc = UNCORR => \A l \in DOMAIN f : f[l] = BAD
    BY <1>1, WrittenWithin
  <1>9. /\ DOMAIN f \subseteq LBAs
        /\ req[r].opc \in {WRITE, UNCORR} => DOMAIN f = Extent(req[r])
    BY <1>2, <1>8 DEF Touched, Modifies
  <1>10. /\ media' \in [LBAs -> Values]
         /\ \A l \in LBAs : media'[l] \in Good(l)
         /\ \A l \in LBAs : l \notin DOMAIN f => media'[l] = media[l]
         /\ \A l \in DOMAIN f : media'[l] = f[l]
    BY <1>7, <1>8, <1>9, OverlayStays
  <1> QED
    BY <1>1, <1>4, <1>5, <1>6, <1>8, <1>9, <1>10 DEF Executes

(* So is a failure, which may have written some of the words. *)
LEMMA FailsExecutes ==
    ASSUME Inv, NEW r \in Reqs, DeviceFails(r)
    PROVE  Executes(r)
  <1>1. /\ req[r].at = "device"
        /\ req' = [req EXCEPT ![r].at = "done", ![r].ok = FALSE]
        /\ UNCHANGED <<lock, crc, token, tainted>>
    BY DEF DeviceFails
  <1>2. req[r] \in Requests /\ Extent(req[r]) \subseteq LBAs
    BY DEF Inv, TypeInv, Extent
  <1>3. /\ req' \in [Reqs -> Requests]
        /\ \A s \in Reqs : s # r => req'[s] = req[s]
        /\ req'[r].at = "done" /\ req'[r].buf = req[r].buf /\ ~req'[r].ok
        /\ req'[r].opc = req[r].opc /\ req'[r].ranges = req[r].ranges
    BY <1>1, <1>2 DEF Inv, TypeInv, Requests
  <1>4. \A s \in Reqs : Keeps(s)
    BY <1>1, <1>3 DEF Keeps
  <1>5. PICK f \in Written(req[r]) : \E S \in SUBSET DOMAIN f : media' = Overlay(f, S)
    BY DEF DeviceFails
  <1>6. PICK S \in SUBSET DOMAIN f : media' = Overlay(f, S)
    BY <1>5
  <1>7. /\ DOMAIN f = Touched(req[r])
        /\ \A l \in DOMAIN f : f[l] \in Good(l)
    BY <1>1, WrittenWithin
  <1>8. S \subseteq LBAs /\ S \subseteq Touched(req[r])
    BY <1>2, <1>7 DEF Touched
  <1>9. /\ media' \in [LBAs -> Values]
        /\ \A l \in LBAs : media'[l] \in Good(l)
        /\ \A l \in LBAs : l \notin S => media'[l] = media[l]
    BY <1>6, <1>7, <1>8, OverlayStays
  <1> QED
    BY <1>1, <1>3, <1>4, <1>8, <1>9 DEF Executes

(* So is a read that returns other data than the media hold. *)
LEMMA MisreadsExecutes ==
    ASSUME Inv, NEW r \in Reqs, NEW l \in LBAs, NEW other \in LBAs,
           DeviceMisreads(r, l, other)
    PROVE  Executes(r)
  <1> DEFINE b == [k \in Extent(req[r]) |->
                     IF k = l THEN media[other] ELSE media[k]]
  <1>1. /\ req[r].at = "device" /\ req[r].opc = READ
        /\ req' = [req EXCEPT ![r] = [req[r] EXCEPT !.at = "done",
                                        !.corrupt = TRUE, !.buf = b]]
        /\ UNCHANGED <<lock, crc, token, media, tainted>>
    BY DEF DeviceMisreads
  <1>2. req[r] \in Requests /\ Extent(req[r]) \subseteq LBAs
    BY DEF Inv, TypeInv, Extent
  <1>3. b \in Buffers
    <2>1. b \in [Extent(req[r]) -> Values]
      BY <1>2 DEF Inv, TypeInv
    <2> HIDE DEF b
    <2> QED
      BY <1>2, <2>1, BufferType
  <1> HIDE DEF b
  <1>4. /\ req' \in [Reqs -> Requests]
        /\ \A s \in Reqs : s # r => req'[s] = req[s]
        /\ req'[r].at = "done" /\ req'[r].corrupt
        /\ req'[r].opc = req[r].opc /\ req'[r].ranges = req[r].ranges
    BY <1>1, <1>2, <1>3 DEF Inv, TypeInv, Requests
  <1>5. \A s \in Reqs : Keeps(s)
    BY <1>1, <1>4 DEF Keeps, READ, WRITE
  <1>6. media \in [LBAs -> Values] /\ \A k \in LBAs : media[k] \in Good(k)
    BY DEF Inv, TypeInv, ContentInv
  <1> QED
    BY <1>1, <1>4, <1>5, <1>6 DEF Executes, READ, WRITE, UNCORR

-----------------------------------------------------------------------------
(* The completion releases the words of its own command only, and enters in
   the table what the device has on the media. *)
LEMMA CompleteKeepsInv ==
    ASSUME Inv, NEW r \in Reqs, cmdlog_cmd_cpl(r)
    PROVE  Inv'
  <1> DEFINE q == req[r]
  <1>1. /\ q.at = "done"
        /\ crc' = [w \in Words |-> IF Updates(q) /\ w \in Counted(q)
                                   THEN NewCrc(q, w) ELSE crc[w]]
        /\ lock' = [w \in Words |->
                      /\ lock[w] /\ w \notin Unlocked(q)
                      /\ ~(Updates(q) /\ Modifies(q) /\ w \in Counted(q))]
        /\ req' = [req EXCEPT ![r] = Free]
        /\ tainted' = IF ~Modifies(q) THEN tainted
                      ELSE IF q.ok THEN tainted \ Extent(q)
                      ELSE tainted \cup Extent(q)
        /\ UNCHANGED <<token, media>>
    BY DEF cmdlog_cmd_cpl
  <1>2. /\ Counted(q) = Extent(q) \cap Words
        /\ q.opc # FLUSH => Locked(q) = Extent(q) \cap Words
        /\ Locked(q) \subseteq Extent(q) \cap Words
        /\ Extent(q) \subseteq LBAs
    BY <1>1, WordsOfRequest DEF Inv
  <1>3. q.opc \in {WRITE, READ, UNCORR, COMPARE, ZEROES, DSM, FLUSH}
    BY DEF Inv, TypeInv, Requests
  <1>4. Modifies(q) => q.opc # FLUSH
    BY DEF Modifies, WRITE, UNCORR, ZEROES, DSM, FLUSH
  <1>5. \A s \in Reqs : s # r => req'[s] = req[s]
    BY <1>1 DEF Inv, TypeInv
  <1>6. req'[r].at = "free" /\ req' \in [Reqs -> Requests]
    BY <1>1, FreeIsRequest DEF Inv, TypeInv
  <1> HIDE DEF q
  <1>7. InFlight' = InFlight \ {r} /\ r \in InFlight
    BY <1>1, <1>5, <1>6 DEF InFlight, q
  <1>8. \A s \in Reqs : Keeps(s)
    BY <1>5, <1>6 DEF Keeps
  <1>9. ShapeInv'
    BY <1>8, ShapeKept DEF Inv
  <1>10. \A s \in InFlight' : s # r /\ s \in Reqs /\ req'[s] = req[s]
    BY <1>5, <1>7 DEF InFlight
  <1>11. LockInv'
    <2>1. \A w \in Words : lock'[w] <=> lock[w] /\ w \notin Locked(q)
      BY <1>1, <1>2, <1>4 DEF Unlocked
    <2>2. \A s \in InFlight' : Locked(q) \cap Locked(req[s]) = {}
      BY <1>1, <1>7, <1>10 DEF Inv, LockInv, Past, InFlight, q
    <2>3. \A w \in Words : lock'[w] <=> \E s \in InFlight' : w \in Locked(req'[s])
      BY <1>7, <1>10, <2>1, <2>2 DEF Inv, LockInv, q
    <2>4. \A s \in Reqs : /\ Past(s)' => Past(s)
                          /\ req'[s].at = "checked" => req[s].at = "checked"
      BY <1>5, <1>6 DEF Past
    <2> QED
      BY <1>8, <2>3, <2>4, StayApart DEF Inv, LockInv
  <1>12. \A w \in Words : w \in Counted(q) /\ Updates(q) =>
             /\ q.opc = WRITE => crc'[w] = q.buf[w]
             /\ q.opc = UNCORR => crc'[w] = BAD
             /\ q.opc \in {ZEROES, DSM} => crc'[w] = NOMAP
             /\ q.opc \in {READ, COMPARE, FLUSH} => crc'[w] = crc[w]
    BY <1>1 DEF NewCrc, WRITE, UNCORR, ZEROES, DSM, READ, COMPARE, FLUSH
  <1>13. \A w \in Words : ~(w \in Counted(q) /\ Updates(q)) => crc'[w] = crc[w]
    BY <1>1
  <1>14. \A l : Good(l)' = Good(l)
    BY <1>1 DEF Good
  <1>15. \A w \in Words : crc'[w] \in Good(w) \cup {NOMAP}
    <2> SUFFICES ASSUME NEW w \in Words PROVE crc'[w] \in Good(w) \cup {NOMAP}
      OBVIOUS
    <2>1. crc[w] \in Good(w) \cup {NOMAP} /\ BAD \in Good(w)
      BY DEF Inv, ContentInv, Good
    <2>2. w \in Counted(q) /\ q.opc = WRITE => q.buf[w] \in Good(w)
      BY <1>1, <1>2 DEF Inv, ContentInv, q
    <2> QED
      BY <1>3, <1>12, <1>13, <2>1, <2>2
  <1>16. TypeInv'
    <2>1. \A w \in Words : crc'[w] \in Values \cup {NOMAP}
      <3>1. Words \subseteq LBAs
        BY SizeAssumption DEF Words, LBAs
      <3> QED
        BY <1>15, <3>1, GoodIsValue DEF Inv, TypeInv
    <2>2. crc' \in [Words -> Values \cup {NOMAP}]
      BY <1>1, <2>1
    <2>3. lock' \in [Words -> BOOLEAN]
      BY <1>1
    <2>4. tainted' \subseteq LBAs
      BY <1>1, <1>2 DEF Inv, TypeInv
    <2> QED
      BY <1>1, <1>6, <2>2, <2>3, <2>4 DEF Inv, TypeInv
  <1>17. \A s \in Reqs : req'[s].at = "done" => req'[s] = req[s]
    BY <1>5, <1>6
  <1>18. ContentInv'
    BY <1>1, <1>8, <1>14, <1>15, <1>17, WrittenKept DEF Inv, ContentInv
  <1>19. TableMatchesMedia'
    <2> SUFFICES ASSUME NEW w \in Words \ tainted',
                        ~ \E s \in InFlight' : Modifies(req[s])
                                               /\ w \in Extent(req[s])
                 PROVE  crc'[w] = NOMAP \/ crc'[w] = media[w]
      BY <1>1, <1>10 DEF TableMatchesMedia
    <2>1. CASE Modifies(q) /\ w \in Extent(q)
      <3>1. q.ok
        BY <1>1, <2>1
      <3>2. w \in Counted(q) /\ Updates(q)
        BY <1>2, <2>1, <3>1 DEF Updates
      <3>3. /\ q.opc = WRITE => media[w] = q.buf[w]
            /\ q.opc = UNCORR => media[w] = BAD
        BY <1>1, <1>2, <3>1, <3>2 DEF Inv, DataInv, q
      <3> QED
        BY <1>12, <2>1, <3>2, <3>3 DEF Modifies
    <2>2. CASE ~(Modifies(q) /\ w \in Extent(q))
      <3>1. w \notin tainted
        <4>1. ~Modifies(q) => tainted' = tainted
          BY <1>1
        <4>2. Modifies(q) /\ q.ok => tainted' = tainted \ Extent(q)
          BY <1>1
        <4>3. Modifies(q) /\ ~q.ok => tainted' = tainted \cup Extent(q)
          BY <1>1
        <4> QED
          BY <2>2, <4>1, <4>2, <4>3
      <3>2. crc[w] = NOMAP \/ crc[w] = media[w]
        BY <1>7, <2>2, <3>1 DEF Inv, DataInv, TableMatchesMedia, q
      <3>3. crc'[w] = crc[w]
        <4>1. CASE w \in Counted(q) /\ Updates(q)
          <5>1. q.opc \in {READ, COMPARE, FLUSH}
            BY <1>2, <1>3, <2>2, <4>1 DEF Modifies
          <5> QED
            BY <1>12, <4>1, <5>1
        <4> QED
          BY <1>13, <4>1
      <3> QED
        BY <3>2, <3>3
    <2> QED
      BY <2>1, <2>2
  <1>20. DataInv'
    <2>1. \A s \in Reqs : req[s].at = "done" /\ req[s].ok =>
             \A w \in Extent(req[s]) \cap Words :
                 /\ req[s].opc = WRITE => media[w] = req[s].buf[w]
                 /\ req[s].opc = UNCORR => media[w] = BAD
                 /\ req[s].opc = READ /\ ~req[s].corrupt =>
                        media[w] = req[s].buf[w]
      BY DEF Inv, DataInv
    <2>2. \A s \in Reqs : req'[s].at = "done" /\ req'[s].ok =>
             \A w \in Extent(req'[s]) \cap Words :
                 /\ req'[s].opc = WRITE => media[w] = req'[s].buf[w]
                 /\ req'[s].opc = UNCORR => media[w] = BAD
                 /\ req'[s].opc = READ /\ ~req'[s].corrupt =>
                        media[w] = req'[s].buf[w]
      <3> SUFFICES ASSUME NEW s \in Reqs, req'[s].at = "done"
                   PROVE  req'[s] = req[s]
        BY <2>1
      <3> QED
        BY <1>17
    <2> QED
      BY <1>1, <1>19, <2>2 DEF DataInv
  <1> QED
    BY <1>9, <1>11, <1>16, <1>18, <1>20 DEF Inv

-----------------------------------------------------------------------------
(* Sanitize and format start again from the empty table. *)
LEMMA ClearKeepsInv ==
    ASSUME Inv, ClearAll
    PROVE  Inv'
  <1>1. /\ \A r \in Reqs : req'[r].at = "free"
        /\ media' = [l \in LBAs |-> ZERO]
        /\ crc' = [w \in Words |-> NOMAP]
        /\ lock' = [w \in Words |-> FALSE]
        /\ tainted' = {}
        /\ UNCHANGED <<token, req>>
    BY DEF ClearAll
  <1>2. InFlight' = {}
    BY <1>1 DEF InFlight
  <1>3. TypeInv'
    BY <1>1 DEF Inv, TypeInv, Values
  <1>4. ShapeInv'
    BY <1>1 DEF ShapeInv
  <1>5. LockInv'
    BY <1>1, <1>2 DEF LockInv, Past
  <1>6. ContentInv'
    BY <1>1 DEF ContentInv, Good
  <1>7. DataInv'
    BY <1>1 DEF DataInv, TableMatchesMedia
  <1> QED
    BY <1>3, <1>4, <1>5, <1>6, <1>7 DEF Inv

(* A reset forgets the commands and their locks together; what the writes among
   them have left on the media is not known. *)
LEMMA ResetKeepsInv ==
    ASSUME Inv, crc32_unlock_all
    PROVE  Inv'
  <1>1. /\ lock' = [w \in Words |-> FALSE]
        /\ req' = [r \in Reqs |-> Free]
        /\ tainted' = tainted \cup UNION {Extent(req[r]) :
                        r \in {x \in InFlight : Modifies(req[x])}}
        /\ UNCHANGED <<crc, token, media>>
    BY DEF crc32_unlock_all
  <1>2. Free \in Requests /\ Free.at = "free"
    BY FreeIsRequest
  <1>3. \A r \in Reqs : req'[r].at = "free"
    BY <1>1, <1>2
  <1>4. InFlight' = {}
    BY <1>3 DEF InFlight
  <1>5. \A l : l \in tainted' <=>
            \/ l \in tainted
            \/ \E r \in InFlight : Modifies(req[r]) /\ l \in Extent(req[r])
    BY <1>1
  <1>6. TypeInv'
    <2>1. req' \in [Reqs -> Requests]
      BY <1>1, <1>2
    <2>2. tainted' \subseteq LBAs
      BY <1>5 DEF Inv, TypeInv, Extent
    <2> QED
      BY <1>1, <2>1, <2>2 DEF Inv, TypeInv
  <1>7. ShapeInv'
    BY <1>3 DEF ShapeInv
  <1>8. LockInv'
    BY <1>1, <1>3, <1>4 DEF LockInv, Past
  <1>9. ContentInv'
    <2>1. \A l : Good(l)' = Good(l)
      BY <1>1 DEF Good
    <2> QED
      BY <1>1, <1>3, <2>1 DEF Inv, ContentInv
  <1>10. DataInv'
    <2>1. \A w \in Words : w \notin tainted' => crc[w] = NOMAP \/ crc[w] = media[w]
      BY <1>5 DEF Inv, DataInv, TableMatchesMedia
    <2> QED
      BY <1>1, <1>3, <2>1 DEF DataInv, TableMatchesMedia
  <1> QED
    BY <1>6, <1>7, <1>8, <1>9, <1>10 DEF Inv

(* A step that changes nothing the invariant is about. *)
LEMMA SameKeepsInv ==
    ASSUME Inv, UNCHANGED <<lock, crc, token, media, req, tainted>>
    PROVE  Inv'
  <1>1. InFlight' = InFlight
    BY DEF InFlight
  <1>2. TypeInv'
    BY DEF Inv, TypeInv
  <1>3. ShapeInv'
    BY DEF Inv, ShapeInv
  <1>4. LockInv'
    BY <1>1 DEF Inv, LockInv, Past
  <1>5. ContentInv'
    <2>1. \A l : Good(l)' = Good(l)
      BY DEF Good
    <2> QED
      BY <2>1 DEF Inv, ContentInv
  <1>6. DataInv'
    BY <1>1 DEF Inv, DataInv, TableMatchesMedia
  <1> QED
    BY <1>2, <1>3, <1>4, <1>5, <1>6 DEF Inv

(* Every step of the specification keeps the invariant. *)
LEMMA NextKeepsInv ==
    ASSUME RegionsApart, LengthsFit, Inv, [Next]_vars
    PROVE  Inv'
  <1>1. ASSUME NEW r \in Reqs, NEW c \in Commands, ns_cmd_io(r, c)
        PROVE  Inv'
    BY <1>1, SubmitKeepsInv
  <1>2. ASSUME NEW r \in Reqs, Retry(r)
        PROVE  Inv'
    BY <1>2, RetryKeepsInv
  <1>3. ASSUME NEW r \in Reqs, crc32_lock_lba(r)
        PROVE  Inv'
    BY <1>3, LockKeepsInv
  <1>4. ASSUME NEW r \in Reqs, DeviceSucceeds(r)
        PROVE  Inv'
    BY <1>4, SucceedsExecutes, ExecuteKeepsInv
  <1>5. ASSUME NEW r \in Reqs, DeviceFails(r)
        PROVE  Inv'
    BY <1>5, FailsExecutes, ExecuteKeepsInv
  <1>6. ASSUME NEW r \in Reqs, NEW l \in LBAs, NEW other \in LBAs,
               DeviceMisreads(r, l, other)
        PROVE  Inv'
    BY <1>6, MisreadsExecutes, ExecuteKeepsInv
  <1>7. ASSUME NEW r \in Reqs, cmdlog_cmd_cpl(r)
        PROVE  Inv'
    BY <1>7, CompleteKeepsInv
  <1>8. ASSUME NEW b \in BOOLEAN, ns_verify_enable(b)
        PROVE  Inv'
    BY <1>8, SameKeepsInv DEF ns_verify_enable
  <1>9. CASE ClearAll
    BY <1>9, ClearKeepsInv
  <1>10. CASE crc32_unlock_all
    BY <1>10, ResetKeepsInv
  <1>11. CASE UNCHANGED vars
    BY <1>11, SameKeepsInv DEF vars
  <1> QED
    BY <1>1, <1>2, <1>3, <1>4, <1>5, <1>6, <1>7, <1>8, <1>9, <1>10, <1>11
    DEF Next

-----------------------------------------------------------------------------
(* What the invariant says of the lock bits. *)
LEMMA InvLocks ==
    ASSUME Inv
    PROVE  LocksMatchCommands
  <1>1. TypeOK
    <2>1. Words \subseteq LBAs
      BY SizeAssumption DEF Words, LBAs
    <2>2. \A l \in LBAs : Good(l) \subseteq Contents
      BY DEF Good, Contents
    <2>3. \A w \in Words : crc[w] \in Contents \cup {NOMAP}
      BY <2>1, <2>2 DEF Inv, ContentInv
    <2>4. \A l \in LBAs : media[l] \in Contents
      BY <2>2 DEF Inv, ContentInv
    <2> QED
      BY <2>3, <2>4 DEF Inv, TypeInv, TypeOK, Requests
  <1>2. \A r, s \in InFlight : r # s => Locked(req[r]) \cap Locked(req[s]) = {}
    BY DEF Inv, LockInv, Past, InFlight
  <1>3. \A r \in InFlight : Locked(req[r]) \subseteq Words
    BY WordsOfRequest DEF Inv, InFlight
  <1>4. \A w : w \in {v \in Words : lock[v]} <=>
                 w \in UNION {Locked(req[r]) : r \in InFlight}
    BY <1>3 DEF Inv, LockInv
  <1>5. {w \in Words : lock[w]} = UNION {Locked(req[r]) : r \in InFlight}
    BY <1>4
  <1> QED
    BY <1>1, <1>2, <1>5 DEF LocksMatchCommands

(* No write can be in flight on a word a read has locked, so the table has the
   checksum of the media there, and the read has seen the media. *)
LEMMA TableOfRead ==
    ASSUME Inv, NEW r \in Reqs, req[r].at = "done", req[r].opc = READ,
           NEW w \in Extent(req[r]) \cap Words, w \notin tainted
    PROVE  crc[w] = NOMAP \/ crc[w] = media[w]
  <1>1. r \in InFlight /\ ~Modifies(req[r]) /\ w \in Locked(req[r])
    BY WordsOfRequest DEF Inv, InFlight, Modifies, READ, WRITE, UNCORR, ZEROES,
       DSM, FLUSH
  <1>2. \A s \in InFlight : Modifies(req[s]) /\ w \in Extent(req[s]) =>
            w \in Locked(req[s])
    BY WordsOfRequest DEF Inv, InFlight, Modifies, WRITE, UNCORR, ZEROES, DSM,
       FLUSH
  <1>3. ~ \E s \in InFlight : Modifies(req[s]) /\ w \in Extent(req[s])
    BY <1>1, <1>2, InvLocks DEF LocksMatchCommands
  <1> QED
    BY <1>3 DEF Inv, DataInv, TableMatchesMedia

(* The invariant and the conditions rule out a false mismatch. *)
LEMMA InvNoFalseMismatch ==
    ASSUME Inv
    PROVE  NoFalseMismatch
  <1> SUFFICES ASSUME NEW r \in Reqs, req[r].at = "done", req[r].opc = READ,
                      req[r].ok, ~req[r].corrupt, Extent(req[r]) \cap tainted = {}
               PROVE  ~Mismatch(req[r])
    BY DEF NoFalseMismatch, ReportsError
  <1>1. Counted(req[r]) = Extent(req[r]) \cap Words /\ Extent(req[r]) \subseteq LBAs
    BY WordsOfRequest DEF Inv
  <1>2. \A w \in Counted(req[r]) : ~WrongData(req[r], w)
    <2> TAKE w \in Counted(req[r])
    <2>1. crc[w] = NOMAP \/ crc[w] = media[w]
      BY <1>1, TableOfRead
    <2>2. media[w] = req[r].buf[w]
      BY <1>1 DEF Inv, DataInv
    <2> QED
      BY <2>1, <2>2 DEF WrongData
  <1>3. \A l \in Extent(req[r]) : ~WrongLba(req[r], l)
    <2> TAKE l \in Extent(req[r])
    <2>1. req[r].buf[l] \in Good(l) /\ req[r].buf[l] # BAD
      BY DEF Inv, ContentInv
    <2>2. req[r].buf[l] = ZERO \/ \E t \in 1 .. token : req[r].buf[l] = <<l, t>>
      BY <2>1 DEF Good
    <2> QED
      BY <2>2 DEF WrongLba
  <1> QED
    BY <1>2, <1>3 DEF Mismatch

(* The invariant and the conditions rule out a missed corruption. *)
LEMMA InvCorruptionReported ==
    ASSUME Inv
    PROVE  CorruptionReported
  <1> SUFFICES ASSUME NEW r \in Reqs, enabled, req[r].at = "done",
                      req[r].opc = READ, req[r].ok,
                      NEW w \in Extent(req[r]) \cap Words,
                      req[r].buf[w] # media[w], crc[w] # NOMAP, w \notin tainted
               PROVE  Mismatch(req[r])
    BY DEF CorruptionReported, ReportsError
  <1>1. w \in Counted(req[r])
    BY WordsOfRequest DEF Inv
  <1>2. crc[w] = media[w]
    BY TableOfRead
  <1> QED
    BY <1>1, <1>2 DEF Mismatch, WrongData

-----------------------------------------------------------------------------
(* For any number of processes, requests, LBAs and commands whose regions are
   apart and whose lengths fit: the invariant holds in every behaviour of the
   submissions, retries, completions and resets. *)
THEOREM InvAlways ==
    ASSUME RegionsApart, LengthsFit
    PROVE  Spec => []Inv
  <1>1. Init => Inv
    BY InitInv
  <1>2. Inv /\ [Next]_vars => Inv'
    BY NextKeepsInv
  <1> QED
    BY <1>1, <1>2, PTL DEF Spec

(* crc32_lock_lba and crc32_unlock_lba: the lock bits of the table are exactly
   the LBAs of the commands in flight, and no two of these share an LBA. *)
THEOREM LocksAlwaysMatch ==
    ASSUME RegionsApart, LengthsFit
    PROVE  Spec => []LocksMatchCommands
  <1>1. Inv => LocksMatchCommands
    BY InvLocks
  <1> QED
    BY <1>1, InvAlways, PTL

(* cmdlog_update_crc_io: wherever no write is in flight and none has failed, a
   checksum of the table is that of what the device holds. *)
THEOREM TableAlwaysMatches ==
    ASSUME RegionsApart, LengthsFit
    PROVE  Spec => []TableMatchesMedia
  <1>1. Inv => TableMatchesMedia
    BY DEF Inv, DataInv
  <1> QED
    BY <1>1, InvAlways, PTL

(* buffer_verify_data: the read of a correct device is never reported as a
   mismatch. *)
THEOREM NeverFalseMismatch ==
    ASSUME RegionsApart, LengthsFit
    PROVE  Spec => []NoFalseMismatch
  <1>1. Inv => NoFalseMismatch
    BY InvNoFalseMismatch
  <1> QED
    BY <1>1, InvAlways, PTL

(* buffer_verify_data: while verification is enabled, a read of a written LBA
   that returned anything else than the media is always reported. *)
THEOREM CorruptionAlwaysReported ==
    ASSUME RegionsApart, LengthsFit
    PROVE  Spec => []CorruptionReported
  <1>1. Inv => CorruptionReported
    BY InvCorruptionReported
  <1> QED
    BY <1>1, InvAlways, PTL
=============================================================================
