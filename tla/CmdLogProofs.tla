---------------------------- MODULE CmdLogProofs ----------------------------
(***************************************************************************)
(* Theorems about CmdLog, for any number of requests, any ring depth and   *)
(* any amount of heap: a completion always finds the entry of its own      *)
(* request, no copy leaks, each command is applied at most once, and the   *)
(* dump is the latest commands, newest first.                              *)
(*                                                                         *)
(* None of these is inductive by itself.  LinkInv is: requests and entries *)
(* point at each other one to one, in the ring and in the heap copies, and *)
(* an entry is a copy exactly when it is in the heap.  RingInv is what the *)
(* dump needs: the ring read backwards is the history of commands.         *)
(***************************************************************************)
EXTENDS CmdLog, TLAPS

Live == Slots \cup allocated

(* A sent request and its entry. *)
EntryOf(r) ==
    /\ cmdlog_entry[r] \in Live
    /\ entry[cmdlog_entry[r]].req = r
    /\ entry[cmdlog_entry[r]].cmd = cmd[r]
    /\ ~entry[cmdlog_entry[r]].completed

(* A live entry with a request, and the request that points to it. *)
RequestOf(a) ==
    /\ phase[entry[a].req] = "sent"
    /\ cmdlog_entry[entry[a].req] = a

LinkInv ==
    /\ \A r \in Reqs : phase[r] = "sent" => EntryOf(r)
    /\ \A r \in Reqs : phase[r] # "sent" => cmdlog_entry[r] = NULL
    /\ \A a \in Live : entry[a].req # NoReq => RequestOf(a)
    /\ \A a \in allocated : entry[a].req # NoReq
    /\ \A a \in Live : entry[a].overlap_allocated <=> a \in Heap
    /\ ~asserted

(* Commands in flight are numbered apart and were not applied yet. *)
NumInv ==
    /\ \A r \in Reqs : phase[r] = "sent" =>
          cmd[r] \in 1 .. sent /\ cmd[r] \notin applied
    /\ \A q, r \in Reqs : phase[q] = "sent" /\ phase[r] = "sent" /\ q # r =>
          cmd[q] # cmd[r]
    /\ applied \subseteq 1 .. sent

Inv == TypeOK /\ LinkInv /\ NumInv

USE DEF Addrs, NULL, NoCmd, Cmds

(* The two kinds of address never coincide, and neither is NULL. *)
LEMMA AddressFacts ==
    /\ \A a \in Heap : a \notin Slots /\ a # -1 /\ a \in Int
    /\ \A a \in Slots : a # -1 /\ a \in Int
  BY DepthAssumption, HeapAssumption DEF Slots

(* IncIndex wraps inside the ring. *)
LEMMA IncIndexInRing == \A i \in Slots : IncIndex(i) \in Slots
  BY DepthAssumption DEF Slots, IncIndex

(* NextHead stays inside the ring. *)
LEMMA NextHeadInRing == \A h, t \in Slots : NextHead(h, t) \in Slots
  BY DepthAssumption DEF Slots, NextHead

(* What cmdlog_add_cmd does to the counters keeps their types. *)
LEMMA CommitType ==
    ASSUME TypeOK, NEW r \in Reqs, Commit(r), sent < MaxCmds
    PROVE  /\ tail_index' \in Slots /\ head_index' \in Slots
           /\ latest_cid' \in 0 .. MaxCmds /\ sent' \in 0 .. MaxCmds
           /\ cmd' \in [Reqs -> 0 .. MaxCmds]
           /\ phase' \in [Reqs -> {"free", "queued", "sent"}]
           /\ applied' \subseteq Cmds
           /\ asserted' \in BOOLEAN
  <1>1. tail_index' \in Slots /\ head_index' \in Slots
    BY IncIndexInRing, NextHeadInRing DEF Commit, TypeOK
  <1>2. sent + 1 \in 0 .. MaxCmds
    BY BoundAssumption DEF TypeOK
  <1> QED
    BY <1>1, <1>2 DEF Commit, TypeOK

(* A command gets the next number. *)
LEMMA CommitNum ==
    ASSUME Inv, NEW r \in Reqs, Commit(r)
    PROVE  NumInv'
  <1>1. sent \in Nat /\ sent' = sent + 1 /\ applied' = applied
    BY BoundAssumption DEF Commit, Inv, TypeOK
  <1>2. \A q \in Reqs : phase'[q] = "sent" =>
            cmd'[q] = IF q = r THEN sent + 1 ELSE cmd[q]
    BY DEF Commit, Inv, TypeOK
  <1>3. \A q \in Reqs \ {r} : phase'[q] = phase[q]
    BY DEF Commit, Inv, TypeOK
  <1> QED
    BY <1>1, <1>2, <1>3 DEF Inv, NumInv

(* The entry a command gets is well formed. *)
LEMMA NewEntryType ==
    ASSUME TypeOK, NEW r \in Reqs, sent < MaxCmds
    PROVE  NewEntry(r) \in Entry
  BY BoundAssumption DEF TypeOK, NewEntry, Entry

(* The initial state satisfies the invariant. *)
LEMMA InitInv == Init => Inv
  <1> SUFFICES ASSUME Init PROVE Inv
    OBVIOUS
  <1>1. EmptyEntry \in Entry
    BY BoundAssumption DEF EmptyEntry, Entry
  <1>2. 0 \in Slots
    BY DepthAssumption DEF Slots
  <1>3. TypeOK
    <2>1. entry \in [Addrs -> Entry]
      BY <1>1 DEF Init, cmdlog_init
    <2>2. asserted \in BOOLEAN
      BY DEF Init
    <2>3. cmdlog_entry \in [Reqs -> Addrs \cup {NULL}]
      BY DEF Init
    <2> QED
      BY <2>1, <2>2, <2>3, <1>2, BoundAssumption DEF Init, cmdlog_init, TypeOK
  <1>4. LinkInv
    BY AddressFacts DEF Init, cmdlog_init, LinkInv, Live, EmptyEntry
  <1>5. NumInv
    BY DEF Init, NumInv
  <1> QED
    BY <1>3, <1>4, <1>5 DEF Inv

-----------------------------------------------------------------------------
(* Creating a request touches no entry and no link. *)
LEMMA NewRequestInv ==
    ASSUME Inv, NEW r \in Reqs, NewRequest(r)
    PROVE  Inv'
  <1>1. TypeOK'
    BY DEF Inv, TypeOK, NewRequest
  <1>2. LinkInv'
    BY DEF Inv, TypeOK, LinkInv, Live, EntryOf, RequestOf, NewRequest
  <1>3. NumInv'
    BY DEF Inv, TypeOK, NumInv, NewRequest
  <1> QED
    BY <1>1, <1>2, <1>3 DEF Inv

(* A command is written into a free entry of the ring. *)
LEMMA AddToFreeEntryInv ==
    ASSUME Inv, NEW r \in Reqs, AddToFreeEntry(r)
    PROVE  Inv'
  <1> USE DEF AddToFreeEntry
  <1>1. TypeOK'
    <2>1. entry' \in [Addrs -> Entry]
      BY NewEntryType DEF Inv, TypeOK
    <2>2. cmdlog_entry' \in [Reqs -> Addrs \cup {NULL}]
      BY DEF Inv, TypeOK
    <2> QED
      BY <2>1, <2>2, CommitType DEF Inv, TypeOK
  <1>2. ASSUME NEW q \in Reqs, phase'[q] = "sent" PROVE EntryOf(q)'
    <2>1. CASE q = r
      BY <2>1 DEF Inv, TypeOK, Live, EntryOf, Commit, NewEntry
    <2>2. CASE q # r
      <3>1. phase[q] = "sent" /\ cmd'[q] = cmd[q]
            /\ cmdlog_entry'[q] = cmdlog_entry[q]
        BY <2>2, <1>2 DEF Commit, Inv, TypeOK
      <3>2. EntryOf(q)
        BY <3>1 DEF Inv, LinkInv
      <3>3. cmdlog_entry[q] # tail_index
        BY <3>2, ReqsAssumption DEF EntryOf
      <3> QED
        BY <3>1, <3>2, <3>3 DEF EntryOf, Live, Inv, TypeOK
    <2> QED
      BY <2>1, <2>2
  <1>3. \A q \in Reqs : (phase[q] # "sent")' => (cmdlog_entry[q] = NULL)'
    BY DEF Inv, TypeOK, LinkInv, Commit
  <1>4. \A a \in Live' : (entry[a].req # NoReq)' => RequestOf(a)'
    BY DEF Inv, TypeOK, LinkInv, Live, EntryOf, RequestOf, Commit, NewEntry
  <1>5. \A a \in allocated' : (entry[a].req # NoReq)'
    BY AddressFacts DEF Inv, TypeOK, LinkInv
  <1>6. \A a \in Live' : (entry[a].overlap_allocated <=> a \in Heap)'
    BY AddressFacts DEF Inv, TypeOK, LinkInv, Live, NewEntry
  <1>7. (~asserted)'
    BY DEF Inv, LinkInv, Commit
  <1>8. NumInv'
    BY CommitNum
  <1> QED
    BY <1>1, <1>2, <1>3, <1>4, <1>5, <1>6, <1>7, <1>8 DEF Inv, LinkInv

(* A command displaces a pending one, whose entry moves to the heap. *)
LEMMA AddOverlappingInv ==
    ASSUME Inv, NEW r \in Reqs, AddOverlapping(r)
    PROVE  Inv'
  <1> DEFINE old == entry[tail_index]
  <1> PICK a \in Heap \ allocated :
         /\ entry' = [entry EXCEPT ![a] = HeapCopy(old),
                                   ![tail_index] = NewEntry(r)]
         /\ cmdlog_entry' = Relink(r, a)
         /\ allocated' = allocated \cup {a}
    BY DEF AddOverlapping
  <1>0. /\ phase[r] = "queued" /\ sent < MaxCmds /\ Commit(r)
        /\ old.req # NoReq
    BY DEF AddOverlapping
  <1>a. /\ tail_index \in Live /\ a \in Addrs /\ tail_index \in Addrs
        /\ a # tail_index /\ a \notin Live /\ old \in Entry
    BY AddressFacts DEF Inv, TypeOK, Live
  <1>b. /\ old.req \in Reqs /\ old.req # r
        /\ phase[old.req] = "sent" /\ cmdlog_entry[old.req] = tail_index
        /\ old.cmd = cmd[old.req] /\ ~old.completed
    BY <1>0, <1>a DEF Inv, LinkInv, RequestOf, EntryOf, Entry
  <1>c. /\ entry'[a] = HeapCopy(old) /\ entry'[tail_index] = NewEntry(r)
        /\ \A b \in Addrs \ {a, tail_index} : entry'[b] = entry[b]
    BY <1>a DEF Inv, TypeOK
  <1>d. /\ cmdlog_entry'[r] = tail_index /\ cmdlog_entry'[old.req] = a
        /\ \A q \in Reqs \ {r, old.req} : cmdlog_entry'[q] = cmdlog_entry[q]
    BY <1>b DEF Inv, TypeOK, Relink
  <1>e. /\ cmd' = [cmd EXCEPT ![r] = sent + 1]
        /\ phase' = [phase EXCEPT ![r] = "sent"] /\ asserted' = asserted
    BY <1>0 DEF Commit
  <1>f. /\ HeapCopy(old).req = old.req /\ HeapCopy(old).cmd = old.cmd
        /\ HeapCopy(old).completed = old.completed
        /\ HeapCopy(old).overlap_allocated = TRUE /\ HeapCopy(old) \in Entry
    BY <1>a DEF HeapCopy, Entry
  <1>g. /\ NewEntry(r).req = r /\ NewEntry(r).cmd = sent + 1
        /\ NewEntry(r).completed = FALSE
        /\ NewEntry(r).overlap_allocated = FALSE
    BY DEF NewEntry
  <1> HIDE DEF old
  <1>1. TypeOK'
    <2>1. entry' \in [Addrs -> Entry]
      BY <1>0, <1>a, <1>f, NewEntryType DEF Inv, TypeOK, old
    <2>2. cmdlog_entry' \in [Reqs -> Addrs \cup {NULL}]
      BY <1>a DEF Inv, TypeOK, Relink
    <2>3. allocated' \subseteq Heap
      BY DEF Inv, TypeOK
    <2> QED
      BY <2>1, <2>2, <2>3, <1>0, CommitType DEF Inv, TypeOK
  <1>2. ASSUME NEW q \in Reqs, phase'[q] = "sent" PROVE EntryOf(q)'
    <2>1. CASE q = r
      BY <2>1, <1>a, <1>c, <1>d, <1>e, <1>g DEF EntryOf, Live, Inv, TypeOK
    <2>2. CASE q = old.req
      BY <2>2, <1>a, <1>b, <1>c, <1>d, <1>e, <1>f
      DEF EntryOf, Live, Inv, TypeOK
    <2>3. CASE q # r /\ q # old.req
      <3>1. phase[q] = "sent" /\ cmd'[q] = cmd[q]
        BY <2>3, <1>2, <1>e DEF Inv, TypeOK
      <3>2. EntryOf(q) /\ cmdlog_entry'[q] = cmdlog_entry[q]
        BY <3>1, <2>3, <1>d DEF Inv, LinkInv
      <3>3. cmdlog_entry[q] \in Live
        BY <3>2 DEF EntryOf
      <3>4. cmdlog_entry[q] # tail_index
        BY <3>2, <2>3, <1>b DEF EntryOf, old
      <3>5. entry'[cmdlog_entry[q]] = entry[cmdlog_entry[q]]
        BY <3>3, <3>4, <1>a, <1>c DEF Live, Inv, TypeOK
      <3> QED
        BY <3>1, <3>2, <3>5 DEF EntryOf, Live
    <2> QED
      BY <2>1, <2>2, <2>3
  <1>3. ASSUME NEW q \in Reqs, phase'[q] # "sent" PROVE cmdlog_entry'[q] = NULL
    BY <1>3, <1>b, <1>d, <1>e DEF Inv, TypeOK, LinkInv
  <1>4. ASSUME NEW b \in Live', entry'[b].req # NoReq PROVE RequestOf(b)'
    <2>1. CASE b = a
      BY <2>1, <1>b, <1>c, <1>d, <1>e, <1>f DEF RequestOf, Inv, TypeOK
    <2>2. CASE b = tail_index
      BY <2>2, <1>c, <1>d, <1>e, <1>g DEF RequestOf, Inv, TypeOK
    <2>3. CASE b # a /\ b # tail_index
      <3>1. b \in Live /\ entry'[b] = entry[b]
        BY <2>3, <1>4, <1>c DEF Live, Inv, TypeOK
      <3>2. RequestOf(b) /\ entry[b].req \in Reqs
        BY <3>1, <1>4 DEF Inv, LinkInv, TypeOK, Entry, Live
      <3>3. entry[b].req # old.req /\ entry[b].req # r
        BY <3>2, <2>3, <1>b, <1>0 DEF RequestOf
      <3> QED
        BY <3>1, <3>2, <3>3, <1>d, <1>e DEF RequestOf, Inv, TypeOK
    <2> QED
      BY <2>1, <2>2, <2>3
  <1>5. ASSUME NEW b \in allocated' PROVE entry'[b].req # NoReq
    <2>1. CASE b = a
      BY <2>1, <1>b, <1>c, <1>f, ReqsAssumption
    <2>2. CASE b # a
      BY <2>2, <1>c, AddressFacts DEF Inv, TypeOK, LinkInv
    <2> QED
      BY <2>1, <2>2
  <1>6. ASSUME NEW b \in Live' PROVE entry'[b].overlap_allocated <=> b \in Heap
    <2>1. CASE b = a
      BY <2>1, <1>c, <1>f
    <2>2. CASE b = tail_index
      BY <2>2, <1>c, <1>g, AddressFacts DEF Inv, TypeOK
    <2>3. CASE b # a /\ b # tail_index
      BY <2>3, <1>c DEF Inv, TypeOK, LinkInv, Live
    <2> QED
      BY <2>1, <2>2, <2>3
  <1>7. ~asserted'
    BY <1>e DEF Inv, LinkInv
  <1>8. NumInv'
    BY <1>0, CommitNum
  <1> QED
    BY <1>1, <1>2, <1>3, <1>4, <1>5, <1>6, <1>7, <1>8 DEF Inv, LinkInv

(* A request that never got an entry completes. *)
LEMMA CompleteUnloggedInv ==
    ASSUME Inv, NEW r \in Reqs, CompleteUnlogged(r)
    PROVE  Inv'
  <1>1. TypeOK'
    BY DEF Inv, TypeOK, CompleteUnlogged
  <1>2. LinkInv'
    BY DEF Inv, TypeOK, LinkInv, Live, EntryOf, RequestOf, CompleteUnlogged
  <1>3. NumInv'
    BY DEF Inv, TypeOK, NumInv, CompleteUnlogged
  <1> QED
    BY <1>1, <1>2, <1>3 DEF Inv

(* A logged command completes: its entry is released, and freed if a copy. *)
LEMMA CompleteLoggedInv ==
    ASSUME Inv, NEW r \in Reqs, NEW ok \in BOOLEAN, CompleteLogged(r, ok)
    PROVE  Inv'
  <1> DEFINE a == cmdlog_entry[r]
  <1>a. /\ phase[r] = "sent" /\ a \in Live /\ a \in Addrs
        /\ entry[a].req = r /\ entry[a].cmd = cmd[r] /\ entry[a] \in Entry
    BY DEF CompleteLogged, Inv, TypeOK, LinkInv, EntryOf, Live
  <1>b. /\ entry' = [entry EXCEPT ![a].completed = TRUE, ![a].req = NoReq]
        /\ applied' = IF ok THEN applied \cup {entry[a].cmd} ELSE applied
        /\ allocated' = allocated \ FreedBy(a)
        /\ cmdlog_entry' = [cmdlog_entry EXCEPT ![r] = NULL]
        /\ cmd' = [cmd EXCEPT ![r] = NoCmd]
        /\ phase' = [phase EXCEPT ![r] = "free"]
        /\ UNCHANGED <<tail_index, head_index, latest_cid, sent>>
    BY DEF CompleteLogged
  <1>c. /\ \A b \in Addrs \ {a} : entry'[b] = entry[b]
        /\ entry'[a] = [entry[a] EXCEPT !.completed = TRUE, !.req = NoReq]
    BY <1>a, <1>b DEF Inv, TypeOK
  <1>d. ~asserted'
    BY <1>a DEF CompleteLogged, Inv, LinkInv
  <1>e. Live' \subseteq Live /\ Live \subseteq Addrs
    BY <1>b DEF Live, Inv, TypeOK
  <1>f. a \notin allocated'
    BY <1>a, <1>b, AddressFacts DEF Inv, LinkInv, FreedBy, Live, TypeOK
  <1> HIDE DEF a
  <1>1. TypeOK'
    <2>1. entry' \in [Addrs -> Entry]
      BY <1>a, <1>b DEF Inv, TypeOK, Entry
    <2>2. applied' \subseteq Cmds
      <3>1. r \in Reqs /\ cmd[r] \in 0 .. MaxCmds
        BY DEF Inv, TypeOK
      <3>2. cmd[r] # NoCmd
        BY <1>a DEF Inv, NumInv
      <3> QED
        BY <3>1, <3>2, <1>a, <1>b DEF Inv, TypeOK
    <2>3. asserted' \in BOOLEAN
      BY DEF CompleteLogged
    <2>4. cmd' \in [Reqs -> 0 .. MaxCmds]
      BY <1>b, BoundAssumption DEF Inv, TypeOK
    <2>5. cmdlog_entry' \in [Reqs -> Addrs \cup {NULL}]
      BY <1>b DEF Inv, TypeOK
    <2>6. /\ phase' \in [Reqs -> {"free", "queued", "sent"}]
          /\ allocated' \subseteq Heap
      BY <1>b DEF Inv, TypeOK
    <2> QED
      BY <2>1, <2>2, <2>3, <2>4, <2>5, <2>6, <1>b DEF Inv, TypeOK
  <1>2. ASSUME NEW q \in Reqs, phase'[q] = "sent" PROVE EntryOf(q)'
    <2>1. q # r /\ phase[q] = "sent" /\ cmd'[q] = cmd[q]
          /\ cmdlog_entry'[q] = cmdlog_entry[q]
      BY <1>2, <1>b DEF Inv, TypeOK
    <2>2. EntryOf(q)
      BY <2>1 DEF Inv, LinkInv
    <2>3. cmdlog_entry[q] # a
      BY <2>1, <2>2, <1>a DEF EntryOf
    <2>4. cmdlog_entry[q] \in Live'
      BY <2>2, <2>3, <1>b DEF EntryOf, Live, FreedBy
    <2> QED
      BY <2>1, <2>2, <2>3, <2>4, <1>c, <1>e DEF EntryOf
  <1>3. ASSUME NEW q \in Reqs, phase'[q] # "sent" PROVE cmdlog_entry'[q] = NULL
    BY <1>3, <1>b DEF Inv, TypeOK, LinkInv
  <1>4. ASSUME NEW b \in Live', entry'[b].req # NoReq PROVE RequestOf(b)'
    <2>1. b # a
      BY <1>4, <1>a, <1>c DEF Entry
    <2>2. entry'[b] = entry[b] /\ b \in Live /\ b \in Addrs
      BY <2>1, <1>c, <1>e
    <2>3. RequestOf(b) /\ entry[b].req \in Reqs
      BY <2>2, <1>4 DEF Inv, LinkInv, TypeOK, Entry
    <2>4. entry[b].req # r
      BY <2>1, <2>3 DEF RequestOf, a
    <2> QED
      BY <2>2, <2>3, <2>4, <1>b DEF RequestOf, Inv, TypeOK
  <1>5. ASSUME NEW b \in allocated' PROVE entry'[b].req # NoReq
    BY <1>b, <1>c, <1>f DEF Inv, TypeOK, LinkInv
  <1>6. ASSUME NEW b \in Live' PROVE entry'[b].overlap_allocated <=> b \in Heap
    <2>1. entry'[b].overlap_allocated = entry[b].overlap_allocated
      BY <1>a, <1>c, <1>e DEF Entry
    <2> QED
      BY <2>1, <1>e DEF Inv, LinkInv
  <1>7. NumInv'
    <2>1. \A q \in Reqs : phase'[q] = "sent" =>
              q # r /\ phase[q] = "sent" /\ cmd'[q] = cmd[q]
      BY <1>b DEF Inv, TypeOK
    <2>2. applied' \subseteq applied \cup {cmd[r]}
      BY <1>a, <1>b
    <2> QED
      BY <2>1, <2>2, <1>a, <1>b DEF Inv, NumInv
  <1> QED
    BY <1>1, <1>2, <1>3, <1>4, <1>5, <1>6, <1>7, <1>d DEF Inv, LinkInv

-----------------------------------------------------------------------------
(* Every step preserves the invariant. *)
LEMMA NextInv == Inv /\ [Next]_vars => Inv'
  <1> SUFFICES ASSUME Inv, [Next]_vars PROVE Inv'
    OBVIOUS
  <1>1. ASSUME NEW r \in Reqs, NewRequest(r) PROVE Inv'
    BY <1>1, NewRequestInv
  <1>2. ASSUME NEW r \in Reqs, cmdlog_add_cmd(r) PROVE Inv'
    BY <1>2, AddToFreeEntryInv, AddOverlappingInv DEF cmdlog_add_cmd
  <1>3. ASSUME NEW r \in Reqs, cmdlog_cmd_cpl(r) PROVE Inv'
    BY <1>3, CompleteUnloggedInv, CompleteLoggedInv DEF cmdlog_cmd_cpl
  <1>4. CASE UNCHANGED vars
    BY <1>4 DEF vars, Inv, TypeOK, LinkInv, NumInv, Live, EntryOf, RequestOf
  <1> QED
    BY <1>1, <1>2, <1>3, <1>4 DEF Next

(* The invariant holds in every reachable state. *)
THEOREM InvAlways == Spec => []Inv
  BY InitInv, NextInv, PTL DEF Spec

(* Type correctness of the command log, for every depth. *)
THEOREM TypeAlways == Spec => []TypeOK
  <1>1. Inv => TypeOK
    BY DEF Inv
  <1> QED
    BY <1>1, InvAlways, PTL

(* The assert(false) of cmdlog_cmd_cpl is unreachable. *)
THEOREM AssertHolds == Spec => []AssertNeverFails
  <1>1. Inv => AssertNeverFails
    BY DEF Inv, LinkInv, AssertNeverFails
  <1> QED
    BY <1>1, InvAlways, PTL

(* The entry of a pending request is its own, however often the ring wraps. *)
THEOREM OwnEntry == Spec => []PendingHasOwnEntry
  <1>1. Inv => PendingHasOwnEntry
    BY DEF Inv, LinkInv, PendingHasOwnEntry, EntryOf, Live
  <1> QED
    BY <1>1, InvAlways, PTL

(* The heap copies are exactly the entries of pending displaced commands. *)
THEOREM NoLeak == Spec => []NoLeakedCopy
  <1>1. Inv => NoLeakedCopy
    <2> SUFFICES ASSUME Inv PROVE NoLeakedCopy
      OBVIOUS
    <2>1. ASSUME NEW a \in allocated
          PROVE  \E r \in Reqs : cmdlog_entry[r] = a
      <3>1. entry[a].req \in Reqs /\ RequestOf(a)
        BY DEF Inv, TypeOK, LinkInv, Entry, Live
      <3> QED
        BY <3>1 DEF RequestOf
    <2>2. ASSUME NEW r \in Reqs, cmdlog_entry[r] \in Heap
          PROVE  cmdlog_entry[r] \in allocated
      BY <2>2, AddressFacts DEF Inv, TypeOK, LinkInv, EntryOf, Live
    <2> QED
      BY <2>1, <2>2 DEF NoLeakedCopy, Inv, TypeOK
  <1> QED
    BY <1>1, InvAlways, PTL

(* A completion applies its own command, and no command is applied twice. *)
THEOREM AppliesOnce == Spec => AppliesOwnCommand
  <1> DEFINE Applies ==
        applied' # applied =>
          \E r \in Reqs : /\ phase[r] = "sent" /\ phase'[r] = "free"
                          /\ cmd[r] \notin applied
                          /\ applied' = applied \cup {cmd[r]}
  <1>1. Inv /\ [Next]_vars => [Applies]_vars
    <2> SUFFICES ASSUME Inv, Next PROVE Applies
      OBVIOUS
    <2>1. ASSUME NEW r \in Reqs, NewRequest(r) PROVE Applies
      BY <2>1 DEF NewRequest
    <2>2. ASSUME NEW r \in Reqs, cmdlog_add_cmd(r) PROVE Applies
      BY <2>2 DEF cmdlog_add_cmd, AddToFreeEntry, AddOverlapping, Commit
    <2>3. ASSUME NEW r \in Reqs, CompleteUnlogged(r) PROVE Applies
      BY <2>3 DEF CompleteUnlogged
    <2>4. ASSUME NEW r \in Reqs, NEW ok \in BOOLEAN, CompleteLogged(r, ok)
          PROVE  Applies
      <3>1. EntryOf(r) /\ cmd[r] \notin applied
        BY <2>4 DEF CompleteLogged, Inv, LinkInv, NumInv
      <3>2. phase[r] = "sent" /\ phase'[r] = "free"
        BY <2>4 DEF CompleteLogged, Inv, TypeOK
      <3>3. applied' = applied \/ applied' = applied \cup {cmd[r]}
        BY <2>4, <3>1 DEF CompleteLogged, EntryOf
      <3> QED
        BY <3>1, <3>2, <3>3
    <2> QED
      BY <2>1, <2>2, <2>3, <2>4 DEF Next, cmdlog_cmd_cpl
  <1> QED
    BY <1>1, InvAlways, PTL DEF Spec, AppliesOwnCommand

-----------------------------------------------------------------------------
(* The ring read backwards from the tail is the history of commands, back to
   the first one or once round. *)
RingInv ==
    /\ \A k \in 1 .. CMD_LOG_DEPTH :
          entry[BackSlot(k)].cmd = IF k <= sent THEN sent + 1 - k ELSE 0
    /\ latest_cid = sent

(* The slots behind the tail are slots of the ring. *)
LEMMA BackSlotInRing ==
    ASSUME TypeOK, NEW k \in 1 .. CMD_LOG_DEPTH
    PROVE  BackSlot(k) \in Slots
  BY DepthAssumption DEF TypeOK, Slots, BackSlot

(* When the tail advances, the slot it leaves is the first one behind it, and
   every other one is one turn further back, none of them the slot it left. *)
LEMMA BackSlotShifts ==
    ASSUME TypeOK, tail_index' = IncIndex(tail_index),
           NEW k \in 1 .. CMD_LOG_DEPTH
    PROVE  /\ k = 1 => BackSlot(k)' = tail_index
           /\ k # 1 => /\ k - 1 \in 1 .. CMD_LOG_DEPTH
                       /\ BackSlot(k)' = BackSlot(k - 1)
                       /\ BackSlot(k)' # tail_index
  BY DepthAssumption DEF TypeOK, Slots, BackSlot, IncIndex

(* cmdlog_add_cmd writes the newest command where the tail was and leaves the
   other slots of the ring alone. *)
LEMMA AddRing ==
    ASSUME TypeOK, RingInv, NEW r \in Reqs, Commit(r),
           entry'[tail_index].cmd = sent + 1,
           \A a \in Slots \ {tail_index} : entry'[a] = entry[a]
    PROVE  RingInv'
  <1>1. sent' = sent + 1 /\ latest_cid' = sent' /\ sent \in Nat
    BY BoundAssumption DEF Commit, TypeOK
  <1>2. tail_index' = IncIndex(tail_index)
    BY DEF Commit
  <1> SUFFICES ASSUME NEW k \in 1 .. CMD_LOG_DEPTH
               PROVE  entry'[BackSlot(k)'].cmd =
                          IF k <= sent' THEN sent' + 1 - k ELSE 0
    BY <1>1 DEF RingInv
  <1>3. CASE k = 1
    <2>1. BackSlot(k)' = tail_index
      BY <1>2, <1>3, BackSlotShifts
    <2> QED
      BY <1>1, <1>3, <2>1
  <1>4. CASE k # 1
    <2>1. /\ k - 1 \in 1 .. CMD_LOG_DEPTH
          /\ BackSlot(k)' = BackSlot(k - 1)
          /\ BackSlot(k)' # tail_index
      BY <1>2, <1>4, BackSlotShifts
    <2>2. BackSlot(k - 1) \in Slots
      BY <2>1, BackSlotInRing
    <2>3. entry'[BackSlot(k)'] = entry[BackSlot(k - 1)]
      BY <2>1, <2>2
    <2>4. entry[BackSlot(k - 1)].cmd =
              IF k - 1 <= sent THEN sent + 1 - (k - 1) ELSE 0
      BY <2>1 DEF RingInv
    <2> QED
      BY <1>1, <2>3, <2>4
  <1> QED
    BY <1>3, <1>4

(* The other operations leave the tail, the counters and the command in each
   slot alone. *)
LEMMA KeepRing ==
    ASSUME TypeOK, RingInv,
           UNCHANGED <<tail_index, sent, latest_cid>>,
           \A a \in Slots : entry'[a].cmd = entry[a].cmd
    PROVE  RingInv'
  <1>1. ASSUME NEW k \in 1 .. CMD_LOG_DEPTH PROVE BackSlot(k)' = BackSlot(k)
    BY DEF BackSlot
  <1>2. ASSUME NEW k \in 1 .. CMD_LOG_DEPTH PROVE BackSlot(k) \in Slots
    BY BackSlotInRing
  <1> QED
    BY <1>1, <1>2 DEF RingInv

(* Every step keeps the ring the history of commands. *)
LEMMA NextRing == TypeOK /\ RingInv /\ [Next]_vars => RingInv'
  <1> SUFFICES ASSUME TypeOK, RingInv, [Next]_vars PROVE RingInv'
    OBVIOUS
  <1>1. ASSUME NEW r \in Reqs, NewRequest(r) PROVE RingInv'
    BY <1>1, KeepRing DEF NewRequest
  <1>2. ASSUME NEW r \in Reqs, AddToFreeEntry(r) PROVE RingInv'
    <2>1. /\ entry'[tail_index].cmd = sent + 1
          /\ \A a \in Slots \ {tail_index} : entry'[a] = entry[a]
      BY <1>2 DEF AddToFreeEntry, TypeOK, NewEntry
    <2> QED
      BY <1>2, <2>1, AddRing DEF AddToFreeEntry
  <1>3. ASSUME NEW r \in Reqs, AddOverlapping(r) PROVE RingInv'
    <2>1. PICK a \in Heap :
             entry' = [entry EXCEPT ![a] = HeapCopy(entry[tail_index]),
                                    ![tail_index] = NewEntry(r)]
      BY <1>3 DEF AddOverlapping
    <2>2. a \notin Slots
      BY AddressFacts
    <2>3. /\ entry'[tail_index].cmd = sent + 1
          /\ \A b \in Slots \ {tail_index} : entry'[b] = entry[b]
      BY <2>1, <2>2 DEF TypeOK, NewEntry
    <2> QED
      BY <1>3, <2>3, AddRing DEF AddOverlapping
  <1>4. ASSUME NEW r \in Reqs, CompleteUnlogged(r) PROVE RingInv'
    BY <1>4, KeepRing DEF CompleteUnlogged
  <1>5. ASSUME NEW r \in Reqs, NEW ok \in BOOLEAN, CompleteLogged(r, ok)
        PROVE  RingInv'
    <2>1. \A a \in Slots : entry'[a].cmd = entry[a].cmd
      BY <1>5 DEF CompleteLogged, TypeOK, Entry
    <2> QED
      BY <1>5, <2>1, KeepRing DEF CompleteLogged
  <1>6. CASE UNCHANGED vars
    BY <1>6, KeepRing DEF vars
  <1> QED
    BY <1>1, <1>2, <1>3, <1>4, <1>5, <1>6
    DEF Next, cmdlog_add_cmd, cmdlog_cmd_cpl

(* The dump of the log is the latest commands, newest first, none missing and
   none twice, for every ring depth and every count asked for. *)
THEOREM DumpAlwaysNewestFirst == Spec => []DumpIsNewestFirst
  <1>1. Init => RingInv
    <2> SUFFICES ASSUME Init PROVE RingInv
      OBVIOUS
    <2>1. ASSUME NEW k \in 1 .. CMD_LOG_DEPTH PROVE BackSlot(k) \in Slots
      BY DepthAssumption DEF Init, cmdlog_init, Slots, BackSlot
    <2> QED
      BY <2>1 DEF Init, cmdlog_init, RingInv, EmptyEntry
  <1>2. TypeOK /\ RingInv => DumpIsNewestFirst
    <2> SUFFICES ASSUME TypeOK, RingInv,
                        NEW count \in 0 .. CMD_LOG_DEPTH + 1,
                        NEW k \in DOMAIN cmdlog(count)
                 PROVE  /\ k <= sent => \E e \in cmdlog(count)[k] :
                                          /\ cmdlog(count)[k] = {e}
                                          /\ e.cmd = sent + 1 - k
                                          /\ k = 1 => latest_cid = e.cmd
                        /\ k > sent => cmdlog(count)[k] = {}
      BY DEF DumpIsNewestFirst, qpair_get_latest_cid
    <2> DEFINE old == entry[BackSlot(k)]
    <2>1. /\ k \in 1 .. DumpCount(count)
          /\ cmdlog(count)[k] = {e \in {old} : e.cmd # 0}
      BY DEF cmdlog, log_cmd_dump
    <2>2. k \in 1 .. CMD_LOG_DEPTH /\ sent \in Nat
      BY <2>1, DepthAssumption, BoundAssumption DEF DumpCount, TypeOK
    <2>3. old.cmd = IF k <= sent THEN sent + 1 - k ELSE 0
      BY <2>2 DEF RingInv
    <2>4. CASE k <= sent
      <3>1. old.cmd = sent + 1 - k /\ old.cmd # 0
        BY <2>2, <2>3, <2>4
      <3>2. cmdlog(count)[k] = {old}
        BY <2>1, <3>1
      <3>3. k = 1 => latest_cid = old.cmd
        BY <2>2, <3>1 DEF RingInv
      <3>4. ~(k > sent)
        BY <2>2, <2>4
      <3> HIDE DEF old
      <3> QED
        BY <3>1, <3>2, <3>3, <3>4
    <2>5. CASE k > sent
      <3>1. old.cmd = 0 /\ ~(k <= sent)
        BY <2>2, <2>3, <2>5
      <3> QED
        BY <2>1, <3>1
    <2> QED
      BY <2>2, <2>4, <2>5
  <1> QED
    BY <1>1, <1>2, NextRing, InvAlways, TypeAlways, PTL DEF Spec
=============================================================================
