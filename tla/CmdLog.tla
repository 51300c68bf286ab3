------------------------------- MODULE CmdLog -------------------------------
(***************************************************************************)
(* The command log of one queue pair (src/driver.c, "cmd log"): a ring of  *)
(* CMD_LOG_DEPTH entries that every submitted command is written into, and *)
(* that every completion looks its command up in.  An entry points to its  *)
(* request and the request points back (req->cmdlog_entry).  When the ring *)
(* wraps onto an entry whose command has not completed, that entry moves   *)
(* to freshly allocated memory, and the completion frees it.               *)
(*                                                                         *)
(* A command is named by its serial number, the count of commands logged   *)
(* so far; opcode, dwords and buffer are part of that name.  What a        *)
(* completion does to the checksum table is in module DataVerify; here it  *)
(* is the set of commands whose effect was applied.                        *)
(***************************************************************************)
EXTENDS Integers, FiniteSets, Sequences

CONSTANTS Reqs,           \* the request objects of the queue pair
          NoReq,          \* the NULL request pointer
          CMD_LOG_DEPTH,  \* entries of the ring
          Heap,           \* addresses spdk_dma_zmalloc can return
          MaxCmds         \* bound: commands logged in one behaviour

Slots == 0 .. CMD_LOG_DEPTH - 1
Addrs == Slots \cup Heap
NULL  == -1

ASSUME DepthAssumption == CMD_LOG_DEPTH \in Nat \ {0}
ASSUME ReqsAssumption  == NoReq \notin Reqs
ASSUME HeapAssumption  == Heap \subseteq (Nat \ Slots)
ASSUME BoundAssumption == MaxCmds \in Nat

VARIABLES entry,         \* memory of the entries: ring slots and heap copies
          tail_index,
          head_index,
          latest_cid,
          cmdlog_entry,  \* req->cmdlog_entry
          allocated,     \* heap addresses in use
          phase,         \* where each request is: free, queued or sent
          cmd,           \* the command a sent request carries
          sent,          \* commands logged so far
          applied,       \* commands whose effect the checksum table got
          asserted       \* an assert of cmdlog_cmd_cpl has failed

vars == <<entry, tail_index, head_index, latest_cid, cmdlog_entry, allocated,
          phase, cmd, sent, applied, asserted>>

Cmds == 1 .. MaxCmds
NoCmd == 0

Entry == [req : Reqs \cup {NoReq}, cmd : 0 .. MaxCmds,
          completed : BOOLEAN, overlap_allocated : BOOLEAN]

EmptyEntry == [req |-> NoReq, cmd |-> NoCmd,
               completed |-> FALSE, overlap_allocated |-> FALSE]

(* cmdlog_init: the memzone comes zeroed. *)
cmdlog_init ==
    /\ entry = [a \in Addrs |-> EmptyEntry]
    /\ tail_index = 0
    /\ head_index = 0
    /\ latest_cid = NoCmd

Init ==
    /\ cmdlog_init
    /\ cmdlog_entry = [r \in Reqs |-> NULL]
    /\ allocated = {}
    /\ phase = [r \in Reqs |-> "free"]
    /\ cmd = [r \in Reqs |-> NoCmd]
    /\ sent = 0
    /\ applied = {}
    /\ asserted = FALSE

-----------------------------------------------------------------------------
(* The ring arithmetic of cmdlog_add_cmd. *)
IncIndex(i) == IF i + 1 = CMD_LOG_DEPTH THEN 0 ELSE i + 1

(* head_index as cmdlog_add_cmd leaves it: the incremented value is stored
   only in the branch that wraps it to 0. *)
NextHead(head, tail) ==
    IF head = tail /\ head + 1 = CMD_LOG_DEPTH THEN 0 ELSE head

(* The entry a command gets: it is not completed (latency 0), not a copy. *)
NewEntry(r) == [req |-> r, cmd |-> sent + 1,
                completed |-> FALSE, overlap_allocated |-> FALSE]

(* The allocated copy of a pending entry that is about to be overwritten. *)
MutHeapCopy_AfterOverwrite(old) ==
    [old EXCEPT !.overlap_allocated = TRUE, !.cmd = sent + 1]

HeapCopy(old) == [old EXCEPT !.overlap_allocated = TRUE]

(* The links of a command's request and of the request it displaces to a. *)
Relink(r, a) == [cmdlog_entry EXCEPT ![entry[tail_index].req] = a,
                                     ![r] = tail_index]

(* What cmdlog_cmd_cpl frees at the end: the entry, when it is a copy. *)
MutFreedBy_Never(a) == {}

FreedBy(a) == IF entry[a].overlap_allocated THEN {a} ELSE {}

(* A request is created; SPDK holds it until the command is accepted. *)
NewRequest(r) ==
    /\ phase[r] = "free"
    /\ phase' = [phase EXCEPT ![r] = "queued"]
    /\ UNCHANGED <<entry, tail_index, head_index, latest_cid, cmdlog_entry,
                   allocated, cmd, sent, applied, asserted>>

(* What every call of cmdlog_add_cmd does besides the entry and the link. *)
Commit(r) ==
    /\ latest_cid' = sent + 1
    /\ tail_index' = IncIndex(tail_index)
    /\ head_index' = NextHead(head_index, IncIndex(tail_index))
    /\ sent' = sent + 1
    /\ cmd' = [cmd EXCEPT ![r] = sent + 1]
    /\ phase' = [phase EXCEPT ![r] = "sent"]
    /\ UNCHANGED <<applied, asserted>>

(* cmdlog_add_cmd when the entry at the tail is free. *)
AddToFreeEntry(r) ==
    /\ phase[r] = "queued" /\ sent < MaxCmds
    /\ entry[tail_index].req = NoReq
    /\ entry' = [entry EXCEPT ![tail_index] = NewEntry(r)]
    /\ cmdlog_entry' = [cmdlog_entry EXCEPT ![r] = tail_index]
    /\ UNCHANGED allocated
    /\ Commit(r)

(* cmdlog_add_cmd when the entry at the tail is of a pending command. *)
AddOverlapping(r) ==
    /\ phase[r] = "queued" /\ sent < MaxCmds
    /\ entry[tail_index].req # NoReq
    /\ \E a \in Heap \ allocated :
         /\ entry' = [entry EXCEPT ![a] = HeapCopy(entry[tail_index]),
                                   ![tail_index] = NewEntry(r)]
         /\ cmdlog_entry' = Relink(r, a)
         /\ allocated' = allocated \cup {a}
    /\ Commit(r)

cmdlog_add_cmd(r) == AddToFreeEntry(r) \/ AddOverlapping(r)

(* cmdlog_cmd_cpl for a request that never got an entry: returns at once. *)
CompleteUnlogged(r) ==
    /\ phase[r] = "queued"
    /\ cmdlog_entry[r] = NULL
    /\ phase' = [phase EXCEPT ![r] = "free"]
    /\ UNCHANGED <<entry, tail_index, head_index, latest_cid, cmdlog_entry,
                   allocated, cmd, sent, applied, asserted>>

(* cmdlog_cmd_cpl for a request with an entry; ok says that the checksum
   table takes the command's effect. *)
CompleteLogged(r, ok) ==
    /\ phase[r] = "sent"
    /\ cmdlog_entry[r] # NULL
    /\ LET a == cmdlog_entry[r] IN
       /\ asserted' = (asserted \/ entry[a].req # r)
       /\ entry' = [entry EXCEPT ![a].completed = TRUE, ![a].req = NoReq]
       /\ applied' = IF ok THEN applied \cup {entry[a].cmd} ELSE applied
       /\ allocated' = allocated \ FreedBy(a)
    /\ cmdlog_entry' = [cmdlog_entry EXCEPT ![r] = NULL]
    /\ cmd' = [cmd EXCEPT ![r] = NoCmd]
    /\ phase' = [phase EXCEPT ![r] = "free"]
    /\ UNCHANGED <<tail_index, head_index, latest_cid, sent>>

cmdlog_cmd_cpl(r) ==
    CompleteUnlogged(r) \/ \E ok \in BOOLEAN : CompleteLogged(r, ok)

Next == \E r \in Reqs : NewRequest(r) \/ cmdlog_add_cmd(r) \/ cmdlog_cmd_cpl(r)

Spec == Init /\ [][Next]_vars

-----------------------------------------------------------------------------
(* log_cmd_dump: the index of turn k, counted back from the tail; it wraps
   at slot 0 to the end of the ring. *)
MutBackSlot_FromTail(k) == IF k <= tail_index + 1 THEN tail_index + 1 - k
                           ELSE tail_index + 1 - k + CMD_LOG_DEPTH

BackSlot(k) == IF k <= tail_index THEN tail_index - k
               ELSE tail_index - k + CMD_LOG_DEPTH

DumpCount(count) ==
    IF count = 0 \/ count > CMD_LOG_DEPTH THEN CMD_LOG_DEPTH ELSE count

(* What each turn of the loop prints: the entry, or nothing for a slot that
   was never used. *)
log_cmd_dump(count) ==
    [k \in 1 .. DumpCount(count) |->
        {e \in {entry[BackSlot(k)]} : e.cmd # NoCmd}]

(* What a script sees: Qpair.cmdlog and Qpair.latest_cid. *)
cmdlog(count) == log_cmd_dump(count)

qpair_get_latest_cid == latest_cid

TypeOK ==
    /\ entry \in [Addrs -> Entry]
    /\ tail_index \in Slots
    /\ head_index \in Slots
    /\ latest_cid \in 0 .. MaxCmds
    /\ cmdlog_entry \in [Reqs -> Addrs \cup {NULL}]
    /\ allocated \subseteq Heap
    /\ phase \in [Reqs -> {"free", "queued", "sent"}]
    /\ cmd \in [Reqs -> 0 .. MaxCmds]
    /\ sent \in 0 .. MaxCmds
    /\ applied \subseteq Cmds
    /\ asserted \in BOOLEAN

(* The assert(false) of cmdlog_cmd_cpl ("check if the log entry is still for
   this completed cmd") is never reached: however often the ring wraps over
   pending commands, a completion finds the entry of its own request. *)
AssertNeverFails == ~asserted

(* The entry a pending request points to is its own: same request, same
   command, not yet completed.  cmdlog_update_crc and cmdlog_verify_crc work
   on that entry's command and buffer. *)
PendingHasOwnEntry ==
    \A r \in Reqs : phase[r] = "sent" =>
        /\ cmdlog_entry[r] \in Slots \cup allocated
        /\ entry[cmdlog_entry[r]].req = r
        /\ entry[cmdlog_entry[r]].cmd = cmd[r]
        /\ ~entry[cmdlog_entry[r]].completed

(* Every heap copy belongs to a pending request, so a quiet queue pair holds
   no heap memory: the free in cmdlog_cmd_cpl matches the allocation in
   cmdlog_add_cmd. *)
NoLeakedCopy ==
    allocated = {cmdlog_entry[r] : r \in Reqs} \cap Heap

(* What log_cmd_dump prints is the latest commands, newest first, none
   missing and none twice, for every count the caller asks for: turn k prints
   the k-th latest command, and nothing only when there were fewer commands.
   latest_cid is that of the first one printed, the latest one submitted. *)
DumpIsNewestFirst ==
    \A count \in 0 .. CMD_LOG_DEPTH + 1 : \A k \in DOMAIN cmdlog(count) :
        /\ k <= sent => \E e \in cmdlog(count)[k] :
                           /\ cmdlog(count)[k] = {e}
                           /\ e.cmd = sent + 1 - k
                           /\ k = 1 => qpair_get_latest_cid = e.cmd
        /\ k > sent => cmdlog(count)[k] = {}

(* A completion applies the effect of the command it completes and of no
   other one to the checksum table, and never the same command twice. *)
AppliesOwnCommand ==
    [][applied' # applied =>
         \E r \in Reqs : /\ phase[r] = "sent" /\ phase'[r] = "free"
                         /\ cmd[r] \notin applied
                         /\ applied' = applied \cup {cmd[r]}]_vars
=============================================================================
