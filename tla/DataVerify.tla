----------------------------- MODULE DataVerify -----------------------------
(***************************************************************************)
(* Data verification (src/driver.c, "crc32 table" and the completion path  *)
(* of "cmd log"): a table shared by all processes with one word per LBA, a *)
(* checksum of what the LBA should read as, and a lock bit held while a    *)
(* command on the LBA is in flight.  A command that meets a locked LBA is  *)
(* put on queued_req and retried.  A completed write updates the checksums *)
(* and a completed read is compared with them.                             *)
(*                                                                         *)
(* The content of a block is the pair of words ns_cmd_io puts into it, its *)
(* LBA and a token that no other write uses; a checksum is injective on    *)
(* contents.  Every request has a data buffer of its own until it is       *)
(* complete.  Lengths are 16 bit numbers in the code; WRAP is 2^16 here.   *)
(* tainted is history: LBAs whose last write failed or was abandoned, of   *)
(* which nobody knows what they hold.                                      *)
(***************************************************************************)
EXTENDS Integers, FiniteSets, Sequences, FiniteSetsExt

CONSTANTS Reqs, Procs,
          Owner,       \* the process of each request
          Commands,    \* what a request may ask: opcode and LBA ranges
          Region,      \* the LBAs a process works on
          NLB,         \* LBAs of the namespace
          TABLE,       \* LBAs the table covers (nlba_verify)
          WRAP,        \* one more than the largest uint16_t
          MaxCmds      \* bound: commands submitted

LBAs == 0 .. NLB - 1
Words == 0 .. TABLE - 1

ASSUME SizeAssumption == NLB \in Nat /\ TABLE \in 0 .. NLB
ASSUME WrapAssumption == WRAP \in Nat \ {0}
ASSUME OwnerAssumption == Owner \in [Reqs -> Procs]

WRITE == 1
READ == 2
UNCORR == 4
COMPARE == 5
ZEROES == 8
DSM == 9
FLUSH == 0

(* A script chooses the LBAs as it likes; only dsm has several ranges. *)
ASSUME CommandsAssumption ==
    \A c \in Commands :
        /\ c.opc \in {WRITE, READ, UNCORR, COMPARE, ZEROES, DSM, FLUSH}
        /\ c.ranges \in Seq(Nat \X Nat)
        /\ c.opc # DSM => Len(c.ranges) = 1

(* Checksum words and block contents that are not written data. *)
NOMAP == <<"nomapping">>
BAD == <<"uncorrectable">>
ZERO == <<"zero">>

NoData == [l \in {} |-> ZERO]

VARIABLES lock,      \* bit 31 of each table word
          crc,       \* the other 31 bits
          enabled,   \* crc_table->enabled
          token,     \* *g_driver_io_token_ptr
          media,     \* what each LBA of the device holds
          req,       \* the requests
          submitted, \* commands submitted so far
          tainted

vars == <<lock, crc, enabled, token, media, req, submitted, tainted>>

Free == [at |-> "free", opc |-> FLUSH, ranges |-> <<>>, buf |-> NoData,
         ok |-> TRUE, corrupt |-> FALSE]

Init ==
    /\ lock = [w \in Words |-> FALSE]
    /\ crc = [w \in Words |-> NOMAP]
    /\ enabled \in BOOLEAN
    /\ token = 1
    /\ media = [l \in LBAs |-> ZERO]
    /\ req = [r \in Reqs |-> Free]
    /\ submitted = 0
    /\ tainted = {}

-----------------------------------------------------------------------------
(* The table words of a range, cut off at the end of the table. *)
WordsOf(slba, nlb) == {w \in Words : slba <= w /\ w < slba + nlb}

(* The LBAs a command is about, as the device sees them. *)
Extent(q) ==
    {l \in LBAs : \E i \in DOMAIN q.ranges :
         q.ranges[i][1] <= l /\ l < q.ranges[i][1] + q.ranges[i][2]}

(* crc32_set_lock_bits takes the length as it is. *)
Locked(q) == IF q.opc = FLUSH THEN {}
             ELSE UNION {WordsOf(q.ranges[i][1], q.ranges[i][2]) :
                           i \in DOMAIN q.ranges}

(* crc32_check_lock_bits takes the length as a uint16_t. *)
MutChecked_OneShort(q) ==
    UNION {WordsOf(q.ranges[i][1], q.ranges[i][2] - 1) : i \in DOMAIN q.ranges}

Checked(q) == IF q.opc = FLUSH THEN {}
              ELSE UNION {WordsOf(q.ranges[i][1], q.ranges[i][2] % WRAP) :
                            i \in DOMAIN q.ranges}

(* The words cmdlog_update_crc_io and cmdlog_verify_crc touch: their
   lba_count is a uint16_t, the lengths of dsm ranges are not cut. *)
MutCounted_OneShort(q) ==
    UNION {WordsOf(q.ranges[i][1], q.ranges[i][2] - 1) : i \in DOMAIN q.ranges}

Counted(q) ==
    IF q.opc = DSM THEN Locked(q)
    ELSE UNION {WordsOf(q.ranges[i][1], q.ranges[i][2] % WRAP) :
                  i \in DOMAIN q.ranges}

(* A process runs no other step between the check and the lock. *)
Idle(p) == ~ \E r \in Reqs : Owner[r] = p /\ req[r].at = "checked"

CanLock(q) == \A w \in Checked(q) : ~lock[w]

(* ns_cmd_io: a write is filled with LBAs and tokens; then crc32_lock_lba
   looks for locked LBAs, and the request goes to queued_req if it finds one. *)
Fill(q) == [l \in Extent(q) |-> <<l, token + l - Min(Extent(q))>>]

ns_cmd_io(r, c) ==
    /\ req[r].at = "free" /\ Idle(Owner[r]) /\ submitted < MaxCmds
    /\ Extent(c) \subseteq Region[Owner[r]]
    /\ req' = [req EXCEPT ![r] =
                 [at |-> IF CanLock(c) THEN "checked" ELSE "queued",
                  opc |-> c.opc, ranges |-> c.ranges,
                  buf |-> IF c.opc = WRITE THEN Fill(c) ELSE NoData,
                  ok |-> TRUE, corrupt |-> FALSE]]
    /\ token' = IF c.opc = WRITE THEN token + c.ranges[1][2] ELSE token
    /\ submitted' = submitted + 1
    /\ UNCHANGED <<lock, crc, enabled, media, tainted>>

(* One queued request is tried again. *)
Retry(r) ==
    /\ req[r].at = "queued" /\ Idle(Owner[r]) /\ CanLock(req[r])
    /\ req' = [req EXCEPT ![r].at = "checked"]
    /\ UNCHANGED <<lock, crc, enabled, token, media, submitted, tainted>>

(* The second half of crc32_lock_lba; the command goes to the device. *)
crc32_lock_lba(r) ==
    /\ req[r].at = "checked"
    /\ lock' = [w \in Words |-> lock[w] \/ w \in Locked(req[r])]
    /\ req' = [req EXCEPT ![r].at = "device"]
    /\ UNCHANGED <<crc, enabled, token, media, submitted, tainted>>

-----------------------------------------------------------------------------
(* External: the device executes commands one at a time, in any order.  A
   failed command may have changed some of its LBAs. *)
Written(q) ==
    CASE q.opc = WRITE  -> {q.buf}
      [] q.opc = ZEROES -> {[l \in Extent(q) |-> ZERO]}
      [] q.opc = UNCORR -> {[l \in Extent(q) |-> BAD]}
      [] q.opc = DSM    -> {[l \in Extent(q) |-> ZERO],
                            [l \in Extent(q) |-> media[l]]}
      [] OTHER          -> {NoData}

Overlay(f, s) == [l \in LBAs |-> IF l \in s THEN f[l] ELSE media[l]]

DeviceSucceeds(r) ==
    /\ req[r].at = "device"
    /\ req[r].opc = READ => \A l \in Extent(req[r]) : media[l] # BAD
    /\ \E f \in Written(req[r]) : media' = Overlay(f, DOMAIN f)
    /\ req' = [req EXCEPT ![r] =
                 [@ EXCEPT !.at = "done",
                           !.buf = IF req[r].opc = READ
                                   THEN [l \in Extent(req[r]) |-> media[l]]
                                   ELSE req[r].buf]]
    /\ UNCHANGED <<lock, crc, enabled, token, submitted, tainted>>

DeviceFails(r) ==
    /\ req[r].at = "device"
    /\ \E f \in Written(req[r]) :
         \E s \in SUBSET DOMAIN f : media' = Overlay(f, s)
    /\ req' = [req EXCEPT ![r].at = "done", ![r].ok = FALSE]
    /\ UNCHANGED <<lock, crc, enabled, token, submitted, tainted>>

(* A faulty device returns the block of another LBA, or an empty one. *)
DeviceMisreads(r, l, other) ==
    /\ req[r].at = "device" /\ req[r].opc = READ
    /\ l \in Extent(req[r]) /\ media[l] # media[other]
    /\ media[other] # BAD
    /\ \A k \in Extent(req[r]) : media[k] # BAD
    /\ req' = [req EXCEPT ![r] =
                 [@ EXCEPT !.at = "done", !.corrupt = TRUE,
                           !.buf = [k \in Extent(req[r]) |->
                                      IF k = l THEN media[other] ELSE media[k]]]]
    /\ UNCHANGED <<lock, crc, enabled, token, media, submitted, tainted>>

-----------------------------------------------------------------------------
(* cmdlog_verify_crc: buffer_verify_lba, then buffer_verify_data.  A wrong LBA
   fails whatever the second check says; an LBA word of 0 is let through. *)
WrongLba(q, l) == q.buf[l] # ZERO /\ q.buf[l][1] \notin {l, 0}

MutWrongData_UncorrOnly(q, w) == crc[w] = BAD

WrongData(q, w) == crc[w] # NOMAP /\ crc[w] # q.buf[w]

Mismatch(q) ==
    \/ \E l \in Extent(q) : q.ranges[1][2] % WRAP # 0 /\ WrongLba(q, l)
    \/ \E w \in Counted(q) : WrongData(q, w)

(* cmdlog_update_crc_io; the stores also clear the lock bits. *)
Updates(q) == q.ok \/ q.opc = UNCORR

MutNewCrc_ZeroesKept(q, w) ==
    CASE q.opc = WRITE -> q.buf[w] [] q.opc = UNCORR -> BAD
      [] q.opc = DSM -> NOMAP [] OTHER -> crc[w]

NewCrc(q, w) ==
    CASE q.opc = WRITE           -> q.buf[w]
      [] q.opc = UNCORR          -> BAD
      [] q.opc \in {ZEROES, DSM} -> NOMAP
      [] OTHER                   -> crc[w]

Modifies(q) == q.opc \in {WRITE, UNCORR, ZEROES, DSM}

(* crc32_unlock_lba. *)
Unlocked(q) == Locked(q)

(* cmdlog_cmd_cpl for a logged io command, then crc32_unlock_lba: the status
   the caller sees is an error if the command failed or the data mismatch. *)
cmdlog_cmd_cpl(r) ==
    LET q == req[r] IN
    /\ q.at = "done" /\ Idle(Owner[r])
    /\ crc' = [w \in Words |-> IF Updates(q) /\ w \in Counted(q)
                               THEN NewCrc(q, w) ELSE crc[w]]
    /\ lock' = [w \in Words |->
                  /\ lock[w] /\ w \notin Unlocked(q)
                  /\ ~(Updates(q) /\ Modifies(q) /\ w \in Counted(q))]
    /\ req' = [req EXCEPT ![r] = Free]
    /\ tainted' = IF ~Modifies(q) THEN tainted
                  ELSE IF q.ok THEN tainted \ Extent(q)
                  ELSE tainted \cup Extent(q)
    /\ UNCHANGED <<enabled, token, media, submitted>>

(* The status seen by the callback is an error. *)
ReportsError(q) == ~q.ok \/ (enabled /\ q.opc = READ /\ Mismatch(q))

InFlight == {r \in Reqs : req[r].at \in {"device", "done"}}

-----------------------------------------------------------------------------
ns_verify_enable(b) ==
    /\ enabled # b /\ enabled' = b
    /\ UNCHANGED <<lock, crc, token, media, req, submitted, tainted>>

(* Sanitize (cmdlog_update_crc_admin) or format (ns_refresh) with no command
   in flight: the device is empty and so is the table, lock bits included. *)
ClearAll ==
    /\ \A r \in Reqs : req[r].at = "free"
    /\ media' = [l \in LBAs |-> ZERO]
    /\ crc' = [w \in Words |-> NOMAP]
    /\ lock' = [w \in Words |-> FALSE]
    /\ tainted' = {}
    /\ UNCHANGED <<enabled, token, req, submitted>>

(* A reset while workers run (Pcie._driver_cleanup): their commands are gone,
   executed or not, and crc32_unlock_all clears every lock bit. *)
crc32_unlock_all ==
    /\ \E r \in Reqs : req[r].at # "free"
    /\ lock' = [w \in Words |-> FALSE]
    /\ req' = [r \in Reqs |-> Free]
    /\ tainted' = tainted \cup UNION {Extent(req[r]) :
                    r \in {x \in InFlight : Modifies(req[x])}}
    /\ UNCHANGED <<crc, enabled, token, media, submitted>>

Next ==
    \/ \E r \in Reqs : \/ \E c \in Commands : ns_cmd_io(r, c)
                       \/ Retry(r) \/ crc32_lock_lba(r)
                       \/ DeviceSucceeds(r) \/ DeviceFails(r)
                       \/ \E l, other \in LBAs : DeviceMisreads(r, l, other)
                       \/ cmdlog_cmd_cpl(r)
    \/ \E b \in BOOLEAN : ns_verify_enable(b)
    \/ ClearAll \/ crc32_unlock_all

Spec == Init /\ [][Next]_vars

-----------------------------------------------------------------------------
(* What the documentation asks of a script that wants its data verified: no
   two processes on the same LBAs; and no command so long that its length does
   not fit in 16 bits. *)
RegionsApart ==
    \A p, o \in Procs : p # o => Region[p] \cap Region[o] = {}

LengthsFit ==
    \A c \in Commands : \A i \in DOMAIN c.ranges : c.ranges[i][2] < WRAP

Contents == {ZERO, BAD} \cup {<<l, t>> : l \in LBAs, t \in 1 .. token}

TypeOK ==
    /\ lock \in [Words -> BOOLEAN]
    /\ DOMAIN crc = Words /\ \A w \in Words : crc[w] \in Contents \cup {NOMAP}
    /\ DOMAIN media = LBAs /\ \A l \in LBAs : media[l] \in Contents
    /\ \A r \in Reqs : req[r].at \in {"free", "checked", "queued", "device",
                                      "done"}
    /\ tainted \subseteq LBAs

(* The lock bits are exactly the LBAs of the commands in flight, and no two of
   these share an LBA, although the check and the lock are two steps and the
   words are shared by all processes: no command has lost a bit to somebody
   else's update of the same word, and no bit stays set behind, which would
   keep queued requests waiting for ever. *)
LocksMatchCommands ==
    /\ TypeOK
    /\ \A r, s \in InFlight : r # s => Locked(req[r]) \cap Locked(req[s]) = {}
    /\ {w \in Words : lock[w]} = UNION {Locked(req[r]) : r \in InFlight}

(* Wherever no write is in flight, the table is unmapped or has the checksum
   of what the device holds.  Completions come in any order, so this fails as
   soon as two writes to one LBA are in flight together. *)
TableMatchesMedia ==
    \A w \in Words \ tainted :
        \/ \E r \in InFlight : Modifies(req[r]) /\ w \in Extent(req[r])
        \/ crc[w] = NOMAP
        \/ crc[w] = media[w]

(* "reliable in one ioworker": a read of a correct device is never reported
   as a data mismatch, unless a failed or abandoned write left the content of
   one of its LBAs unknown. *)
NoFalseMismatch ==
    \A r \in Reqs :
        LET q == req[r] IN
        q.at = "done" /\ q.opc = READ /\ q.ok /\ ~q.corrupt
          /\ Extent(q) \cap tainted = {} => ~ReportsError(q)

(* A wrong block returned for an LBA that was written is always reported
   while verification is enabled. *)
CorruptionReported ==
    \A r \in Reqs :
        LET q == req[r] IN
        /\ enabled /\ q.at = "done" /\ q.opc = READ /\ q.ok
        /\ \E w \in Extent(q) \cap Words :
              q.buf[w] # media[w] /\ crc[w] # NOMAP /\ w \notin tainted
        => ReportsError(q)
=============================================================================
