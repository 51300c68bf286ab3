---------------------------- MODULE IOWorkerLba ----------------------------
(***************************************************************************)
(* Which LBAs an io worker sends its commands to (src/ioworker.c,          *)
(* ioworker_send_one_lba and the tables it uses; the checks and defaults   *)
(* of Namespace.ioworker in src/driver_wrap.pyx).  Sizes, randomness and   *)
(* the draws of random() are choices; addresses are 64-bit unsigned        *)
(* numbers, taken modulo U64.  Time, queue and completion of the commands  *)
(* are in module IOWorker.                                                 *)
(***************************************************************************)
EXTENDS Integers, Sequences, FiniteSets, SequencesExt

CONSTANTS Args,      \* argument records of Namespace.ioworker
          NSZE,      \* blocks of the namespace
          TABLE,     \* blocks the checksum table has words for
          SECTIONS,  \* sections of a distribution, 100 in the code
          U64,       \* 2^64 in the code
          MaxIO      \* bound: commands sent in one behaviour

VARIABLES raw,             \* the arguments as the script gave them
          sequential_lba,
          uncorr,          \* LBAs whose word in the table is 0x7fffffff
          cmd,             \* the latest command; count 0 before the first one
          issued,          \* commands sent
          covered,         \* LBAs of all commands sent
          total,           \* blocks of all commands sent
          asserted         \* an assert of the code has failed

vars == <<raw, sequential_lba, uncorr, cmd, issued, covered, total, asserted>>

FULL == U64 - 1   \* region_end's default, 0xffffffffffffffff

ALIGN_UP(n, a) == IF n % a = 0 THEN n ELSE n + a - (n % a)

ALIGN_DOWN(n, a) == n - (n % a)

MinOf(a, b) == IF a < b THEN a ELSE b
LargestOf(S) == CHOOSE x \in S : \A y \in S : y <= x
SmallestOf(S) == CHOOSE x \in S : \A y \in S : x <= y

-----------------------------------------------------------------------------
(* What Namespace.ioworker accepts.  An argument record has the sizes as a
   sequence of [size, ratio, align], a single one standing for an int; its
   field bad has the LBAs marked uncorrectable before the worker starts. *)
OneSize(a) == Len(a.sizes) = 1

Accepted(a) ==
    /\ a.region_start < a.region_end
    /\ ~OneSize(a) => \A i \in DOMAIN a.sizes :
                          a.sizes[i].size < a.region_end - a.region_start
    /\ a.distribution # <<>> => /\ a.region_start = 0
                                /\ a.region_end = FULL
                                /\ a.lba_random = 100

(* "for pure sequential io, fill region one pass". *)
FillsRegion(a) ==
    /\ a.lba_random = 0 /\ OneSize(a) /\ a.region_end # FULL
    /\ a.time = 0 /\ a.io_count = 0

MutIoCount_RoundsDown(a) ==
    IF FillsRegion(a)
    THEN (a.region_end - a.region_start) \div a.sizes[1].size
    ELSE a.io_count

IoCount(a) ==
    IF FillsRegion(a)
    THEN (a.region_end - a.region_start + a.sizes[1].size - 1)
             \div a.sizes[1].size
    ELSE a.io_count

(* lba_size_list: a single size is cut to the region. *)
SizeOf(i) == IF OneSize(raw)
             THEN MinOf(raw.sizes[1].size, raw.region_end - raw.region_start)
             ELSE raw.sizes[i].size

AlignOf(i) == raw.sizes[i].align

(* ioworker_iosize_init: one place of sl_table for every unit of ratio. *)
sl_table == FlattenSeq([i \in DOMAIN raw.sizes |->
                           [j \in 1 .. raw.sizes[i].ratio |-> i]])

-----------------------------------------------------------------------------
(* "revise args" of ioworker_entry. *)
lba_align_max(a) == LargestOf({a.sizes[i].align : i \in DOMAIN a.sizes})

RegionStart(a) == ALIGN_UP(a.region_start, lba_align_max(a))

RegionEnd(a) == MinOf(NSZE, a.region_end)

LbaStart(a) == IF a.lba_start < RegionStart(a) THEN RegionStart(a)
                                               ELSE a.lba_start

region_start == RegionStart(raw)
region_end   == RegionEnd(raw)

(* ioworker_distribution_init: where section i (from 0) starts and ends. *)
SectionStart(i) == (NSZE \div SECTIONS) * i

SectionEnd(i) == IF i = SECTIONS - 1 THEN region_end
                 ELSE SectionStart(i) + NSZE \div SECTIONS

dl_table == FlattenSeq([i \in 1 .. SECTIONS |->
                [j \in 1 .. raw.distribution[i] |->
                    [lba_start |-> SectionStart(i - 1),
                     lba_end   |-> SectionEnd(i - 1)]]])

Init ==
    /\ raw \in {a \in Args : Accepted(a)}
    /\ sequential_lba = LbaStart(raw)
    /\ uncorr = raw.bad
    /\ cmd = [lba |-> 0, count |-> 0, align |-> 1, is_random |-> FALSE]
    /\ issued = 0
    /\ covered = {}
    /\ total = 0
    /\ asserted = FALSE

-----------------------------------------------------------------------------
MutSequential_NoWrap == sequential_lba

ioworker_send_one_lba_sequential ==
    IF sequential_lba >= region_end THEN region_start ELSE sequential_lba

(* crc32_skip_uncorr: the LBAs it may return.  The walk does not look at the
   end of the table; what lies behind it is memory of someone else, and the
   walk is taken to end there or one word later. *)
crc32_skip_uncorr(slba) ==
    LET good == (slba .. TABLE - 1) \ uncorr
    IN  IF slba >= TABLE THEN {slba}
        ELSE IF good # {} THEN {SmallestOf(good)}
        ELSE {TABLE, TABLE + 1}

(* The ranges a random LBA is drawn from: the sections, or the region. *)
Ranges == IF raw.distribution # <<>> THEN ToSet(dl_table)
          ELSE {[lba_start |-> region_start, lba_end |-> region_end]}

(* The LBAs of a range random() can give; "end == start" returns start. *)
Draws(r) == IF r.lba_start = r.lba_end THEN {r.lba_start}
            ELSE r.lba_start .. r.lba_end - 1

(* The LBA of the command: aligned up, and when that is not in the region,
   down to the last aligned LBA before it. *)
Placed(lba, align) ==
    LET up == ALIGN_UP(lba, align)
    IN  IF up >= region_end THEN ALIGN_DOWN((up - 1) % U64, align) ELSE up

(* "setup for next sequential io". *)
NextSequential(lba, count) ==
    (lba + IF raw.lba_step_valid THEN raw.lba_step ELSE count) % U64

(* "trancate the tail out of the region". *)
MutTruncated_No(lba, count) == count

Truncated(lba, count) == MinOf(count, (region_end - lba) % U64)

MaySend ==
    /\ ~asserted
    /\ issued < MaxIO
    /\ IoCount(raw) # 0 => issued < IoCount(raw)

(* ioworker_send_one for one draw of size si, with the LBA drawn or due. *)
SendAt(si, lba, is_random) ==
    LET at    == Placed(lba, AlignOf(si))
        count == Truncated(at, SizeOf(si))
    IN  /\ asserted' = (at >= region_end)
        /\ IF at >= region_end
           THEN UNCHANGED <<sequential_lba, cmd, issued, covered, total>>
           ELSE /\ sequential_lba' = IF is_random THEN sequential_lba
                                     ELSE NextSequential(at, SizeOf(si))
                /\ cmd' = [lba |-> at, count |-> count,
                           align |-> AlignOf(si), is_random |-> is_random]
                /\ issued' = issued + 1
                /\ covered' = covered \cup (at .. at + count - 1)
                /\ total' = total + count
        /\ UNCHANGED <<raw, uncorr>>

SendSequential ==
    /\ MaySend /\ raw.lba_random < 100
    /\ \E si \in ToSet(sl_table) :
         \E lba \in crc32_skip_uncorr(ioworker_send_one_lba_sequential) :
            SendAt(si, lba, FALSE)

(* A random LBA; assert(end > start) fails on an inverted range. *)
SendRandom ==
    /\ MaySend /\ raw.lba_random > 0
    /\ \E si \in ToSet(sl_table), r \in Ranges :
         \/ /\ r.lba_start <= r.lba_end
            /\ \E lba \in Draws(r) : SendAt(si, lba, TRUE)
         \/ /\ r.lba_start > r.lba_end
            /\ asserted' = TRUE
            /\ UNCHANGED <<raw, sequential_lba, uncorr, cmd, issued, covered,
                           total>>

(* A write of the worker that has completed gives its LBA a checksum again. *)
WriteCompletes ==
    \E lba \in uncorr \cap covered :
        /\ ~asserted
        /\ uncorr' = uncorr \ {lba}
        /\ UNCHANGED <<raw, sequential_lba, cmd, issued, covered, total,
                       asserted>>

Next == SendSequential \/ SendRandom \/ WriteCompletes

Spec == Init /\ [][Next]_vars

-----------------------------------------------------------------------------
(* Arguments for which the code's region is the script's: no step back, all
   alignments divide the largest one, and aligning the start leaves a region. *)
PlainRegion ==
    /\ raw.lba_step_valid => raw.lba_step >= 0
    /\ \A i \in DOMAIN raw.sizes : lba_align_max(raw) % AlignOf(i) = 0
    /\ region_start < region_end

(* Commands as large as the alignment, one after the other. *)
PlainSequence ==
    /\ raw.lba_random = 0 /\ ~raw.lba_step_valid
    /\ PlainRegion
    /\ \A i, j \in DOMAIN raw.sizes : SizeOf(i) >= AlignOf(j)

TypeOK ==
    /\ raw \in Args
    /\ sequential_lba \in 0 .. U64 - 1
    /\ uncorr \subseteq 0 .. NSZE - 1
    /\ cmd \in [lba : 0 .. NSZE - 1, count : 0 .. NSZE, align : Nat \ {0},
                is_random : BOOLEAN]
    /\ issued \in 0 .. MaxIO
    /\ covered \subseteq 0 .. NSZE - 1
    /\ total \in Nat
    /\ asserted \in BOOLEAN

(* Whatever the worker draws, skips or wraps, every command starts aligned,
   lies within the region the script asked for and has at least one block
   ("sending IO in the specified LBA region", "end but not include").  The
   asserts of ioworker_send_one_lba and _random hold unless the blocks at the
   end of the region are uncorrectable, over which the walk of
   crc32_skip_uncorr leaves the region. *)
StaysInRegion ==
    /\ TypeOK
    /\ cmd.lba % cmd.align = 0
    /\ PlainRegion =>
           /\ covered \subseteq raw.region_start .. raw.region_end - 1
           /\ issued > 0 => cmd.count > 0
           /\ asserted => MinOf(region_end, TABLE) - 1 \in uncorr

(* A sequential worker moves up through its region, and starts again at the
   beginning only after a command that reached the end: it never sends the
   same LBA twice in a row and never turns back within a pass. *)
Advances == \/ cmd'.lba > cmd.lba
            \/ /\ cmd.lba + cmd.count = region_end
               /\ raw.bad = {} => cmd'.lba = region_start

SequentialAdvances ==
    [][PlainSequence /\ issued > 0 /\ issued' # issued => Advances]_vars

(* The number of commands Namespace.ioworker computes for a sequential worker
   without a limit fills the region: every block, and none twice. *)
OnePassFills ==
    /\ PlainSequence /\ FillsRegion(raw) /\ raw.bad = {}
    /\ raw.region_start = region_start /\ raw.region_end = region_end
    /\ raw.lba_start <= region_start
    /\ SizeOf(1) % AlignOf(1) = 0
    /\ issued = IoCount(raw)
    => /\ covered = region_start .. region_end - 1
       /\ total = region_end - region_start

=============================================================================
