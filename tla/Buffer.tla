------------------------------- MODULE Buffer -------------------------------
(***************************************************************************)
(* The memory of a Buffer as a script reads and writes it (class Buffer of *)
(* src/driver_wrap.pyx), and Controller.downfw, which sends a firmware     *)
(* image through one Buffer, chunk after chunk.                            *)
(*                                                                         *)
(* A byte is the set of its bits (module Bits).  The memory has MARGIN     *)
(* bytes of somebody else on both sides: an index below zero is not        *)
(* refused by the code and lands there.                                    *)
(***************************************************************************)
EXTENDS Bits, Sequences, SequencesExt

CONSTANTS LEN,      \* bytes of the buffer
          MARGIN,   \* bytes modelled before and behind it
          Ranges,   \* ranges [lba, lba_count, attr] the script sets
          Writes,   \* slices it writes: [start, bytes]
          PAGE,     \* bytes printed at a time by dump, 4096 in the code
          MaxOps,   \* bound: operations of the script
          CHUNK,    \* bytes of one download, 4096 in the code
          Files     \* firmware images: sequences of bytes

VARIABLES mem,      \* the memory, margins included
          ranges,   \* index |-> the range last set there, whole and untouched
          ops,      \* operations done
          file,     \* the image to download
          fpc,      \* where downfw is: "chunk", "wait", "commit" or "done"
          index,    \* i of its loop
          fbuf,     \* its buffer
          flight,   \* offsets of the downloads the device has not completed
          slot,     \* what the device has received: offset |-> byte
          refused   \* a download has failed

bufvars == <<mem, ranges, ops>>
fwvars  == <<file, fpc, index, fbuf, flight, slot, refused>>

Inside == 0 .. LEN - 1

Zero == {}

BufferInit ==
    /\ mem = [i \in -MARGIN .. LEN + MARGIN - 1 |-> Zero]
    /\ ranges = <<>>
    /\ ops = 0

-----------------------------------------------------------------------------
(* __setitem__: a slice is written byte by byte from its start; its stop and
   step are ignored, and an index past the end raises with the bytes before
   it written. *)
Written(m, start, bytes) ==
    [i \in DOMAIN m |-> IF i - start + 1 \in DOMAIN bytes /\ i < LEN
                        THEN bytes[i - start + 1] ELSE m[i]]

(* __getitem__ of a slice, whose ends Python cuts to the length. *)
Slice(begin, end) ==
    LET from == IF begin > LEN THEN LEN ELSE begin
        to   == IF end > LEN THEN LEN ELSE end
    IN  [i \in 1 .. (IF to > from THEN to - from ELSE 0) |-> mem[from + i - 1]]

(* data: a little endian field, both ends included. *)
data(byte_end, byte_begin) ==
    LET s == Slice(byte_begin, byte_end + 1)
    IN  UNION {Shl(s[i], 8 * (i - 1)) : i \in DOMAIN s}

(* dump, and log_buf_dump, which prints one page of it. *)
log_buf_dump(base, length) == [i \in 1 .. length |-> mem[base + i - 1]]

dump(size) ==
    LET n == IF size > LEN THEN LEN ELSE size
    IN  FlattenSeq([k \in 1 .. (n + PAGE - 1) \div PAGE |->
           log_buf_dump((k - 1) * PAGE,
                        IF n < k * PAGE THEN n - (k - 1) * PAGE ELSE PAGE)])

(* struct.pack: n bytes, the lowest first. *)
Packs(v, n) == [i \in 1 .. n |-> Field(v, 8 * (i - 1), 8)]

RangeBytes(r) == Packs(r.attr, 4) \o Packs(r.lba_count, 4) \o Packs(r.lba, 8)

FitsRange(r) == Fits(r.attr, 32) /\ Fits(r.lba_count, 32) /\ Fits(r.lba, 64)

set_dsm_range(i, r) ==
    /\ ops < MaxOps /\ FitsRange(r)
    /\ mem' = Written(mem, 16 * i, RangeBytes(r))
    /\ ranges' = IF 16 * i + 16 <= LEN
                 THEN [j \in DOMAIN ranges \cup {i} |->
                          IF j = i THEN r ELSE ranges[j]]
                 ELSE ranges
    /\ ops' = ops + 1

setitem(w) ==
    /\ ops < MaxOps
    /\ mem' = Written(mem, w.start, w.bytes)
    /\ ranges' = [j \in {j \in DOMAIN ranges :
                            \/ w.start + Len(w.bytes) <= 16 * j
                            \/ w.start >= 16 * j + 16} |-> ranges[j]]
    /\ ops' = ops + 1

BufferNext ==
    \/ \E i \in 0 .. LEN \div 16, r \in Ranges : set_dsm_range(i, r)
    \/ \E w \in Writes : setitem(w)

(* Every range a script has prepared for a dsm command is where the
   specification has it, read here with data() as the scripts do; and a dump
   of any size shows the memory byte for byte. *)
RangesReadBack ==
    /\ \A size \in {0, PAGE, PAGE + 1, LEN + 1} : dump(size) = Slice(0, size)
    /\ \A i \in DOMAIN ranges :
          /\ data(16 * i + 3, 16 * i) = ranges[i].attr
          /\ data(16 * i + 7, 16 * i + 4) = ranges[i].lba_count
          /\ data(16 * i + 15, 16 * i + 8) = ranges[i].lba

-----------------------------------------------------------------------------
(* downfw: the file is read in chunks, each is copied to the start of the one
   buffer, all of which is sent to offset CHUNK * i, and waited for.  What the
   last, shorter chunk leaves of the one before is sent with it. *)
FirmwareInit ==
    /\ file \in Files
    /\ fpc = "chunk"
    /\ index = 0
    /\ fbuf = [i \in 1 .. CHUNK |-> Zero]
    /\ flight = {}
    /\ slot = [o \in {} |-> Zero]
    /\ refused = FALSE

Chunk(i) == SubSeq(file, CHUNK * i + 1,
                   IF CHUNK * (i + 1) < Len(file) THEN CHUNK * (i + 1)
                   ELSE Len(file))

SendChunk ==
    /\ fpc = "chunk" /\ Chunk(index) # <<>>
    /\ fbuf' = [i \in 1 .. CHUNK |->
                   IF i \in DOMAIN Chunk(index) THEN Chunk(index)[i]
                   ELSE fbuf[i]]
    /\ flight' = flight \cup {CHUNK * index}
    /\ index' = index + 1
    /\ fpc' = "wait"
    /\ UNCHANGED <<file, slot, refused>>

MutWaitDownload_No ==
    /\ fpc = "wait"
    /\ fpc' = "chunk"
    /\ UNCHANGED <<file, index, fbuf, flight, slot, refused>>

WaitDownload ==
    /\ fpc = "wait" /\ flight = {}
    /\ fpc' = "chunk"
    /\ UNCHANGED <<file, index, fbuf, flight, slot, refused>>

(* The end of the file: fw_commit, and the wait for it. *)
SendCommit ==
    /\ fpc = "chunk" /\ Chunk(index) = <<>>
    /\ fpc' = "commit"
    /\ UNCHANGED <<file, index, fbuf, flight, slot, refused>>

Committed ==
    /\ fpc = "commit" /\ flight = {}
    /\ fpc' = "done"
    /\ UNCHANGED <<file, index, fbuf, flight, slot, refused>>

(* The device fetches the buffer when it executes a download.  A failure is
   only warned of in cmd_cb, and the loop goes on. *)
ExecuteDownload ==
    \E ofst \in flight :
        LET place == ofst .. ofst + CHUNK - 1
        IN  /\ \/ /\ slot' = [o \in DOMAIN slot \cup place |->
                                 IF o \in place THEN fbuf[o - ofst + 1]
                                 ELSE slot[o]]
                  /\ UNCHANGED refused
               \/ refused' = TRUE /\ UNCHANGED slot
            /\ flight' = flight \ {ofst}
            /\ UNCHANGED <<file, fpc, index, fbuf>>

FirmwareNext ==
    SendChunk \/ WaitDownload \/ SendCommit \/ Committed \/ ExecuteDownload

(* One buffer serves all chunks, and the device reads it when it gets to the
   command.  When downfw has committed and no download was refused, the device
   has every byte of the file at its place; what it has beyond the end comes from
   the chunk before, within the last chunk. *)
ImageArrives ==
    fpc = "done" /\ ~refused =>
        /\ \A i \in DOMAIN file : slot[i - 1] = file[i]
        /\ \A o \in DOMAIN slot : o < Len(file) + CHUNK
=============================================================================
