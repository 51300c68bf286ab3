-------------------------------- MODULE Psd --------------------------------
(***************************************************************************)
(* scripts/psd.py: io queues a script creates by its own commands and      *)
(* fills by its own hands.  Five parts that share nothing but the memory   *)
(* they are about:                                                         *)
(*   - IOSQ objects, their slots and doorbells, and the device behind them;*)
(*   - IOCQ objects, and a script that takes completions from them;        *)
(*   - the fields of an SQE as it is put together, and of a CQE;           *)
(*   - which buffers stay allocated while a command may use them;          *)
(*   - the search for a slot in a queue that is a chain of PRP lists.      *)
(***************************************************************************)
EXTENDS Bits, Sequences, SequencesExt

CONSTANTS Objects,    \* IOSQ objects of the script, each created once
          QIDs,       \* queue ids it uses, 0 among them
          QSizes,     \* queue sizes, 1 among them
          Entries,    \* commands: pairs of dwords, for 16
          Index,      \* indices of sq[index] = ..., negative ones among them
          MaxInserts, \* bound: commands inserted
          CQSizes,    \* sizes of completion queues
          MaxPosts,   \* bound: completions posted
          Values,     \* values [opc, cid, nsid, prp1, prp2] of fields; a prp is
                      \* a buffer [addr, offset]
          MaxSets,    \* bound: fields set
          Cqes,       \* completion entries of a device
          SQEs,       \* SQE objects of the script
          Bufs,       \* its buffers; a PRPList is one
          Lists,      \* the PRPLists among Bufs
          Chains      \* chains of PRP lists: see find_buffer_by_offset

ASSUME ListsAssumption == Lists \subseteq Bufs

None == "none"

-----------------------------------------------------------------------------
(* IOSQ. *)
VARIABLES sq,        \* object |-> [made, id, qsize, contig]
          qmem,      \* object |-> slot |-> what is in the memory of its queue
          front,     \* object |-> memory in front of the queue was written
          queues,    \* the device: qid |-> [owner, size, head, tail]
          tracked,   \* object |-> slot |-> entry last inserted there
          fetched,   \* the entry the device has fetched last, in a set
          stray,     \* the owner of a queue has rung the bell of another
          inserts

sqvars == <<sq, qmem, front, queues, tracked, fetched, stray, inserts>>

Empty == <<{}, {}>>

QueueInit ==
    /\ sq = [o \in Objects |-> [made |-> FALSE, id |-> 0, qsize |-> 0,
                               contig |-> TRUE]]
    /\ qmem = [o \in Objects |-> [i \in 0 .. Max(QSizes) - 1 |-> Empty]]
    /\ front = [o \in Objects |-> FALSE]
    /\ queues = [q \in {} |-> None]
    /\ tracked = [o \in Objects |-> [i \in 0 .. Max(QSizes) - 1 |-> Empty]]
    /\ fetched = {}
    /\ stray = FALSE
    /\ inserts = 0

Created(o) == sq[o].made

(* __init__: the device refuses an id that is 0 or in use and a size of 1.
   The object is left with the id 0 then, that of the admin queue. *)
IOSQ_init(o, qid, qsize, contig) ==
    /\ ~Created(o)
    /\ LET ok == qid # 0 /\ qid \notin DOMAIN queues /\ qsize > 1
       IN  /\ sq' = [sq EXCEPT ![o] =
                        [made |-> TRUE, id |-> IF ok THEN qid ELSE 0,
                         qsize |-> IF ok THEN qsize ELSE 0, contig |-> contig]]
           /\ queues' = IF ok
                        THEN [q \in DOMAIN queues \cup {qid} |->
                                IF q = qid THEN [owner |-> o, size |-> qsize,
                                                 head |-> 0, tail |-> 0]
                                ELSE queues[q]]
                        ELSE queues
    /\ UNCHANGED <<qmem, front, tracked, fetched, stray, inserts>>

(* __setitem__: the entry is tracked, then written.  A negative index counts
   from the end in the list and lies before the buffer in memory.  In a queue
   of PRP lists the index becomes a float and the write raises. *)
MutSetitem_SkipZero(o, index, e) ==
    /\ Created(o) /\ sq[o].qsize > 0 /\ index < sq[o].qsize
    /\ index >= -sq[o].qsize /\ inserts < MaxInserts
    /\ tracked' = [tracked EXCEPT ![o][index % sq[o].qsize] = e]
    /\ IF sq[o].contig /\ index >= 0
       THEN qmem' = [qmem EXCEPT ![o][index] =
                        [i \in 1 .. 2 |-> IF e[i] = {} THEN @[i] ELSE e[i]]]
            /\ UNCHANGED front
       ELSE UNCHANGED qmem /\ front' = [front EXCEPT ![o] = @ \/ index < 0]
    /\ inserts' = inserts + 1
    /\ UNCHANGED <<sq, queues, fetched, stray>>

setitem_sq(o, index, e) ==
    /\ Created(o) /\ sq[o].qsize > 0 /\ index < sq[o].qsize
    /\ index >= -sq[o].qsize /\ inserts < MaxInserts
    /\ tracked' = [tracked EXCEPT ![o][index % sq[o].qsize] = e]
    /\ IF sq[o].contig /\ index >= 0
       THEN qmem' = [qmem EXCEPT ![o][index] = e] /\ UNCHANGED front
       ELSE UNCHANGED qmem /\ front' = [front EXCEPT ![o] = @ \/ index < 0]
    /\ inserts' = inserts + 1
    /\ UNCHANGED <<sq, queues, fetched, stray>>

(* __getitem__: what is tracked. *)
getitem_sq(o, index) == tracked[o][index]

(* The register 0x1000 + 2*id*4, in units of a doorbell. *)
Doorbell(id) == 2 * id

(* tail = t.  The device ignores a tail beyond the queue; an odd doorbell is
   that of a completion queue. *)
set_tail(o, t) ==
    /\ Created(o)
    /\ LET bell == Doorbell(sq[o].id)
           qid  == IF bell % 2 = 0 THEN bell \div 2 ELSE 0
           own  == qid \in DOMAIN queues /\ queues[qid].owner = o
           has  == \E q \in DOMAIN queues : queues[q].owner = o
       IN  /\ stray' = (stray \/ (has /\ ~own))
           /\ queues' = IF qid \in DOMAIN queues /\ t < queues[qid].size
                        THEN [queues EXCEPT ![qid].tail = t] ELSE queues
    /\ UNCHANGED <<sq, qmem, front, tracked, fetched, inserts>>

(* delete: of its own queue, or of one given by its id. *)
delete_sq(o, qid) ==
    /\ Created(o) /\ qid # 0
    /\ queues' = [q \in DOMAIN queues \ {qid} |-> queues[q]]
    /\ UNCHANGED <<sq, qmem, front, tracked, fetched, stray, inserts>>

(* The device fetches the next entry of a queue. *)
Fetch(q) ==
    LET d == queues[q]
    IN  /\ d.head # d.tail
        /\ fetched' = {[from |-> d.owner, slot |-> d.head,
                        entry |-> qmem[d.owner][d.head],
                        meant |-> getitem_sq(d.owner, d.head)]}
        /\ queues' = [queues EXCEPT ![q].head = (d.head + 1) % d.size]
        /\ UNCHANGED <<sq, qmem, front, tracked, stray, inserts>>

QueueNext ==
    \/ \E o \in Objects, q \in QIDs, n \in QSizes, c \in BOOLEAN :
          IOSQ_init(o, q, n, c)
    \/ \E o \in Objects, i \in Index, e \in Entries : setitem_sq(o, i, e)
    \/ \E o \in Objects, t \in Index : t >= 0 /\ set_tail(o, t)
    \/ \E o \in Objects : Created(o) /\ (delete_sq(o, sq[o].id)
                                         \/ \E q \in QIDs : delete_sq(o, q))
    \/ \E q \in DOMAIN queues : Fetch(q)

(* Through any number of laps around the queue, the device fetches what the
   script has put into the slot last, all of it, from every queue that lies
   in one piece and was indexed from zero; and the doorbell an object rings is
   that of its own queue for as long as it has one.  (An object that was
   refused its queue, or has lost it, rings that of the admin queue or of the
   next owner.) *)
EntriesReachDevice ==
    /\ \A f \in fetched :
           sq[f.from].contig /\ ~front[f.from] => f.entry = f.meant
    /\ ~stray

-----------------------------------------------------------------------------
(* IOCQ.  A completion is [n, p]: the how manyth of its queue, and its phase.
   The script goes around the queue as the ones of psd.py do: it looks at one
   slot until the phase has changed, and moves the head on later. *)
VARIABLES cq,       \* object |-> [made, id, qsize, contig]
          cqmem,    \* object |-> slot |-> completion in the memory
          cqueues,  \* the device: qid |-> [owner, size, head, tail, p, n]
          polled,   \* object |-> [slot, p]: the slot and phase the script is at
          taken,    \* object |-> completions the script has taken
          cstray,   \* as stray
          misled,   \* objects whose doorbell a former owner has rung
          posts

cqvars == <<cq, cqmem, cqueues, polled, taken, cstray, misled, posts>>

CompletionInit ==
    /\ cq = [o \in Objects |-> [made |-> FALSE, id |-> 0, qsize |-> 0,
                               contig |-> TRUE]]
    /\ cqmem = [o \in Objects |-> [i \in 0 .. Max(CQSizes) - 1 |->
                                     [n |-> 0, p |-> 0]]]
    /\ cqueues = [q \in {} |-> None]
    /\ polled = [o \in Objects |-> [slot |-> 0, p |-> 0]]
    /\ taken = [o \in Objects |-> <<>>]
    /\ cstray = FALSE /\ misled = {}
    /\ posts = 0

(* __init__, refused for the reasons an IOSQ is. *)
IOCQ_init(o, qid, qsize, contig) ==
    /\ ~cq[o].made
    /\ LET ok == qid # 0 /\ qid \notin DOMAIN cqueues /\ qsize > 1
       IN  /\ cq' = [cq EXCEPT ![o] =
                        [made |-> TRUE, id |-> IF ok THEN qid ELSE 0,
                         qsize |-> IF ok THEN qsize ELSE 0, contig |-> contig]]
           /\ cqueues' = IF ok
                         THEN [q \in DOMAIN cqueues \cup {qid} |->
                                 IF q = qid THEN [owner |-> o, size |-> qsize,
                                                  head |-> 0, tail |-> 0,
                                                  p |-> 1, n |-> 1]
                                 ELSE cqueues[q]]
                         ELSE cqueues
    /\ UNCHANGED <<cqmem, polled, taken, cstray, misled, posts>>

(* The device posts a completion, unless its queue is full. *)
Post(q) ==
    LET d    == cqueues[q]
        next == (d.tail + 1) % d.size
    IN  /\ posts < MaxPosts /\ next # d.head
        /\ cqmem' = [cqmem EXCEPT ![d.owner][d.tail] = [n |-> d.n, p |-> d.p]]
        /\ cqueues' = [cqueues EXCEPT ![q].tail = next, ![q].n = @ + 1,
                          ![q].p = IF next = 0 THEN 1 - @ ELSE @]
        /\ posts' = posts + 1
        /\ UNCHANGED <<cq, polled, taken, cstray, misled>>

(* __getitem__, of a queue in one piece; otherwise the index becomes a float
   and the slice of the buffer raises. *)
getitem_cq(o, index) ==
    IF cq[o].contig /\ index < cq[o].qsize THEN {cqmem[o][index]} ELSE {}

Take(o) ==
    /\ cq[o].qsize > 0
    /\ \E c \in getitem_cq(o, polled[o].slot) :
          /\ c.p # polled[o].p
          /\ taken' = [taken EXCEPT ![o] = Append(@, c.n)]
    /\ LET next == (polled[o].slot + 1) % cq[o].qsize
       IN  polled' = [polled EXCEPT ![o] = [slot |-> next,
                                    p |-> IF next = 0 THEN 1 - @.p ELSE @.p]]
    /\ UNCHANGED <<cq, cqmem, cqueues, cstray, misled, posts>>

(* head = where the script is: the doorbell next to that of the IOSQ. *)
CqDoorbell(id) == 2 * id + 1

set_head(o) ==
    /\ cq[o].made
    /\ LET bell == CqDoorbell(cq[o].id)
           qid  == IF bell % 2 = 1 THEN bell \div 2 ELSE 0
           own  == qid \in DOMAIN cqueues /\ cqueues[qid].owner = o
           has  == \E q \in DOMAIN cqueues : cqueues[q].owner = o
       IN  /\ cstray' = (cstray \/ (has /\ ~own))
           /\ misled' = IF qid \in DOMAIN cqueues /\ ~own
                        THEN misled \cup {cqueues[qid].owner} ELSE misled
           /\ cqueues' = IF qid \in DOMAIN cqueues
                            /\ polled[o].slot < cqueues[qid].size
                         THEN [cqueues EXCEPT ![qid].head = polled[o].slot]
                         ELSE cqueues
    /\ UNCHANGED <<cq, cqmem, polled, taken, posts>>

delete_cq(o, qid) ==
    /\ cq[o].made /\ qid # 0
    /\ cqueues' = [q \in DOMAIN cqueues \ {qid} |-> cqueues[q]]
    /\ UNCHANGED <<cq, cqmem, polled, taken, cstray, misled, posts>>

CompletionNext ==
    \/ \E o \in Objects, q \in QIDs, n \in CQSizes, c \in BOOLEAN :
          IOCQ_init(o, q, n, c)
    \/ \E q \in DOMAIN cqueues : Post(q)
    \/ \E o \in Objects : Take(o) \/ set_head(o) \/ delete_cq(o, cq[o].id)
    \/ \E o \in Objects, q \in QIDs : delete_cq(o, q)

(* Through any number of laps a script takes every completion once and in the
   order the device has posted them in, however late it moves the head; and
   the doorbell it rings is that of its own queue.  (An object whose queue was
   deleted keeps the id, and misleads the next owner if it is still used.) *)
CompletionsTaken ==
    /\ \A o \in Objects \ misled : taken[o] = [i \in 1 .. Len(taken[o]) |-> i]
    /\ ~cstray

-----------------------------------------------------------------------------
(* SQE and CQE: the setters and getters on dwords, 32 bits each. *)
VARIABLES sqe,     \* the dwords 0 to 15
          fields,  \* field |-> the value set last
          sets,
          cqe      \* a completion entry the device has posted

fieldvars == <<sqe, fields, sets, cqe>>

FieldInit ==
    /\ sqe = [i \in 0 .. 15 |-> {}]
    /\ fields = [opc |-> {}, cid |-> {}, nsid |-> {}, prp1 |-> {}, prp2 |-> {}]
    /\ sets = 0
    /\ cqe \in Cqes

MutSetOpc_KeepsOld(v) == [sqe EXCEPT ![0] = @ \cup v]

SetOpc(v) == [sqe EXCEPT ![0] = (@ \ (0 .. 7)) \cup v]

SetCid(v) == [sqe EXCEPT ![0] = Low(@, 16) \cup Shl(v, 16)]

SetNsid(v) == [sqe EXCEPT ![1] = v]

(* prp1 and prp2: the physical address, in two dwords. *)
SetPrp(v, at) == [sqe EXCEPT ![at] = Low(v, 32), ![at + 1] = Field(v, 32, 32)]

(* Buffer.phys_addr, of a buffer [addr, offset]. *)
phys_addr(b) == Plus(b.addr, b.offset)

SetField(name, v) ==
    /\ sets < MaxSets
    /\ sqe' = CASE name = "opc" -> SetOpc(v)
                [] name = "cid" -> SetCid(v)
                [] name = "nsid" -> SetNsid(v)
                [] name = "prp1" -> SetPrp(phys_addr(v), 6)
                [] name = "prp2" -> SetPrp(phys_addr(v), 8)
    /\ fields' = [fields EXCEPT ![name] = IF name \in {"prp1", "prp2"}
                                          THEN phys_addr(v) ELSE v]
    /\ sets' = sets + 1
    /\ UNCHANGED cqe

FieldNext == \E name \in DOMAIN fields : \E v \in Values[name] :
                 SetField(name, v)

(* The getters of SQE. *)
Getters == [opc  |-> Low(sqe[0], 8),
            cid  |-> Shr(sqe[0], 16),
            nsid |-> sqe[1],
            prp1 |-> Shl(sqe[7], 32) \cup sqe[6],
            prp2 |-> Shl(sqe[9], 32) \cup sqe[8]]

(* What cmd_cb and IOCQ.__getitem__ hand to CQE, and its getters.  A device
   posts [cdw0, sqhd, sqid, cid, p, sc, sct, crd, m, dnr]. *)
CqeDwords(c) ==
    LET status1 == c.p \cup Shl(c.sc, 1) \cup Shl(c.sct, 9) \cup Shl(c.crd, 12)
                   \cup Shl(c.m, 14) \cup Shl(c.dnr, 15)
    IN  <<c.cdw0, {}, Plus(Shl(c.sqid, 16), c.sqhd),
          Plus(Shl(status1, 16), c.cid)>>

CQE(d) == [cdw0 |-> d[1],
           sqhd |-> Low(d[3], 16),  sqid |-> Field(d[3], 16, 16),
           cid  |-> Low(d[4], 16),  p    |-> Field(d[4], 16, 1),
           sc   |-> Field(d[4], 17, 8), sct |-> Field(d[4], 25, 3),
           crd  |-> Field(d[4], 28, 2), m |-> Field(d[4], 30, 1),
           dnr  |-> Field(d[4], 31, 1)]

(* status: the mask 0x8fff, where the field has 15 bits. *)
status(d) == Shr(d[4], 17) \cap ((0 .. 11) \cup {15})

(* Each field of an SQE reads as it was set last, and the entry a device has
   posted reads field by field as posted. *)
FieldsKeepApart ==
    /\ Getters = fields
    /\ CQE(CqeDwords(cqe)) = cqe

-----------------------------------------------------------------------------
(* Which buffers are allocated.  Memory is freed with the last reference to
   its Buffer: one of the script, of a PRPList it is in, or of the list that
   all SQE objects share and that never shrinks. *)
VARIABLES held,       \* buffers the script has a variable for
          _buf_list,
          entries,    \* list |-> buffers in it
          points,     \* SQE object |-> buffers its prp1 and prp2 point to
          busy,       \* commands of the device: sets of buffers
          freed       \* buffers given back

memvars == <<held, _buf_list, entries, points, busy, freed>>

MemoryInit ==
    /\ held = Bufs
    /\ _buf_list = {}
    /\ entries = [l \in Lists |-> {}]
    /\ points = [c \in SQEs |-> {}]
    /\ busy = {}
    /\ freed = {}

(* What a device may read or write for pointers P, lists followed. *)
Reach(P) == P \cup UNION {entries[l] : l \in P \cap Lists}

MutSetPrpBuffer_NotKept(c, b) ==
    /\ b \in held
    /\ points' = [points EXCEPT ![c] = @ \cup {b}]
    /\ UNCHANGED <<held, _buf_list, entries, busy, freed>>

SetPrpBuffer(c, b) ==
    /\ b \in held
    /\ points' = [points EXCEPT ![c] = @ \cup {b}]
    /\ _buf_list' = _buf_list \cup {b}
    /\ UNCHANGED <<held, entries, busy, freed>>

(* SQE( *cmd): the dwords of another command. *)
CopySQE(c, d) ==
    /\ points' = [points EXCEPT ![c] = points[d]]
    /\ UNCHANGED <<held, _buf_list, entries, busy, freed>>

(* l[i] = b.  A script does not change a list a device may be reading. *)
PRPList_setitem(l, b) ==
    /\ {l, b} \subseteq held /\ b \notin Lists
    /\ \A p \in busy : l \notin p
    /\ entries' = [entries EXCEPT ![l] = @ \cup {b}]
    /\ UNCHANGED <<held, _buf_list, points, busy, freed>>

(* The script drops or rebinds a variable. *)
Forget(b) ==
    /\ b \in held
    /\ held' = held \ {b}
    /\ freed' = freed \cup (Bufs \ Reach((held \ {b}) \cup _buf_list))
    /\ UNCHANGED <<_buf_list, entries, points, busy>>

Submit(c) ==
    /\ points[c] # {}
    /\ busy' = busy \cup {points[c]}
    /\ UNCHANGED <<held, _buf_list, entries, points, freed>>

Done(p) ==
    /\ busy' = busy \ {p}
    /\ UNCHANGED <<held, _buf_list, entries, points, freed>>

MemoryNext ==
    \/ \E c \in SQEs, b \in Bufs : SetPrpBuffer(c, b)
    \/ \E c, d \in SQEs : CopySQE(c, d)
    \/ \E l \in Lists, b \in Bufs : PRPList_setitem(l, b)
    \/ \E b \in Bufs : Forget(b)
    \/ \E c \in SQEs : Submit(c)
    \/ \E p \in busy : Done(p)

(* A script may drop every variable, copy commands and never keep a buffer:
   what the device reads and writes for a command stays allocated, the pages
   behind a PRP list included. *)
DmaStaysAllocated == \A p \in busy : Reach(p) \cap freed = {}

-----------------------------------------------------------------------------
(* find_buffer_by_offset.  A chain is a sequence of lists, the last entry of
   each but the last one pointing to the next; a list is the sequence of its
   buffers [len, offset] from its own offset on. *)
VARIABLES chain,   \* the queue of the script
          sought,  \* the offset looked for, -1 at first
          found    \* {} or {<<page, offset in it>>}

chainvars == <<chain, sought, found>>

ChainInit ==
    /\ chain \in Chains
    /\ sought = -1
    /\ found = {}

Pages == FlattenSeq(chain)

(* start before page k: what the pages before it hold. *)
Start(k) ==
    FoldSeq(LAMBDA p, n : n + p.len - p.offset, 0, SubSeq(Pages, 1, k - 1))

find_buffer_by_offset(offset) ==
    /\ sought = -1
    /\ sought' = offset
    /\ LET hits == {k \in 1 .. Len(Pages) : Start(k + 1) > offset}
       IN  found' = IF hits = {} THEN {}
                    ELSE LET k == Min(hits)
                         IN  {<<k, Pages[k].offset + offset - Start(k)>>}
    /\ UNCHANGED chain

ChainNext == \E offset \in 0 .. Start(Len(Pages) + 1) :
                 find_buffer_by_offset(offset)

(* The bytes of the queue, one after the other. *)
QueueBytes ==
    FlattenSeq([k \in 1 .. Len(Pages) |->
                   [i \in 1 .. Pages[k].len - Pages[k].offset |->
                       <<k, Pages[k].offset + i - 1>>]])

(* The byte found for an offset is that byte of the queue, across pages that
   start in the middle and across lists; behind the end nothing is found. *)
FindsTheByte ==
    sought >= 0 => found = IF sought < Len(QueueBytes)
                           THEN {QueueBytes[sought + 1]} ELSE {}
=============================================================================
