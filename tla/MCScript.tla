------------------------------ MODULE MCScript ------------------------------
(* Script on small inputs.  For an argument that fills a field of w bits: the
   values 0, its lowest and highest bit, all bits, and one too large.  Buffers
   are of one sector, one and two pages and 65536 sectors, whole, shortened
   and moved. *)
EXTENDS Script

W(w) == {{}, {0, w - 1}, 0 .. w - 1, {w}}
Few(w) == {{}, {0, w - 1}, {w}}
Bit == {{}, {0}}
Counts(w) == {{}, {0}, {0, 1}, {w}, {0, w}}

MCSizes == {{}, {9}, {12}, {13}, {25}}

Lbas == {{}, {0, 31, 32, 63}, 0 .. 63, {64}}

Offsets == {{}, {2}, {1}, {31, 2}, {32}, {63}, {64}}

Lengths == {{}, {0, 1}, {2}, {12}, {18}, {2, 3, 33}, {34}, {2, 34}}

MCRequests ==
    [cmd : {"abort"}, cid : W(16), sqid : W(16)]
    \cup [cmd : {"identify"}, nsid : Few(32), cns : Few(8), cntid : Few(16),
          nvmsetid : Few(16), csi : Few(8)]
    \cup [cmd : {"getfeatures"}, fid : W(8), sel : W(3),
          cdw11 : Few(32), cdw12 : {{12}}, cdw13 : {{13}}, cdw14 : {{}},
          cdw15 : {{15}, {32}}]
    \cup [cmd : {"setfeatures"}, fid : W(8), sv : Bit \cup {{1}},
          cdw11 : Few(32), cdw12 : {{12}}, cdw13 : {{13}}, cdw14 : {{}},
          cdw15 : {{15}, {32}}]
    \cup [cmd : {"getlogpage"}, nsid : Few(32), lid : Few(8), whole : BOOLEAN,
          size : Lengths, offset : Offsets]
    \cup [cmd : {"mi_send", "mi_receive"}, mtype : {{0}, {2}, {1}},
          opcode : W(8), dword0 : Few(32), dword1 : Few(32)]
    \cup [cmd : {"format"}, nsid : Few(32), lbaf : W(4), ses : W(3)]
    \cup [cmd : {"sanitize"}, option : W(3), pattern : W(32)]
    \cup [cmd : {"dst"}, nsid : Few(32), stc : W(4)]
    \cup [cmd : {"fw_download"}, whole : BOOLEAN, size : Lengths,
          offset : {{}, {2}, {12}, {33}, {34}}]
    \cup [cmd : {"fw_commit"}, slot : W(3), action : W(3)]
    \cup [cmd : {"security_receive", "security_send"}, whole : {FALSE},
          size : {{}, {9}, 0 .. 31, {32}}, spsp : Few(16), secp : Few(8),
          nssf : Few(8)]
    \cup [cmd : {"dsm"}, range_count : Counts(8), attribute : W(32)]
    \cup [cmd : {"verify", "write_zeroes", "compare"}, lba : Lbas,
          lba_count : Counts(16), io_flags : W(16)]
    \cup [cmd : {"write_uncorrectable"}, lba : Lbas, lba_count : Counts(16)]
    \cup [cmd : {"zns_mgmt_receive"}, whole : {FALSE}, slba : Few(64),
          dwords : Counts(32), extended : Bit, state : Few(8), partial : Bit]
    \cup [cmd : {"zns_mgmt_send"}, slba : Lbas, action : W(8), all : Bit]
    \cup [cmd : {"append"}, slba : Lbas, lba_count : Counts(16)]
    \cup [cmd : {"send_cmd"}, nsid : Few(32), cdw10 : W(32), cdw11 : {{11}},
          cdw12 : {{12}}, cdw13 : {{13}}, cdw14 : Few(32), cdw15 : {{15}}]
    \cup [cmd : {"read", "write"}, lba : Lbas, lba_count : {{}, {0}, {3}},
          io_flags : Few(16) \cup {{0, 15, 31}}, dword13 : Few(32),
          dword14 : {{14}}, dword15 : {{15}}]
    \cup [cmd : {"zone_read", "zone_write"}, slba : Lbas, offset : W(32),
          lba_count : {{3}}, io_flags : {{15}}, dword13 : {{13}},
          dword14 : {{}}, dword15 : {{15}}]
    \cup [cmd : {"IOSQ"}, qid : Few(16), qsize : Counts(16), pc : Bit,
          qprio : Few(2), cqid : Few(16), nvmsetid : Few(16)]
    \cup [cmd : {"IOCQ"}, qid : Few(16), qsize : Counts(16), pc : Bit,
          ien : Bit, iv : Few(16)]
    \cup [cmd : {"aer", "flush"}]

MCSizeRequests ==
    [cmd : {"identify"}, nsid : {{}}, cns : {{0}}, cntid : {{}},
     nvmsetid : {{}}, csi : {{}}]
    \cup [cmd : {"getlogpage"}, nsid : {{}}, lid : {{1}}, whole : {TRUE},
          size : {{}}, offset : {{}, {12}}]
    \cup [cmd : {"fw_download"}, whole : {TRUE}, size : {{}}, offset : {{12}}]
    \cup [cmd : {"security_receive", "security_send"}, whole : {TRUE},
          size : {{}}, spsp : {{0}}, secp : {{0}}, nssf : {{}}]
    \cup [cmd : {"dsm"}, range_count : {{0}, {8}}, attribute : {{2}}]
    \cup [cmd : {"zns_mgmt_receive"}, whole : {TRUE}, slba : {{}},
          dwords : {{}}, extended : {{0}}, state : {{}}, partial : {{0}}]
    \cup [cmd : {"read", "write"}, lba : {{32}},
          lba_count : Counts(16) \cup {{3}},
          io_flags : {{}}, dword13 : {{}}, dword14 : {{}}, dword15 : {{}}]

-----------------------------------------------------------------------------
(* A buffer of two ranges and a half. *)
MCRanges == [lba : {{0, 63}, {31, 32}}, lba_count : {{0, 31}}, attr : {{8}}]
            \cup {[lba |-> {64}, lba_count |-> {}, attr |-> {}]}

MCWrites == {[start |-> 0, bytes |-> <<{0}>>],
             [start |-> 15, bytes |-> <<{1}, {2}>>],
             [start |-> 38, bytes |-> <<{3}, {4}, {5}>>],
             [start |-> -2, bytes |-> <<{6}>>]}

MCFiles == {<<>>, <<{0}>>, <<{0}, {1}>>, <<{0}, {1}, {2}>>,
            <<{0}, {1}, {2}, {3}, {4}>>, <<{0}, {1}, {2}, {3}, {4}, {5}>>}

-----------------------------------------------------------------------------
(* Workers of up to three seconds, with up to three latencies. *)
MCOutcomes ==
    [error : {0, -1, -7, -9}, mseconds : {0, 999, 2000}, collect : BOOLEAN,
     seconds : {<<0, 0, 0>>, <<5, 3, 0>>, <<2, 4, 4>>},
     latency : {<<0, 0, 0>>, <<0, 3, 1>>, <<1, 1, 5>>, <<2, 0, 99>>},
     percentiles : {{1, 50, 99}}, percentage : {(1 :> 40 @@ 2 :> 60)},
     sent : {(1 :> 0 @@ 2 :> 0), (1 :> 3 @@ 2 :> 5)}]

-----------------------------------------------------------------------------
(* Two queues of two slots; commands of two dwords. *)
MCEntries == {<<{0}, {}>>, <<{0}, {1}>>}
MCIndex == {-1, 0, 1}

MCValues == [opc |-> {{}, 0 .. 7, {1}}, cid |-> {0 .. 15, {0}},
             nsid |-> {0 .. 31},
             prp1 |-> {[addr |-> {12, 62}, offset |-> {}],
                       [addr |-> 12 .. 31, offset |-> {12, 9}]},
             prp2 |-> {[addr |-> {13, 32}, offset |-> {}]}]

Full == [cdw0 |-> 0 .. 31, sqhd |-> 0 .. 15, sqid |-> 0 .. 15,
         cid |-> 0 .. 15, p |-> {0}, sc |-> 0 .. 7, sct |-> 0 .. 2,
         crd |-> 0 .. 1, m |-> {0}, dnr |-> {0}]

MCCqes == {Full} \cup {[Full EXCEPT ![f] = {}] : f \in DOMAIN Full}
          \cup {[[g \in DOMAIN Full |-> {}] EXCEPT ![f] = Full[f]] :
                  f \in DOMAIN Full}

Page(offset) == [len |-> 4, offset |-> offset]

MCChains == {<<<<Page(0)>>>>, <<<<Page(2), Page(0)>>>>,
             <<<<Page(3)>>, <<Page(0), Page(1)>>>>,
             <<<<Page(1), Page(0)>>, <<Page(2)>>, <<Page(0)>>>>}

(* Lists of capabilities in several orders, with other bits set around;
   the bytes that belong to no capability are left out. *)
Space(list, first) ==
    [i \in {52} \cup UNION {c[2] .. c[2] + 17 : c \in list} |->
        IF i = 52 THEN Num(first)
        ELSE IF \E c \in list : i = c[2] THEN
            Num((CHOOSE c \in list : i = c[2])[1])
        ELSE IF \E c \in list : i = c[2] + 1 THEN
            Num((CHOOSE c \in list : i = c[2] + 1)[3])
        ELSE IF i % 2 = 0 THEN {0, 3, 7} ELSE {1, 6}]

MCSpaces ==
    {Space({<<1, 64, 80>>, <<5, 80, 112>>, <<16, 112, 0>>}, 64),
     Space({<<16, 72, 200>>, <<1, 200, 0>>}, 72),
     Space({<<16, 128, 64>>, <<17, 64, 0>>}, 128),
     Space({}, 0)}

MCFormats == [ms : {0, 8, 256}, lbads : {9, 12}]

Device(p, s, e) ==
    [mpsmin |-> p, mdts |-> s,
     capacity |-> IF p = 4 THEN {} ELSE {0, 15, 16, 127},
     formats |-> IF p = 0 THEN <<>>
                 ELSE [i \in 1 .. 16 |-> [ms |-> IF i = 16 THEN 256 ELSE p \div 2,
                                          lbads |-> IF i < p THEN 12 ELSE 9]],
     effects |-> e]

MCDevices ==
    {Device(p, s, {}) : p \in {0, 4, 15}, s \in {0, 1, 5, 8, 255}}
    \cup {Device(0, 1, e) : e \in
            {{[io |-> FALSE, opcode |-> 0], [io |-> TRUE, opcode |-> 255]},
             {[io |-> TRUE, opcode |-> 0], [io |-> FALSE, opcode |-> 255]}}}

-----------------------------------------------------------------------------
(* Lines of three periods of two units, one of them for a fifth queue. *)
MCLines ==
    {[pynvme |-> FALSE, time |-> 0, qid |-> 1, op |-> "read", ranges |-> 0],
     [pynvme |-> TRUE, time |-> 1, qid |-> 1, op |-> "trims", ranges |-> 2],
     [pynvme |-> TRUE, time |-> 2, qid |-> 1, op |-> "flush", ranges |-> 0],
     [pynvme |-> TRUE, time |-> 3, qid |-> 2, op |-> "write", ranges |-> 0],
     [pynvme |-> TRUE, time |-> 5, qid |-> 5, op |-> "read", ranges |-> 0]}
=============================================================================
