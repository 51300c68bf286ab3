------------------------------ MODULE Commands ------------------------------
(***************************************************************************)
(* The commands a script sends (src/driver_wrap.pyx): every method of      *)
(* Controller and Namespace that packs its arguments into the dwords of a  *)
(* command, their asserts, the conversions to unsigned int, and the memory *)
(* they give to the device for the data.                                   *)
(*                                                                         *)
(* An argument is the set of its bits (module Bits).  A command is         *)
(*   [opc, nsid, dw, data]: dw has the dwords 10 to 15, data what is mapped *)
(* for the transfer.  What a device reads in the dwords is Decoded, written *)
(* from the NVMe specification and not from the code.                      *)
(***************************************************************************)
EXTENDS Bits, Sequences

CONSTANTS Requests,     \* calls: records with cmd and the arguments
          SizeRequests, \* those made with every state of the buffer
          Sizes         \* sizes and offsets the script gives to its Buffer

VARIABLES buffer,   \* the Buffer of the script: [len, size, offset]
          request,  \* the call the script has made, or NoRequest
          sent      \* the commands it has given to the driver

cvars == <<buffer, request, sent>>

NoRequest == [cmd |-> "none"]

SECTOR == 9   \* 512-byte sectors: a count of blocks, shifted, is in bytes

Dwords(s) == [i \in 10 .. 15 |-> IF i - 9 \in DOMAIN s THEN s[i - 9] ELSE {}]

(* What a command has for its data: bytes from an offset into a buffer of
   len bytes.  send_admin_raw and send_io_raw take the size the script has set
   on the Buffer, its whole length at first. *)
NoData == [len |-> {}, at |-> {}, bytes |-> {}]

Mapped == [len |-> buffer.len, at |-> buffer.offset, bytes |-> buffer.size]

Cmd(opc, nsid, data, s) ==
    [opc |-> Num(opc), nsid |-> nsid, dw |-> Dwords(s), data |-> data]

ALL == 0 .. 31   \* nsid 0xffffffff

CommandsInit ==
    /\ buffer \in {[len |-> l, size |-> l, offset |-> {}] : l \in Sizes \ {{}}}
    /\ request = NoRequest
    /\ sent = {}

(* The setters of Buffer.  Only a size larger than the memory is refused. *)
set_size(size) ==
    /\ request = NoRequest
    /\ AtMost(size, buffer.len)
    /\ buffer' = [buffer EXCEPT !.size = size]
    /\ UNCHANGED <<request, sent>>

set_offset(offset) ==
    /\ request = NoRequest
    /\ buffer' = [buffer EXCEPT !.offset = offset]
    /\ UNCHANGED <<request, sent>>

-----------------------------------------------------------------------------
(* Admin commands. *)
abort(a) == Cmd(8, {}, NoData, <<Plus(Shl(a.cid, 16), a.sqid)>>)

identify(a) == Cmd(6, a.nsid, Mapped, <<Shl(a.cntid, 16) \cup a.cns,
                                        Shl(a.csi, 24) \cup a.nvmsetid>>)

getfeatures(a) ==
    Cmd(10, {0}, Mapped, <<Plus(Shl(a.sel, 8), a.fid), a.cdw11, a.cdw12,
                           a.cdw13, a.cdw14, a.cdw15>>)

setfeatures(a) ==
    Cmd(9, ALL, Mapped, <<Plus(Shl(a.sv, 31), a.fid), a.cdw11, a.cdw12,
                          a.cdw13, a.cdw14, a.cdw15>>)

(* size None means the length of the buffer, not the size set for commands. *)
SizeArg(a) == IF a.whole THEN buffer.len ELSE a.size

MutGetlogpage_LowOnly(a) ==
    LET dwords == Minus1(Shr(SizeArg(a), 2))
    IN  Cmd(2, a.nsid, Mapped, <<Plus(Shl(Low(dwords, 16), 16), a.lid), {},
                                    a.offset, Shr(a.offset, 32)>>)

getlogpage(a) ==
    LET dwords == Minus1(Shr(SizeArg(a), 2))
    IN  Cmd(2, a.nsid, Mapped, <<Plus(Shl(Low(dwords, 16), 16), a.lid),
                                    Field(dwords, 16, 16),
                                    a.offset, Shr(a.offset, 32)>>)

MiCommand(opc, a) ==
    Cmd(opc, {}, Mapped, <<Shl(a.mtype, 11) \cup {2}, a.opcode, a.dword0,
                              a.dword1>>)

mi_send(a) == MiCommand(29, a)

mi_receive(a) == MiCommand(30, a)

format_nvm(a) == Cmd(128, a.nsid, NoData, <<Plus(Shl(a.ses, 9), a.lbaf)>>)

sanitize(a) == Cmd(132, {}, NoData, <<a.option, a.pattern>>)

dst(a) == Cmd(20, a.nsid, NoData, <<a.stc>>)

fw_download(a) == Cmd(17, {}, Mapped, <<Minus1(Shr(SizeArg(a), 2)),
                                           Shr(a.offset, 2)>>)

fw_commit(a) == Cmd(16, {}, NoData, <<Plus(Shl(a.action, 3), a.slot)>>)

aer(a) == Cmd(12, {}, NoData, <<>>)

SecurityCommand(opc, a) ==
    Cmd(opc, {}, Mapped, <<Plus(Plus(Shl(a.secp, 24), Shl(a.spsp, 8)),
                                   a.nssf), SizeArg(a)>>)

security_receive(a) == SecurityCommand(130, a)

security_send(a) == SecurityCommand(129, a)

-----------------------------------------------------------------------------
(* IO commands.  Those that go through send_io_raw: *)
LbaRange(a) == <<Low(a.lba, 32), Shr(a.lba, 32),
                 Minus1(a.lba_count) \cup Shl(a.io_flags, 16)>>

dsm(a) == Cmd(9, {0}, Mapped, <<Minus1(a.range_count), a.attribute>>)

verify(a) == Cmd(12, {0}, NoData, LbaRange(a))

compare(a) == Cmd(5, {0}, Mapped, LbaRange(a))

flush(a) == Cmd(0, {0}, NoData, <<>>)

write_uncorrectable(a) == Cmd(4, {0}, NoData, <<Low(a.lba, 32), Shr(a.lba, 32),
                                                Minus1(a.lba_count)>>)

write_zeroes(a) == Cmd(8, {0}, NoData, LbaRange(a))

zns_mgmt_receive(a) ==
    LET dwords == IF a.whole THEN Shr(buffer.len, 2) ELSE a.dwords
    IN  Cmd(122, {0}, Mapped, <<Low(a.slba, 32), Shr(a.slba, 32),
            Minus1(dwords), Plus(Plus(Shl(a.partial, 16), Shl(a.state, 8)),
                                 a.extended)>>)

zns_mgmt_send(a) == Cmd(121, {0}, Mapped, <<Low(a.slba, 32),
                        Shr(a.slba, 32), {}, Plus(Shl(a.all, 8), a.action)>>)

zone_append(a) == Cmd(125, {0}, Mapped, <<Low(a.slba, 32), Shr(a.slba, 32),
                                             Minus1(a.lba_count)>>)

(* send_cmd of Controller and of Namespace. *)
send_cmd(a) ==
    Cmd(192, a.nsid, Mapped, <<a.cdw10, a.cdw11, a.cdw12, a.cdw13, a.cdw14,
                               a.cdw15>>)

(* psd.py: the commands with which IOSQ and IOCQ create their queues. *)
IOSQ(a) == Cmd(1, {}, Mapped, <<a.qid \cup Shl(Minus1(a.qsize), 16),
                                a.pc \cup Shl(a.qprio, 1) \cup Shl(a.cqid, 16),
                                a.nvmsetid>>)

IOCQ(a) == Cmd(5, {}, Mapped, <<a.qid \cup Shl(Minus1(a.qsize), 16),
                                a.pc \cup Shl(a.ien, 1) \cup Shl(a.iv, 16)>>)

(* read and write: send_read_write and ns_cmd_io, in C and on unsigned ints.
   What is mapped is cut to the blocks of the command. *)
ReadWrite(opc, a) ==
    Cmd(opc, {0}, [Mapped EXCEPT !.bytes = Shl(a.lba_count, SECTOR)],
        <<Low(a.lba, 32), Shr(a.lba, 32),
          (IF a.lba_count = {} THEN 0 .. 31 ELSE Minus1(a.lba_count))
             \cup Low(Shl(a.io_flags, 16), 32),
          a.dword13, a.dword14, a.dword15>>)

read(a) == ReadWrite(2, a)

write(a) == ReadWrite(1, a)

(* Zone.read and Zone.write: the offset counts from the start of the zone. *)
InZone(a) == [cmd |-> IF a.cmd = "zone_read" THEN "read" ELSE "write",
              lba |-> Plus(a.slba, a.offset), lba_count |-> a.lba_count,
              io_flags |-> a.io_flags, dword13 |-> a.dword13,
              dword14 |-> a.dword14, dword15 |-> a.dword15]

Resolved(a) == IF a.cmd \in {"zone_read", "zone_write"} THEN InZone(a) ELSE a

-----------------------------------------------------------------------------
Packed(a) ==
    CASE a.cmd = "abort" -> abort(a)
      [] a.cmd = "identify" -> identify(a)
      [] a.cmd = "getfeatures" -> getfeatures(a)
      [] a.cmd = "setfeatures" -> setfeatures(a)
      [] a.cmd = "getlogpage" -> getlogpage(a)
      [] a.cmd = "mi_send" -> mi_send(a)
      [] a.cmd = "mi_receive" -> mi_receive(a)
      [] a.cmd = "format" -> format_nvm(a)
      [] a.cmd = "sanitize" -> sanitize(a)
      [] a.cmd = "dst" -> dst(a)
      [] a.cmd = "fw_download" -> fw_download(a)
      [] a.cmd = "fw_commit" -> fw_commit(a)
      [] a.cmd = "aer" -> aer(a)
      [] a.cmd = "security_receive" -> security_receive(a)
      [] a.cmd = "security_send" -> security_send(a)
      [] a.cmd = "dsm" -> dsm(a)
      [] a.cmd = "verify" -> verify(a)
      [] a.cmd = "compare" -> compare(a)
      [] a.cmd = "flush" -> flush(a)
      [] a.cmd = "write_uncorrectable" -> write_uncorrectable(a)
      [] a.cmd = "write_zeroes" -> write_zeroes(a)
      [] a.cmd = "zns_mgmt_receive" -> zns_mgmt_receive(a)
      [] a.cmd = "zns_mgmt_send" -> zns_mgmt_send(a)
      [] a.cmd = "append" -> zone_append(a)
      [] a.cmd = "send_cmd" -> send_cmd(a)
      [] a.cmd = "IOSQ" -> IOSQ(a)
      [] a.cmd = "IOCQ" -> IOCQ(a)
      [] a.cmd = "read" -> read(a)
      [] a.cmd = "write" -> write(a)

(* The asserts of the wrappers, in their order of appearance; the last ones are
   those of send_read_write and of ns_cmd_io. *)
AssertsHold(a) ==
    CASE a.cmd = "identify" -> AtMost({12}, buffer.len)
      [] a.cmd = "getlogpage" ->
            /\ Low(SizeArg(a), 2) = {} /\ Low(a.offset, 2) = {}
            /\ Shr(SizeArg(a), 2) # {} /\ Fits(Minus1(Shr(SizeArg(a), 2)), 32)
            /\ Fits(a.offset, 64)
      [] a.cmd \in {"mi_send", "mi_receive"} -> a.mtype \in {{0}, {2}}
      [] a.cmd = "format" -> Fits(a.ses, 3) /\ Fits(a.lbaf, 4)
      [] a.cmd = "fw_commit" -> Fits(a.slot, 3) /\ Fits(a.action, 3)
      [] a.cmd \in {"security_receive", "security_send"} -> Fits(a.spsp, 16)
      [] a.cmd = "dsm" -> AtMost(buffer.len, {12})
      [] a.cmd = "zns_mgmt_receive" -> a.whole \/ a.dwords # {}
      [] a.cmd = "IOSQ" -> /\ Fits(a.qid, 16) /\ Fits(a.cqid, 16)
                           /\ AtMost(a.qsize, {16}) /\ a.qsize # {}
                           /\ Fits(a.qprio, 2)
      [] a.cmd = "IOCQ" -> /\ Fits(a.qid, 16)
                           /\ AtMost(a.qsize, {16}) /\ a.qsize # {}
      [] a.cmd \in {"read", "write"} ->
            /\ AtMost(a.lba_count, {16})
            /\ AtMost(Shl(a.lba_count, SECTOR), buffer.size)
      [] OTHER -> TRUE

(* The arguments of read and write are converted on their own, those of the
   other commands as dwords. *)
Converts(a) ==
    IF a.cmd \in {"read", "write"}
    THEN /\ Fits(a.lba, 64) /\ Fits(a.lba_count, 32)
         /\ Fits(a.io_flags, 32) /\ Fits(a.dword13, 32)
         /\ Fits(a.dword14, 32) /\ Fits(a.dword15, 32)
    ELSE /\ Fits(Packed(a).nsid, 32)
         /\ \A i \in 10 .. 15 : Fits(Packed(a).dw[i], 32)

Send(a) ==
    /\ request = NoRequest
    /\ request' = Resolved(a)
    /\ sent' = IF AssertsHold(request') /\ Converts(request')
               THEN {Packed(request')} ELSE {}
    /\ UNCHANGED buffer

(* Most calls are made with a buffer as it was created. *)
Fresh == buffer = [len |-> {12}, size |-> {12}, offset |-> {}]

CommandsNext ==
    \/ \E n \in Sizes : set_size(n) \/ set_offset(n)
    \/ \E a \in Requests : Fresh /\ Send(a)
    \/ \E a \in SizeRequests : Send(a)

-----------------------------------------------------------------------------
(* What a device finds in the dwords, from the NVMe specification: for every
   argument the first bit, counted from bit 0 of dword 10, and the width. *)
Range64(rest) == <<<<"lba", 0, 64>>, <<"lba_count", 64, 16>>>> \o rest

Dws == <<<<"cdw11", 32, 32>>, <<"cdw12", 64, 32>>, <<"cdw13", 96, 32>>,
         <<"cdw14", 128, 32>>, <<"cdw15", 160, 32>>>>

Layout(c) ==
    CASE c = "abort" -> <<<<"sqid", 0, 16>>, <<"cid", 16, 16>>>>
      [] c = "identify" -> <<<<"cns", 0, 8>>, <<"cntid", 16, 16>>,
                             <<"nvmsetid", 32, 16>>, <<"csi", 56, 8>>>>
      [] c = "getfeatures" -> <<<<"fid", 0, 8>>, <<"sel", 8, 3>>>> \o Dws
      [] c = "setfeatures" -> <<<<"fid", 0, 8>>, <<"sv", 31, 1>>>> \o Dws
      [] c = "getlogpage" -> <<<<"lid", 0, 8>>, <<"dwords", 16, 32>>,
                               <<"offset", 64, 64>>>>
      [] c \in {"mi_send", "mi_receive"} ->
            <<<<"mtype", 11, 4>>, <<"opcode", 32, 8>>, <<"dword0", 64, 32>>,
              <<"dword1", 96, 32>>>>
      [] c = "format" -> <<<<"lbaf", 0, 4>>, <<"ses", 9, 3>>>>
      [] c = "sanitize" -> <<<<"option", 0, 3>>, <<"pattern", 32, 32>>>>
      [] c = "dst" -> <<<<"stc", 0, 4>>>>
      [] c = "fw_download" -> <<<<"dwords", 0, 32>>, <<"ofst", 32, 32>>>>
      [] c = "fw_commit" -> <<<<"slot", 0, 3>>, <<"action", 3, 3>>>>
      [] c \in {"security_receive", "security_send"} ->
            <<<<"nssf", 0, 8>>, <<"spsp", 8, 16>>, <<"secp", 24, 8>>,
              <<"length", 32, 32>>>>
      [] c = "dsm" -> <<<<"range_count", 0, 8>>, <<"attribute", 32, 32>>>>
      [] c \in {"verify", "compare", "write_zeroes"} ->
            Range64(<<<<"io_flags", 80, 16>>>>)
      [] c = "write_uncorrectable" -> Range64(<<>>)
      [] c \in {"read", "write"} ->
            Range64(<<<<"io_flags", 80, 16>>, <<"dword13", 96, 32>>,
                      <<"dword14", 128, 32>>, <<"dword15", 160, 32>>>>)
      [] c = "zns_mgmt_receive" ->
            <<<<"slba", 0, 64>>, <<"dwords", 64, 32>>, <<"extended", 96, 8>>,
              <<"state", 104, 8>>, <<"partial", 112, 1>>>>
      [] c = "zns_mgmt_send" -> <<<<"slba", 0, 64>>, <<"action", 96, 8>>,
                                  <<"all", 104, 1>>>>
      [] c = "append" -> <<<<"slba", 0, 64>>, <<"lba_count", 64, 16>>>>
      [] c = "IOSQ" -> <<<<"qid", 0, 16>>, <<"qsize", 16, 16>>, <<"pc", 32, 1>>,
                         <<"qprio", 33, 2>>, <<"cqid", 48, 16>>,
                         <<"nvmsetid", 64, 16>>>>
      [] c = "IOCQ" -> <<<<"qid", 0, 16>>, <<"qsize", 16, 16>>, <<"pc", 32, 1>>,
                         <<"ien", 33, 1>>, <<"iv", 48, 16>>>>
      [] c = "send_cmd" -> <<<<"cdw10", 0, 32>>>> \o Dws
      [] OTHER -> <<>>

(* Counts start at zero in the dwords. *)
ZeroBased == {"dwords", "lba_count", "range_count", "qsize"}

Decoded(c, field) ==
    LET all == UNION {Shl(c.dw[i], 32 * (i - 10)) : i \in 10 .. 15}
        v   == Field(all, field[2], field[3])
    IN  IF field[1] \in ZeroBased THEN Plus1(v) ELSE v

(* What the script means by its arguments. *)
Meant(a, name) ==
    CASE name = "ofst" -> Shr(a.offset, 2)
      [] name = "length" -> SizeArg(a)
      [] name = "dwords" /\ a.cmd # "zns_mgmt_receive" -> Shr(SizeArg(a), 2)
      [] name = "dwords" /\ a.cmd = "zns_mgmt_receive" ->
            IF a.whole THEN Shr(buffer.len, 2) ELSE a.dwords
      [] OTHER -> a[name]

InRange(v, field) ==
    IF field[1] \in ZeroBased THEN v # {} /\ Fits(Minus1(v), field[3])
                              ELSE Fits(v, field[3])

Legal(a) ==
    /\ "nsid" \in DOMAIN a => Fits(a.nsid, 32)
    /\ \A i \in DOMAIN Layout(a.cmd) :
           InRange(Meant(a, Layout(a.cmd)[i][1]), Layout(a.cmd)[i])

(* Every call whose arguments fit the fields of its command, and pass its
   asserts, is sent, and the device reads in the fields what the script gave,
   argument by argument: no shift of one field runs into another, a 64-bit
   value is split in the right place, and a count is one less on the wire at
   both ends of its range.  The exception is a log page offset of 2^32 or
   more: dword 12 gets all of it, and the call ends in an OverflowError. *)
ArgumentsArrive ==
    /\ Legal(request) /\ request.cmd # "none" /\ AssertsHold(request)
    /\ request.cmd = "getlogpage" => Fits(request.offset, 32)
    => /\ sent # {}
       /\ "nsid" \in DOMAIN request => \A c \in sent : c.nsid = request.nsid
       /\ \A c \in sent, i \in DOMAIN Layout(request.cmd) :
              LET field == Layout(request.cmd)[i]
              IN  Decoded(c, field) = Meant(request, field[1])

(* The bytes a device moves for a command. *)
Announced(a, c) ==
    CASE a.cmd \in {"read", "write"} ->
            Shl(Decoded(c, <<"lba_count", 64, 16>>), SECTOR)
      [] a.cmd = "getlogpage" -> Shl(Decoded(c, <<"dwords", 16, 32>>), 2)
      [] a.cmd = "fw_download" -> Shl(Decoded(c, <<"dwords", 0, 32>>), 2)
      [] a.cmd = "zns_mgmt_receive" -> Shl(Decoded(c, <<"dwords", 64, 32>>), 2)
      [] a.cmd \in {"security_receive", "security_send"} -> c.dw[11]
      [] a.cmd = "identify" -> {12}
      [] OTHER -> {}

(* Calls that leave the size to pynvme, on a buffer whose part for commands the
   script has not moved past its end.  Without a size argument the length of
   the buffer is announced, so the script must not have made the part
   smaller. *)
SizedByPynvme(a) ==
    /\ \/ a.cmd \in {"read", "write"} /\ a.lba_count # {}
       \/ /\ a.cmd \in {"getlogpage", "fw_download", "zns_mgmt_receive",
                         "security_receive", "security_send"}
          /\ a.whole /\ buffer.size = buffer.len
       \/ a.cmd = "identify" /\ buffer.size = buffer.len
    /\ AtMost(Plus(buffer.offset, buffer.size), buffer.len)

(* The device is never told to move more bytes than are mapped for the command,
   and what is mapped lies inside the buffer. *)
TransferFits ==
    request.cmd # "none" /\ SizedByPynvme(request) =>
        \A c \in sent :
            /\ AtMost(Announced(request, c), c.data.bytes)
            /\ AtMost(Plus(c.data.at, c.data.bytes), c.data.len)

(* A command arrives as the script has asked for it: its arguments in their
   fields, at the ends of their ranges too, and its data within what is mapped
   (the methods of Controller and Namespace, send_admin_raw, send_io_raw). *)
ArrivesAsAsked == ArgumentsArrive /\ TransferFits
=============================================================================
