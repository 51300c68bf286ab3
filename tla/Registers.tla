----------------------------- MODULE Registers -----------------------------
(***************************************************************************)
(* What a script reads from a device and sets in its PCI configuration     *)
(* space: Pcie.register, cap_offset, aspm and power_state, id_data and     *)
(* what is read with it: Controller.mdts, Namespace.capacity and           *)
(* get_lba_format, and supports (src/driver_wrap.pyx).                     *)
(*                                                                         *)
(* A byte of the configuration space is the set of its bits.               *)
(***************************************************************************)
EXTENDS Bits, Sequences

CONSTANTS Spaces,    \* configuration spaces: address |-> byte
          Devices,   \* [mpsmin, mdts, capacity, formats, effects]: the data of
                     \* identify, formats a sequence of [ms, lbads], and the
                     \* commands supported
          Formats,   \* [ms, lbads] a script asks for
          Opcodes,   \* opcodes a script asks about
          MaxCaps,   \* bound: capabilities in a list, and the end of it
          MaxWrites  \* bound: assignments to aspm and power_state

VARIABLES cfg,       \* the configuration space
          cfg0,      \* as it was at the beginning
          asked,     \* what was assigned last: [aspm, power], a set each
          device,
          writes

regvars == <<cfg, cfg0, asked, device, writes>>

RegistersInit ==
    /\ cfg0 \in Spaces /\ cfg = cfg0
    /\ asked = [aspm |-> {}, power |-> {}]
    /\ device \in Devices
    /\ writes = 0

(* A number that is an address. *)
Value(x) == SumSet({2^b : b \in x})

-----------------------------------------------------------------------------
(* register: little endian, of bytes read one by one. *)
register(space, offset, byte_count) ==
    UNION {Shl(space[offset + i], 8 * i) : i \in 0 .. byte_count - 1}

(* cap_offset: along the list of capabilities, which starts at 0x34 and has an
   id and the next offset in each; a set, empty for None. *)
NextCap(space, offset) == Value(Shr(register(space, offset, 2), 8))

Walk(space) ==
    LET at[k \in 1 .. MaxCaps] ==
            IF k = 1 THEN Value(register(space, 52, 1))
            ELSE IF at[k - 1] = 0 THEN 0 ELSE NextCap(space, at[k - 1])
    IN  at

cap_offset(space, id) ==
    LET w     == Walk(space)
        found == {k \in DOMAIN w :
                     w[k] # 0 /\ Low(register(space, w[k], 2), 8) = Num(id)}
    IN  IF found = {} THEN {} ELSE {w[Min(found)]}

aspm(space) ==
    {Low(register(space, c + 16, 2), 2) : c \in cap_offset(space, 16)}

power_state(space) ==
    {Low(register(space, c + 4, 4), 2) : c \in cap_offset(space, 1)}

(* (old & 0xfc) | new, into the lowest byte. *)
LowBits(old, new) == (Field(old, 0, 8) \ {0, 1}) \cup new

(* The setters.  Without the capability, None + 16 raises. *)
set_aspm(control) ==
    /\ writes < MaxWrites
    /\ \E c \in cap_offset(cfg, 16) :
          cfg' = [cfg EXCEPT ![c + 16] = LowBits(register(cfg, c + 16, 2),
                                                 control)]
    /\ asked' = [asked EXCEPT !.aspm = {control}]
    /\ writes' = writes + 1
    /\ UNCHANGED <<cfg0, device>>

set_power_state(state) ==
    /\ writes < MaxWrites
    /\ \E c \in cap_offset(cfg, 1) :
          cfg' = [cfg EXCEPT ![c + 4] = LowBits(register(cfg, c + 4, 4), state)]
    /\ asked' = [asked EXCEPT !.power = {state}]
    /\ writes' = writes + 1
    /\ UNCHANGED <<cfg0, device>>

RegistersNext == \E v \in SUBSET {0, 1} : set_aspm(v) \/ set_power_state(v)

-----------------------------------------------------------------------------
(* A byte of the data of identify: of the controller for cns 1, of the
   namespace for cns 0. *)
IdByte(d, cns, byte) ==
    LET fid == (byte - 128) \div 4 + 1
    IN  CASE cns = 1 /\ byte = 77 -> Num(d.mdts)
          [] cns = 0 /\ byte \in 48 .. 63 -> Field(d.capacity, 8 * (byte - 48), 8)
          [] cns = 0 /\ byte >= 128 /\ fid \in DOMAIN d.formats ->
                Field(Num(d.formats[fid].ms) \cup Shl(Num(d.formats[fid].lbads), 16),
                      8 * (byte % 4), 8)
          [] OTHER -> {}

(* Controller.id_data and Namespace.id_data: a little-endian field, its last
   byte included. *)
id_data(d, cns, byte_end, byte_begin) ==
    UNION {Shl(IdByte(d, cns, byte_begin + i), 8 * i) :
             i \in 0 .. byte_end - byte_begin}

ns_id_data(d, byte_end, byte_begin) == id_data(d, 0, byte_end, byte_begin)

capacity(d) == ns_id_data(d, 63, 48)

(* get_lba_format: the first of 16, in a set; empty for None. *)
get_lba_format(d, lbads, ms) ==
    LET support(fid) == ns_id_data(d, 128 + fid * 4 + 3, 128 + fid * 4)
        fit == {fid \in 0 .. 15 : /\ Field(support(fid), 16, 8) = Num(lbads)
                                  /\ Low(support(fid), 16) = Num(ms)}
    IN  IF fit = {} THEN {} ELSE {Min(fit)}

(* mdts: pages times a power of two, and 1 MB at most. *)
mdts(d) ==
    LET page  == 12 + d.mpsmin
        shift == Value(id_data(d, 1, 77, 77))
    IN  IF shift = 0 \/ page + shift > 20 THEN {20} ELSE {page + shift}

(* The commands supported and effects log: four bytes for each admin command,
   then four for each io command, bit 0 set when it is supported. *)
EffectsLog(d, byte) ==
    IF \E e \in d.effects : byte = 4 * e.opcode + (IF e.io THEN 1024 ELSE 0)
    THEN {0} ELSE {}

(* Controller.supports, and Namespace.supports, 256 further. *)
supports(d, opcode) == 0 \in EffectsLog(d, opcode * 4)

ns_supports(d, opcode) == supports(d, 256 + opcode)

-----------------------------------------------------------------------------
(* Where the capabilities are, whatever the order of the list. *)
Holds(space, id, c) ==
    /\ c \in DOMAIN space /\ space[c] = Num(id)
    /\ \E k \in DOMAIN Walk(space) : Walk(space)[k] = c

(* aspm and power_state read as they were assigned last, and assigning them
   changes nothing else in the configuration space: their two bits in the byte
   of their capability, whatever the list of capabilities looks like.  mdts is
   no more than the device takes, the capacity is that of the device, to its
   last bit, an LBA format is found when the device has it, and the commands
   reported as supported are those the device has in its log. *)
RegistersRight ==
    /\ asked.aspm # {} => aspm(cfg) = asked.aspm
    /\ asked.power # {} => power_state(cfg) = asked.power
    /\ \A i \in DOMAIN cfg : cfg[i] # cfg0[i] =>
           /\ cfg[i] \ {0, 1} = cfg0[i] \ {0, 1}
           /\ \/ asked.aspm # {} /\ Holds(cfg0, 16, i - 16)
              \/ asked.power # {} /\ Holds(cfg0, 1, i - 4)
    /\ AtMost(mdts(device), {20})
    /\ device.mdts # 0 =>
           AtMost(mdts(device), {12 + device.mpsmin + device.mdts})
    /\ capacity(device) = device.capacity
    /\ \A f \in Formats :
           LET fits == {fid \in 0 .. 15 : fid + 1 \in DOMAIN device.formats
                                         /\ device.formats[fid + 1] = f}
           IN  /\ get_lba_format(device, f.lbads, f.ms) \subseteq fits
               /\ fits # {} => get_lba_format(device, f.lbads, f.ms) # {}
    /\ \A o \in Opcodes :
           /\ supports(device, o)
                  <=> [io |-> FALSE, opcode |-> o] \in device.effects
           /\ ns_supports(device, o)
                  <=> [io |-> TRUE, opcode |-> o] \in device.effects
=============================================================================
