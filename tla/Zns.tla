-------------------------------- MODULE Zns --------------------------------
(***************************************************************************)
(* scripts/zns.py: a Zone object over one zone or several, and its         *)
(* ioworker, on top of the LBA selection of module IOWorkerLba.  __init__  *)
(* marks the blocks behind the capacity of every zone uncorrectable, so    *)
(* that the worker walks over them; ioworker() resets and opens the zones  *)
(* and starts a sequential writer on [slba, elba).                         *)
(*                                                                         *)
(* The device is external: a zone takes a write at its write pointer only, *)
(* within its capacity.  It executes the writes of the worker in order.    *)
(***************************************************************************)
EXTENDS IOWorkerLba

CONSTANTS ZSZE,   \* blocks from one zone to the next
          CAP     \* blocks of a zone that can be written

VARIABLES zpc,      \* "mark", "prepare", or "run" when the worker is started
          at,       \* the zone the loop is at
          zone,     \* zone |-> [state, wp], wp relative to the zone
          refused,  \* the device has refused an action on a zone
          failed    \* the device has failed a write of the worker

zvars == <<zpc, at, zone, refused, failed>>

(* slba_list *)
Zones == {z \in raw.region_start .. raw.region_end - 1 :
             (z - raw.region_start) % ZSZE = 0}

Fresh == [state |-> "Empty", wp |-> 0]

States == {Fresh, [state |-> "Open", wp |-> 1], [state |-> "Closed", wp |-> 1],
           [state |-> "Full", wp |-> CAP]}

ZInit ==
    /\ Init
    /\ zpc = IF raw.zoned THEN "mark" ELSE "run"
    /\ at = raw.region_start
    /\ zone \in IF raw.zoned THEN [Zones -> States] ELSE {<<>>}
    /\ refused = FALSE
    /\ failed = FALSE

-----------------------------------------------------------------------------
(* The loops go through slba_list. *)
ToNextZone(next) ==
    IF at + ZSZE < raw.region_end
    THEN at' = at + ZSZE /\ UNCHANGED zpc
    ELSE at' = raw.region_start /\ zpc' = next

Gap(z) == z + CAP .. z + ZSZE - 1

(* __init__; the table of the driver follows a command that succeeds. *)
MarkZone ==
    /\ zpc = "mark"
    /\ \/ uncorr' = uncorr \cup Gap(at) /\ UNCHANGED refused
       \/ ZSZE > CAP /\ refused' = TRUE /\ UNCHANGED uncorr
    /\ ToNextZone("prepare")
    /\ UNCHANGED <<raw, sequential_lba, cmd, issued, covered, total, asserted,
                   zone, failed>>

(* Actions 4 (reset) and 3 (open) of a zone management send. *)
ResetZone(z) == Fresh

OpenZone(z) == IF z.state = "Full" THEN z ELSE [z EXCEPT !.state = "Open"]

(* _mgmt_receive and state: what the device reports of the zone the object
   starts with. *)
mgmt_receive(slba) == zone[slba]

state == mgmt_receive(raw.region_start).state

(* ioworker(): "non empty, reset, then open".  The state looked at is that of
   the first zone in every turn. *)
MutPrepareZone_OpenOnly ==
    /\ zpc = "prepare"
    /\ \/ zone' = [zone EXCEPT ![at] = OpenZone(@)] /\ UNCHANGED refused
       \/ refused' = TRUE /\ UNCHANGED zone
    /\ ToNextZone("run")
    /\ UNCHANGED <<vars, failed>>

PrepareZone ==
    /\ zpc = "prepare"
    /\ LET z == IF state # "Empty" THEN ResetZone(zone[at]) ELSE zone[at]
       IN  \/ zone' = [zone EXCEPT ![at] = OpenZone(z)] /\ UNCHANGED refused
          \/ /\ zone' \in {zone, [zone EXCEPT ![at] = z]}
             /\ refused' = TRUE
    /\ ToNextZone("run")
    /\ UNCHANGED <<vars, failed>>

-----------------------------------------------------------------------------
(* The zone of an LBA, and what the device makes of a write. *)
ZoneOf(lba) == CHOOSE z \in Zones : lba \in z .. z + ZSZE - 1

Lands(c) ==
    LET z == ZoneOf(c.lba)
    IN  /\ zone[z].state = "Open"
        /\ c.lba = z + zone[z].wp
        /\ zone[z].wp + c.count <= CAP

ZoneWrite(c) ==
    IF Lands(c)
    THEN /\ zone' = [zone EXCEPT ![ZoneOf(c.lba)] =
                        [state |-> IF @.wp + c.count = CAP THEN "Full"
                                   ELSE "Open", wp |-> @.wp + c.count]]
         /\ UNCHANGED failed
    ELSE failed' = TRUE /\ UNCHANGED zone

ZSend ==
    /\ zpc = "run"
    /\ SendSequential \/ SendRandom
    /\ IF raw.zoned /\ issued' # issued THEN ZoneWrite(cmd')
       ELSE UNCHANGED <<zone, failed>>
    /\ UNCHANGED <<zpc, at, refused>>

ZComplete == zpc = "run" /\ WriteCompletes /\ UNCHANGED zvars

ZNext == MarkZone \/ PrepareZone \/ ZSend \/ ZComplete

ZSpec == ZInit /\ [][ZNext]_<<vars, zvars>>

-----------------------------------------------------------------------------
(* Whatever state the zones are in when the script calls ioworker, and unless
   the device refuses an action, a sequential writer whose size divides the
   capacity writes every zone at its write pointer, walks from one zone to the
   next over the blocks that cannot be written, and fails no write until all
   zones are full.  The checksum table must cover the zones: the walk goes by
   the marks in it. *)
WritesLand ==
    /\ raw.zoned /\ ~refused
    /\ OneSize(raw) /\ CAP % SizeOf(1) = 0 /\ AlignOf(1) = 1
    /\ raw.lba_start <= raw.region_start /\ raw.region_end <= TABLE
    /\ issued * SizeOf(1) <= CAP * Cardinality(Zones)
    => ~failed
=============================================================================
