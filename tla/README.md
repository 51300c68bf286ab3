# pynvme in TLA+

pynvme is a user-space NVMe test driver: a Python extension (`src/driver_wrap.pyx`)
over a C driver (`src/driver.c`, `src/ioworker.c`, `src/intr_mgt.c`) on top of SPDK.
A test script sends commands, waits for completions, runs io workers in processes of
their own, resets the device under them, and expects the driver to verify all the data
that comes back. This directory models the parts of the driver where that goes wrong
in ways a unit test hardly reaches. Paths below are relative to the repository.

## The system and its parts

| part | code | state | operations | module |
|---|---|---|---|---|
| command log | `src/driver.c` "cmd log" | a ring of entries per queue pair, heap copies, links between entries and requests | `cmdlog_add_cmd`, `cmdlog_cmd_cpl`, `log_cmd_dump` | `CmdLog` |
| io worker loop | `src/ioworker.c` | pending list, requests held for an LBA conflict, counters, finish flag, io log, per-second counters | `ioworker_entry`, `ioworker_send_one`, `ioworker_one_cb` | `IOWorker`, `IoRun` |
| data verification | `src/driver.c` "crc32 table", completion path, `ns_cmd_io` | one word per LBA (checksum, lock bit) shared by all processes, the io token | lock, submit, retry, update, verify, unlock, clear | `DataVerify` |
| admin queue | `Controller.waitdone`, `aer_cmd_cb` (`driver_wrap.pyx`), `nvme_wait_completion_admin`, `intc_mask`/`intc_unmask` | AERs, interrupt message and mask, global counters, the call stack of `waitdone` | send and wait, poll, re-send AERs, nested waits, the alarm | `AdminQueue` |
| worker processes | `_IOWorker`, `Pcie._driver_cleanup` (`driver_wrap.pyx`), `driver_no_secondary` | processes, result queues, the namespace lock, attached secondaries, the terminate flag | `start`, `close`, the resets, `_ioworker` from creation to exit | `WorkerProcess` |
| LBA selection, zones | `Namespace.ioworker`, `src/ioworker.c`, `crc32_skip_uncorr`, `scripts/zns.py` | the next sequential LBA, size and distribution tables; the zones of the device | the checks of the arguments, `ioworker_send_one_lba` and its helpers; `Zone.__init__`, `Zone.ioworker` | `IOWorkerLba`, `Zns` |
| io queue pairs and interrupts | `Qpair`, `cmd_cb` (`driver_wrap.pyx`), `src/intr_mgt.c` | messages and masks of the vectors, the re-entry flag, the alarm | create, delete, `waitdone`, `msix_*`, `intc_init`, `intc_fini` | `Qpair` |
| objects and their C resources | `Pcie`, `Controller`, `Namespace`, `Qpair`, `nvme_init`, `nvme_fini`, `ns_*` | the controller, queue pair pointers, the memory of the checksum table | open, reset, format, close, in any order | `Lifecycle` |
| fixtures of tests | `conftest.py` | what a test has set up, in order | set-up, test, teardown, with failures in each | `Fixtures` |
| controller, resets and power | `Controller._nvme_init`, `Controller.reset`, `Subsystem`, `Pcie.reset`, `Pcie.flr`, `Namespace.format` | registers and power of the device, the place in sysfs, the C controller, the command timeout | every reset and power operation, the initialisation, shutdown, format, timeouts | `Controller` |
| commands of a script | the wrappers of `Controller` and `Namespace` | the buffer, the command sent | every command with its asserts and conversions | `Commands` |
| buffers, firmware download | `Buffer`, `Controller.downfw` | memory, the buffer in flight, the slot of the device | item, slice and range access, dump, download and commit | `Buffer` |
| report of a worker | `_IOWorker.close` after the join | tables of the worker, the report | `close` | `Report` |
| queues by hand | `scripts/psd.py` | `IOSQ`, `IOCQ`, `SQE`, `CQE`, PRP lists, doorbells | create, write and read entries, ring, delete, point to buffers, search | `Psd` |
| registers and identify | `Pcie.register`, `cap_offset`, `aspm`, `power_state`, `id_data` and what reads with it | configuration space, identify data | the assignments; the reads are operators | `Registers` |
| trace recorder | `scripts/trace/recorder.py` | files per queue and five minutes, diagram, archive, the user's clicks | start, record, stop and save | `Recorder` |
| time, RPC server, API stubs | several | | | not modelled |

How they interact: a command of a script or of an io worker is given a request, may be
held because its LBAs are locked (`DataVerify`), is entered into the log of its queue
pair when SPDK submits it (`CmdLog`), and when its completion is reaped the log entry
tells which command to apply to, or check against, the checksum table (`DataVerify`);
the callback then lets the io worker send its next command (`IOWorker`), or is counted
by `waitdone` (`AdminQueue`). A reset of the device first ends all worker processes
through a flag the io loop looks at (`WorkerProcess`, `IOWorker`), takes the device
through its registers again (`Controller`), and makes a new controller under the script's
objects (`Lifecycle`). What a script does alone, in its own thread (`Commands`, `Buffer`,
`Report`, `Psd`, `Registers`), shares no state with each other nor with the recorder, which is
a program of its own; `Script` puts them together as scenes of one specification.

What makes it hard: completions come in any order and late; the ring of the log is
shorter than the life of a slow command; lock bits are checked and set in two steps on
shared words; AERs complete among the commands that are waited for; an interrupt may
arrive while the last one is being handled; workers end, fail or die while the script
starts, closes or resets; counters wrap or are compared with equality.

## Modules

Every component module has its state as variables named after the code's, one action per
operation or per step other processes can interleave with, and its properties at the end.
`MC*` modules only provide values of constants (`Controller` needs none). Definitions called `Mut...` are variants
of the definition below them with one mistake in them; they are used by nothing and serve
to see that a property notices that mistake.

**CmdLog** - memory is a function from addresses (ring slots and heap) to entries. A
command is the serial number of its submission. `AddToFreeEntry` and `AddOverlapping` are
the two branches of `cmdlog_add_cmd`; in the second the entry of a pending command moves
to the heap and its request is re-linked. `CompleteLogged` is `cmdlog_cmd_cpl`, with the
`assert(false)` as a flag, the effect on the checksum table as a set of commands, and the
free of a copy. `log_cmd_dump` is the dump as an operator on the state: what each turn of its
loop prints, an entry or nothing; `cmdlog` is the one a script calls, `qpair_get_latest_cid` what
`latest_cid` reads.

**IOWorker** - `pc` goes round the main loop: `top` (send the head of the list if it is
due), `poll` (timeout and terminate tests), `reap` (callbacks one by one, then at most one
retry of a held request). The device, the clock and the script's terminate flag step in
between. Arguments are chosen from a set of records at the start. Which LBA a command has
is left out, so a conflict may happen whenever another command is outstanding; a
submission may also fail. Entering the loop with `io_count` 0 means no limit, as the code
has it. `seconds` is the value after "revise args".

**IoRun** - the promise of a worker without lists and time: commands issued and completed
one for one within a limit and a window, none issued after closing, a normal end only when
all have completed. `IOWorker` implements it with `issued <- io_count_sent`,
`done <- io_count_cplt` and a state computed from `pc`, the finish flag and the return value.

**DataVerify** - a block holds what `ns_cmd_io` puts there, its LBA and a fresh token; a
checksum is taken to be injective. A request goes free, checked, (queued,) device, done.
The check and the setting of lock bits are two steps, between which only other processes
run. The device (external) executes commands in any order, may fail with a partial effect,
and may return the wrong block. Lengths are taken modulo `WRAP` exactly where the code
uses `uint16_t`. `tainted` is history: LBAs whose content nobody knows because a write
failed or was abandoned by a reset.

**AdminQueue** - `stack` has a frame for every active `waitdone`, since `waitdone` calls
itself for commands whose place AERs took. The interrupt handshake is modelled step by
step: wait for the message, mask, process, clear, unmask; an interrupt raised under the
mask is delivered by the unmask. The script is assumed to wait for exactly the batch it
sent. The alarm fires only when there is nothing left to wait for, because the time-out of
`waitdone` is longer than the drive time-out that completes every command.

**WorkerProcess** - the script's process (`parent`) is in at most one call; worker
processes run beside it. `_driver_cleanup` is three actions (retry, give up, end), since
the workers run while it sleeps. The multiprocessing queue is a sequence; the namespace lock is a
variable. `IoEnds` and `IoCrashes` stand for all of `IOWorker`. A `with` statement is a
start that may not be followed by a close; `running` is what a script can ask meanwhile.

**IOWorkerLba** - one action per kind of command, sequential or random, each with all the
sizes and draws `random()` could give; LBAs are unsigned and wrap at `U64`. `Accepted`,
`FillsRegion` and `IoCount` are the checks and defaults of `Namespace.ioworker`, for a
worker without a time limit when the count is to be computed. `crc32_skip_uncorr` walks
past the end of the table; what it finds there is left open. `PlainRegion` and
`PlainSequence` say for which arguments the properties are stated.

**Zns** - extends `IOWorkerLba` with zones. `MarkZone` and `PrepareZone` are one turn each of
the loops of `Zone.__init__` and `Zone.ioworker`; then the worker runs, and the device takes
its writes in order, each at the write pointer of its zone or not at all. The state a turn
looks at is that of the first zone, as in the code.

**Qpair** - the device's capabilities are a choice; `intc_init` has the fallback from
MSI-X to MSI. A completion writes a message, or is held under the mask. `waitdone` is its
start, one step per round of the loop and its end; a callback may try to call `waitdone`,
and the alarm may go off in the loop or inside a callback. The retry of a held request
in `qpair_wait_completion` is in `DataVerify`. `fresh` and `clean` are history.

**Lifecycle** - the script calls open, reset, format, delete and close in any order.
`owner` says for which object the memory at an address was allocated; `zone`, `crc_table`
and `enabled` are the checksum memory, the pointer to it and its flag. `broken` is
history: the rules a script or the device has broken so far (a reset with open queue
pairs, two Namespaces of one id, a Pcie closed before its Namespace, a device that is
not found again). The register handshake of `_nvme_init` is one step, which may never
come. The step for a `Pcie` that is closed while queue pairs are active has all of them
gone: those the loop of `nvme_fini` does not reach are freed by SPDK with the controller.

**Controller** - a call of the script is the sequence of its steps still to do (`todo`), a
step is an action, and an exception drops the rest. The device answers `cc.en`, `cc.shn` and
commands late or never and may vanish at any time; a tick is the unit of the three time
limits. `dev.aq` is the C controller whose admin queue the registers point to, so that a
queue of a controller that was replaced can be told from the present one. What a machine
offers (S3, NSSR, power callbacks, each by itself) is chosen at the start. `fault` is
history: the reasons outside the driver for which the present call may raise.
`_driver_cleanup` is one step here that ends or times out; its loop is in `WorkerProcess`.

**Bits** - numbers as sets of bits: widths of 64 and 128 bits, shifts, fields and carries
without arithmetic beyond TLC's 32 bits.

**Commands** - a request is a record of arguments, taken at both ends and in the middle of
each range; the command is its dwords, computed as the code does, shift by shift, with the
asserts and the `OverflowError` of the conversion to `unsigned int`. `Decoded` is what a device
reads in the dwords, written from the NVMe specification: the properties compare the two.
`Mapped` is the memory the driver gives to the device for the data.

**Buffer** - the memory of a buffer with a margin on both sides, since negative indices are
not refused. `downfw` is its loop: the chunk, the wait, the commit; the device reads the
buffer whenever it gets to the command.

**Report** - outcomes of a worker and what `close` returns for each. **Registers** - the
configuration space byte by byte, with the list of capabilities as a chain in memory; `id_data`
puts bytes together in the code's order.

**Psd** - a device behind the doorbells of the script takes commands up to the tail it was
told, and posts completions with the phase of its lap; objects of the script, which keep
their id after `delete`, write and read the memory of the queues. `misled` is history: queues
whose doorbell a former owner of the id has rung. The search in a chain of PRP lists is
compared with the plain concatenation of its pages.

**Recorder** - the window of the second process puts answers into the queue at any time; the
first process looks at it before each line. Directories are what `makedirs` has made and
nothing has removed; opening one twice raises. `recorded` is history.

**Script** - the modules above as scenes. Which scene a behaviour plays is chosen at the
start; the variables of the others keep one value.

**Fixtures** - tests instead of a free script on top of `Lifecycle`. pytest (external) sets up
what a test asks for, each fixture after its parameters, and finishes in the opposite order
whatever has raised; between them the test resets, formats and makes queue pairs of its own,
which may be collected as late as in the next test.

**CmdLogProofs**, **IOWorkerProofs**, **DataVerifyProofs**, **AdminQueueProofs**,
**WorkerProcessProofs**, **QpairProofs**, **LifecycleProofs**, **ControllerProofs** - theorems, see
below.

## Runs

| run | what is asked |
|---|---|
| `cmdlog` | ring of 2, 3 requests, 6 commands: the ring wraps three times over pending entries, two copies exist at once. A completion finds its own entry (the assert is never reached), copies do not leak, the dump is the newest commands first, each command is applied once. |
| `ioworker` | ten argument records (counted, timed, throttled, replayed, with io log, with per-second counters, oversize), all interleavings with the device, the clock and termination: every command is accounted for, the iops throttle holds, a trace goes out in order, the io log is right, the worker stops for a reason and always ends, and it implements `IoRun`: within its limits, nothing sent after the finish flag, nothing outstanding at a normal return. |
| `ioworker_lba` | a namespace of 11 blocks, 9 of them in the table, sequential, random, stepping and distributed workers: commands are aligned and stay in the region, the asserts hold unless the region ends in uncorrectable blocks, a sequential worker advances and wraps only at the end, and the computed count fills the region exactly once. On zones in every mix of states, a sequential writer meets each zone at its write pointer and walks over the gaps. |
| `data_verify` | two processes on LBAs of their own, three requests, all opcodes, overlapping ranges, a range that leaves the table: lock bits match commands and exclude, the table matches the medium, a good device is never reported and a wrong block always is. The lock check is not atomic, so the code does not promise exclusion between processes on the same LBAs. |
| `admin_queue` | none, one or two AERs, polling or interrupts, up to 4 commands in batches of up to 3: `waitdone` returns, so that no interrupt is lost; AERs are kept armed; with at most one AER no call fails and a batch is complete when it returns. |
| `worker_process` | two workers started, closed and reset in any order: no secondary process is attached during a reset, the terminate flag is set only in a cleanup, processes that are gone are detached, calls return, and a script that polls `running` is told the end. |
| `qpair` | two queue pairs on devices with MSI-X, MSI or no usable interrupts: `msix_isset` is exact for a queue with a vector of its own, the asserts hold on a device with usable interrupts, `waitdone` is not nested and always ends, except for a wait whose alarm was handled in a callback. |
| `lifecycle` | two objects of each kind, two resets: `qpair_free` never gets a stale pointer unless the script resets with open queue pairs, the assert of `ns_table_init` and the cleanup hold for a script that closes in order, enabled verification survives resets and formats. Tests that use the fixtures leave nothing to the next test, wherever a set-up or the test itself raises, unless a reset was not brought to its end. |
| `controller` | any three calls after the first initialisation, on every kind of machine and a device that is slow, silent, failing or lost: once up, the device is ready, works on the present admin queue and has one AER; its queue registers are written only while it is disabled; no history makes `Controller.reset` fail by itself; a call that does not raise leaves the timeout as it was; every call ends. |
| `script` | the scenes of `Script`: commands at the ends of their ranges arrive field by field and never move more data than is mapped; what is written into buffers, entries, queues and configuration space is read back where it was written; a firmware image arrives whole through one buffer; the report of a worker and the saved trace tell what happened; commands and completions pass the queues of a script once and in order; memory a device may use stays allocated. |

Two runs show where the code does not do what a comment or the documentation says; each
checks one property and TLC gives a counterexample.

| run | disagreement |
|---|---|
| `ioworker_trace` | a replayed trace longer than the first batch ends without sending its last entry: the callback that takes the entry also advances the index to the end, which sets the finish flag (`src/ioworker.c:226`). |
| `data_verify_long` | a command of 65536 blocks has length 0 as a `uint16_t`: it is neither checked for locks nor entered into the table, and later reads of good data are reported. |

Seen while modelling and not made runs of:

- with two AERs, `waitdone` decides how often to call itself before the first of these
  calls, which may reap more than one command; the next one times out
  (`src/driver_wrap.pyx:1174`);
- a worker that has ended without error when a reset begins waits for its result to be
  collected, which the script cannot do inside `_driver_cleanup`, until that raises
  (`src/driver_wrap.pyx:2803`);
- a worker terminated before its first completion divides by zero (`src/ioworker.c:749`)
  instead of returning -7; `IOWorker` has the step (`DivideByZero`), `WorkerProcess` the
  dead process (`IoCrashes`);
- completions that arrive while a worker drains after its time limit are counted in
  seconds the per-second table has no place for (`src/ioworker.c:188`);
- a sequential worker with commands smaller than its alignment repeats the last aligned
  LBA of its region for ever; a negative step, or alignments that do not divide the largest
  one, leave the region; aligning the start may pass the end (`src/ioworker.c:567`);
- with a vector that is not the queue's id, `intc_clear` clears another place than
  `intc_isset` reads (`src/intr_mgt.c:315`);
- on an MSI-X table in an unusable BAR, "will switch to msi intr" (`src/intr_mgt.c:232`)
  ends in an assert, the name of the memzone being taken already;
- a time-out inside a callback is lost and resets the re-entry flag
  (`src/driver_wrap.pyx:92`);
- a reset that does not find the device leaves the checksum memory behind, and the next
  Namespace fails an assert (`src/driver.c:1349`); `nvme_fini` reads the queue pair it has
  just freed to find the next one (`src/driver.c:1055`);
- `latest_cid` is set when a command is sent, while the documentation speaks of the latest
  completed one; the incremented `head_index` of the log is stored only when it wraps; a
  slow command disappears from the log when the ring passes it, although its entry lives on
  in the heap; `timeout_driver_cb` assigns a local variable, so that error -3 is never
  reported;
- `shutdown_notify` waits for the shutdown in abrupt mode, too, where `doc/api.rst:1377` says
  "return immediately", and the bits of `cc.shn` are only ever added;
- a format that raises leaves the long timeout behind, and an unknown LBA format raises a
  `TypeError`; after `Controller.reset` the C controller has no timeout callback until the
  script assigns `timeout` again; `Pcie.reset` raises when the device is not in sysfs;
- a log page offset of 2^32 or more ends in an `OverflowError`, although the assert allows
  "64-bit field" (`src/driver_wrap.pyx:1325`); bit 31 of `io_flags` is lost in `read`
  and `write`; a command
  with its default size announces the whole buffer even when `buf.size` was made smaller;
- `downfw` sends what the last, shorter chunk leaves of the one before, and commits an image
  of which a download was refused;
- `close` raises when `output_io_per_second` was given and the worker ran for less than a
  second; `running` is true before `start` and for ever after a crash; `__exit__` raises
  before `close` when the body of the `with` has raised;
- in `psd.py` a queue in several buffers cannot be indexed (the index becomes a float), an
  index of -1 writes before the queue, a creation that failed leaves id 0 and with it the
  doorbells of the admin queue, a deleted queue's object can ring its successor's bell, and
  `CQE.status` masks three bits of the field;
- `Zone.ioworker` runs for 10 seconds by default, where its comment says one pass;
- the recorder loses the io of the first line, which gives the time base, and of the line
  read with a click; it ends with an exception when a time goes back into a five minutes
  that already has a directory, or for a queue above 4.

### Bounds, and why they are enough

Behaviours are cut off by the named bounds `MaxCmds`, `MaxTime`, `MaxIO`, `MaxEvents`,
`MaxBatch`, `MaxAers`, `MaxResets`, `MaxCalls`, `MaxOps`, `MaxInserts`, `MaxPosts`, `MaxSets`,
`MaxWrites`, `MaxCaps`, `MaxLines` and `MaxClicks`; where a bound makes a behaviour stop, deadlock is not checked
(`cmdlog` has no such stop). The ring of 2 with 3 requests is the smallest that has a
pending entry overwritten while a copy exists. A queue of depth 3 has two commands in
flight, which is what reordering, conflicts and draining take; four completions and four
ticks reach past the time limit plus the grace period (`SEC` and `GRACE` are 1). Four
blocks with three of them in the table give one process ranges that overlap and the other
ranges across the table's end. Eleven blocks leave a remainder over three sections and
room for a second pass of every size; addresses reach far beyond the namespace before they
wrap at 64. Two queue pairs are one and a neighbour that may share its vector. Two objects
of each kind are an old and a new one, and two addresses let the memory of a freed queue
pair be used again. `MAX_VECTOR_NUM` is 5, so that a device may have fewer vectors than there are
queues or more. `RETRY` is 2 rather than 100: only "not the last" and "the last"
differ. Three calls after the first initialisation are two that leave the device anywhere and
the reset that has to recover from it; the limits are one tick each, so that an answer comes
in time, at the limit or after it. Zones of 4 blocks with a capacity of 2 have a gap as
long as themselves. A queue of one entry is full with the first, one of three has a second
lap within seven completions and both phases. Arguments of commands are 0, the lowest and
the highest bit of the field, all its bits, and one value too large. Six lines and periods of 2 give a recording several
directories, and three clicks a second recording after the first. Requests are interchangeable and symmetric in `cmdlog` and, those of one process, in `data_verify`;
the objects of `lifecycle` are, too. Only safety is checked there.

`TypeOK` of a module is a conjunct of the invariant about the bookkeeping of that module.

### Fairness

- `IOWorker`: the loop runs on a core of its own and never blocks (weak fairness of the
  loop), and time passes. Nothing is assumed of the device: a worker whose device is
  silent ends through its time-out.
- `AdminQueue`: the poll loop keeps running; every command but an AER completes, by the
  device or by SPDK's drive time-out; the alarm set by `signal.alarm` goes off if a
  `waitdone` keeps polling with nothing to come (strong, since polling makes it enabled
  again and again rather than all the time). AERs may never complete.
- `WorkerProcess`: each process keeps running, and a worker that keeps asking for the
  namespace lock gets it (strong: it is free again and again). No fairness of the script's
  calls. `CallsReturn` says nothing of a script whose worker has died: `close()` then waits
  for a result for ever. That the io of a worker ends, which the fairness of its process
  includes here, is `Terminates` of `IOWorker`.
- `Qpair`: the loop of `waitdone` keeps running, and a pending alarm goes off.
- `Controller`: the thread of the script runs and time passes. Nothing is assumed of the
  device: each wait has a limit.
- `IOWorkerLba` with `Zns`, `Lifecycle`, `DataVerify` and `Script` state safety only.

## Proofs

Nearly every safety property of the runs on components with processes, interrupts or a device
beside them is also a theorem, for every value of the constants; the list is in `PROJECT.json`. Each
proof module has an inductive invariant `Inv` with a named conjunct per reason, a lemma per
action that the action keeps it, `InvAlways` (`Spec => []Inv`), and a theorem per property. The
assumptions are the named `ASSUME`s of the component's module, which TLC evaluates in the runs.

`CmdLogProofs` proves, for every number of requests, ring depth, heap and number of
commands, all that the run `cmdlog` checks on a small instance: `TypeAlways` (types and index
ranges), `AssertHolds` (the assert of `cmdlog_cmd_cpl` is unreachable), `OwnEntry`
(a pending request points to the entry of its own command), `NoLeak` (the heap copies are
exactly those pending requests point to), `AppliesOnce` (a completion applies its own
command, and none twice), and `DumpAlwaysNewestFirst`.

None of these is inductive: that a completion finds its entry depends on what the ring's
wrap did to other requests. The invariant is `Inv == TypeOK /\ LinkInv /\ NumInv`.
`LinkInv` says that sent requests and live entries point at each other one to one, that a
request that is not sent has no entry, that every allocated copy has a request, and that
an entry is marked as a copy exactly when it is in the heap. The one-to-one link is what
makes moving an entry safe: the request found in the overwritten slot is the only one that
points there. `NumInv` says that commands in flight have different numbers and have not
been applied. `RingInv`, for the dump, says that the slots read backwards from the tail are the
history of commands: when the tail moves on, the slot it leaves has the newest command and all
others are one turn further back. The assumptions are those in `CmdLog`: the
depth is positive, `NoReq` is no request, heap addresses are not slots.

`IOWorkerProofs` proves, for any set of arguments with a queue depth of at least 2 (which
`Namespace.ioworker` asserts), that every command is accounted for, that the iops limit holds in
every prefix, that a trace goes out in order, that the io log is the last commands completed, and
that the worker implements `IoRun` (`WorkerImplementsIoRun`). Everything starts from where a ctx is:
`PlaceInv` says that each list names ctxs of its own state, each once, and that every ctx that
waits is in the list of those that do. A step moves one ctx from a place to another, so that the sum of
`SumInv` stays (`SumMoves`). `RateInv` gives the k-th of the waiting commands the time
`(submitted + k) * delay`: commands are due in the order of the list, whatever the order in which
completions put them there. `TraceInv` orders what waits behind what was submitted; `LogInv`
tells which completed command each place of the ring of the io log holds before and after it is
rotated; `EndInv` keeps the reason for which the finish flag is up, and that a return of 0 has
everything completed. For the refinement each action is shown to be a step of `IoRun` (start,
issue and complete, close, end, abort) or a stutter under the mapping of `IOWorker`, given `Inv`.

`DataVerifyProofs` proves the four properties of the run `data_verify` for any namespace, table size,
processes, requests and commands, under the two conditions the documentation puts on a script
and the theorems name: no two processes work on the same LBAs (`RegionsApart`), and no length is 0
in 16 bits (`LengthsFit`). Without the second the run `data_verify_long` has the counterexample; without the first the check and
the setting of the locks are not atomic. `LockInv` says that of two requests past the check none touches
a word of the other: the step from checked to locked can be interrupted only by another process,
whose region is another one. Hence between the execution of a command by the device and its
completion nothing changes on its blocks, neither the medium nor the table (`DataInv`), in
whatever order completions come; `ContentInv` says that a block holds its own LBA, so that a block
of another LBA or another token is told apart.

`AdminQueueProofs` proves `NeverFails` and `AersKeptArmed` for any number of AERs, batches, commands
and events. A `waitdone` that reaped AERs in the place of commands calls itself for those, and so
does the inner one: `DebtInv` says that the commands that have not completed are no more than what
the present call misses plus what the frames below it have left (a sum over the stack, given by
the existence of its partial sums). Hence when the last frame returns nothing is left. With at most one
AER no frame below has anything left and the count is exact (`OneAerInv`), so that no call waits for
a completion that was reaped already. `CountInv` relates the AERs at the device, those posted and
those to be sent again.

`QpairProofs` proves `IssetIsExact` and `AssertsHold` for any queues, devices and vectors up to the
256 that fit in the `uint8_t` of `intc_isset`. `ExactInv` is what makes the first inductive: as long as a
queue has its vector to itself, its place in `msg_data` or the interrupt held under its mask
tells of its completions, whatever happens to other queues. `WaitInv` ties the re-entry flag to the
wait, up to a lost alarm; `ZoneInv` ties the memory of the interrupt controller to its use.

`ControllerProofs` proves `UsableWhenUp`, `RaisesForAReason` and the action property
`ProgramsOnlyDisabled` for any number of calls, timeouts and limits. A call is a sequence of steps;
the proof needs only the step it is at (`here`) and which steps may follow which (`Linked`).
`HandshakeInv` says what the device is like at each step of `_nvme_init`, as long as it has not
vanished; `UpInv` and `UseInv` carry that on to the calls that use a controller; the rest of the invariant says
that a device that does not answer is in `fault`, the reasons outside the driver.

`WorkerProcessProofs` proves, for any set of workers and any number of retries, that no worker
is attached to the controller while the script resets the device (`ResetIsAlone`), that a
process that is gone is detached, holds no lock and was asked to terminate only when it
should (`WorkersLeave`), and that the lock of the namespace excludes (`LockExcludes`).

The first is not inductive: when the cleanup sees no secondary process, a worker might be
about to attach. The invariant `Inv` adds `StartInv`: a worker that has not yet reported anything
keeps the script in `start()`, because its queue is empty and `start()` waits for the first
message, so that the script is not in a reset. To keep that up, the other conjuncts say how
long a queue can be at each place of its worker (`QueueInv`: the message `start()` takes is that
of its own worker), who holds the lock (`LockInv`: a worker that is creating or deleting, and
only that one), who has detached (`GoneInv`) and when the request to terminate is set
(`TermInv`). There is one lemma per action; the assumptions are those in `WorkerProcess` on
`RETRY` and on the name for "no worker".

`LifecycleProofs` proves the properties of the run `lifecycle`, for any sets of objects and
addresses and any number of resets: `Qpair.delete` frees its own queue pair or none
(`FreesOwn`), nothing is left without a controller (`LeavesNothing`), verification that was
enabled stays enabled (`KeepsVerification`), and tests with fixtures leave nothing to the next
one (`TestsIndependent`). The exceptions are those the properties name: scripts that reset
with live queue pairs, open two Namespaces, close the Pcie first, or do not bring a reset to its end.

The invariant `Inv` of a script has a conjunct per reason. `PcieInv`: only one Pcie is open, the
controller belongs to it, and a Pcie that was closed never has one again; without this an old
queue pair could pass the test of `Qpair.delete` under a later controller. `QpairInv`: a queue
pair that would be freed is the object's own. `ZoneInv` and `TableInv`: on an initialised
controller the table is the memory, and as long as no rule is broken the memory has its one
open Namespace, whose close releases it. Tests with fixtures are then shown to implement the
free script (`TestsAreScripts`: `FSpec => Spec`, every step of a test is a call or a stutter), so
that `Inv` holds for them too. `FixtureInv` adds what only tests have: no fixture is made twice,
each is made after those it needs, and every open Pcie and Namespace is the object of a fixture;
hence a Pcie can be the last fixture only when its Namespace is closed. The assumptions are
those of `Lifecycle`: `None` is no object, `MaxResets` is a natural number.

Only model-checked:

- all liveness (`Terminates`, `WaitdoneReturns`, `CallsReturn`, `WaitdoneEnds`, `CallsEnd`): liveness
  under fairness is outside what the prover can do here;
- `IOWorkerLba` and `Zns`: the search of `crc32_skip_uncorr` and the filling of the distribution
  table are recursive, and what they compute needs induction over data, which is outside, too;
- the scenes of `Script` (`Commands`, `Bits`, `Buffer`, `Report`, `Psd`, `Registers`, `Recorder`): what
  they compute is compared with a second definition over arguments at the ends of their ranges,
  mostly through folds and recursive operators, for which the same holds.

## Not modelled

- `nvme.py`: 5335 lines of declarations and documentation without behaviour;
- which opcode an io worker's command gets, and the sampling of its latencies;
- sanitize and format beside commands in flight; most allocation failures;
- callbacks of scripts on the admin queue; user-defined initialisation functions;
- a `qpair_free` or `spdk_nvme_detach` that reports failure;
- firmware debug mode, and results too large for the pipe of the queue;
- the registers of MSI/MSI-X (SPDK and hardware); NVMe over TCP;
- fill patterns of buffers, names of commands and statuses, representations of objects, the
  seed of `srand`, the drawing of diagrams: wording and content no property is about;
- the set-up when the module is imported, the RPC server, the clock: I/O and set-up of SPDK.

What could be added next: completions of a worker between `crc32_unlock_all` and its end
(a composition of `DataVerify` with `WorkerProcess`); the re-entry flag and the alarm that
`Qpair.waitdone` and `Controller.waitdone` share; proofs about the LBAs of workers whose table has no
uncorrectable blocks, and about the queues of `Psd`.
