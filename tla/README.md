# A TLA+ model of ectool

`ectool` is a command line program that talks to the embedded controller (EC) of
a Chromebook or Framework laptop. Each invocation is a short-lived process: it
parses options, picks a transport to the EC, takes an inter-process lock when
the transport needs one, runs one of 146 command handlers and exits.
Nothing in it is multi-threaded; what makes it hard is everything around the
process: other `ectool` processes on the same bus, signals and kills, an EC that
is slow, silent or still busy with a command somebody else gave up on, and
operations that take many commands of which any can fail.

This directory holds TLA+ modules of that behaviour, TLC configurations that
check them on small instances, and TLAPS proofs that hold for every instance.

## Inventory

| Component (source under `src/src`) | State | Operations | What makes it correct |
|---|---|---|---|
| GEC lock: `lock/file_lock.cc`, `lock/gec_lock.cc` | `struct ipc_lock` (`is_held`, `fd`), the lockfile, its `flock` | `acquire_lock`, `release_lock` | exclusion; `is_held` agrees with the kernel; waits bounded by the timeout; no lock outlives its process |
| Session: `main()` in `ectool.cc`, `comm_init_alt` | interface mask, hooks, lock | choose transport, lock, init, dispatch, release | raw bus used by one process at a time; hooks installed before use; no process waits for another for ever |
| Host command layer: `comm-host.cc` | hook pointers, `ec_outbuf`, `ec_inbuf`, size limits, `command_offset` | `ec_command`, `comm_init_buffer`, `fake_readmem` | a success is the answer to this command and fits the buffer |
| LPC transport: `comm-lpc.cc` | EC packet memory, status and command ports | protocols 2 and 3, `wait_for_ec`, `ec_readmem_lpc` | the promise above, with a late EC |
| USB transport: `comm-usb.cc` | endpoint queues | `ec_command_usb`, `do_xfer` | the promise above, packets in step |
| Servo SPI transport: `comm-servo-spi.cc` | chip select, EC state | `ec_command_servo_spi` | the promise above, abandoned answers dropped |
| /dev transport: `comm-dev.cc` | file descriptor, `fake_it` | two ioctl formats, resent response, mapped memory, event poll | the promise above, over two ioctls |
| I2C transport: `comm-i2c.cc` | adapter descriptor | write, read, check | the promise above |
| Protocol: `ec_commands.h` | - | commands, versions, structures | what is sent exists |
| EC flash: `ec_flash.cc` | chunk position, polling state | read, verify, write, erase, asynchronous erase | what a 0 claims is true of the flash |
| PD, fingerprint and PCHG updates: `ectool.cc` | EC boot state, offsets, event masks | erase/write/reboot, frame and template chunks, event-driven update | no failure in the middle ends as a success; input is read before anything is changed |
| Command handlers: `ectool.cc`, `ectool_i2c.cc` | versions learned, loop positions, buffers | 141 entries of `commands[]` | the version sent is one the EC has; a success did what was asked; a failed read is not written back; the exit status tells success |
| Light bar parameters: `ectool.cc` | a text file | eight pairs of printing and reading functions | what is printed is read back into the same fields |
| Key scan test: `ectool_keyscan.cc` | script, matrix, terminal | parse, send, compare | each test plays its own scans, all of them |
| Panic info, CRC, helpers: `ec_panicinfo.cc`, `crc.cc`, `misc_util.cc` | none | pure functions, file I/O | agree with their definitions |
| Windows transport and mutex, getopt | - | - | not modelled |

Components interact through function pointers (`ec_command_proto`, `ec_readmem`,
`ec_pollevent`, set by a `comm_init_*` function and called by handlers through
`ec_command()`), and with other processes through the lockfile and the EC.

`PROJECT.json` lists every component with its status, and the hazards: the
places in the code where a test would hardly reach what can go wrong, each with
the properties that speak of it or the reason why none does.

## Modules

| Module | Models | Checked by | Proved in |
|---|---|---|---|
| `GecLock` | `acquire_lock()`/`release_lock()` of any number of processes | `MCGecLock` | `GecLockProofs` |
| `EctoolSession` | `main()` of several processes, EXTENDS `GecLock` | `MCEctoolSession` | `EctoolSessionProofs` |
| `HostCommand` | abstract: the promise of `ec_command()` | through the four transports | with each of them |
| `LpcTransfer` | `ec_command_lpc()`, `ec_command_lpc_3()` and the EC's side | `MCLpcTransfer` | `LpcTransferProofs` |
| `UsbTransfer` | `ec_command_usb()`, `do_xfer()`, endpoint queues | `MCUsbTransfer` | `UsbTransferProofs` |
| `ServoSpi` | `ec_command_servo_spi()`, chip select, EC's SPI states | `MCServoSpi` | `ServoSpiProofs` |
| `KernelTransfer` | `ec_command_dev()`, `ec_command_dev_v2()`, `ec_command_i2c_3()` of several processes | `MCKernelTransfer` | `KernelTransferProofs` |
| `EcFlash` | `ec_flash_*()` and the handlers' entry conditions | `MCEcFlash` | `EcFlashProofs` |
| `EcCommands` | the commands of `ec_commands.h`, their versions and which of them answer | through `Handlers` | - |
| `Script` | the vocabulary handlers are written in | through `Handlers` | - |
| `SystemHandlers`, `FanHandlers`, `LightbarHandlers`, `MotionHandlers`, `UsbPdHandlers`, `ChargeHandlers`, `EventHandlers`, `BoardHandlers`, `FirmwareHandlers` | one operator per handler of `ectool.cc` and `ectool_i2c.cc`, under the handler's name | through `Handlers` | - |
| `LightbarParams` | printing and reading of light bar parameters, field by field | through `Handlers` | - |
| `Handlers` | `commands[]`, and the steps of a handler carried out against an EC | `MCHandlers` | - |
| `KeyScan` | `cmd_keyscan()` | `MCKeyScan` | `KeyScanProofs` |

Most modules have a few operators marked as a bug or as wrong in a comment. They are
variants of the definition that follows them; no specification uses them. Put in place
of that definition they make the property named beside them in `PROJECT.json`
("mutants") fail, which shows that the property depends on that line of code.

### GecLock

One value per process of each local of `file_lock_get()`; `at[p]` is the place
in `acquire_lock()` between two system calls. `flock()`, `nanosleep()`,
`ftruncate()` and `write()` are one action each with one action per way to fail,
so processes interleave exactly where the kernel lets them. `remaining`,
`interval` and `left` follow `msecs_remaining`, `sleep_interval` and the rest of
the `nanosleep()` in progress: a pause always takes `SLEEP_INTERVAL_MS` off, and
an interrupted pause shortens those that follow. With a negative timeout the pause is
negative and `nanosleep()` rejects it (`SleepRejected`). `ProcessEnds` is exit or kill:
the kernel drops the `flock`, the lockfile and the pid in it stay. `DirChange`
is the host's file system; `PickDir` is what `file_lock_open_or_create()` picks.
`waited` is a history variable. Time is what is slept; between pauses none passes.

### EctoolSession

`phase[p]` is the place in `main()`. The lock's actions are used as they are:
`BeginLock` is the start of `acquire_gec_lock()`, `WaitForLock` any step in it.
`comm_init_dev()`, `comm_init_usb()`, `comm_init_alt()` and `comm_init_buffer()`
are one step each with their outcomes; a handler is one step (it changes nothing
the session sees), and one that need never be taken. Whether a `/dev` node works is a property of the host
(`DevWorks`), the same for all processes with the same options. A process can
die at any point, also by the `exit(1)` of `read_mapped_mem8()` and siblings.

### Transports

`HostCommand` states the promise: a call ends with the answer to its own command, whole
and within `insize`, or with an error. `cur` and `ret` are the call and how it ended,
named alike in the transports so that the abstract module is instantiated without
renaming. Each transport states as `KeepsPromise` how it implements it. `LpcTransfer`
does so for every call. Of the others every step is a step of `HostCommand` or a
stutter, except for a success of a call that the code cannot vouch for: in
`UsbTransfer`, one that found something left over or has too small a buffer; in
`ServoSpi`, one after the pins were last set with an error; in `KernelTransfer`, one
that was overtaken. Failures, refusals and deaths are never excepted. `OwnAnswer` says
in plain words what that means for a success; it follows from `KeepsPromise`, which is
what the runs check. `ServoSpi` returns 0 and no length, so `Promised` supplies the
length of the answer, which has to fit the buffer; `KernelTransfer` implements one
`HostCommand` per process.

`LpcTransfer`: packet memory is two parts, header and body, written in the
order of the code (data, header, command port). A checksum is modelled by what it
tells: that both parts belong together and, in protocol 2, to the command. A
body half written is a body that does not match its header, as is the one after
`WriteData`, so the loops of `outb()` are one step each. The EC picks up, drops
(`ec.drops`), answers or refuses at any time the busy flags allow.
The reading of the answer is one step because an EC that is not busy does not
write to the memory.

`UsbTransfer`: sizes count in response headers, so that an answer can
fill, overfill or divide into packets. The IN transfer ends when the buffer is
full or a short packet arrives. Packets that nobody read wait in the endpoint.
`fresh` is a history variable: the call began with empty queues and has a buffer
that holds the answer.

`ServoSpi`: the status byte the EC clocks out, chip select, and the two-second
deadline in `elapsed`, which is looked at before a byte is asked for (`AskStatus`) and
not while `raw_read()` waits for it (`ReadStatus`). A rising chip select ends what the EC was at. `pins_ok`
is a history variable: the last write to the pins did not fail.

`KernelTransfer`: the kernel's nodes. Over `/dev/cros_ec` one ioctl is one step, since
the kernel lets one process at a time talk to the EC; a command in `Slow` may be
answered by `EC_RES_IN_PROGRESS`, and its answer is then fetched by a second ioctl, in
the version of the command (`Version0` are those for which that works). Between the two,
other processes may be served: `overtaken` records it, and `KeepsPromise` does not speak
of the success of such a call, which does take the other's response. Over I2C, writing
the request and reading the response are one step each, and the GEC lock (`MayCall`)
keeps the others out. `last` is the EC's response as far as it can still be had; it is
lost when a new command is taken.

### Handlers

A handler is a sequence of steps (`Script`): send a command in a version (`Get`
for one that only asks, `Set` for one that changes something, `SetGet` for both),
look at arguments or at a file (`Args`, `File`), at an answer (`Check`, `Whole`),
use a hook (`Mem`, `Poll`, `PortIo`), ask which versions the EC has (`Supported`,
`Versions`), choose (`Pick`), loop (`Repeat`, `Forever`) or return. `IfOk`, `Or`
and `Try` say what follows a failure; without them it ends the handler, as the
`if (rv < 0) return rv;` of the code does. Numbers, text, and what an answer says
are left out: where they decide, both ways are open.

`Handlers` carries the script out. `todo` is what is left of it. A command
succeeds if the EC has its version, or fails, before or after it took effect. `rv`
is what `ec_command()` returned, of which handlers distinguish a failure, 0 and a
positive length; over Servo SPI a success is always 0. `known` are the versions
the EC said it has: those of the header up to some version, or none, which assumes
that an EC with a version of a command has the older ones that are defined.
`Hooks` says which hooks each transport installs. `file` and `params` are the
light bar file and how it was read. `asked`, `made`, `changed`, `lost`, `stale` and
`blame` are history variables for the properties.

The properties name the handlers that do not have them, each a fact about the
code:

- `AskedIsDoneOrRefused`, `Silent`: autofanctrl drops the fan, reboot_ap_on_g3 the
  delay and hostsleepstate the timeout when the EC has only the older version;
  an empty file makes fptemplate succeed without a command, "keyconfig set" and
  the help texts of motionsense do nothing, thermalset does nothing where the
  transport returns no lengths, wireless drops suspend flags given without a mask,
  and flashpd and infopddev go on without GFU mode.
- `SuccessEndsWithZero`: boardversion, infopddev, kbid and test (`EndsWithLength`)
  return the length of the answer, and pdgetmode (`EndsWithFailure`) returns -1 after
  it has printed every mode, so that `ectool` exits with 1 on success.
- `InputCheckedFirst`: flashpd reads its file after GFU mode is entered, pchg
  parses the address of each file when it is that file's turn.
- `SpeaksKnownVersions`: chargecontrol sends version 1 to an EC without version 2,
  and does not ask whether it has that one; test sends the version the user names.
- `NoChangeOnFailedRead`: flashpd and infopddev do not look at the results of queries of
  the mode; stress sends FLASH_PROTECT with parameters nobody set, whatever it read.
- `SuccessIsReal`: infopddev does not look at the result of entering the mode; stress
  ignores what the reboot came to, and its loop only counts failures.

`LightbarParams` gives each printing and reading function as its lines: how many
values, for which field. A file printed as one format and read as another is
accepted when the counts agree, which for "oscillation" and "brightness" they
do; that pair is excluded from `ParamsReadAsShown`. So are the fields of S5, which are
neither printed nor read.

### KeyScan

`cmd_keyscan()` as read line by line (`ReadFile`) and test by test (`RunTests`).
What the code does to memory outside of `tests[]`, or through NULL, is the end
"crashed". A command to the EC may fail with or without effect; the EC starts
with a sequence of an earlier user. Keys arrive at the terminal late or not at
all, and what is not read is there for the next test. `played` is a history
variable.

### EcFlash

One call at a time, with the position, step and result variables of the code;
the k-th byte of a file is the number k, so that misplaced bytes show. Each
command may fail with or without effect. The EC's background erase runs on after
a call gave up. `blank` (the range could take the data when the call began) and
`sent` (bytes in the last write command) are history variables. The EC refuses
what lies outside the flash, answers reads in full and serves nobody while it
erases; these are assumptions about the EC, not about this repository.

## Runs

| Run | Instance | Shows |
|---|---|---|
| `GecLock_waits` | 2 processes, pause 2, timeouts 0, 1, 3, -1, one signal per call | lock excludes, agrees with the kernel, an attempt with a timeout waits at most that, exactly that when uninterrupted, and returns; pid written by the owner |
| `GecLock_forever` | 2 processes, timeouts -1, 0 | **violation**: an attempt that is to try forever gives up at its first pause |
| `EctoolSession_runs` | 2 processes, every interface option, a /dev node for the default | raw bus exclusive; `main()` gets past each of its own stages |
| `EctoolSession_default` | default options, no /dev node | **violation**: raw bus shared without a lock |
| `LpcTransfer_calls` | 3 commands (answers of 1 and 2, one oversize), buffers 0 to 2, protocol 2 with and without lost commands, protocol 3 | `HostCommand` implemented; calls return |
| `UsbTransfer_calls` | 4 commands (answers of 1 to 4 headers), packets of 2, buffers 0 to 6, queues of 2 | `HostCommand` implemented by calls in step, which leave nothing behind; calls return |
| `ServoSpi_calls` | 2 commands, buffers 0 to 2, deadline 2 | `HostCommand` implemented, EC was listening, calls return unless the chip delivers nothing to a read |
| `KernelTransfer_calls` | 2 processes, 3 commands, quick and slow, buffers too small and large enough, /dev and I2C | `HostCommand` implemented for each process, also when the answer is fetched by a second ioctl |
| `EcFlash_calls` | flash of 3, calls inside, across and beyond it, reads of 2, writes of up to 3, write sizes 0, 1, 2, 4, 2 polls | read, verify, write and erase truthful; writes aligned; only the target touched; calls end |
| `Handlers_runs` | 141 commands, 6 transports, loops of up to `MaxRounds` = 2 rounds | the seven properties above, for every handler and every choice of arguments |
| `Handlers_hooks` | the same | **violation**: handlers crash on a hook that is not installed |
| `KeyScan_tests` | `KEYSCAN_MAX_TESTS` = 2, two scans, files of up to `MaxLines` = 8 lines | the reader stays in its array; a success played every test whole and alone |

The violations are disagreements between the code and what its comments say;
`PROJECT.json` ("findings") quotes both sides.

Some facts about the code have no run of their own: "lightbar params1 FILE" sends
`s5_ramp_up`, `s5_ramp_down` and `s5_idx` as they happen to be in an uninitialized
local, since neither the printing nor the reading functions know them; "stress" sends
FLASH_PROTECT with parameters that were never set; a success over Servo SPI returns 0
and not the length, though `comm-host.h` promises it; after a USB call timed out, the
next one takes its late answer; `ec_flash_write()` sends as much as version 1 allows in
version 0. The models behave so, and the properties of `UsbTransfer` exclude that call.

Why the bounds are enough. Two processes show every interleaving of one holder
and one that waits; the proofs cover any number. The pause of 2 with timeouts 1
and 3 has a timeout shorter than a pause, one that ends in a shortened pause and
none that is a whole number of pauses, which differs only by a last pause of
zero (the proof covers it). Two transport commands with different lengths are
what it takes to confuse two answers; a queue of two holds a late answer and its
own. Packets of two give answers that are short, exact, spill over and exact
twice. Three flash bytes with reads of two and steps of 1 to 3 have whole and
short last chunks, and one byte outside the target on either side. Two rounds of
a loop are a round after a round, which is where what one leaves can hurt the
next; handlers keep no other count. Eight lines hold two whole tests with a scan
each (four lines: test, seq, expect, endtest), and three "endtest" past the limit
of two. Two processes and three commands are one call, another in between, and
answers of different lengths.

Fairness. `GecLock` assumes that a process inside `acquire_lock()` keeps running
(`LockFairness`): its pauses are finite and `flock()` is called with `LOCK_NB`.
`EctoolSession` assumes it of what `main()` does without a command to the EC
(`OwnStep`), and of nothing else: "stress" runs until it is interrupted, "sertest" may
wait for ever, and so may a read over Servo SPI. `MainGoesOn` therefore says that
`main()` gets past choosing a transport, waiting for the lock, and cleaning up, while
another process may stay in its handler, with the lock, for good.
The transports and `EcFlash` assume that the host process runs and that its
time-outs expire (`HostStep`, and `Tick` in `ServoSpi`). In `ServoSpi` the reads
(`ReadStep`) are not fair: `raw_read()` asks the chip again for as long as it has
nothing, and `ReturnsUnlessStarved` excepts a call that stays in one. Nothing is
assumed of the EC, of callers, or of the order in which processes get the lock.
`LpcTransfer` and `UsbTransfer` need no clock: a wait may time out at any
moment.

`Handlers`, `KeyScan` and `KernelTransfer` state safety only and no fairness: whether a
command returns is the transports' question.

Deadlock is checked in every run but those of `Handlers` and `KeyScan`, where the
process ends.

## Proofs

`GecLockProofs` proves for any set of processes, any timeouts, interval and number of
signals: typing (`LockTypeCorrect`), agreement with the kernel (`LockStateTruthful`),
mutual exclusion (`LockExcludes`), the discipline of the pid file (`LockPidByOwner`),
and of an attempt with a timeout the bound on the wait (`LockWaitBounded`), its exactness
(`LockTimesOutOnTime`) and that each step brings it closer to its end (`LockClosesIn`,
see below). None of the
invariants is inductive by itself. `LockInv` adds

- `FdInv`: which stages of `acquire_lock()` have the file open and which hold the
  lock, and that an open file lies in a directory `PickDir` returned;
- `WaitInv`: the sum of what was slept, what is left of the pause and what remains
  after it never exceeds the timeout, and with a timeout of zero or less nothing
  was ever slept (a negative one makes a negative pause);
- `ExactInv`: while no signal came the sum is equal to the timeout.

`LockExcludes` assumes `SameDirectory`: every process finds the lockfile in the
same directory. Without it the statement is false.

`EctoolSessionProofs` proves about the composition: typing (`SessionTypeCorrect`) and
that the raw bus is exclusive (`SessionExcludes`). `LockSimulation` shows that every
step of the composition is a step of the lock or leaves it alone, so `LockInv` carries
over; `PhaseInv` ties each phase of `main()` to the state of the lock.
`SessionExcludes` assumes `SameDirectory` and `LockCoversOptions`: USB is allowed alone
or together with a /dev node that works. The run `EctoolSession_default` is what
happens otherwise.

`KernelTransferProofs` proves `OwnAnswer` of `KernelTransfer` (`KernelOwnAnswer`)
for any number of processes, commands, lengths and buffer sizes. What the EC keeps
is shared, so the invariant `KernelInv` has to say whose it is: `AnswerInv` states
that while a call waits for the second ioctl, and was not overtaken, or for its read
on the bus, the EC either still works on this call's command and offers no response,
or keeps a response of that command of the right length, if it is a success. On the
bus that needs `AloneInv`, the GEC lock's promise that one call is under way at a
time, and `PlaceInv`, which tells the stages of the two nodes apart. It also proves
typing (`KernelTypeCorrect`), and that each process sees `HostCommand` implemented
(`KernelKeepsPromise`): a step of one process is a stutter for the others, and an own
answer that fits (`OwnFits`) is a success of the abstract call.

`LpcTransferProofs` proves typing (`LpcTypeCorrect`) and that every step of
`LpcTransfer` is a step of `HostCommand` or a stutter (`LpcKeepsPromise`), for any
commands, lengths, buffers and ECs. `LpcInv` follows the answer through the shared
packet memory: `RequestInv` (once the header is written the memory holds no request
but this call's), `PickedUpInv` (an EC that has taken the command port works on this
command, on one that makes no sense, or has answered) and `RestInv` (who reads the
result sees an EC at rest, and what looks like a success is the own one). The
theorem assumes `NoSilentDrop`: an EC of protocol 3 does not lose a command written
while it is busy. A protocol 3 response does not name its command, so without it
the statement is false; the run's ECs are of that kind too.

`UsbTransferProofs` proves typing, `StaysInStep`, `OwnAnswer`, `KeepsPromise` and
`ClosesIn` for any commands, lengths, buffers, packet size and queue depth.
`StaysInStep` is not inductive: `FreshInv` says where the transfer of a call in step can
be - not yet answered (`Awaited`), after n packets of its own answer with the others
still waiting (`Answered`, `ReadOfAnswer`) or refused (`Refused`). That the transfer
ends with the last packet and not before is arithmetic on the packets' sizes
(`PacketsHold`, `PacketSizes`, `NextPacket`). The packet size of 1, with which a refusal
fills a packet, is covered by the proof and not by the run. `UsbKeepsPromise` needs from
the invariant that a call in step has a buffer for the whole answer, and that between
calls there is no command (`CallInv`).

`ServoSpiProofs` proves typing, `EcWasListening`, `OwnAnswer` and `KeepsPromise` for any
commands, lengths, buffers and deadline. `ServoInv` is about chip select: while it is
high the EC has nothing of an older call (`SelectInv`), and after the pins were set
without an error a call begins with chip select high and an EC that knows only this call
(`CleanInv`). `ServoKeepsPromise` needs besides that a result that is not a success is
the plain error, and that between calls there is no command (`CallInv`).

`EcFlashProofs` proves typing and every safety and action property of `EcFlash`, for any
size of flash, of reads, writes, write blocks and any number of polls: reads, writes and
erases are truthful (`FlashReadTruthful`, `FlashWriteTruthful`, `FlashEraseTruthful`),
writes aligned (`FlashWritesAligned`), only the target changes (`FlashOnlyTarget`), and
a call comes to an end (`FlashClosesIn`). `FlashInv` has a part for each loop: what lies before the position is
read or written (`ReadInv`, `WriteInv`), in whole blocks (`AlignInv`, with the lemmas on
`Blocks`), by a transfer that has the EC to itself (`QuietInv`); while the result of an
erase is asked for, the EC's last erase is the one of this call (`PollInv`), and one
that is said to be complete is (`EraseInv`).

`KeyScanProofs` proves typing and `SuccessIsWhole` for any file, any number of tests
and items, and any EC. `KeyScanInv` relates the sequence in the EC to the items sent
so far (`SequenceInv`) and says that nothing was played of a test that has not
started (`AheadInv`) and, until something fails, that all behind were played as they
are (`BehindInv`); `CountInv` keeps the tests that run inside the array.

Termination. `ClosesIn` of `GecLock`, `UsbTransfer` and `EcFlash` is the part of "it
returns" that needs no fairness: a measure, `StepsLeft`, is a natural number, is less
after every step of the call, and is not made greater by anything another actor does.
With fairness, which says that there is a next step, the liveness property of the run
follows, and the runs check it. The measure shows what the end rests on. In
`GecLock` it is two steps per millisecond that remains and one per signal that may
come: a pause takes `SLEEP_INTERVAL_MS` off however short it was, and the number of
signals (`MaxSignals`) is a bound of the model, any number of it. In `UsbTransfer` it is
the room in the buffer: a packet that does not end the transfer is a full one, and so
never empty. In `EcFlash` it is the bytes ahead and the polls: the step of a write is
never 0 (`AlignInv`), and each question for an erase is counted, answered or not.

Each of these invariants and measures was first checked by TLC on the instance of the
run. `ClosesIn` and `OwnAnswer` are not among the properties of the runs, since
liveness and `KeepsPromise` say as much there.

The named assumptions on constants say that they are sets of the obvious kind,
that `NoProc` is no process and `NoCommand` no command, that the marks of an EC that
is idle or got a garbled request (`Idle`, `Garbled`) are no commands
(`JobAssumption`), that the pause, the packet size and the queue depth are positive
numbers and that lengths are natural numbers.

Model-checked only:

- liveness (`AcquireReturns`, `MainGoesOn`, `CallReturns`, `ReturnsUnlessStarved`,
  `CallEnds`), because the
  prover has no support for fairness and ENABLED. No measure is stated for `ServoSpi`,
  where the status may be read any number of times before the clock ticks and the
  deadline ends the call, nor for `LpcTransfer`, where the wait is one step;
- the properties of `Handlers`. They are facts about 141 particular scripts, which the
  runs enumerate; a proof would have to run each script symbolically, and for more
  rounds of a loop than `MaxRounds` would be an induction over data, which is out of
  the prover's reach.

## Not modelled, and plan

Not modelled: Windows, getopt, Android's lock directory, message wording and the
formatting of answers (the registers of a panic, for instance), the kernel's own
cros_ec driver, CRC (a pure function of a firmware image's bytes), the audio codec's
commands, which `ectool` does not send. Of the host command layer,
`comm_init_buffer()`'s sizes are constants of the transports' models;
`ec_readmem_*()` are hooks that may fail, so that torn reads of mapped memory are
out of sight. Which events the kernel keeps between two waits is not modelled.

Next, in this order:

1. `comm_init_buffer` sizes and the arithmetic of `wait_for_ec`.
2. Mapped memory: `fake_readmem`, the fallback of `ec_readmem_dev()` and reads while
   the EC writes.
