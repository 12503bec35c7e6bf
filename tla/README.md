# A TLA+ model of the SBE firmware

The SBE (self-boot engine) is a small processor inside the host chip. Its firmware boots the
chip and then serves *chip-ops*: commands from the service processor (SP) over a pair of FIFOs,
commands from the host over a mailbox (PSU), and the S0 interrupt. It runs on PK, a small
preemptive kernel that is part of the repository.

This project models the firmware's control loop, its state machine, the chip-ops of the service
processor and the kernel under all of them, checks them with TLC and proves the main safety properties with TLAPS. The sources are under
`src/src/sbefw` (firmware) and `src/src/import/chips/p9/procedures/ppe/pk` (kernel); file names
below are relative to these.

## The system

### Components

| component | state | operations | what makes it correct |
|---|---|---|---|
| interrupt handler (`core/sbeirq.C`) | interrupt masks, `sbeIntrSource` | record, mask, post | no post is lost and none overflows |
| command receiver (`core/sbecmdreceiver.C`, priority 5) | `l_rc`, `curInterface`, headers | decode an interrupt, read and validate a command, answer a fenced one, FIFO reset, hand over | each command is handed over or answered once; resets are served |
| command processor (`core/sbecmdprocessor.C`, priority 6) | `sbeIntrSource`, response headers | boot, take (PSU, FIFO, S0), run, respond, release | never woken for nothing; every response is its own command's |
| FIFO and mailbox layers (`core/sbeFifoMsgUtils.C`, `core/sbeHostUtils.C`) | FIFO contents, mailbox, doorbell | dequeue, enqueue, EOT, reset, doorbell | a register failure releases the interface; a response can be parsed and ends where its message ends |
| SBE state (`core/sberegaccess.C`) | current and previous state, async-FFDC bit | `stateTransition`, `updateSbeState` | every change is in the map |
| fences (`core/chipop_handler.C`, `app/power/chipop_table.C`) | tables | `sbeIsCmdAllowed` | a chip-op runs only where it is allowed |
| IPL, isteps, MPIPL, S0 (`core/ipl.C`, `app/power/istep.C`, `app/power/sbecmdmpipl.C`, `core/sbes0handler.C`) | step numbers | run hardware procedures, raise events | failures lead to DUMP |
| deadman timer (`app/power/sbecmdcntrldmt.C`, `core/sbeTimerSvc.C`) | a PK timer, a result per core | start and wait for stop 15, stop, expire | the state has its timer and ends |
| asynchronous thread (`core/sbecmdprocessor.C`, priority 7) | - | periodic IO toggle | still in QUIESCE |
| hard reset (`core/sbemain.C`) | all globals survive | restart | the SBE goes back to its state |
| PK threads and semaphores (`kernel/pk_thread_core.c`, `pk_thread_util.c`, `pk_semaphore_core.c`) | priority map, run queue, pending queues, counts, flags | pend, post, sleep, resume, suspend, delete, change and swap priorities, time out | queues name threads that are there; counts are not lost |
| PK time queue (`kernel/pk_timer_core.c`, `ppe42/ppe42_core.c`, `ppe42_exceptions.S`, `kernel/pk_bh_core.c`) | queue, cursor, `next_timeout`, decrementer | schedule, cancel, scan, bottom half | timers are called back in time |
| secure memory regions (`core/sbeSecureMemRegionManager.C`) | a table of regions | open, close, may this be accessed | an access is allowed exactly when all of it is open |
| memory and SRAM access (`app/power/sbecmdmemaccess.C`, `sbecmdsram.C`, `core/sbeMemAccessInterface.C`) | granules granted and used | set up, access, clean up | the procedures' contract; lengths are true |
| register, SCOM, ring, array, instruction, istep, NVDIMM, FFDC and quiesce chip-ops (`app/power`, `app/common`) | none that outlives a call | take a message, call procedures, answer | success means done; nothing is left open |
| security tables, pool allocator, host timer | tables and free lists | see the plan | see the plan |
| hardware procedures, console, tools | - | register accesses | outside of this project |

### Interactions

An interrupt is recorded in `sbeIntrSource[INTERRUPT]`, masked, and posted to `sbeSemCmdRecv`.
The receiver moves the interface to `sbeIntrSource[RX]` and posts `sbeSemCmdProcess`, or answers
a fenced command or a FIFO reset itself. The processor moves it to `sbeIntrSource[PROC]`, runs
the command, responds, clears the source and unmasks the interrupt. All of this is shared
memory between an interrupt handler and two threads, without locks: what keeps it consistent is
that an interface stays masked while anybody works on it. The timer callback runs in a bottom
half over any thread and writes the SBE state. The receiver reads that state when a command
arrives; the processor runs the command later.

What is hard to test here: interrupts between any two statements of the release code; state read
at receipt and used at execution; a thread that has timed out and not run yet; a timer scan with
interrupts enabled between any two timers; a hard reset at any point over surviving globals; a
failing register access on every path. `PROJECT.json` lists each with its line.

## Modules

| module | models | grain |
|---|---|---|
| `SbeControlLoop` | interrupt handler, receiver, processor, FIFO and mailbox, and the clients | one action per access to something shared |
| `SbeControlLoopProofs` | theorems about it: interrupts and semaphores, its responses, its refinement of `ChipOpService` | |
| `ChipOpService` | what a client is promised: a request is pending, then answered once, with its own answer | one action per observation |
| `SbeFifoMsg` | the FIFO message layer | one action per word |
| `SbeSecureMem` | the region table and its search | one action per host chip-op |
| `SbeMemAccess` | memory and SRAM access | one action per word, procedure or decision |
| `SbeChipOps` | all chip-ops of the FIFO over the three above, and the SP | the same |
| `SbeChipOpsProofs` | theorems about them: the frame, the message and its end | |
| `SbeChipOpsHwProofs` | theorems about them: the hardware, the response, types | |
| `SbeChipOpsDataProofs` | theorems about them: the words from the message to the hardware, the regions they may go to | |
| `SbeChipOpsWorkProofs` | theorems about them: what a response that reports success vouches for | |
| `SbeMessagingReg` | the messaging register and its image in memory | one action per load and store |
| `SbeStates` | state map, fences, boot, the chip-ops that move the state, deadman timer, asynchronous thread, hard reset | one action per handler section; `stateTransition` is a read and a write |
| `SbeStatesProofs` | theorems about it | |
| `PkKernel` | threads, priorities, semaphores, timeouts | one action per critical section |
| `PkKernelProofs` | theorems about it | |
| `PkTimer` | time queue, decrementer, bottom half | one action per critical section of the scan |
| `PkTimerProofs` | theorems about it | |
| `MC...` | the instances TLC checks | |

### SbeControlLoop

`pc`, `rc` and `rxCur` are the program counters and locals of the two threads; `intrSource`,
`sem`, `masked` and the header variables are the globals of the same names. A thread runs when no
thread of higher priority is ready (`Runs`), the interrupt handler whenever its line is up and
unmasked. A FIFO message is a header and an EOT; a command is a number, and what validation finds
out about it is nondeterministic (`Verdict`). With `ScomFaults` every FIFO and mailbox access may
fail. Clients are external: the SP sends the next message when it has read its response, or asks
for a FIFO reset at any time; the host writes a command and waits for the doorbell. The receiver
polls the upstream FIFO at the highest priority (it sleeps in that loop under Simics only), so
everything else waits for the SP to finish its message, in the model as in the code.

The receiver and the processor give an interface back through the same code; `Respond` and the
actions after it take the thread as a parameter, as `sbeHandleFifoResponse` and
`sbeHandlePsuResponse` are called from both.

It implements `ChipOpService` (`ImplementsService`): the SP and the host are its clients, a request
is pending from the first word or doorbell on and answered when the response can be read. The
abstract specification has the fairness, so the refinement carries "answered in the end".

### SbeFifoMsg, SbeSecureMem, SbeMemAccess, SbeChipOps

These are one level below `SbeControlLoop`, which runs a chip-op as one outcome. Here the receiver
and the processor are one actor, and a chip-op is a program over the frame `p`: `At(l)` says where it
is, `Deq`, `Enq` and `Eot` call a routine of the FIFO layer with the place to go on and the place
to go to when it fails, as the `break` out of the chip-op's loop does. The routine then moves one
word a step, so that the SP runs between any two words; an empty or full FIFO is polled, which is
no step. Words are tagged with what they are and, where a property needs it, with their number or
count; a message may be a word short or long. `hw` is what the request has done to the hardware:
procedures that succeeded, words they were given, an interface between its setup and its clean-up,
cores held awake. Every hardware procedure succeeds or fails, every setup grants any number of
granules up to `MaxGranules`.

An SRAM pass is counted in bytes and handed to its procedure in blocks of 8, rounded down: `SramBlocks` is
what a put writes, `SramData` what a get sends, where a word behind the last block is `"stale"`: it is what the
buffer held before. A memory request has `getDataLenCacheAlign` granules, also rounded down.

What the response properties say of lengths that are not whole blocks or granules:

- `MessageBoundary` is about the requests of the run. A register request that is refused leaves its payload in
  the FIFO and is not among them (see below).
- `LengthTrue`: a successful response reports the length that was asked for, and the length is that of the words
  sent or handed over. Of an SRAM access it states how many words there are and that two for each whole block
  were read or written; the half block that is counted and not moved is excepted (`LengthWritten`, see below). Of memory, a request
  that is not of whole granules is reported with less than it asked for.
- `OkMeansDone`: of an SRAM put, the whole blocks were written; of a memory read, the whole granules were read. A put
  to memory that is not of whole granules meets its EOT late and does not succeed.

The words of a response are what the SP could read (`Response`); `HeaderAt`, `Answer` and `Before`
find the header the way the SP does, from the end by the distance word. The properties hold for
responses that are `Complete`: without a reset or a failed register access in between.

`SbeSecureMem` keeps the widths of the code: ends in 64 bits, sizes and their sum in 32, as `AddrMod`
and `SizeMod`. `RegionsDecide` compares `isAccessAllowed` with the set of bytes the host has opened,
for every access between two edges of regions.

### SbeMessagingReg

The state, the async-FFDC bit and the step numbers are bit fields of one 64-bit image. `SbeStates`
writes each on its own; `SbeMessagingReg` has the loads and stores: an assignment loads a storage unit
(`Units` says which fields share one), changes the field and stores the unit; `putscom_abs` takes the
image by value. The deadman callback may come between any two of these.

### SbeStates

`state` moves through `Enter(Finals(...))`, which is `updateSbeState` after a look-up in
`stateTransMap`. A handler raises an event (`Raise`) and goes on when `FetchState` and
`UpdateState` are done; in between, the timer callback and a hard reset may come. `breached` is a
history variable: a chip-op was run in a state that fences it. `rcFapi` has the contents the
array initialiser really gives it. Hardware procedures are their outcomes. A hard reset keeps the
state and the timer's control block but not the kernel's time queue: a timer that ran is `lost`,
still looks active, and never expires. Two parameters select variants of the system: `Fused`
(fused cores) and `ShortTimer` (may the timer expire before DMT is entered).

### PkKernel and PkTimer

`PkKernel` keeps the kernel's structures in one record `k`, with queues as sets of *priorities*
and the map from priorities to threads, as in the code. Every API that changes a thread or a
semaphore is an action that a thread or an interrupt handler may take (`Apis`, `IsrApis` select
which). A blocking call is two actions. Timers are a set from which one may expire at any time;
`PkTimer` has the queue, at the grain at which interrupts can come between the steps of a scan,
with absolute times and a decrementer of bounded range.

`SbeControlLoop` uses semaphores as counters with a highest-priority-first wake-up (`SemPend`,
`PostCount`, `PostWakes`); that `PkKernel` provides them is checked by `pk_kernel`, not by a
refinement (see the plan).

## Runs

| run | shows |
|---|---|
| `control_loop` | two FIFO commands, a mailbox command and an S0 request: masks, semaphores, exclusive FIFO use, responses that match, and every message answered: `ChipOpService` is implemented |
| `control_loop_faults` | the same with failing register accesses: no wakeup lost, every interface given back or the engine halted |
| `control_loop_resets` | every FIFO reset request is served, with three commands and two resets |
| `s0_dropped` (violation) | a stale `l_rc` keeps the receiver from posting an S0 request |
| `unexpected_interrupt` (violation) | a reset between the two `pk_irq_enable` calls wakes the processor for nothing |
| `states` | three commands, a hard reset, failing procedures: the state follows its map, QUIESCE is still, DMT has its timer and ends, the processor returns |
| `dmt_stop15` (violation) | with fused cores the host is told of stop 15 when one core alone is there |
| `messaging_register` (violation) | an update of the messaging register undoes the timer callback's |
| `chip_ops` | messages to twenty chip-ops, whole, short and long, with failing procedures and accesses, resets and region changes: responses parse, say what was done and how long the data is, end with their message, leave nothing open, and come |
| `pk_kernel` | three threads, two of one priority: queues and counts stay consistent |
| `pk_timeouts` | timed calls of the highest-priority thread return |
| `pk_timer` | three timers, calls from threads and callbacks: the scan stays in the queue, the decrementer is armed, timers are called |

### Bounds

Two FIFO commands are the least with which a command can meet what the one before left behind
(headers, status, masks, the stale `l_rc`); a third with two resets lets a reset fall between two
commands twice. One mailbox command and one S0 request occupy the other two interrupts, so that all
of the semaphores' counts are used. Three commands in `SbeStates` fill all three interfaces; the
longest scenario (start, then stop or quiesce, with something else accepted meanwhile) needs three.
One hard reset hits every place once. `PkKernel` has two threads on one priority and one below,
which is the least in which a priority bit can outlive its thread and be given to another.
Three timers let a scan stand on one while its neighbours on both sides are cancelled;
`MaxDec = 1` makes the decrementer too short for the longest timeout. Time runs to 3, so that
a callback can schedule for later and be called again; a callback that scheduled for a time already
past could keep a pass from ending, which intervals of at least one tick exclude. In `chip_ops` the upstream FIFO holds one word and the downstream FIFO two: a
message is always longer than the FIFO, so every chip-op meets an empty and a full one at every word.
A granule is two lines, a ring's 64 bits as in the code; requests take one to three granules with a
grant of one or two, so that a grant runs out inside a request and at its end. An SRAM pass is one block of
8 bytes: a put of 20 is two full passes and a half block, a get of 12 one and a half. A memory read of 12 is a granule
and a half. ECC and ITAG groups
are of four granules, and six are read. One register access of a message may fail. Two adjacent
regions, of different modes, in a table of two are opened in either order, spanned and closed. The
proofs do not depend on the bounds.

### Fairness

- Threads run on (weak fairness): PK always runs the highest-priority ready thread.
- Interrupts are taken (strong fairness): they are level-sensitive and stay raised, but a thread
  can mask and unmask between two looks.
- The SP and the host finish a message they began and collect responses. Without that the
  firmware waits for ever, by design. They need never send anything.
- PK timers expire (strong fairness in `PkKernel`, because one callback at a time is under way and
  one scan takes all timers that are due); in `PkTimer` the clock and the decrementer run. A
  decrementer that has passed zero goes on counting and interrupts again after it has wrapped,
  which is the last resort of `DecInterrupt` at `MaxTime`.
- In `SbeChipOps` the processor runs, and an SP that has begun a message writes it to its end and reads
  what there is, until it asks for a reset; after that it need not read.
- In `SbeMessagingReg` an update that has begun ends, and the timer expires.
- In `SbeStates` the deadman timer, once running, expires.

## Proofs

`SbeControlLoopProofs` (all bounds, with faults or without):

- `TypeCorrect`: types, with the receiver and the processor each in its own code.
- `WakeupsNotLost`: from `WakeInv`, which counts, for each semaphore, the interrupts recorded and
  not seen, against its count and the thread that was woken. `NoLostWakeup` alone is not inductive:
  it does not say why a count is there when a bit is.
- `NeverUnexpected`, `NeverOverflows`, `OwnedStaysMasked`, `FifoStaysExclusive`, for `MaxResets = 0`
  and semaphores of at least three: from `LoopInv`, which says for each interface in whose hands it
  is (`PlaceInv`), what each thread's program counter implies (`RxInv`, `ProcInv`), and that the
  semaphore counts are the interfaces in each place (`CountInv`). The first assumption is needed:
  `unexpected_interrupt` is what happens without it.

`SbeStatesProofs` (all bounds):

- `StatesTyped`.
- `QuiescedStaysStill`, from `QuietInv`: whoever is about to write QUIESCE has suspended the thread.
- `DeadmanStaysArmed`, from `DmtInv`: the timer runs while DMT is being entered, and while it is
  being left by a stop the timer is idle, so the value that was read is still the state.
- `StateFollowsMap`, from `TransInv`: a state that was read and is not yet written is the state, or
  the callback has moved it from DMT to DUMP; because a running timer means the deadman state, its
  consequences, or the way to it. That needs the fences (`~breached`).

- `DoorbellAfterStop15`, for cores that are not fused, from `BellInv`: while the loop waits, a code of success
  means a core in stop 15, and a timer that has gone has expired. `dmt_stop15` is why the assumption is needed.

`DeadmanStaysArmed` and `StateFollowsMap` assume `~ShortTimer`.

`SbeControlLoopProofs`, its second half (any number of commands, `MaxResets = 0`, semaphores of at least three; on
top of `LoopInv`):

- `FifoAnswersMatch`: from `MsgInv`, which follows the SP's message through the FIFO: where the words that are
  not read yet are (`Untouched`, `Unread`, `EotDue`, `AllRead`), which thread holds the number it read (`ReadFor`),
  and what the downstream FIFO holds at each step of the answer (`FifoAt`). It needs `~ScomFaults`: after a
  failed access the rest of a message stays in the FIFO and is answered as a message of its own; TLC finds
  the property violated with faults.
- `MailboxAnswersMatch`: the same for the host, from `MailInv` (`MailState`, `MailDue`, `PsuServed`). Faults are
  allowed here, since the host writes its command as a whole. Resets are not: a receiver that was woken for a
  FIFO reset which another reset has already served finds no reason, and answers the host's next command
  under it.
- `SafeService`: every step of the control loop is a step of `ChipOpService` or a stutter, for the mapping that
  `ImplementsService` uses. One lemma (`FirmwareShows`) lists what each of the firmware's actions changes in what
  the two clients see; the rest is the clients' own steps. `Service!Safe` leaves out the fairness of the
  service, which stays with TLC.

`PkKernelProofs` (any threads, priorities, semaphores):

- `KernelTyped`.
- `NeverPanics`: `MapAgrees` (a mapped thread is the thread its priority is mapped to, and the other way round) and
  `TimersActive`. `"delete"` must not be in `IsrApis`: see the panic below.
- `RunQueueIsMapped`, `PostWakesAWaiter`, `NobodyWaitsForACount`, `PendTakesWhatWasGiven`: all from `KInv`. Its part
  `Consistent` relates a kernel state, the callers' places, the grants and a firing timer, and not the
  variables, so that a critical section of several calls (delete, post and schedule) is proved call by call through the
  states in between. These need `"timeout"` not to be in `Apis`, for the reason given below: a timed pend
  leaves its priority pending.
- The scheduled thread is the minimum of a set (`Scheduled`); that it exists is taken from
  `NatLessThanWellFounded` and not by induction.

`PkTimerProofs` (any timers, any range of the decrementer):

- `TimerTyped`, which is where the queue has no duplicates.
- `ScanStays`: the cursor of the scan is still in the queue after every window with interrupts enabled, if
  no interrupt handler cancels a timer. The lemmas say what removing and appending do to positions.
- `HwStaysArmed`, if no interrupt handler schedules a timer: from `CursorRead` (what the scan read before the window
  is still so), `NextIsEarliest` (the minimum so far is that of the part scanned) and `Armed`. The firmware calls
  both functions from threads only.

`SbeChipOpsProofs` (any requests, depths of the FIFOs, granule sizes, cores and failing accesses):

- `MessagesTaken`, from `Inv`. `Ready` types the frame and says what each place of a chip-op's program implies
  (`Control`, `Counted`, `Filled`, `Owned`). `Move` says once for all chip-ops how a step changes the frame: a
  chip-op that has asked for the end of its message does not take from it again, one that has not has
  sent nothing. There is one lemma per action (`...Moves`), and `ChipOpMoves` combines them; the FIFO
  layer, the SP, resets and faults are then treated once. `Boundary` is about `Stream`, the words in the FIFO and
  those the SP has not written yet: as long as the frame is open they are the rest of one message, which ends
  with the EOT; when it is closed there are none. The property alone is not inductive: it speaks of the end only.
  `RegsAccepted` excludes the register requests that the code refuses without flushing their message, which
  are listed below; `MCRequests` satisfies it.

`SbeChipOpsHwProofs` (the same, on top of `Inv`):

- `KeptInv` has two parts. `Kept` is about the frame and the hardware: a memory interface is used within its
  grant and is closed outside its loop (`Interface`), a core is in RAM mode only between setup and clean-up (`Ram`), the
  cores held awake are those whose loop is still to come (`Wakeups`). `Reply` is about the words sent, read or
  about to be sent: before the header nothing looks like one, and afterwards they end with a header whose
  status agrees with what the hardware was left with. `Effect` is what a step of a chip-op does to both; most
  chip-ops touch neither (`Steady`), and memory access, register access and instruction control are proved by steps of
  their own (`MemStep`, `RegStep`, `CoreStep`).
- `ResponsesParse`, by `HeaderPlaces`: where the words of `sbeDsSendRespHdr` are in the response, with HWP FFDC and
  without.
- `InterfaceKept`, `RamModeLeft`, `WakeupsTakenBack`: from `KeptInv`, and `CompleteParts`, which finds the status in
  the response that was read.
- `TypeCorrect`: also the table of regions (`Table`).

`SbeChipOpsDataProofs` (the same, on top of `Inv`):

- `PayloadKeepsOrder`, from `DataInv`. `Numbered` says which word of the message is the next one in `Stream`, by the
  words that have been taken: none where a chip-op starts, those in the buffer while the request structure is
  taken, and afterwards the structure, what the hardware has and what is in the buffer. `Given` says that the
  hardware's words and then the buffer's follow each other from the first behind the structure. The property
  is not inductive without both: a word may be misplaced in the FIFO or in a buffer long before it is handed
  over. A step of a chip-op takes no word (`Carries`): it leaves the words where they are (`Apart`, for most of them), or
  moves the buffer to the hardware as a whole or by packages of three (`GranuleCarries`, `RegAccessCarries`). A dequeue
  takes the next one (`WordGiven`). Nothing is known of the stream once a reset is asked for, and nothing is
  needed: the dequeue that meets it keeps no word.
- `AccessesDecided`, from `TableInv`: the table is what the host was told, and no two of its regions have a byte in
  common. That is what makes the search right: a byte is in one region at most, so a round of the loop may decide
  by the mode of the one it finds (`StepMeans`), and `remove` closes one region. `OverlapMeans`, `InsideMeans` and
  `CutMeans` say what the code's arithmetic means when it does not wrap; `FindMeans` what the search returns.
  `isAccessAllowed` is recursive over the bytes left, and induction is not available: `AccessMeans` shows that
  coverage solves the recursion, so that a function for it exists, and that the least size at which the function
  chosen differs from coverage cannot be (`NatLessThanWellFounded`). `RegionsBounded` excludes regions without a
  mode and sums that wrap, both of which `add` accepts; it also says that `SizeMod` divides `AddrMod`, as 2^32
  divides 2^64.
- `OpenedIsAllowed` is `RegionsDecided`, the same for the accesses at the ends of regions, which is what TLC checks. It
  needs firmware security, without which everything is allowed, and `RegionsNear`: the property has accesses from any
  region to any other, and their size must be one. `MCRegions` satisfies both assumptions.

`SbeChipOpsWorkProofs` (the same, on top of `Inv`, `KeptInv` and `DataInv`):

- `SuccessMeansDone`, from `WorkInv`: the message had the right length, every procedure was done and none failed,
  all of the payload was handed over, and the host was told where it waits. Of an SRAM put the payload is its
  whole blocks of 8 bytes (`SramStage` says that the words handed over and the half block that was not are those
  taken; `Lost` keeps them in the count of the message). `OkMeansDone` speaks of a complete response, when the chip-op is long gone from
  its loops; what makes it true is spread over the places before. `Progress` holds, per place of each
  chip-op (`Stage`), how many procedures have been done and how many words handed over as long as the status is
  a success. `Measured` counts the words of the message that are still to come, so that the dequeue that
  meets the EOT has judged the length (`Judged`); `Announced` says the same of the message the SP has begun and
  the processor has not. `Vouched` carries what was finished (`Finished`) over to the header and through its
  words, which are sent one by one into a FIFO that the SP reads meanwhile.
- `LengthsJudged` restricts only the requests whose message is too short or too long: they are not quiesce, which
  overwrites the return code of its dequeue (below), puts to memory among them are of whole granules, and no
  message has fewer than no words. `MCRequests` satisfies it. Requests whose message has the right length are not
  restricted.

The assumptions on the constants are those of the modules: depths, granules and FFDC of at least one word,
requests and regions of their types.

### Only model-checked

- Liveness, and with it the fairness of `ImplementsService`: `Served`, `ResetServed` and the other
  properties with `~>` and `<>`. The provers do not reason about fairness.
- `LengthTrue`: it counts the words sent, also by a chip-op that failed half-way, where `WorkInv` says nothing: it
  follows the counters only while the status is a success. It has its exceptions in its statement (half blocks, partial
  granules, ECC and ITAG reads that fail) and in its requests (no rings shorter than a granule).
- `S0Served`, `OtherBitsRetained` and, for cores that are fused, `DoorbellMeansStop15` are what comments say and the code does not do; `PendReturnsTruly` and
  `NoUnexpectedInterrupt` are proved where they hold, without timed pends and without FIFO resets.

## Where code and comments disagree

The four violation runs are listed with the lines they quote under `findings`:

- `s0_dropped`, `unexpected_interrupt`: the receiver and the processor, in the table above.
- `dmt_stop15`, `messaging_register`: the deadman state and the register the SBE state is in.

More disagreements are in the models without a run of their own. Each has a property that states the comment, which
TLC violates when it is added to the `.cfg` named:

- `LengthWritten` (`ChipOps.cfg`): `sbecmdsram.C:212` divides the pass by 8 and `:230` counts all of it, under the
  comment "first enqueue the length of data actually written" (`:272`). The last 4 bytes of a length that is not a
  multiple of 8 do not reach the SRAM; a get sends a word of the buffer that was not read in that pass. Both report
  success.
- `AduLengthSupported` (`ChipOps.cfg`): "supported values[1/2/4/multiples of 8]" (`sbecmdmemaccess.C:407`) is tested
  below 8 only. A read of another length succeeds with its whole granules. The same of the PBA, whose granules are
  of 128 bytes; the length word tells how much it was.
- `QuiesceEnters` (`States.cfg`, with `MaxHresets = 0`): `sbeevents.H:50` has the quiesce event "From Any State". No
  entry of `stateTransMap` leaves DUMP, quiesce is not fenced there, and its response reports success; the
  asynchronous thread is suspended.
- `PendReturnsTruly` (`PkTimeouts.cfg`, whose pends have timeouts): `pk_semaphore_core.c:126` has a thread removed
  from the pending queue once it has timed out. It is removed when it runs (`:229`), and a post in between gives it
  a count that it does not take. The firmware's only timed pend is on a semaphore that nobody posts.

Consequences and relatives:

- The window of `unexpected_interrupt` also lets four interrupts be posted to the receiver's
  semaphore of three, where `sbeirq.C:100` asserts, and lets the response to a command that the SP has
  reset away reach the emptied downstream FIFO.
- The fence is evaluated by the receiver when a command arrives (`sbecmdreceiver.C:222`) and not again
  when the processor takes it, after a command of another interface that may have moved the state; in
  UNKNOWN and FAILURE nothing is fenced although `chipop_handler.C:145` says "All operations are fenced
  here". Make `FenceHonoured` an invariant of `States.cfg` to see it. A deadman start accepted in RUNTIME
  then runs in MPIPL; its expiry races MPIPL's own transitions and DUMP may be overwritten.
- A decrementer interrupt between the last look at the bottom-half queue and `wrteei 0`
  (`ppe42_exceptions.S:513`) queues a bottom half that waits for the next interrupt: make `BhServed` an
  invariant of `PkTimer.cfg`.
- A thread that is suspended between its timeout and its next step leaves its priority in the pending queue. Add
  `"timeout"` to `Apis` of `PkKernel.cfg` to see it.
- A hard reset in the deadman state leaves it without a timer; in QUIESCE it starts the asynchronous thread again and
  stays in QUIESCE; and a quiesce does not stop the deadman timer, which then checkstops the system. The model does
  all of these. No property is about them, since nothing in the repository says what should happen.
- Deleting a thread from an interrupt handler between the expiry of its timer and the callback panics
  (`pk_thread_core.c:291`): add `"delete"` to `IsrApis`.
- An overflowing `pk_semaphore_post` returns inside its critical section (`pk_semaphore_core.c:91`);
  `locked` in `PkKernel` is the set of threads this has happened to.
- `pk_timer_cancel` and `pk_timer_schedule` from interrupt handlers race the scan
  (`pk_timer_core.c:280` and `:295`): add them to `IsrApis` of `PkTimer.cfg`. The firmware calls them
  from threads only.
- A register request that is refused is answered with the rest of its message still in the FIFO
  (`sbecmdregaccess.C:91` and `:205`), where the other chip-ops "Flush out upstream FIFO, until EOT
  arrives" (`sbecmdmemaccess.C:333`): take `RefusedRequests` in `ChipOps.cfg` and `MessageBoundary` is
  violated. So is `Served`, by the SRAM access in an unknown mode: its return code is not one that
  `sbeHandleFifoResponse` answers (`sbecmdsram.C:133`).
- `sbeDownFifoSignalEot` polls a full FIFO without looking for a reset request
  (`sbeFifoMsgUtils.C:300`): an SP that asks for a reset instead of reading is not served. `Served` excepts
  it.
- The length of a ring shorter than 64 bits counts its granule twice, that of one that failed before its
  first granule is 64 (`sbecmdringaccess.C:132`); the length of an ECC or ITAG read that fails counts
  granules that were not sent, and that of such a put counts bytes its message did not hold.
- `sbeFifoQuiesce` overwrites the return code of its dequeue (`sbecmdgeneric.C:515`): a quiesce with
  excess words is answered with success and does nothing. The quiesce of `chip_ops` is exact.
- The fast-array chip-op reports a failed procedure by FFDC alone, with a status of success
  (`sbecmdfastarray.C:130`); a chip-op that is not supported has a primary status of success.
- Instruction control that fails leaves its cores' special wakeups asserted; one that times out goes on to
  the threads, because a timeout is no FAPI error (`sbecmdcntlinst.C:324`).
- A put that is cut short by a FIFO error leaves its PBA or ADU interface without clean-up.
- HWP FFDC of no words would send one word that nothing counts (`sbeDownFifoEnq_mult` tests its length
  after the first word); `HwpFfdcWords` is assumed not to be zero.
- `sbeGetFfdc` turns the async-FFDC bit off after it has sent the packages (`sbecmdgeneric.C:287`): what is
  captured in between is not announced any more.
- `add` accepts regions without a mode and sums that wrap; the OCC's command buffer is one byte
  shorter than its addresses (`sbeSecureMemRegionManager.H:47`).
- With `ShortTimer = TRUE` the deadman callback may find RUNTIME, and the thread then enters DMT
  without a timer.

## Not modelled

The contents of hardware procedures, which are outcomes; the layout of messages, FFDC packages and
traces beyond their lengths; the host's chip-ops other than the ones that move the state or the
regions, whose messages are registers that are read and written as a whole; the register dump and
clock stop of MPIPL; the security tables, which are generated data, and their search; the pool
allocator; console, build tools, tests, and the Z variant of
the tables. Nearly all lines of the repository are register headers and hardware procedures, which have
no state of the firmware's. A hard reset is in `SbeStates` and not in `SbeControlLoop`.

## Plan

Done: the control loop and its refinement of `ChipOpService`, the states, the messaging register, the
chip-ops of the FIFO, the kernel's threads and timers, and the proofs above. Next, in this order:

1. Proofs: `LengthTrue`, from what each place of a chip-op implies of the words sent, failures included.
2. `SbeControlLoop`: hard reset over surviving interrupt sources; the asynchronous thread.
3. `CountingSemaphore`, implemented by `PkKernel`.
4. The host timer as a second client of the timer service; `validateIstep`, the security table search
   and the pool as functions against reference definitions.
