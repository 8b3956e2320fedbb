# rpi-smi: TLA+ models, checks and proofs

A verification companion to the user-space driver of the Raspberry Pi's
Secondary Memory Interface (`src/src`) and its interrupt module
(`src/smi-irq`).  Paths such as `smi.c:266` are relative to `src/src`.

## 1. The system

| component | state it keeps | operations | correct when |
|---|---|---|---|
| programmed reads (`smi.c:240-283, 384-448`) | `raw_buffer` and its size, the count of the call, controller FIFO and transfer | `smi_programmed_read(_arr)`, `smi_start`, `smi_read_await`, `smi_resize_raw_buffer` | a call returns its own words, in order, within its buffer, or a timeout, and always returns |
| programmed writes (`smi.c:450-504, 584-619`) | the count of the call, TX FIFO, DONE, AFERR | `smi_programmed_write(_arr)`, `smi_write_await` | exactly the caller's words reach the bus; DONE means they did |
| direct transfers (`smi.c:285-382, 506-582`) | DCS, DA, DD | `smi_direct_read(_arr)`, `smi_direct_write(_arr)` and two await loops | one bus operation per word, sample i from address i |
| waiting (`timeout.h`) | a deadline, a spin counter | `start_timeout`, `timeout_spin_tier`, `timeout_apply` | no wait is unbounded |
| interrupt device (`smi_irq.c`) | `irq_count`, a wait queue | `smi_handler`, `smi_poll`, `smi_read`, load and unload | one event per completed transfer, one read per event, no lost wake-up |
| DMA (`smi.c:207-223, 621-743`, `dma.c`) | control block, channel registers, shared buffer and its cache lines | `smi_programmed_read_dma`, `smi_programmed_write_dma`, `smi_dma_await`, `start_dma`, `sync_for_*` | data moves once, between coherent copies, and END means this transfer's end |
| packing (`smi.c:746-1158`) | none | `smi_packed_ratio`, `smi_unpack*`, `smi_truncate*` | the samples come out in bus order, every one of them |
| context and configuration (`smi.c:17-125, 147-205`) | mappings, buffers, descriptors, settings of four device slots | `smi_init_cxt_map`, `smi_init_rw_config`, `smi_sync_context_device`, `smi_configure_*`, `smi_init_udmabuf`, `smi_unmap_*` | the slot configured is the slot used; what is released is not used again |
| clock (`smi.c:128-145`) | clock manager registers | `init_smi_clk` | the divisor changes only while the clock is stopped |
| GPIO (`gpio.c`) | function select registers | `gpio_mode`, `gpio_set`, `gpio_read`, `map_segment` | a pin's mode changes alone |
| clients (`sram.c`, `smi_examples.c`, `main.c`) | - | test bench, CPU load, examples | a chunked read covers all of its length |
| `smilite.h` | as `smi.c` | a single-header variant with its own await loops | as above |

**How they interact.** One process maps the SMI registers and calls the driver;
the controller moves words between its FIFO and the bus at its own pace.  The
two share registers only: a field assignment in the driver is a read-modify-write
of a whole register, in which flags that are cleared by writing 1 (DONE, AFERR)
are written back as they were read.  The driver's calls are linked by what they leave
in the controller, in `raw_buffer` and in `rw_config`.  The interrupt module runs
in the kernel on another core and writes the same CS register; its clients
see it through `poll` and `read`.  In DMA transfers there is a third party, a channel
that moves words between the FIFO and a buffer in memory, which the program may
see through its cache.

**What is hard.** A device that stalls, and what an abandoned transfer does to later calls;
completions that fall inside a read-modify-write; a FIFO of the wrong call; interrupt handler
against driver; lost wake-ups; a DMA channel that is aborted or still runs, and a cache in front
of its buffer; a program killed while it sets the clock; settings taken from the wrong slot or
left by another kind of transfer; loads refused half-way; boundaries (`len + 1`, odd words,
rounded divisions).  `PROJECT.json` lists each hazard at its line with the properties that cover
it.

## 2. Modules

| module | models | composes |
|---|---|---|
| `SmiTimeout` | `timeout.h` and the spin counter of the await loops of `smi.c` | |
| `SmiController` | the programmed-transfer engine of the peripheral (external) | |
| `TransferService` | abstract: what a caller of a programmed transfer may rely on | |
| `ProgrammedRead` | programmed reads and the raw buffer | extends `SmiTimeout`, `SmiController`; refines `TransferService` |
| `MCProgrammedRead` | the packing formats TLC uses | extends `ProgrammedRead` |
| `ProgrammedWrite` | programmed writes | extends `SmiTimeout`, `SmiController`; refines `TransferService` |
| `DirectTransfer` | direct transfers, both directions | extends `SmiTimeout` |
| `DmaTransfer` | both DMA transfers, the channels, the shared buffer and the cache in front of it | extends `SmiController` |
| `MCDmaTransfer` | the packing ratios TLC uses | extends `DmaTransfer` |
| `Packing` | ratios, dispatch and unpackers, over symbolic bits | |
| `DriverSession` | programs that map, configure, read, unmap, are killed and start again: raw buffer, clock, device settings | |
| `IrqModule` | handler, wait queue, clients and a driver thread that shares CS | |
| `IrqLoad` | loading and unloading of `smi_irq`, each call of which may be refused (its names carry `Load`, so that one module can prove about it and `IrqModule`) | |
| `LiteAwait` | the programmed await loops of `smilite.h` | extends `SmiController`; refines `TransferService` |
| `<module>Proofs` | theorems about `ProgrammedRead`, `ProgrammedWrite`, `DirectTransfer`, `DmaTransfer`, `Packing`, `DriverSession`, `IrqModule` (and `IrqLoad`), `LiteAwait` | extend that module and `TLAPS` |

**Correspondence.** `pc` is the place in the C function; one action is one access
to a register the controller may change meanwhile, with the local work around it.
`SmiController` represents a transfer by the call that began it (`owner`), the
words it has moved and the words it has to move; a word is `<<call, i>>`, so a
property can say whose word it is and which.  A DCS or CS assignment is one
step where nothing relevant can happen between its halves, and two (`latch`)
where a completion or the handler can come in between: `DirectTransfer` and
`IrqModule`.  In the programmed modules the only flag an assignment can clear is
DONE, and it cannot rise between `SetUpCS` and START since the FIFO has just been emptied.
The clock is one bit, `late`: has the deadline passed?  It may turn at any step
while a call waits, and during `nanosleep`.

In `DmaTransfer` the buffer is a control block (of which its length counts) and a
payload; a region of it is in memory and, in a 64-bit build, perhaps in the cache
too.  `sync_for_cpu` gives up the cached copy, and cleans it first or not; the
cache writes back on its own besides.  A channel moves a word when it has one to
move and the FIFO lets it; an earlier call's channel other than 0 may still be
moving when the next call is set up.

In `DriverSession` registers outlive the program and its memory does not.  A program starts with
a context and settings of any content, as `main.c:20-26` leaves them on the stack; it uses no
pointer before something set it (`good`, `bound`), but may map again, ignore a failed mapping,
and go on after an unmap, whose pointers stay.  Of the raw buffer there is the state of its
pointer and whether its size is positive (`ProgrammedRead` has the numbers).  A read grows it or
not, the growth may be refused, and if the pointer handed to `realloc` or `free` is no heap
block, or the one written through is none, `wild` says whether that happened on an open context
(the driver's doing) or after an unmap or a failed mapping (the client's); there is no call
after it. Device 4 is turned down by `smi_configure_*` only: a read truncates it to device 0 and
writes DC and DCS in place of its registers.  Of a setting only what distinguishes it is kept
(the width, the format, and whether a client, reset or nobody wrote the timing).
`smi_configure_*` return no value, so `smi_sync_context_device` acts on whatever is taken for
one.  `init_smi_clk` is step by step, against a clock generator that follows its registers late.

In `Packing` a word is its number, a bit `<<word, position>>`, a sample the sequence
of its bits; the C shifts and masks become bit positions.  The reference is
independent of them: the pixels of the FIFO words, laid end to end and cut into samples
of the bus width.  One action is one turn of an unpacker's loop.

`quiet`, `abandoned`, `outcome`, `sent`, `bus`, `disturbed`, `began`, `taken`,
`gaveUp`, `refused`, `lost`, `open`, `wild`, `synced`, `torn`, `last` and `stray`
are history variables that say which situation a behaviour is in, and what was done in it.
Two of them also stand for knowledge of a client: in `IrqModule` `taken` and `completed`
are what a serial client knows of its events.

`TransferService` is the promise to the caller.  A request ends `own` (its words
moved), `timeout`, `nomem`, or, only when an abandoned transfer still held the
device (`debt`) when the FIFO was cleared, `foreign`; and every request ends.
`ProgrammedRead`, `ProgrammedWrite` and `LiteAwait` are checked to implement it,
liveness included.

Operators named `X_Something` with the comment "Seeded bug" are mutated forms of the
operator `X` that follows them.  No action uses them; they are what each property was tried against.

## 3. Runs

| run | instance | shows |
|---|---|---|
| `read` | FIFO of 2; lengths 1, 2, 4; 3 calls; raw buffer of 2 words | `FreshWhenQuiet`, `CleanUntilTimeout`, `WithinRawBuffer`, `DeliversRequest` for plain, 16-bit RGB565 (1 word to 2) and 16-bit XRGB (2 to 3) reads, with refused reallocations and resizes down to one word; every read returns (`CallReturns`); reads refine `TransferService` |
| `write` | FIFO of 2; lengths 1, 2, 4; 4 calls | `OnlyOwnWordsSent`, `DoneMeansSent`, `LeftoverBounded`; every write returns; writes refine `TransferService` |
| `direct` | lengths 1, 3; addresses 0..2; 2 calls | `SamplesInOrder`, `WordsInOrder`, `IdleBetweenCalls` although each call starts twice; a direct read returns without a device (`ReadReturns`) |
| `dma` | FIFO of 2; lengths 1, 3; one word to one sample, or two to three (16-bit XRGB); channels 0, 1 and 15 (refused); 2 calls, either build | `OwnWordsMoved` and `SuccessMeansMoved` where the cache dropped nothing (`Kept`), `ChannelZeroFree`; every DMA call returns (`CallReturns`) |
| `packing` | lengths 1, 2, 3, 4, 5, 7, 8, 12; every width, format, swap and packing | `SamplesInBusOrder`, with WSWAP clear; `RequestCovered`, with what 16-bit XRGB loses |
| `session` | devices 0, 1 and 4 (which has no registers); widths 8, 16; 6 calls | `BufferHeld`, `ClockRuns`, `DivideWhileStopped`, `SyncedMeansConfigured`, `ReadAsUnpacked`; both waits for the clock end (`ClockInitEnds`) |
| `irq_serial` | 1 client, reads and writes, 4 calls | with a driver thread that waits for each event: `OneEventPerTransfer`, `StartTakesEffect`, `PolledReadReady`, `NoLostWakeUp` |
| `irq_load` | 2 clients, 3 loads | `NothingHeldWhenOut`, `ReleasesWhatIsHeld`, `HandlerHasDevice` |
| `lite` | FIFO of 2; lengths 1, 4; 3 calls; spin limit 1 | `PushFitsFifo`; the loops of `smilite.h` refine `TransferService` |

Three runs end in a counterexample, each a disagreement of the code with its
documentation (`PROJECT.json`, "findings"):

| run | disagreement |
|---|---|
| `read_done` | after a timed-out read, the next one returns the abandoned transfer's words with a full count (`smi.c:266`) |
| `direct_hang` | a direct write never times out: its loop does not count its turns (`smi.c:528`) |
| `irq_readers` | two readers consume one event (`smi_irq.c:61`) |

**Bounds.** Spin limits 1, 2, 3 reach every tier, and the counter stops at the last; those of
the repository only postpone the same steps.  A FIFO of two words is shorter and longer than
some transfer, and one word more than the write loop's surplus word.  Three calls are one that
is abandoned, one that is affected and one after it; writes have a fourth because a leftover
word outlives a call.  A direct or DMA call is affected at most by the call before it, so two
suffice.  Three addresses make direct transfers wrap.  The lengths of `packing` are below, at
and above each group of 2, 3 and 4 samples and leave every remainder.  Six calls of a session
are enough to map, refuse a growth, configure, disturb and read, or to kill and restart in
between (the clock's own steps do not count).  The theorems below do not depend on the bounds.

**Deadlock** is checked for `read` (a client may resize the buffer at any time between
calls), `packing` and `irq_serial`.  It is off for `write`, `direct`, `dma`,
`session`, `irq_load` and `lite`, where the model stops once the calls of its bound have
returned.

**Fairness.**
`WF(CallStep)`, in `LiteAwait` `WF(Enter \/ Loop)`: the calling thread is scheduled again.
`WF(Clock)`: `CLOCK_MONOTONIC` reaches the deadline.
Nothing is assumed of the device or of a DMA channel: both may stall for ever.
In `DriverSession`, `WF(ClkWait)` and `WF(ClkWrite)` (the program goes on) and
`WF(ClockSettles)`: the clock generator does follow its registers, which is exactly what the two
unbounded loops of `init_smi_clk` take for granted.
In `IrqModule`, `WF(Handler)` (an interrupt being served goes on) and
`WF(InOperation(c))` (the kernel runs a runnable process); clients need not call at all.
`Packing` and `IrqLoad` state safety only and assume nothing.

**Restrictions.** `cxt->pad` is 0, as in every use in the repository; packed formats are those
`smi_packed_ratio` knows; `ENABLE` is taken to be set in `DirectTransfer`; in `IrqModule`
`cxt->intd` is 1 and the data path is left out; the DMA calls of a behaviour go in one
direction; the user of `smilite.h` sets a transfer up as `smi.c` does. `SamplesInBusOrder`
speaks of WSWAP = 0 only, and leaves out the bits the code repeats in 9- and 18-bit RGB565
pixels.  `OwnWordsMoved` and `SuccessMeansMoved` speak of an undisturbed call on an idle
channel, the latter of channel 0, and in a 64-bit build only of a call whose buffer the cache
did not drop (`Kept`); the cache of the model does not prefetch.  The properties of `irq_serial`
speak of a client that waits for each event, `ClockRuns` of sessions in which no program was
killed inside `init_smi_clk`, `BufferHeld` of a context that is mapped and not unmapped.

### Where the code differs from what one expects, without a run

These follow from the text of one function.  The models contain them as they are; a
property against them would only restate the line.

* `smi.c:267` negates a code that is negative already: a timed-out read returns +21.
* `smi.c:479` pushes `len + 1` words, the last from past the caller's array
  (`LeftoverBounded` bounds what remains of it).
* `smi.c:577`, and the reads alike: START is written before the loop and again in it.  A fast
  device makes two operations of the first word (`WordsInOrder` and
  `SamplesInOrder` say what remains true).
* `smi.c:305`: a DONE that rises inside a read-modify-write of DCS survives it and is taken
  for the next transfer's (`disturbed`).
* `smi.c:581`: `smi_direct_write_arr` returns 1 whatever its loop reports.
* `smi.c:371`: `smi_direct_read_arr` needs ENABLE and does not set it.
* `smi_irq.c:40` writes 0 to every field of CS but DONE.  A client that does not wait for
  its events may have ENABLE or INTD cleared under its next set-up; and
  `smi_write_await`, which polls DONE, may see it taken away.
* `smi.c:670-685`: END says that the channel has finished, not the SMI; a DMA write
  returns with words still in the FIFO (`SuccessMeansMoved` says so), while
  `finalreport.tex:348` has await functions "block until the transfer completes".
* `smi.c:665`: a packed DMA write gives the control block a word a sample, more than
  the SMI takes, and runs into its timeout.
* `dma.c:58` calls `sync_for_cpu` before every transfer of a 64-bit build.  For a write,
  `docs.md:27-30` wants `sync_for_device`, and `finalreport.tex:274, 369` have a buffer that is
  coherent.  The control block or the payload may be dropped from the cache before it reached
  memory: the channel then runs an old block or an empty one, and the call can report success
  with nothing, or old data, moved.
* WSWAP: `smi-docs.md:29, 150` have it reverse the bits of the pixels, and `finalreport.tex:380`
  says that "Dedicated swap variants are provided for each unpacking function".  `smi_unpack`
  (`smi.c:1025-1052`) looks at it for 9 bits and for 18-bit RGB565 only, and writes it to the
  device in every width (`smi.c:423`): swapped 8- and 16-bit and 18-bit XRGB pixels are unpacked
  as if they were not.  What the 18-bit RGB565 variant does is a mystery to the code itself
  (`smi.c:987`; a comment at `finalreport.tex:384` calls both 18-bit variants unresolved).
* `smi.c:787-790` and `smi.c:807-810`: the comments of the two 9-bit XRGB unpackers are interchanged.
* `smi.c:914`: 16-bit XRGB reads that take an odd number of words store one sample
  less than was asked for, although the call succeeds (`RequestCovered` bounds the loss).
* After `smi_unmap_cxt` a read or a resize hands the freed pointer to `realloc` (`smi.c:403,
  74`), and a second unmap frees it again (`smi.c:58-61`), since only the size is reset.  A
  mapping whose `malloc` failed leaves a size of 1024 with NULL (`smi.c:34-42`), which the next
  read writes through.
* `smi_configure_*` turn device numbers above 3 down; `smi_programmed_read_arr` does not
  (`smi.c:415-423`): device 4 reads device 0 with whatever width it has, and rewrites DC and DCS.
* `smi.c:190` gives WSETUP the format, not `wsetup`, although `smi_sync_context_device` is there "to
  synchronise the device timing configuration with the current context state" (`finalreport.tex:338`).
* `smi.c:648-743`: DMA transfers set neither device nor width; a direct call before leaves 8
  bits (`smi.c:347`).
* `smi.c:623`: `smi_dma_await` looks at channel 0 whatever channel was started.
* `smi.c:111`: the result of `dma_buffer_init` is ignored.
* `smi.c:844` takes other repeated bits than the comment at `smi.c:830` describes.
* `smilite.h:581`: a read whose last word came with the deadline is reported as timed out.
* `sram.c:90` divides and drops the remainder: a chunked read covers whole blocks only.

## 4. Proofs

Each theorem holds for every value of the constants that satisfies the assumptions
named in the modules (`SpinLimits`, `FifoDepthPositive`, `ReadConstants`, `WriteConstants`,
`DirectConstants`, `DmaConstants`, `SessionConstants`, `IrqConstants`,
`LoadConstants`, `LiteConstants`, `PackingConstants`): every FIFO depth above one, every set of
positive lengths, any number of calls, clients, loads or devices in the range.  Of the DMA
lengths there is a greatest (`DmaConstants`), since the payload is a buffer of fixed size.

| module | theorem | statement |
|---|---|---|
| `ProgrammedReadProofs` | `TypeCorrect`, `FreshReads`, `CleanReads`, `BufferSuffices`, `RequestDelivered` | `Spec => []` of `TypeOK`, `FreshWhenQuiet`, `CleanUntilTimeout`, `WithinRawBuffer`, `DeliversRequest` |
| | `ReadsKeepThePromise` | the safety half of the refinement of `TransferService` |
| `ProgrammedWriteProofs` | `TypeCorrect`, `OwnWordsOnly`, `DoneIsOwn`, `LeavesOneWord` | `Spec => []` of `TypeOK`, `OnlyOwnWordsSent`, `DoneMeansSent`, `LeftoverBounded` |
| | `WritesKeepThePromise` | the safety half of the refinement |
| `DirectTransferProofs` | `TypeCorrect`, `SamplesAreOrdered`, `WordsAreOrdered`, `LeavesIdle` | `Spec => []` of `TypeOK`, `SamplesInOrder`, `WordsInOrder`, `IdleBetweenCalls` |
| `IrqModuleProofs` | `TypeCorrect` | `Spec => []TypeOK` |
| | `ReadyForTheOnlyClient` | `Spec => []PolledReadReady`, for one client |
| | `EventsAreCounted`, `SetUpUndisturbed` | `Spec => []` of `OneEventPerTransfer`, `StartTakesEffect`, for one client that waits for its events (`Serial`) |
| | `LoadTypeCorrect`, `BacksOut`, `ReleasesItsOwn`, `HandlerServed` | `LoadSpec => []` of `LoadTypeOK`, `NothingHeldWhenOut`, `ReleasesWhatIsHeld`, `HandlerHasDevice` |
| `DriverSessionProofs` | `TypeCorrect`, `ClockStarted`, `RawBufferHeld`, `SyncConfigures`, `ReadsAsUnpacked` | `Spec => []` of `TypeOK`, `ClockRuns`, `BufferHeld`, `SyncedMeansConfigured`, `ReadAsUnpacked` |
| | `DividesOnlyStopped` | `Spec => DivideWhileStopped` |
| `DmaTransferProofs` | `ZeroIsFree`, `OwnWordsOnly`, `SuccessIsWhole` | `Spec => []` of `ChannelZeroFree`, `OwnWordsMoved`, `SuccessMeansMoved` |
| `LiteAwaitProofs` | `PushHasRoom` | `Spec => []PushFitsFifo` |
| | `LiteKeepsThePromise` | the safety half of the refinement |
| `PackingProofs` | `BusOrder`, `Covered` | `Spec => []` of `SamplesInBusOrder`, `RequestCovered` |

Hardly any of these is inductive by itself.  The strengthenings:

* **Reads.** *SizeInv*: within a call `words = word_reads(len, fmt)`, it is positive and fits
  the buffer, and the loop never holds more; *FlowInv*: in a quiet call the transfer is the
  call's own, of `words` words, and `raw` followed by the FIFO is exactly the words moved so
  far, in order, so that when the loop has `words` words the controller has nothing left and the
  FIFO is empty, which is what makes the *next* call quiet; *ForeignInv*: in a call that is not
  quiet the first word to arrive is another call's, which is why a debt makes the outcome
  `foreign` and nothing else does.  *DeliverInv* adds that a full count is `word_reads`; the
  bounds of the rounded division finish `RequestDelivered`.
* **Writes.** *FlowInv*: the words pushed are those sent followed by those in the FIFO,
  all the call's own and in order, and `count` is their number; *OwnerInv*: whose transfer is on the bus,
  in particular that one of an earlier call cannot end before START, for want of words;
  *CleanInv*: until a call is given up on, each leaves the controller idle and at most one word.
* **Direct.** *BusyInv*: a transfer is under way or reported, never both, and none is begun
  before the one before was seen; *ReadInv* and *WriteInv* tie DA, DD and the answer
  to the sample they belong to, whether the first START and the loop's made one transfer
  or two.  Addresses wrap, so lemmas on remainders come first.
* **Interrupts.** *ClientInv*: with one client nobody takes the event between its look at the
  counter and its read; *QuietInv*: a serial thread sets up with nothing pending; *PlaceInv* and
  *CountInv*: calls, transfers and events are one sequence, each event in one place.
* **Loading.** `HeldAt(step)` says what is held at each place; only the interrupt may be missing,
  once it was refused.
* **Session.** *ClockInv* gives the state of the clock at each place of `init_smi_clk`;
  *BufferInv*: an open context has a heap block, and a program starts with none open;
  *SettingsInv* carries the two settings properties together and says what becomes of them when
  a program goes down.
* **DMA.** *ZeroInv*: ACTIVE and END exclude one another on channel 0, which runs only between
  its launch and the end of the wait.  *CallInv* and *BufferInv* say who has begun and what the
  program sees in its buffer until it hands it over, so that the memory a channel gets holds
  this call's control block and payload; *QuietInv*: a call set up on idle hardware has the
  controller and the channels to itself; *FlowInv*, the heart: as long as no buffer was dropped
  from the cache (`Kept`, always so in a 32-bit build), the words of a write are those on the
  bus, those in the FIFO and those its channel still has to fetch, those of a read the ones in
  memory, in the FIFO and still to come, each of them exactly once, and END on channel 0 means
  none is left to the channel.  The cache may write a line back at any step: it changes nothing
  the program or an unlost transfer sees.  *DataTypes* also shows that no channel, a stale one
  included, reaches beyond the payload.
* **smilite.h.** *RoomAt*: there is room wherever the loop may go on to push.  For the refinement,
  *ReadFlow* and *WriteFlow* account for a quiet call's words as those of the programmed loops do,
  although these loops test words and deadline in another order; *ForeignInv*: a read that
  was not quiet either meets a word of another call first or has not begun a transfer.
* **Packing.** No induction over the data is needed: a turn's samples depend only on the turn's number.
  `Good(c, j, s)` says that every bit of `s`, as the j-th sample, is the stream's.
  `HalfWord` and `WholeWord` reduce it to one equation, where a sample's first bit is
  in the stream, and one list of bits within a word; with them each unpacker has a lemma (`Good_*`), and
  `EveryTurn` puts them together: turn `i` stores the `i`-th group.  *PInv* adds that
  the turns so far stored whole groups and that a call that returned made them all; the
  two rounded divisions (`Words`) finish `Covered`.

The proofs have a step per action, and under it a step per conjunct the action can
disturb; large invariants are proved conjunct by conjunct in lemmas.

**Only model-checked.** All liveness: `CallReturns` (reads, writes and DMA), `ReadReturns`,
`NoLostWakeUp`, `ClockInitEnds` and the fairness of `TransferService`, hence the liveness
half of each refinement, which the provers' temporal logic does not reach.  The three disagreements of
section 3 are counterexamples and have nothing to prove.  Every invariant of a passing run is a
theorem; those of `IrqModule` under the hypothesis the table names (one client, and a serial
thread where it says so); with two clients TLC finds the counterexample of `irq_readers`.

## 5. Not modelled

* **u-dma-buf** (`smi.c:97-125`, `dma.c:77-155`): opening, reading sysfs files and mapping, in
  one straight line without shared state; the result, a buffer that is cached or not, is where
  `DmaTransfer` begins.
* **GPIO** (`gpio.c:13-43, 107-159`): mapping `/dev/mem`, and single read-modify-writes
  or writes of pin registers nobody else writes.
* **Clients** (`sram.c`, `smi_examples.c`, `main.c`): timing, statistics and printing.  How they
  set up and call the driver is what the clients of the models do.
* **`smilite.h`**: its direct and DMA loops, unpackers, clock, register layout and mapping, which
  repeat `smi.c`, `dma.c` and `gpio.c`.
* **Scripts, results, report, man pages**: no program logic.
* CS.ENABLE across calls, AFERR other than by a push into a full FIFO, external DREQ and
  the TE trigger: no code sets them up beyond writing a field.

What would come next: a session in which CS.ENABLE is followed through direct reads, and the
direct and DMA loops of `smilite.h`.
