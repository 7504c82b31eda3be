# Verification of the Route 56 driver

This directory holds TLA+ specifications of the Sealevel Route 56 serial driver
(`src/driver/route56.c`, a tty driver for boards with a Zilog 16C32) and of the
loop mode sample programs that come with it (`src/examples/sample-loopmode`), TLC
configurations that check them on small instances, and TLAPS proofs of all
their safety properties for every instance.

## 1. The system

Applications use a port through the tty layer and a line discipline (`n_hdlc`
for frames, `n_tty` for characters), or the kernel uses it as a network interface
(generic HDLC). The driver has four kinds of activity, and most of what is hard
in it is how they interleave:

* **calls** from processes: open, close, write, ioctl, termios, hangup;
* **interrupts**: `r56_interrupt` goes through `UscIsrTable` under
  `irq_spinlock` and leaves work codes in `pending_bh`;
* the **bottom half** `r56_bh_handler` on the kernel work queue, mostly without
  the lock;
* the **transmit timer** `r56_tx_timeout`;

and the 16C32 with its DMA channels runs beside all of them. Everything shared
is in `r56_struct` and in the DMA buffer lists. In loop mode several adapters,
each with its driver and its program, share one line.

### Inventory

| component | state | operations | what is hard | correct when |
|---|---|---|---|---|
| interrupt dispatch, bottom half | `pending_bh`, `bh_running`, `bh_requested` | `r56_interrupt`, `r56_bh_handler`, `r56_bh_action` | an interrupt while the handler is about to leave | no work stranded, one activation, every code served |
| HDLC receive | ring of `DMABUFFERENTRY`, `current_rx_buffer`, `rx_overflow`, `rx_rcc_underrun` | receive DMA, status and misc interrupts, `r56_bh_receive`, `usc_start_receiver`, `usc_process_rxoverrun_sync` | the channel, interrupts and the unlocked bottom half use the ring at once; overflow, overrun, underrun | in step, frames in order, recovery |
| HDLC transmit | `tx_active`, `xmit_cnt`, DMA buffers, RTS, `tx_timer` | `r56_write`, status interrupt, timeout, abort, flush, stop, start, CTS | unlocked tests in `r56_write`, a timer callback racing a late status | frames sent and counted once, transmitter never stuck, no wakeup lost |
| RAW transmit | holding buffers, several DMA buffers, `tx_dma_buffers_used` | `save_tx_buffer_request`, `load_next_tx_holding_buffer`, `r56_isr_transmit_dma` | counters updated outside the lock against interrupts; blocks of several buffers at the ring's limit | unsent buffers never count as free, the stream in order, writers served |
| async transmit | `xmit_buf`, head, tail, count, `x_char` | `r56_write`, `r56_put_char`, `usc_load_txfifo`, transmit data interrupt, flow control | wrap and limit of the buffer, restarts after stops | a FIFO queue, everything sent |
| port life | `port.count`, `blocked_open`, flags, claimed resources | open, `block_til_ready`, close, hangup, startup, shutdown | opens that sleep while others close or hang up, startup failing half way, two sides that start and shut down | the count is exact, a port that runs has everything and one that does not nothing |
| network interface | `netcount`, the port's settings | `hdlcdev_open`, `hdlcdev_close`, `hdlcdev_attach`, `hdlcdev_ioctl`, the frame calls | it shares the port with the tty side | one side at a time has the port, and it runs |
| line events | event counters, `RICR`, wait queues | `r56_wait_event`, `modem_input_wait`, `r56_isr_io_pin`, `r56_get_stats` | check-then-sleep against interrupts, waiters sharing arm bits, counters cleared under the waiters | no wakeup lost, true returns |
| parameters, registers | `params`, `idle_mode`, the chip's registers and their shadows | `r56_set_params`, `r56_change_params`, `r56_set_termios`, `r56_set_txidle`, `r56_program_hw` and what it calls | registers that are changed in part, in any order of modes, loopbacks and breaks; rounding of time constants | the registers say what `params` says, whatever they said before |
| modem outputs | `serial_signals`, `drop_rts_on_tx_done` | `tiocmset`, `dtr_rts`, throttling, automatic RTS, break | unlocked updates | the pins show `serial_signals` |
| loop mode | `loopmode_insert_requested`, `loopmode_send_done_requested`, `CMR` bit 13 | insert, release, cancel | release requested during a frame; a frame waiting for the go-ahead | the line is released |
| loop mode sample | client list, transaction lists, timers | SIM, general poll and DISC exchanges, transactions and answers | stations joining, leaving and losing frames while others have the line | answers match, stations join, the primary can stop |
| RAW receive, async receive | FIFO, ring, flip buffer | `r56_get_raw_rx_frame`, `r56_isr_receive_data` | error bits that come together | every character once |
| register window | bank bit (R561) | `usc_OutReg`, `usc_InReg` | a window shared by two ports | an access reaches its port |

`PROJECT.json` lists these and the remaining parts, with the reason for each one
left out, and the hazards with the line where each bites.

### How the components meet

Interrupt routines of the receive, transmit and event components raise
`BH_RECEIVE`, `BH_TRANSMIT` and `BH_STATUS`; `BottomHalf` shows that the handshake
behaves as the priority queue `BhQueue`, and the other modules rely on it by
carrying one Boolean, `pending`, for their own code and taking it in a fair
step of their own. The transmitter's bottom half wakes the line discipline.
`PortLife` decides when a port runs and for whom; the data path modules begin
with a running port. `Settings` is the port's calls over the register operators
of `UscRegs`. `LoopSample` composes the sample programs of all stations with one
`LoopDriver` per station and the cable between them.

## 2. Modules

| module | models |
|---|---|
| `BhQueue` | abstract: a set of codes, the highest served first |
| `BottomHalf` | `r56_interrupt`, `r56_bh_handler`, `r56_bh_action`; implements `BhQueue` |
| `RxRing`, `MCRxRing` | HDLC receive; claims of the code's comments about it |
| `TxHdlc` | HDLC transmit |
| `TxRaw`, `MCTxRaw` | RAW transmit; the blocks written in the run |
| `CharQueue` | abstract: a bounded queue of characters |
| `AsyncTx` | async transmit; implements `CharQueue` |
| `PortLife` | open, close, hangup, startup, shutdown, and the network interface's open and close |
| `LineEvents`, `MCLineEvents` | waits for signals and receiver events; the masks used by TLC |
| `UscRegs` | register programming: one operator per routine, from registers to registers |
| `Settings`, `MCSettings` | the calls that change parameters, idle pattern and modem outputs, as a tty or as a network interface; the settings used by TLC |
| `LoopDriver` | loop mode of the driver, for every station of a loop, and the loop itself |
| `LoopSample`, `MCLoopSample` | the sample primary and secondaries over `LoopDriver`; the instances and a claim of the sample's README |
| `RxRingProofs`, `TxHdlcProofs`, `TxRawProofs`, `AsyncTxProofs`, `PortLifeProofs`, `SettingsProofs`, `LoopSampleProofs` | proofs about the module of that name |
| `InterruptProofs` | proofs about `BottomHalf` and `LineEvents`, whose names do not meet |

`PROJECT.json` maps each definition to the lines it stands for. Definitions
marked *Slip* are plausible mistakes: each property of a run is shown to notice
one of them.

**Atomicity.** What runs under `irq_spinlock` is one step. Reads and stores
without it are steps of their own: the bottom half's visits to ring entries
(`RxRing`), the tests, stores and buffer load of `r56_write` (`TxHdlc`,
`AsyncTx`), the counters `r56_write` reads and writes in RAW mode (`TxRaw`, where an
update that meets an interrupt may end in either's value), the timer callback
before and after its lock, `r56_send_xchar`'s store of `x_char`, what
`r56_set_termios` does to the transmitter (the store of `ASYNC_CTS_FLOW`, the locked
`r56_program_hw`, the unlocked `hw_stopped = 0` and `r56_start`, in `AsyncTx`), and
the changes of `params`, `serial_signals` and `tcsr_value` by system calls
(`Settings`). The `memset` of `r56_get_stats` clears any of the counters in a step
(`LineEvents`). In `PortLife` the unit is a stretch under the tty lock, which
`block_til_ready` and the drain of `tty_port_close_start` release; the network interface
does not take it, so `startup` goes claim by claim, and `shutdown` in steps, on either
side. In `LoopSample` a program's step ends where it writes a frame, calls an
ioctl or waits.

**Data.** A frame is a number and its length a number of DMA buffers; a
character is a number; a count of bytes in `TxHdlc` is 0 or 1, as the code only
tests it; `input_signal_events` in `LineEvents` is, for each waiter, the set of events
counted since it last looked, and `icount` a number for each signal and receiver event. A
resource in `PortLife` is a name, once in what the driver's flags and pointers hold and once
in what the kernel has given. A register in `UscRegs` is a record of the fields the code tells
apart, each with the name its bits have in `z16c32.h`; time constants are numbers
of sixteen bits. A frame in `LoopSample` is what its receivers test: address,
control field, length, and the number of its transaction. Debug output and byte
copies are left out.

**External parts.** The 16C32 (DMA in linked list mode, FIFO levels, latched
status, insertion on a go-ahead), the tty layer, the network layer and the line
disciplines are modelled from how the driver uses them, and marked external in
the map. In particular the receive channel
clears an entry's count when it enters it and stops with end-of-list when the
next count is zero, as the comments at `route56.c:1514-1544` and
`route56.c:5343-5375` describe; and the tty layer calls `r56_close` for a file
whose `r56_open` failed.

## 3. Runs

| run | checks | states | what it shows |
|---|---|---|---|
| `bottom_half` | `BhTypeOK` `NoStrandedWork` `OneActivation` `ImplementsPromise` `EventuallyServed` | 125, no bounds | the complete state space of the handshake |
| `rx_ring` | `InStep` `Ordered` `OverflowRecovers` `UnderrunRecovers` `FramesLeaveRing` | 531 000: 3 entries, 2 frames, 1 RCC underrun, 1 restart by ioctl, 1 FIFO overrun | outside the bottom half's unlocked window all are harmless; overflow and underrun end, frames come out in order, those the search did not pass whole, and none stays |
| `rx_overflow_drop` | `OverflowRestartWhenEmpty`, violated | | see 6 |
| `rx_joined` | `OnlyGoodFrames`, violated | | see 6 |
| `tx_hdlc` | `ActiveHasTimer` `SentOnce` `Accounting` `RtsDropped` `DrainEnds` `AllAccepted` | 801 000 | the transmit path under every operation |
| `port_life` | `CountExact` `PortStaysUp` `ResourcesMatch` `NoLostCarrier` | 1 010 000 | three processes and the network interface, startup claim by claim and any claim failing |
| `async_tx` | `NotStranded` `ImplementsQueue` `AllSent` | 819 000 | the circular buffer is a queue and drains |
| `line_events` | `NoLostWakeup` `TrueReturns` `EventArmed` `LevelReported` | 1 010 000 | waits miss nothing and return the truth, the counters once cleared under them |
| `loop_sample` | `ResponsesMatch` `InitializedIsKnown` `JoinsEventually` `ShutdownCompletes` `LineComesFree` | 314 000 | the sample's protocol over loop mode, with one fault and a station that may leave |
| `loop_lost` | `QueuedMovesToPending`, violated | | see 6 |
| `tx_raw` | `UsedCoversBuffers` `StreamInOrder` `HoldingDrains` `WriterServed` | 1 440 000 | the stream through holding and DMA buffers |
| `settings` | `ClocksAsAsked` `SignalsShown` `LoopbackIsolated` `NoResidue` | 330 000 | five calls in any order and interleaving |

The type invariants of the modules whose run does not list one are there for
the proofs.

### Bounds

* *Ring*: three entries and frames of one or two buffers give a ring that
  overflows, frames that wrap round, a frame that fills the ring but one, and an
  end-of-list in the middle of a frame. Two frames of two buffers overflow the ring, and
  let one be handed on while the other arrives; the underrun, the restart and the overrun
  each come at any moment and in any order.
* *HDLC transmit*: two frames, so that a late status or timeout of the first
  meets the second; two operations out of timeout, abort, flush, parameters,
  enable and disable, stop and start, CTS, so that each pair occurs in each order.
* *RAW transmit*: four DMA buffers in two largest blocks, two holding buffers and
  four blocks of 1, 2, 1 and 1 buffers: the holding buffers fill up, a block of two
  finds one buffer free, and the ring wraps. One disturbing operation out of
  timeout, flush, stop and start, enable and disable.
* *Async transmit*: 6 places, a wakeup level of 5 and a FIFO of 2 keep the order
  of the real 4096, 256 and 32. The level must exceed what the restarts of two
  operations load: an interrupt that finds output stopped gives no wakeup, a stop
  purges the FIFO and its interrupt with it, and what makes that harmless is that
  more is left below the level. Six characters wrap the buffer.
* *Port*: three processes (one open, one waiting, one coming), three opens, those of
  the network interface included, one failure at any of the ten claims and tests of a PCI
  adapter, one hangup, two carrier changes.
* *Line events*: two waiters with three calls, two changes, one signal (the four are
  treated alike) and both receiver events, in masks that mix a signal with a receiver event;
  one reset of the statistics; the interrupt limit is 1, so that it is reached.
* *Settings*: five calls reach every pair of settings with a call in between. The
  eight parameter sets differ in every choice the code makes: each clock source, the
  DPLL and its divisors, loopback, loop mode, RAW and async mode, rates that round
  down and up and the smallest one sixteen bits reach. The crystal is the real
  20 MHz.
* *Loop*: two secondaries, one upstream of the other, with two and one transactions;
  one fault (a failed send, a transmit timeout or an aborted frame); one station
  that may leave. `MaxInbox` lets the poll timer run out only when no program is
  that many frames behind.

`CHECK_DEADLOCK FALSE` stands where the bounds let the system come to rest;
`BottomHalf` and `RxRing` have no such rest and are checked for deadlock.

### Fairness

Weak, with one exception, and only of what the hardware or the kernel does sooner
or later: a pending interrupt is serviced, a queued work item runs and goes on, a
process that is awake goes on, an armed timer fires or is deleted (so `DrainEnds` does
not ask the transmitter to do anything). Nobody has to call, no signal
has to change. The transmit FIFO of `AsyncTx` and the channel of `TxRaw` drain, and
output of `AsyncTx` that was stopped is started again. In `TxHdlc` the transmitter is
*not* fair: its clock may come from the line and stop; in `AsyncTx` a termios call that
has begun goes on. `PortLife` asks only that a woken open, a drained close, a hangup, and
startups and shutdowns with their callers go on.

The exception is the loop: a station that wants to enter it or to send waits for a
go-ahead that comes and goes as others use the line, so these two steps are
strongly fair (`LoopSample`). They say that a station is not passed over for ever, which
the order of stations on a loop gives. `SlowPolls` says that the poll timer, an
interval of seconds, does not run out while a frame that could go out has not
gone; section 6 says what happens otherwise.

### Conditions in properties

Several properties carry a condition that names exactly the operations after which
they fail; each was found by checking the property without it. `raced` (`InStep`,
`Ordered`, `FramesLeaveRing`) is a reset of the ring during the bottom half's unlocked use
of it; `passed`, of one delivered frame, and `cut` (`Ordered`) are a search that went past
the end of a frame before its status was there, and an overrun counted from an entry
already freed; `OverflowRecovers` also excepts a receiver turned off and an overrun, which
may leave the channel paused; `used` (`TxHdlc`, `AsyncTx`) is the set of kinds of operations performed so far;
`misled` (`AsyncTx`) is a transmitter enabled with nothing to send while output is
stopped, or while CRTSCTS is being turned off, which makes the start that follows do
nothing; `failed` (`PortLife`) is an open that failed, `contended` a network interface
brought up while an open waits or a close drains, or a hangup while it is up;
`crossed` (`ResourcesMatch`, which also says that it takes one of these) two shutdowns at
once; `carried` (`LineEvents`) is a second waiter for an armed event, `cleared`, of one
waiter, a reset of `icount` since it last looked; `raced` and `starved`
(`TxRaw`) are a counter updated by two at once or two End of Buffers in one status,
and a block loaded behind a channel that has stopped; `lost` and `faults`
(`LoopSample`) are a frame that did not arrive and a failure, against which the
sample has no retransmission. All are in section 6.

## 4. Proofs

Checked by TLAPS for every value of the constants. Each module proves an
inductive invariant first and its theorems from it. Conditions such as `~raced`
are those of the properties (section 3).

**`InterruptProofs`**, about `BottomHalf`. `NoStrandedWork` and `OneActivation` are not inductive:
the unlocked store of `bh_running` separates "queued" from "running". The
invariant `Handshake` says where the handler is from the two flags (`bh_requested` holds from
the request until `r56_bh_action` finds nothing, `bh_running` from the handler's
entry until then) and with `BhTypeOK` it is inductive (`HandshakeInvariant`).
From it follow `BottomHalfTypes`, `WorkNeverStranded`, `ActivatedOnce`, and
`RefinesBhQueue`: initial states and steps map to initial states and steps of
`BhQueue`, whose `Next` serves only a code with none above it pending.

**`RxRingProofs`**, for a ring of any size. `RingAlwaysInStep` and
`FramesAlwaysOrdered` rest on `RingInvariant`. Entries are numbered by their
distance `Off(Base, x)` from the first the driver has not freed. `Held(n)` says
that exactly the first `n` are in use, that the channel is at the last of
them and that the others are clean; `InStep` says less and is not
preserved, as a restart or an overrun starts the channel from what the driver
believes. `Window` says that what the bottom half has read outside the lock still holds.
The order needs that the filled entries, going round, have the frames
of the line in order and end where a status is (`Sorted`, `Starts`), all before
the one coming in (`Dated`) and after those delivered (`Given`). That status, length and
bytes are of one frame needs more (`WholeInv`): the buffers of a frame follow each other,
one part after the other, up to the channel's entry, with the length in the last (`Runs`),
and of what the bottom half has found nothing changes but by a frame's end it has passed
(`Entire`). An overrun frees a
stretch that starts at a frame's end; the last entry with a status exists by the
well-foundedness of the distances.

**`TxHdlcProofs`**, for any number of frames and operations.
`FramesAreWatched`, that a frame in progress has its timer armed or the callback at the
lock, is inductive as it stands. `EveryFrameCounted` needs `OneFrame`:
`r56_write` gets past its test only when the transmitter is idle, `xmit_cnt` is set
exactly from `r56_write`'s store to the status interrupt, and an active
transmitter is sending or has its status pending. Without these a second accepted frame could
meet the status of the first. `RtsAlwaysDropped` is an action property; it
needs that RTS is up only for a frame in progress that will drop it
(`RtsForFrame`). `FramesSentOnce` needs `Ahead`: what is being sent comes after
everything on the line, and what is loaded is the next frame or stale.

**`TxRawProofs`**, for DMA rings and blocks of any size. `UsedAlwaysCovers`
strengthens `UsedCoversBuffers` by the ranges of the indices; the argument is
one of cardinalities, that a load of `n` buffers occupies at most `n` more.
`RawStreamInOrder` (`StreamInOrder`) follows the blocks from `r56_write` to the line.
`Off[b]` is the place in the stream where block `b` ends, and while nothing disturbs the
stream (`Calm`) the invariant `StreamInv` says that what was sent is a beginning of the
stream (`InOrder`), that from the channel's entry to the next one to fill the ring has
what comes next (`InBuffers`), that the blocks after those are in the holding buffers
(`Held`), and that `r56_write` fills DMA buffers itself only when nothing is held
(`Writer`). The last one needs that a block stays held only as long as it does not
fit, which follows from an exact count of the buffers in use (`Counted`). What a
concatenation of blocks is (`StreamFacts`) takes induction over the number of blocks,
done in the form "a set of numbers with 0 and every successor is all of them"
(`SetInduction`, from the well-foundedness of the numbers). The theorem assumes
`NumTxDmaBuffers > 1 \/ H = 0`: with `num_tx_dma_buffers` at one the End of Buffer
interrupt is not armed and a held block can be overtaken (section 6); TLC finds this
with two ring entries and one holding buffer.

**`AsyncTxProofs`**, for any sizes of buffer and FIFO. `BufferIsQueue` is the refinement of
`CharQueue`: with `xmit_head = (xmit_tail + xmit_cnt) % Size` a copy that ends
at the buffer's end, a single character and a load of the FIFO each move the
contents from `xmit_tail` on as an append or a removal at the front.
`NeverStranded` needs `Transmitter` (an active transmitter is enabled and has
an interrupt pending or to come) and `Served` (whom `r56_start` finds enabled is
active, be it called by the line discipline or by `r56_set_termios` after its unlocked
store of `hw_stopped`): between the two locked stretches of `r56_set_termios` only the case
named by `misled` leaves the transmitter enabled and idle.

**`PortLifeProofs`**, for any number of processes and either bus. The invariant `IInv` has
two halves. `Main` is about counts and places: what `blocked_open`, `count` and the tty
layer's own count count (`Counts`), that until an open fails only one process drains,
`ASYNC_CLOSING` says so and nobody uses the port meanwhile (`Places`), and who is inside
`startup` or `shutdown` on the tty's side (`Callers`). The other is about the steps of
`startup` and `shutdown`: `Stages` says what each side holds at each step, `Kernel` that
the kernel has given exactly what the driver holds, and on PCI perhaps the lost mapping, and
`Arbitrated` what keeps the two sides apart. Two startups never overlap, because an open
keeps `count` above zero through its own and the network interface keeps `netcount` through
its; a startup and a shutdown never overlap, because one runs only while
`ASYNC_INITIALIZED` is clear and the other only while it is set. Two shutdowns can, and
only after a failed open or on a contended port (`crossed`). `ResourcesAlwaysMatch` is
not inductive: a claim that fails leaves what `Stages` says has been claimed so far, which
`Undo` has to give back, and the next startup has to find free. `CountAlwaysExact` and
`PortAlwaysUp` follow from `Main` and `Arbitrated`.

**`InterruptProofs`**, about `LineEvents`, for any waiters, signals and masks. `WakeupsNeverLost`,
`ReturnsAlwaysTrue` and `EventsStayArmed` need that a result is kept only where it
was found, that a counter is never behind what a sleeper saved of it and is ahead only for
an event that came after the call (`NewsHappened`), both unless it was cleared, and that who
is awake with nothing to see was woken by shutdown, or had its counters cleared
(`IdleWakeup`).

**`SettingsProofs`**, for any parameters, termios, network settings and crystal and any
number of interleaved calls. The lemmas go through the register operators of
`UscRegs` one by one and say what each leaves alone; `Programmed` puts them together for
`r56_program_hw`. The invariant adds to the properties that the driver's
copy of the loopback bits is the chip's (every command writes it back), that TxD
carries data exactly outside loopback, and that calls are in progress only on
an open tty. `NearestDivisor` is the arithmetic of `usc_enable_aux_clock`: for every
rate that sixteen bits reach, the rounded quotient is off by at most half a
divisor's step. `ResidueNeverLeft` (`NoResidue`, an action property) is about two chips,
the port's and one fresh from reset, that are programmed alike. `Agree` relates them: the
registers, and the fields of `IOCR` and `PCR`, in which they agree so far, with the
sources armed in both and the registers that matter only in some modes. Each operator
that writes registers adds to the agreement or keeps it, until nothing is left out
that `Live` looks at (`AgreeLive`).

**`LoopSampleProofs`**, for any number of secondaries, buffers of the line discipline,
transactions and faults, whatever is lost and whether or not polls are slow.
`SampleInitializedIsKnown` (`InitializedIsKnown`) and `SampleResponsesMatch`
(`ResponsesMatch`) speak of what one station has; what another may still do to it is in
frames not read yet, so `SampleInvariant` is about the contents of every queue. `Frames`
says which frames can be where. `Membership`: a station that is initialized, or has a
SIM response coming (`Welcome`), is a client and has no DISC response under way
(`Goodbye`); DISC exists only when the primary is ending, and a SIM response comes before
the DISC request behind it, so the flag it sets is cleared again. `Matching`: a transaction under way is in
one of four places (the secondary's transmit list, the primary's inbox, the primary's list
of requests, the secondary's inbox as an answer), there once, and it is in the
pending list. `Loaded` adds that the frame a driver is sending is the first of the line
discipline's list. The queue lemmas (`Has`, `Once`, `Before`) say what removing the
head, appending and emptying do to these; `Quiet` covers every step
that adds at most a frame of no account, and each other action has a lemma.

The only assumptions are the `ASSUME`s of the component modules (and that of
`RawStreamInOrder`): bounds
are natural numbers, flags Booleans, rings have two entries and buffers two places,
the sets of processes are finite, the signals are none of the receiver's events, a block fits in
a frame's buffers, the crystal's rate is positive, clock speeds are
numbers and parameters have the fields of `R56_PARAMS`.

**Only model-checked:** all liveness (`EventuallyServed`, the liveness part of
`ImplementsPromise`, `OverflowRecovers`, `UnderrunRecovers`, `FramesLeaveRing`,
`DrainEnds`, `AllAccepted`, `NoLostCarrier`, `AllSent`, `LevelReported`,
`HoldingDrains`, `WriterServed`, `JoinsEventually`, `ShutdownCompletes`,
`LineComesFree`), which rests on fairness, that is on `ENABLED`, and the prover does not
treat. Every invariant and action property of a passing run is proved.

## 5. Not modelled

* RAW receive (`r56_get_raw_rx_frame`) and async receive (`r56_isr_receive_data`): one
  loop each, the first like that of `RxRing`, the second locked from end to end.
* The register window (`usc_OutReg`, `usc_InReg`): an access is taken as atomic.
  The ISA branches of register and DMA programming.
* Memory, register and DMA tests, procfs, trace output, enumeration and module load:
  device I/O, formatting, or run once without concurrency.
* Of the network interface `hdlcdev_xmit`, `hdlcdev_tx_done`, `hdlcdev_tx_timeout`,
  `hdlcdev_rx`, `hdlcdev_init` and `hdlcdev_exit`. The rest is modelled as it is written;
  the build with `R56_GENERIC_HDLC` does not compile as it stands, because forward
  declarations (`route56.c:659-661`) name a type the file does not define.
* `r56util`, `r56test`, the other samples and the set-up of the loop mode sample:
  sequential programs that make one call after the other.
* Multiprocessor memory ordering beyond the spinlocks.
* `shutdown` against a bottom half still at work on the buffers it frees
  (`route56.c:1805`), which needs `RxRing` and `PortLife` together.

## 6. Where code and text disagree

Shown by a run:

* `rx_overflow_drop` (`route56.c:6727`): after an overflow and a returned frame, the test
  "receive buffers are now empty" looks at an entry that has just been freed;
  the receiver is restarted and completed frames are thrown away.
* `rx_joined` (`route56.c:6580`): "only frames received without errors are returned"
  (6554-6555), but the search for a frame's end passes an entry that is still being
  filled; if that frame and the next end before it looks again, it stops at the second
  one's status. The first frame's bytes, even of one in error, are handed on under the second's
  status and length, and the second frame is lost. No ioctl and no overrun is needed.
* `loop_lost` (`secondary.c:574`): with two transactions queued at a poll, the
  second is in no list once the first is sent.

Met while modelling, and the reason for conditions in properties:

*Receive.*
* The bottom half's unlocked store of `current_rx_buffer` (6548) after an ioctl has
  reset the ring leaves driver and channel out of step, and
  the scan for a frame's end (6580) can then join two frames.
* An overrun while the bottom half is freeing a frame is counted from a
  `current_rx_buffer` not yet stored (5395, 6548): only the end of the unfinished frame is given
  back, and what is left of it is joined to the next frame.
* An overrun with the ring full (5427 ff.) also discards complete frames that
  the comment at 5433 means to spare, and one that finds a free entry between
  frames may leave the channel paused until the next restart.
* In async receive a character with a parity or framing error hides an overrun
  reported with it (1432).

*Transmit.*
* A write while output is stopped and a frame is loaded replaces the frame by the
  content of `xmit_buf` (2120), against `dox/API:159`, "write() sends one frame".
* `r56_start` looks at `tx_enabled` (955), which does not say whether waiting
  characters are being sent; `r56_send_xchar`, a CTS change or a late write may
  have enabled the transmitter with nothing to send.
* `r56_set_termios` reprograms the port (3025) and, when CRTSCTS goes off, clears
  `hw_stopped` and calls `r56_start` later and without the lock (3052-3053). If
  `r56_send_xchar` enables the empty transmitter in between, a write still finds output
  stopped, `r56_start` finds the transmitter enabled, and the characters wait for a later
  write.
* A timeout leaves RTS on, and the next frame takes it for the application's
  (5628), contrary to `dox/API:608-611`.
* `r56_flush_buffer` removes the timer of a frame in progress (2259);
  `r56_program_hw` discards a frame or characters without waking the writer.
* `enable_rx_on_tx_done` is set and never read (5645): after a frame without echo
  the receiver stays off.
* `usc_load_txfifo` sends `x_char` only along with data (5757), though `r56_send_xchar`
  is there to "send a high-priority XON/XOFF character" (2266).
* A stop purges the FIFO, and the characters in it are lost, with the interrupt that
  would have woken the writer: with the real sizes more than eight stops and starts in a row, none
  of which lets the FIFO drain, can empty the buffer and leave the writer asleep.
* RAW: a block loaded after the channel stopped at the end of its list (3986 ff.) is
  not sent until the ring comes round; two End of Buffers in one status leave
  `tx_dma_buffers_used` one too high; `tx_holding_count` and `tx_dma_buffers_used` are
  updated outside the lock (4044, 6984) and an update can be lost; a timeout
  leaves the channel running; a stop or `R56_IOCTXENABLE` can leave the line discipline
  waiting. With many transmit buffers `rx_buffer_count` is negative (3617).
* RAW with `txholdbufs` set and `txdmabufs` left at its default of one (4197-4208, 4280):
  the End of Buffer interrupt that empties the holding buffers is armed only with more
  than one DMA buffer (5688), so a held block waits for the underrun while later
  blocks of the writer can go past it. `src/README:203-209` describes the two options as
  independent.

*Port.*
* A failed open is counted down (3437) and counted down again by the close the tty
  layer makes of it, so the port is shut down under a process that has it open.
* `r56_open` sleeps on `close_wait` with the tty lock held (3396): the close it
  waits for cannot finish until a signal ends the sleep.
* `lcr_base` is mapped twice (4069, 4093) and the first mapping lost, by every startup
  that gets that far; `xmit_buf` stays allocated after a failed startup until the next one.
* `shutdown` tests `ASYNC_INITIALIZED` first and clears it last (1761, 1810), without a
  lock that the network interface takes too. Once both sides have the port both can be in
  it, and the later one clears the flag of a port that has been started again: the next
  startup then finds its own I/O range taken.
* `hdlcdev_open` "arbitrates between network and tty opens" (7837) by `port.count`
  alone, which is zero while an open waits for carrier or a close drains: both
  then have the port, and the first to leave shuts it down. A tty open refused with
  `-EBUSY` is followed by the tty layer's `r56_close`, which shuts the network
  interface down too. An open that waits on a port the network interface has shut
  down is woken by nobody. `hdlcdev_open` reads DCD under the lock and reports it after.

*Events.*
* Arm bits are added to `RICR` (2695), so a second waiter for an armed event disarms
  it and changes the FIFO level above it.
* `R56_IOCGSTATS` with NULL clears `icount` without the lock (2378-2379), as
  `dox/API:242-243` and `803-812` offer it. `TIOCMIWAIT` and the wait for receiver events
  compare `icount` with a copy (2731-2747, 2803-2813), so a wait across the reset may
  return an event that never happened, miss one, or return `-EIO` without a shutdown.
* A process that starts to wait after shutdown has woken the waiters (1771), or
  calls `TIOCMIWAIT` on a port that is down (2963), sleeps until a signal comes.

*Settings.*
* `R56_IOCSPARAMS` puts the chip's idle pattern back to flags while `R56_IOCGTXIDLE`
  reports `idle_mode`; `R56_IOCSTXIDLE` first writes the pattern of the old
  `idle_mode`, and without the lock (2508-2539).
* In async mode every length but 8 is 7 bits, and `BIT6` of `RMR` and `TMR`, which
  `z16c32.h:1654-1655` calls odd parity, stands for even; `params.loopback` is ignored,
  against `dox/API:437`; the time constant is computed from the
  crystal's rate and not from the sixteenth of it that the comment at 6359 takes.
* `dox/API:661-671` says that clocks are made from 14.7456 MHz with the time constant rounded
  up. That is the crystal of an ISA adapter; the code divides 20 MHz on a PCI adapter
  (`include/route56.h:132-133`), and on both rounds to
  nearest (5337): for 9600 it programs 2082, where rounding up gives 2083 and the document's
  clock 1535. `ClocksAsAsked` is about the rate the code comes nearest to.
* Clock rates below 306 wrap the sixteen bits of a time constant, and rates of more
  than twice the crystal's give 65535; `CLOCK_DEFAULT` with DPLL flags zeroes
  `clock_speed` in `hdlcdev_ioctl`.
* With the transmit clock from RxC and the receive clock from the BRG or DPLL, RxC is
  an output; the DCD pin stays a sync input when RAW mode ends.
* An update of `serial_signals` by `tiocmset` can be lost or bring back an RTS that was
  dropped meanwhile; without `HUPCL` shutdown drops the outputs and keeps
  `serial_signals`.
* `rxenable(2)`, "force hunt mode" in `dox/API:782`, does what `rxenable(1)` does.

*Loop mode.*
* `R56_IOCLOOPTXDONE` between the end of one frame and the loading of the next releases
  the line at once (7661-7670), and the frame that follows then holds it: this is
  what `SlowPolls` excludes. A timeout drops a release that was asked for.
* An aborted frame counts in `rxabort` as the go-ahead does, and makes the secondary
  believe that it is on the loop.
* After a lost DISC response, or a SIM response that could not be sent, `DoDisc` does
  not end without the user.
* A secondary whose poll response did not end with its last frame keeps the line until
  the next poll.

## 7. Plan

Done: the models of section 2 and the proofs of section 4.

Models left: `shutdown` against the bottom half, RAW receive over `RxRing`, the frame
calls of the network interface over `TxHdlc`.
