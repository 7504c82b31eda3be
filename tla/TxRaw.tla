-------------------------------- MODULE TxRaw --------------------------------
(***************************************************************************)
(* Transmitting in RAW mode: blocks of data stream out of a ring of DMA    *)
(* buffers that is refilled, while the transmitter runs, from holding      *)
(* buffers the writer fills.                                               *)
(*                                                                         *)
(* r56_write tests tx_active, fills a holding buffer or the DMA buffers    *)
(* and counts them without irq_spinlock, against interrupts that count the *)
(* other way: a counter it updates is read in one step and written in a    *)
(* later one.  Everything else is done under the lock and is one step.     *)
(***************************************************************************)
EXTENDS Integers, Sequences, FiniteSets, SequencesExt

CONSTANTS
  NumTxDmaBuffers,  \* num_tx_dma_buffers: largest blocks the DMA buffers hold
  BuffersPerFrame,  \* DMA buffers of the largest block
  H,                \* num_tx_holding_buffers
  Size,             \* DMA buffers that each block needs, in the order written
  MaxOps,           \* bound: how many of the operations below happen, once each
  Ops               \* operations that disturb the stream

ASSUME RawAssumption ==
  /\ {NumTxDmaBuffers, BuffersPerFrame} \subseteq Nat \ {0} /\ H \in Nat
  /\ Size \in Seq(1 .. BuffersPerFrame)
  /\ MaxOps \in Nat
  /\ Ops \subseteq {"timeout", "flush", "stop", "txenable"}

C == NumTxDmaBuffers * BuffersPerFrame    \* tx_buffer_count

VARIABLES
  \* r56_struct
  tx_active, tx_enabled,
  xmit_cnt,             \* in DMA buffers
  timer,                \* tx_timer is armed
  tx_buffer_list,       \* the block in each DMA buffer, None when its count is 0
  current_tx_buffer, start_tx_dma_buffer, tx_dma_buffers_used,
  tx_holding_buffers, get_tx_holding_index, put_tx_holding_index, tx_holding_count,
  pending_bh,           \* BH_TRANSMIT
  \* the tty and its line discipline (external), and r56_write
  flow,                 \* "go", "stopping", "stopped", "starting": tty->stopped and its calls
  accepted,             \* blocks r56_write has taken
  wakeup,               \* the line discipline is to try (again)
  w,                    \* control point of r56_write
  tmp,                  \* the counter r56_write is updating, as it read it
  \* the 16C32 (external)
  running,              \* the transmit DMA channel is active
  pos,                  \* the entry it reads
  busy,                 \* the transmitter is sending or about to report underrun
  eob,                  \* latched end of buffer status
  txirq,                \* transmit status not serviced yet
  \* history and bound
  sent,                 \* blocks sent, buffer by buffer
  raced,                \* an update of a counter met an interrupt, or two End of Buffers were one
  starved,              \* a buffer was filled that the stopped channel will not fetch
  ops                   \* operations performed

dma     == <<tx_buffer_list, current_tx_buffer, start_tx_dma_buffer, tx_dma_buffers_used>>
holding == <<tx_holding_buffers, get_tx_holding_index, put_tx_holding_index, tx_holding_count>>
xmit    == <<tx_active, tx_enabled, xmit_cnt, timer>>
writer  == <<accepted, wakeup, w, tmp>>
chip    == <<running, pos, busy, eob, txirq>>
history == <<sent, raced, starved, ops>>
vars    == <<xmit, dma, holding, pending_bh, flow, writer, chip, history>>

None  == -1
Stale == 0      \* what xmit_buf happens to hold; the blocks are 1, 2, ...
Block == accepted + 1
Stopped == flow \in {"stopping", "stopped"}
SizeOf(b) == IF b \in DOMAIN Size THEN Size[b] ELSE 0

Init ==
  /\ tx_active = FALSE /\ tx_enabled = FALSE /\ xmit_cnt = 0 /\ timer = FALSE
  /\ tx_buffer_list = [i \in 0 .. C - 1 |-> None]
  /\ current_tx_buffer = 0 /\ start_tx_dma_buffer = 0 /\ tx_dma_buffers_used = 0
  /\ tx_holding_buffers = [i \in 0 .. H - 1 |-> None]
  /\ get_tx_holding_index = 0 /\ put_tx_holding_index = 0 /\ tx_holding_count = 0
  /\ pending_bh = FALSE /\ flow = "go"
  /\ accepted = 0 /\ wakeup = TRUE /\ w = "idle" /\ tmp = 0
  /\ running = FALSE /\ pos = 0 /\ busy = FALSE /\ eob = FALSE /\ txirq = FALSE
  /\ sent = <<>> /\ raced = FALSE /\ starved = FALSE /\ ops = {}

-----------------------------------------------------------------------------
(* DMA buffers *)

(* r56_load_tx_dma_buffer: n buffers from current_tx_buffer on, b in them. *)
LoadTxDmaBuffer(b, n) ==
  /\ start_tx_dma_buffer' = current_tx_buffer
  /\ tx_buffer_list' = [i \in DOMAIN tx_buffer_list |->
                          IF (i - current_tx_buffer + C) % C < n THEN b ELSE tx_buffer_list[i]]
  /\ current_tx_buffer' = (current_tx_buffer + n) % C

(* The first block held goes to the DMA buffers, of which inUse are taken, *)
(* if there are as many free as needed; counted is what it adds to inUse.  *)
NextBlock == tx_holding_buffers[get_tx_holding_index]
MoveBlock(inUse, needed, counted) ==
  /\ tx_holding_count > 0
  /\ needed <= C - inUse
  /\ xmit_cnt' = SizeOf(NextBlock)
  /\ LoadTxDmaBuffer(NextBlock, SizeOf(NextBlock))
  /\ tx_dma_buffers_used' = inUse + counted
  /\ tx_holding_count' = tx_holding_count - 1
  /\ get_tx_holding_index' = (get_tx_holding_index + 1) % H
  /\ timer' = TRUE
  /\ starved' = (starved \/ ~running)
  /\ UNCHANGED <<tx_holding_buffers, put_tx_holding_index>>

(* Slips: a block counts as one buffer whatever its size; the buffers that *)
(* it needs are rounded down.                                              *)
LoadNextCountsBlocks(inUse) == MoveBlock(inUse, SizeOf(NextBlock), 1)
LoadNextRoundsDown(inUse) == MoveBlock(inUse, SizeOf(NextBlock) - 1, SizeOf(NextBlock))

(* load_next_tx_holding_buffer when it returns true, ...                   *)
LoadNext(inUse) == MoveBlock(inUse, SizeOf(NextBlock), SizeOf(NextBlock))

(* ... and when it does not.                                               *)
LoadNone(inUse) ==
  /\ tx_holding_count > 0 => SizeOf(NextBlock) > C - inUse
  /\ tx_dma_buffers_used' = inUse
  /\ UNCHANGED <<tx_buffer_list, current_tx_buffer, start_tx_dma_buffer, holding, xmit_cnt,
                 timer, starved>>

-----------------------------------------------------------------------------
(* The transmitter, under irq_spinlock *)

(* usc_start_transmitter: the channel starts at the block loaded last.     *)
StartTransmitter ==
  /\ tx_enabled' = TRUE
  /\ IF xmit_cnt = 0
     THEN UNCHANGED <<tx_active, timer, running, pos, busy, txirq>>
     ELSE /\ tx_active' = TRUE /\ timer' = TRUE
          /\ running' = TRUE /\ pos' = start_tx_dma_buffer
          /\ busy' = TRUE /\ txirq' = FALSE

(* usc_stop_transmitter: what is in the buffers stays there.               *)
StopTransmitter ==
  /\ tx_enabled' = FALSE /\ tx_active' = FALSE /\ timer' = FALSE
  /\ running' = FALSE /\ busy' = FALSE /\ txirq' = FALSE

(* The channel empties a buffer, writes its count back as 0 and goes on to *)
(* the next entry.  The End of Buffer interrupt is armed only with more    *)
(* than one DMA buffer; its status is one latched bit.                     *)
HwBufferSent ==
  /\ running /\ tx_buffer_list[pos] # None
  /\ sent' = Append(sent, tx_buffer_list[pos])
  /\ tx_buffer_list' = [tx_buffer_list EXCEPT ![pos] = None]
  /\ pos' = (pos + 1) % C
  /\ eob' = (NumTxDmaBuffers > 1)
  /\ raced' = (raced \/ eob)
  /\ UNCHANGED <<current_tx_buffer, start_tx_dma_buffer, tx_dma_buffers_used, xmit, holding,
                 pending_bh, flow, writer, running, busy, txirq, starved, ops>>

(* An entry with count 0 ends the list, and then the FIFO runs empty.      *)
HwEndOfList ==
  /\ running /\ tx_buffer_list[pos] = None
  /\ running' = FALSE
  /\ UNCHANGED <<xmit, dma, holding, pending_bh, flow, writer, pos, busy, eob, txirq, history>>

HwUnderrun ==
  /\ busy /\ ~running
  /\ busy' = FALSE /\ txirq' = TRUE
  /\ UNCHANGED <<xmit, dma, holding, pending_bh, flow, writer, running, pos, eob, history>>

-----------------------------------------------------------------------------
(* Interrupts and the bottom half *)

(* Slip: the writer is not woken when the transmitter has run out of data. *)
IsrTransmitStatusNoWakeup ==
  /\ txirq
  /\ xmit_cnt' = 0
  /\ tx_active' = FALSE /\ timer' = FALSE /\ txirq' = FALSE /\ running' = FALSE /\ busy' = FALSE
  /\ UNCHANGED <<tx_enabled, dma, holding, pending_bh, flow, writer, pos, eob, history>>

(* r56_isr_transmit_status, which r56_interrupt looks at first.            *)
IsrTransmitStatus ==
  /\ txirq
  /\ xmit_cnt' = 0
  /\ tx_active' = FALSE /\ timer' = FALSE /\ txirq' = FALSE /\ running' = FALSE /\ busy' = FALSE
  /\ tx_enabled' = (tx_enabled /\ ~Stopped)
  /\ pending_bh' = (pending_bh \/ ~Stopped)
  /\ UNCHANGED <<dma, holding, flow, writer, pos, eob, history>>

(* Slip: the next block is left to the writer.                             *)
IsrTransmitDmaNoLoad ==
  /\ eob /\ ~txirq
  /\ eob' = FALSE
  /\ tx_dma_buffers_used' = tx_dma_buffers_used - 1
  /\ UNCHANGED <<tx_buffer_list, current_tx_buffer, start_tx_dma_buffer, xmit, holding,
                 pending_bh, flow, writer, running, pos, busy, txirq, history>>

(* r56_isr_transmit_dma: a buffer less is in use, so there may be room for *)
(* the next block; whoever waits for a holding buffer is woken.            *)
IsrTransmitDma ==
  /\ eob /\ ~txirq
  /\ eob' = FALSE
  /\ \/ LoadNext(tx_dma_buffers_used - 1) /\ pending_bh' = TRUE
     \/ LoadNone(tx_dma_buffers_used - 1) /\ UNCHANGED pending_bh
  /\ UNCHANGED <<tx_active, tx_enabled, flow, writer, running, pos, busy, txirq, sent, raced,
                 ops>>

(* r56_bh_transmit *)
BhTransmit ==
  /\ pending_bh
  /\ pending_bh' = FALSE
  /\ wakeup' = TRUE
  /\ UNCHANGED <<xmit, dma, holding, flow, accepted, w, tmp, chip, history>>

-----------------------------------------------------------------------------
(* r56_write *)

(* The line discipline goes on with the next block after one was taken,    *)
(* and waits for tty_wakeup after one was refused.                         *)
Return(taken) ==
  /\ w' = "idle"
  /\ accepted' = accepted + (IF taken THEN 1 ELSE 0)
  /\ wakeup' = (wakeup \/ taken)

(* What tx_active, the counts and xmit_cnt are at the tests decides the    *)
(* branch; to "stale" goes the one for characters from put_char.           *)
WriteBegin ==
  /\ w = "idle" /\ wakeup /\ Block \in DOMAIN Size
  /\ wakeup' = FALSE
  /\ w' = CASE tx_active /\ tx_holding_count >= H -> "idle"
            [] tx_active /\ tx_holding_count < H -> "hold"
            [] ~tx_active /\ xmit_cnt > 0 -> "stale"
            [] OTHER -> "direct"
  /\ tmp' = IF w' = "hold" THEN tx_holding_count ELSE tx_dma_buffers_used
  /\ UNCHANGED <<xmit, dma, holding, pending_bh, flow, accepted, chip, history>>

(* What becomes of a counter read as tmp when d is added to it without the *)
(* lock: if it has changed since, either update may be lost.               *)
Added(counter, d) == IF counter = tmp THEN {counter + d} ELSE {tmp + d, counter, counter + d}

(* save_tx_buffer_request *)
WriteHold ==
  /\ w = "hold"
  /\ tx_holding_buffers' = [tx_holding_buffers EXCEPT ![put_tx_holding_index] = Block]
  /\ put_tx_holding_index' = (put_tx_holding_index + 1) % H
  /\ tx_holding_count' \in Added(tx_holding_count, 1)
  /\ raced' = (raced \/ tx_holding_count # tmp)
  /\ w' = "load"
  /\ UNCHANGED <<xmit, dma, get_tx_holding_index, pending_bh, flow, accepted, wakeup, tmp,
                 chip, sent, starved, ops>>

WriteLoad ==
  /\ w = "load"
  /\ LoadNext(tx_dma_buffers_used) \/ LoadNone(tx_dma_buffers_used)
  /\ Return(TRUE)
  /\ UNCHANGED <<tx_active, tx_enabled, pending_bh, flow, tmp, chip, sent, raced, ops>>

(* The DMA buffers are filled directly, whether or not they are free.      *)
WriteDirect ==
  /\ w \in {"direct", "stale"}
  /\ LET n == IF w = "direct" THEN SizeOf(Block) ELSE xmit_cnt
     IN /\ LoadTxDmaBuffer(IF w = "direct" THEN Block ELSE Stale, n)
        /\ tx_dma_buffers_used' \in Added(tx_dma_buffers_used, n)
        /\ raced' = (raced \/ tx_dma_buffers_used # tmp)
        /\ xmit_cnt' = n
        /\ starved' = (starved \/ (w = "stale"))
  /\ w' = IF w = "direct" THEN "check" ELSE "checkStale"
  /\ UNCHANGED <<tx_active, tx_enabled, timer, holding, pending_bh, flow, accepted, wakeup,
                 tmp, chip, sent, ops>>

WriteCheck ==
  /\ w \in {"check", "checkStale"}
  /\ IF xmit_cnt > 0 /\ ~Stopped
     THEN /\ w' = IF w = "check" THEN "start" ELSE "startStale"
          /\ UNCHANGED <<accepted, wakeup>>
     ELSE Return(w = "check")
  /\ UNCHANGED <<xmit, dma, holding, pending_bh, flow, tmp, chip, history>>

WriteStart ==
  /\ w \in {"start", "startStale"}
  /\ IF tx_active THEN UNCHANGED <<tx_active, tx_enabled, timer, running, pos, busy, txirq>>
     ELSE StartTransmitter
  /\ Return(w = "start")
  /\ UNCHANGED <<xmit_cnt, dma, holding, pending_bh, flow, tmp, eob, history>>

-----------------------------------------------------------------------------
(* What disturbs the stream *)

Op(o) == /\ o \in Ops \ ops /\ Cardinality(ops) < MaxOps
         /\ ops' = ops \cup {o}

(* r56_tx_timeout: five seconds after a block was loaded, sent or not.  The *)
(* channel is left running.                                                *)
TxTimeout ==
  /\ Op("timeout") /\ timer
  /\ tx_active' = FALSE /\ xmit_cnt' = 0 /\ timer' = FALSE
  /\ wakeup' = TRUE
  /\ UNCHANGED <<tx_enabled, dma, holding, pending_bh, flow, accepted, w, tmp, chip, sent,
                 raced, starved>>

FlushBuffer ==
  /\ Op("flush")
  /\ xmit_cnt' = 0 /\ timer' = FALSE
  /\ wakeup' = TRUE
  /\ UNCHANGED <<tx_active, tx_enabled, dma, holding, pending_bh, flow, accepted, w, tmp,
                 chip, sent, raced, starved>>

(* The tty layer sets or clears tty->stopped, then calls the driver.       *)
TtyFlow ==
  /\ \/ flow = "go" /\ Op("stop") /\ flow' = "stopping"
     \/ flow = "stopped" /\ flow' = "starting" /\ UNCHANGED ops
  /\ UNCHANGED <<xmit, dma, holding, pending_bh, writer, chip, sent, raced, starved>>

R56Stop ==
  /\ flow = "stopping"
  /\ flow' = "stopped"
  /\ IF tx_enabled THEN StopTransmitter
     ELSE UNCHANGED <<tx_active, tx_enabled, timer, running, busy, txirq>>
  /\ UNCHANGED <<xmit_cnt, dma, holding, pending_bh, writer, pos, eob, history>>

R56Start ==
  /\ flow = "starting"
  /\ flow' = "go"
  /\ IF ~tx_enabled THEN StartTransmitter
     ELSE UNCHANGED <<tx_active, tx_enabled, timer, running, pos, busy, txirq>>
  /\ UNCHANGED <<xmit_cnt, dma, holding, pending_bh, writer, eob, history>>

(* R56_IOCTXENABLE *)
TxEnable ==
  /\ Op("txenable")
  /\ \/ tx_enabled /\ StopTransmitter /\ UNCHANGED pos
     \/ ~tx_enabled /\ StartTransmitter
  /\ UNCHANGED <<xmit_cnt, dma, holding, pending_bh, flow, writer, eob, sent, raced, starved>>

-----------------------------------------------------------------------------
Write == WriteBegin \/ WriteHold \/ WriteLoad \/ WriteDirect \/ WriteCheck \/ WriteStart
Hw == HwBufferSent \/ HwEndOfList \/ HwUnderrun

Next == \/ Write \/ Hw \/ IsrTransmitStatus \/ IsrTransmitDma \/ BhTransmit
        \/ TxTimeout \/ FlushBuffer \/ TtyFlow \/ R56Stop \/ R56Start \/ TxEnable

(* The writer's process and the worker run, interrupts are served, and a   *)
(* channel that has data sends it.                                         *)
Fairness == /\ WF_vars(Write) /\ WF_vars(Hw) /\ WF_vars(BhTransmit)
            /\ WF_vars(IsrTransmitStatus \/ IsrTransmitDma)

Spec == Init /\ [][Next]_vars /\ Fairness

-----------------------------------------------------------------------------
(* Properties *)

(* Counts read without the lock met no interrupt, no End of Buffer came    *)
(* while the one before was not serviced, and nothing but the writer and   *)
(* the chip touched the transmitter.                                       *)
Undisturbed == ~raced /\ ops = {}

(* However r56_write, the End of Buffer interrupts, timeouts, flushes and  *)
(* restarts alternate, no DMA buffer with unsent data is taken for free:   *)
(* tx_dma_buffers_used is never less than the buffers that hold data and   *)
(* those whose End of Buffer is still to be counted.                       *)
UsedCoversBuffers ==
  ~raced => Cardinality({i \in DOMAIN tx_buffer_list : tx_buffer_list[i] # None})
              + (IF eob THEN 1 ELSE 0) <= tx_dma_buffers_used

(* The blocks go out in the order and as often as they were written, with  *)
(* all their buffers, although some go by way of a holding buffer and some *)
(* do not: as long as no block was loaded behind the end of the list that  *)
(* the channel had already reached (load_next_tx_holding_buffer,           *)
(* r56_load_tx_dma_buffer, the ring indices).  It takes more than one DMA  *)
(* buffer, or no holding buffers: End of Buffer interrupts come only then. *)
Stream == FlattenSeq([b \in 1 .. Len(Size) |-> [i \in 1 .. SizeOf(b) |-> b]])
StreamInOrder == Undisturbed /\ ~starved => IsPrefix(sent, Stream)

(* "The driver uses a separate set of transmit holding buffers to keep the *)
(* transmit DMA buffers filled": a block in a holding buffer gets to the   *)
(* DMA buffers without another write (r56_isr_transmit_dma).               *)
HoldingDrains == [](Undisturbed /\ ~starved) => (tx_holding_count > 0 ~> tx_holding_count = 0)

(* Every block is taken in the end, whatever races, timeouts and flushes do *)
(* to the stream: a refused write is always followed by a wakeup.  (A stop *)
(* or R56_IOCTXENABLE can leave the line discipline waiting.)              *)
WriterServed == [](ops \subseteq {"timeout", "flush"}) => <>(accepted = Len(Size))

=============================================================================
