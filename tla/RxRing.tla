------------------------------- MODULE RxRing -------------------------------
(***************************************************************************)
(* The HDLC receive path: the ring of receive DMA buffers that the 16C32   *)
(* fills, the interrupts it raises and the bottom half that empties it.    *)
(*                                                                         *)
(* The interrupt service routines and the ioctls change the receiver under *)
(* irq_spinlock and are one step each.  The bottom half reads and frees    *)
(* the ring without the lock: each visit to a buffer entry is a step.  The *)
(* request for the bottom half is the one BhQueue promises, of which only  *)
(* BH_RECEIVE is visible here.                                             *)
(*                                                                         *)
(* The DMA channel is external and modelled from what the driver's         *)
(* comments and code rely on: in linked list mode it clears an entry's     *)
(* count when it starts using the buffer, stores status and rcc when a     *)
(* frame ends, moves on at once to the next entry, and shuts down with an  *)
(* end-of-list condition when that entry's count is zero.                  *)
(***************************************************************************)
EXTENDS Integers, Sequences

CONSTANTS
  rx_buffer_count,   \* entries in the ring
  max_frame_size,    \* largest frame handed on, in DMA buffers
  CrcReturnEx,       \* HDLC_CRC_RETURN_EX: frames with CRC errors are returned
  MaxFrames,         \* bound: frames the line brings
  MaxRestarts,       \* bound: ioctls that stop or restart the receiver
  MaxOverruns,       \* bound: receive FIFO overruns
  MaxUnderruns       \* bound: RCC underruns (frames over 65535 bytes)

ASSUME RingAssumption ==
  /\ rx_buffer_count \in Nat \ {0, 1}
  /\ max_frame_size \in Nat \ {0}
  /\ CrcReturnEx \in BOOLEAN
  /\ {MaxFrames, MaxRestarts, MaxOverruns, MaxUnderruns} \subseteq Nat

VARIABLES
  \* rx_buffer_list: what driver and channel share
  count,             \* DMABUFFERSIZE when the entry is free, 0 when in use
  status,            \* "none" until a frame ends in the entry
  rcc,               \* <<f, n>>: n buffers is the length of frame f, ended here
  data,              \* content of the buffer: <<frame, part>>
  \* r56_struct
  current_rx_buffer, rx_enabled, rx_overflow, rx_rcc_underrun,
  pending,           \* BH_RECEIVE is raised
  \* the bottom half
  bh,                \* control point in r56_bh_receive
  StartIndex, EndIndex, ReturnCode,
  \* the 16C32 (external)
  dma,               \* receive channel: "off", "run", "paused" or "eol"
  hw,                \* entry the channel is using
  part,              \* buffers of the current frame already filled
  frame,             \* number of the current frame
  rdmr,              \* receive DMA status bits not read yet
  overrun,           \* RCSR: receive FIFO overrun latched
  rccirq,            \* MISR: RCC underrun latched
  \* history and bounds
  delivered,         \* frames given to the line discipline: the buffers, the
                     \* frame that status and length came from, and whether
                     \* the search had passed the end of another frame
  raced,             \* the ring was reset while the bottom half was using it
  cut,               \* an overrun was counted from an entry already freed
  restarts, overruns, underruns

ring    == <<count, status, rcc>>
driver  == <<current_rx_buffer, rx_enabled, rx_overflow, rx_rcc_underrun>>
locals  == <<bh, StartIndex, EndIndex, ReturnCode>>
channel == <<dma, hw, part, frame, rdmr, overrun>>
bounds  == <<restarts, overruns, underruns>>
vars == <<ring, data, driver, pending, locals, channel, rccirq, delivered, raced, cut, bounds>>

DMABUFFERSIZE == 4096
NoFrame == <<0, 0>>
Ring == 0 .. rx_buffer_count - 1

\* index + 1, wrapped at rx_buffer_count.
Succ(i) == IF i + 1 = rx_buffer_count THEN 0 ELSE i + 1

\* How many entries x comes after b, going round.
Off(b, x) == IF x >= b THEN x - b ELSE (x - b) + rx_buffer_count

BhPoints == {"off", "top", "underrun", "scan", "wrapped", "deliver", "free",
             "advance", "cleanup", "restart"}

TypeOK ==
  /\ count \in [Ring -> {0, DMABUFFERSIZE}]
  /\ status \in [Ring -> {"none", "ok", "crc", "bad"}]
  /\ rcc \in [Ring -> Nat \X Nat]
  /\ data \in [Ring -> Nat \X Nat]
  /\ current_rx_buffer \in Ring
  /\ rx_enabled \in BOOLEAN /\ rx_overflow \in BOOLEAN /\ rx_rcc_underrun \in BOOLEAN
  /\ pending \in BOOLEAN
  /\ bh \in BhPoints
  /\ StartIndex \in Ring /\ EndIndex \in Ring /\ ReturnCode \in BOOLEAN
  /\ dma \in {"off", "run", "paused", "eol"}
  /\ hw \in Ring /\ part \in Nat /\ frame \in Nat
  /\ rdmr \subseteq {"EOB", "EOL"}
  /\ overrun \in BOOLEAN /\ rccirq \in BOOLEAN
  /\ delivered \in Seq([frame : Nat, bytes : Seq(Nat \X Nat), passed : BOOLEAN])
  /\ raced \in BOOLEAN /\ cut \in BOOLEAN
  /\ restarts \in Nat /\ overruns \in Nat /\ underruns \in Nat

\* The bottom half has read current_rx_buffer and not yet stored it back.
InWindow == bh \in {"scan", "deliver", "free", "advance"}

\* The entry at which the frames not yet freed begin: current_rx_buffer, or
\* where the bottom half has got to in freeing a frame.
Base == CASE bh = "free"    -> StartIndex
          [] bh = "advance" -> Succ(EndIndex)
          [] OTHER          -> current_rx_buffer

-----------------------------------------------------------------------------
(* The receiver's registers and ring, changed under irq_spinlock.          *)

\* The channel abandons the frame it was filling.
AbandonFrame == frame' = frame + (IF part > 0 THEN 1 ELSE 0) /\ part' = 0

\* InitRxChannel on entry i of a ring whose entries in S have been freed.
InitRxChannel(i, S) ==
  /\ count' = [j \in Ring |-> IF j = i THEN 0
                              ELSE IF j \in S THEN DMABUFFERSIZE ELSE count[j]]
  /\ status' = [j \in Ring |-> IF j \in S THEN "none" ELSE status[j]]
  /\ rcc' = [j \in Ring |-> IF j \in S THEN NoFrame ELSE rcc[j]]
  /\ dma' = "run"
  /\ hw' = i

\* Slip: the reset of the ring forgets current_rx_buffer.
StartReceiverKeepsCurrent ==
  /\ InitRxChannel(0, Ring)
  /\ rx_overflow' = FALSE
  /\ rx_rcc_underrun' = FALSE
  /\ rx_enabled' = TRUE
  /\ AbandonFrame
  /\ rdmr' = {}
  /\ overrun' = FALSE
  /\ UNCHANGED current_rx_buffer

\* usc_start_receiver, with r56_reset_rx_dma_buffers and usc_stop_receiver.
StartReceiver ==
  /\ InitRxChannel(0, Ring)
  /\ current_rx_buffer' = 0
  /\ rx_overflow' = FALSE
  /\ rx_rcc_underrun' = FALSE
  /\ rx_enabled' = TRUE
  /\ AbandonFrame
  /\ rdmr' = {}
  /\ overrun' = FALSE

\* usc_stop_receiver: the ring is left as it is.
StopReceiver ==
  /\ dma' = "off"
  /\ rx_enabled' = FALSE
  /\ rx_overflow' = FALSE
  /\ rx_rcc_underrun' = FALSE
  /\ AbandonFrame
  /\ rdmr' = {}
  /\ overrun' = FALSE
  /\ UNCHANGED <<ring, current_rx_buffer, hw>>

-----------------------------------------------------------------------------
(* The 16C32 receive channel (external).                                   *)

\* The channel leaves entry hw: it takes the next entry, or shuts down with
\* an end-of-list condition when that one is not free.
NextEntry ==
  IF count[Succ(hw)] # 0
  THEN /\ hw' = Succ(hw)
       /\ count' = [count EXCEPT ![Succ(hw)] = 0]
       /\ rdmr' = rdmr \cup {"EOB"}
       /\ UNCHANGED dma
  ELSE /\ dma' = "eol"
       /\ rdmr' = rdmr \cup {"EOB", "EOL"}
       /\ UNCHANGED <<hw, count>>

\* A buffer is full and the frame goes on.
HwBufferFull ==
  /\ dma = "run" /\ ~overrun /\ frame <= MaxFrames
  /\ data' = [data EXCEPT ![hw] = <<frame, part + 1>>]
  /\ part' = part + 1
  /\ NextEntry
  /\ UNCHANGED <<status, rcc, driver, pending, locals, frame, overrun, rccirq, delivered, raced, cut, bounds>>

\* A frame ends: status and length are stored in its last entry.
HwFrameEnd ==
  /\ dma = "run" /\ ~overrun /\ frame <= MaxFrames
  /\ data' = [data EXCEPT ![hw] = <<frame, part + 1>>]
  /\ \E s \in {"ok", "crc", "bad"} : status' = [status EXCEPT ![hw] = s]
  /\ rcc' = [rcc EXCEPT ![hw] = <<frame, part + 1>>]
  /\ frame' = frame + 1
  /\ part' = 0
  /\ NextEntry
  /\ UNCHANGED <<driver, pending, locals, overrun, rccirq, delivered, raced, cut, bounds>>

\* The FIFO overruns, because the channel is late or has shut down; nothing
\* more is received before the FIFO is purged.
HwOverrun ==
  /\ dma \in {"run", "eol"} /\ ~overrun /\ overruns < MaxOverruns
  /\ overrun' = TRUE
  /\ overruns' = overruns + 1
  /\ UNCHANGED <<ring, data, driver, pending, locals, dma, hw, part, frame, rdmr,
                 rccirq, delivered, raced, cut, restarts, underruns>>

\* The frame is longer than the character counter can tell.
HwRccUnderrun ==
  /\ dma = "run" /\ ~overrun /\ part > 0 /\ ~rccirq /\ underruns < MaxUnderruns
  /\ rccirq' = TRUE
  /\ underruns' = underruns + 1
  /\ UNCHANGED <<ring, data, driver, pending, locals, channel, delivered, raced, cut, restarts, overruns>>

-----------------------------------------------------------------------------
(* Interrupts.  One vector is dispatched at a time, the USC's before the   *)
(* DMA controller's (r56_interrupt).                                       *)

\* No entry is free.
AllInUse == \A i \in Ring : count[i] = 0

\* Slip: the channel is started on the current entry, not on the first one
\* of the unfinished frame.
ProcessRxOverrunFromCurrent ==
  LET Pos(k)   == (current_rx_buffer + k) % rx_buffer_count
      InUse    == {k \in Ring : \A j \in 0 .. k : count[Pos(j)] = 0}
      Complete == {k \in InUse : status[Pos(k)] # "none"}
      Unfinished == {k \in InUse : \A j \in Complete : j < k}
  IN /\ InitRxChannel(current_rx_buffer, {Pos(k) : k \in Unfinished})
     /\ UNCHANGED current_rx_buffer

\* usc_process_rxoverrun_sync: the entries in use, counted from the current
\* one, that hold no end of frame are given back and the channel is started
\* on the first of them.  Entries all in use: the whole ring is given back.
\* No such entry: the FIFO is purged and the channel stays paused.
ProcessRxOverrun ==
  LET Pos(k)   == (current_rx_buffer + k) % rx_buffer_count
      InUse    == {k \in Ring : \A j \in 0 .. k : count[Pos(j)] = 0}
      Complete == {k \in InUse : status[Pos(k)] # "none"}
      Unfinished == {k \in InUse : \A j \in Complete : j < k}
  IN IF AllInUse
     THEN /\ InitRxChannel(0, Ring)
          /\ current_rx_buffer' = 0
     ELSE /\ UNCHANGED current_rx_buffer
          /\ IF Unfinished # {}
             THEN LET first == CHOOSE k \in Unfinished : \A j \in Unfinished : k <= j
                  IN InitRxChannel(Pos(first), {Pos(k) : k \in Unfinished})
             ELSE /\ dma' = "paused"
                  /\ UNCHANGED <<ring, hw>>

\* r56_isr_receive_status for an overrun.
IsrReceiveStatus ==
  /\ overrun
  /\ ProcessRxOverrun
  /\ raced' = (raced \/ (InWindow /\ AllInUse))
  /\ cut' = (cut \/ (current_rx_buffer # Base /\ count[current_rx_buffer] = 0))
  /\ AbandonFrame
  /\ overrun' = FALSE
  /\ UNCHANGED <<data, rx_enabled, rx_overflow, rx_rcc_underrun, pending, locals, rdmr,
                 rccirq, delivered, bounds>>

\* Slip: the bottom half is not asked to restart the receiver.
IsrMiscNoRequest ==
  /\ rccirq /\ ~overrun
  /\ dma' = "off"
  /\ rdmr' = {}
  /\ AbandonFrame
  /\ rx_rcc_underrun' = TRUE
  /\ rccirq' = FALSE
  /\ UNCHANGED <<ring, data, current_rx_buffer, rx_enabled, rx_overflow, pending, locals, hw,
                 overrun, delivered, raced, cut, bounds>>

\* r56_isr_misc: an RCC underrun turns receiver and channel off and leaves the
\* restart to the bottom half.
IsrMisc ==
  /\ rccirq /\ ~overrun
  /\ dma' = "off"
  /\ rdmr' = {}
  /\ AbandonFrame
  /\ rx_rcc_underrun' = TRUE
  /\ pending' = TRUE
  /\ rccirq' = FALSE
  /\ UNCHANGED <<ring, data, current_rx_buffer, rx_enabled, rx_overflow, locals, hw,
                 overrun, delivered, raced, cut, bounds>>

\* Slip: an end-of-list condition is not recorded.
IsrReceiveDmaNoOverflow ==
  /\ ~overrun /\ ~rccirq
  /\ pending' = TRUE
  /\ rdmr' = {}
  /\ UNCHANGED <<ring, data, driver, locals, dma, hw, part, frame, overrun, rccirq,
                 delivered, raced, cut, bounds>>

\* Slip: the bottom half is requested for an end of list only.
IsrReceiveDmaEolOnly ==
  /\ ~overrun /\ ~rccirq
  /\ pending' = (pending \/ "EOL" \in rdmr)
  /\ rx_overflow' = (rx_overflow \/ "EOL" \in rdmr)
  /\ rdmr' = {}
  /\ UNCHANGED <<ring, data, current_rx_buffer, rx_enabled, rx_rcc_underrun, locals,
                 dma, hw, part, frame, overrun, rccirq, delivered, raced, cut, bounds>>

\* r56_isr_receive_dma.  It also runs when no vector is pending at all, on an
\* interrupt of another device that shares the line.
IsrReceiveDma ==
  /\ ~overrun /\ ~rccirq
  /\ pending' = TRUE
  /\ rx_overflow' = (rx_overflow \/ "EOL" \in rdmr)
  /\ rdmr' = {}
  /\ UNCHANGED <<ring, data, current_rx_buffer, rx_enabled, rx_rcc_underrun, locals,
                 dma, hw, part, frame, overrun, rccirq, delivered, raced, cut, bounds>>

-----------------------------------------------------------------------------
(* Process context: each takes irq_spinlock.                               *)

\* r56_rxenable.
RxEnable(enable) ==
  /\ restarts < MaxRestarts
  /\ IF enable THEN ~rx_enabled /\ StartReceiver ELSE rx_enabled /\ StopReceiver
  /\ restarts' = restarts + 1
  /\ raced' = (raced \/ InWindow)
  /\ UNCHANGED <<data, pending, locals, rccirq, delivered, cut, overruns, underruns>>

\* r56_program_hw (IOCSPARAMS, set_termios): the receiver is stopped, and
\* started again when the port has CREAD set.
ProgramHw(cread) ==
  /\ restarts < MaxRestarts
  /\ IF cread THEN StartReceiver ELSE StopReceiver
  /\ restarts' = restarts + 1
  /\ raced' = (raced \/ InWindow)
  /\ UNCHANGED <<data, pending, locals, rccirq, delivered, cut, overruns, underruns>>

-----------------------------------------------------------------------------
(* r56_bh_receive and r56_get_rx_frame, without the lock except where they *)
(* start the receiver.                                                     *)

\* The handler takes BH_RECEIVE.
BhTake ==
  /\ bh = "off" /\ pending
  /\ pending' = FALSE
  /\ bh' = "top"
  /\ UNCHANGED <<ring, data, driver, StartIndex, EndIndex, ReturnCode, channel, rccirq,
                 delivered, raced, cut, bounds>>

\* Head of the loop: an RCC underrun is handled first, else the search for a
\* frame begins at current_rx_buffer.
BhTop ==
  /\ bh = "top"
  /\ IF rx_rcc_underrun
     THEN bh' = "underrun" /\ UNCHANGED <<StartIndex, EndIndex>>
     ELSE /\ bh' = "scan"
          /\ StartIndex' = current_rx_buffer
          /\ EndIndex' = current_rx_buffer
  /\ ReturnCode' = FALSE
  /\ UNCHANGED <<ring, data, driver, pending, channel, rccirq, delivered, raced, cut, bounds>>

\* One turn of the search for an entry with a status.
BhScan ==
  /\ bh = "scan"
  /\ IF status[EndIndex] # "none" THEN bh' = "deliver" /\ UNCHANGED EndIndex
     ELSE IF count[EndIndex] # 0 THEN bh' = "cleanup" /\ UNCHANGED EndIndex
     ELSE /\ EndIndex' = Succ(EndIndex)
          /\ bh' = IF Succ(EndIndex) # StartIndex THEN "scan"
                   ELSE IF rx_enabled THEN "wrapped" ELSE "cleanup"
  /\ UNCHANGED <<ring, data, driver, pending, StartIndex, ReturnCode, channel, rccirq,
                 delivered, raced, cut, bounds>>

\* The frame found has no error, or one that is to be reported.
ReturnFrame(s) == s = "ok" \/ (s = "crc" /\ CrcReturnEx)

\* Entries of the frame found, before its last, that the search left without a
\* status and that have one now: the channel was still using them.
Passed == {x \in Ring : status[x] # "none" /\ Off(StartIndex, x) < Off(StartIndex, EndIndex)}

\* The frame's length is that of the entry its status was found in, its bytes
\* are those from StartIndex on.
BhDeliver ==
  /\ bh = "deliver"
  /\ LET size  == rcc[EndIndex][2]
         bytes == [i \in 1 .. size |-> data[(StartIndex + i - 1) % rx_buffer_count]]
     IN delivered' = IF ReturnFrame(status[EndIndex]) /\ size \in 1 .. max_frame_size
                     THEN Append(delivered, [frame |-> rcc[EndIndex][1], bytes |-> bytes,
                                             passed |-> Passed # {}])
                     ELSE delivered
  /\ bh' = "free"
  /\ UNCHANGED <<ring, data, driver, pending, StartIndex, EndIndex, ReturnCode, channel,
                 rccirq, raced, cut, bounds>>

\* r56_free_rx_frame_buffers, one entry; StartIndex runs over the frame.
BhFree ==
  /\ bh = "free"
  /\ count' = [count EXCEPT ![StartIndex] = DMABUFFERSIZE]
  /\ status' = [status EXCEPT ![StartIndex] = "none"]
  /\ rcc' = [rcc EXCEPT ![StartIndex] = NoFrame]
  /\ IF StartIndex = EndIndex THEN bh' = "advance" /\ UNCHANGED StartIndex
     ELSE bh' = bh /\ StartIndex' = Succ(StartIndex)
  /\ UNCHANGED <<data, driver, pending, EndIndex, ReturnCode, channel, rccirq, delivered, raced, cut, bounds>>

\* The entry after the frame becomes the current one.
BhAdvance ==
  /\ bh = "advance"
  /\ current_rx_buffer' = Succ(EndIndex)
  /\ ReturnCode' = TRUE
  /\ bh' = "cleanup"
  /\ UNCHANGED <<ring, data, rx_enabled, rx_overflow, rx_rcc_underrun, pending, StartIndex,
                 EndIndex, channel, rccirq, delivered, raced, cut, bounds>>

\* Where r56_bh_receive goes when r56_get_rx_frame has returned.
AfterFrame == IF ReturnCode THEN "top" ELSE "off"

\* Cleanup: after an overflow the receiver is restarted if the entry at
\* EndIndex is unused.
BhCleanup ==
  /\ bh = "cleanup"
  /\ bh' = IF /\ rx_enabled /\ rx_overflow
              /\ status[EndIndex] = "none" /\ count[EndIndex] # 0
           THEN "restart" ELSE AfterFrame
  /\ UNCHANGED <<ring, data, driver, pending, StartIndex, EndIndex, ReturnCode, channel,
                 rccirq, delivered, raced, cut, bounds>>

\* The three places where the bottom half starts the receiver: on an RCC
\* underrun, on a ring in use without an end of frame, after an overflow.
BhRestart(from, to) ==
  /\ bh = from
  /\ StartReceiver
  /\ bh' = to
  /\ UNCHANGED <<data, pending, StartIndex, EndIndex, ReturnCode, rccirq, delivered, raced, cut, bounds>>

BhUnderrunRestart == BhRestart("underrun", "off")
BhWrapRestart     == BhRestart("wrapped", "cleanup")
BhOverflowRestart == BhRestart("restart", AfterFrame)

BhStep == \/ BhTake \/ BhTop \/ BhScan \/ BhDeliver \/ BhFree \/ BhAdvance \/ BhCleanup
          \/ BhUnderrunRestart \/ BhWrapRestart \/ BhOverflowRestart

-----------------------------------------------------------------------------
\* The port has just been opened with CREAD: startup has started the receiver.
Init ==
  /\ count = [i \in Ring |-> IF i = 0 THEN 0 ELSE DMABUFFERSIZE]
  /\ status = [i \in Ring |-> "none"]
  /\ rcc = [i \in Ring |-> NoFrame]
  /\ data = [i \in Ring |-> NoFrame]
  /\ current_rx_buffer = 0
  /\ rx_enabled = TRUE /\ rx_overflow = FALSE /\ rx_rcc_underrun = FALSE
  /\ pending = FALSE
  /\ bh = "off" /\ StartIndex = 0 /\ EndIndex = 0 /\ ReturnCode = FALSE
  /\ dma = "run" /\ hw = 0 /\ part = 0 /\ frame = 1
  /\ rdmr = {} /\ overrun = FALSE /\ rccirq = FALSE
  /\ delivered = << >> /\ raced = FALSE /\ cut = FALSE
  /\ restarts = 0 /\ overruns = 0 /\ underruns = 0

Hardware == HwBufferFull \/ HwFrameEnd \/ HwOverrun \/ HwRccUnderrun
Process == \E b \in BOOLEAN : RxEnable(b) \/ ProgramHw(b)

Next == Hardware \/ IsrReceiveStatus \/ IsrMisc \/ IsrReceiveDma \/ Process \/ BhStep

\* A pending interrupt is eventually serviced and the worker proceeds; the
\* line and the ioctls owe nothing.
Fairness ==
  /\ WF_vars(IsrReceiveStatus)
  /\ WF_vars(IsrMisc)
  /\ WF_vars(rdmr # {} /\ IsrReceiveDma)
  /\ WF_vars(BhStep)

Spec == Init /\ [][Next]_vars /\ Fairness

-----------------------------------------------------------------------------
FromBase(k) == (Base + k) % rx_buffer_count

\* "current_rx_buffer points to the 1st buffer of the next available receive
\* frame" (r56_get_rx_frame): going round from it come the entries the channel
\* has taken and the bottom half has not freed, the channel's own entry last,
\* then the free ones.
RingInStep ==
  \E n \in 0 .. rx_buffer_count :
    /\ \A k \in Ring : count[FromBase(k)] = 0 <=> k < n
    /\ \A k \in Ring : k >= n => status[FromBase(k)] = "none"
    /\ dma = "run" => n > 0 /\ hw = FromBase(n - 1)

\* Driver and channel agree on where the next frame is, as long as nothing
\* resets the ring between the bottom half's read of current_rx_buffer and
\* its store: the restarts of the bottom half itself, overruns that spare the
\* ring, and restarts while it is elsewhere are all harmless.
InStep == ~raced => RingInStep

\* Frames reach the line discipline in the order of the line, none twice, each
\* from its first buffer on.  Status, length and all the bytes are those of one
\* frame, unless the search had passed the end of a frame before its status was
\* there, or an overrun gave back only the end of an unfinished frame because
\* current_rx_buffer lagged behind what the bottom half had freed.
Ordered ==
  ~raced =>
    /\ \A i \in DOMAIN delivered :
         /\ delivered[i].bytes[1][2] = 1
         /\ \/ delivered[i].passed \/ cut
            \/ \A k \in DOMAIN delivered[i].bytes :
                 delivered[i].bytes[k] = <<delivered[i].frame, k>>
    /\ \A i, j \in DOMAIN delivered :
         i < j => delivered[i].bytes[1][1] < delivered[j].bytes[1][1]

\* An end-of-list shutdown of the channel does not last: the bottom half makes
\* room and restarts the receiver.  An overrun meanwhile may pause the channel
\* for good (usc_process_rxoverrun_sync), an ioctl may turn the receiver off.
OverflowRecovers ==
  dma = "eol" ~> \/ dma = "run" \/ ~rx_enabled \/ overruns > 0 \/ raced

\* A receiver turned off for an RCC underrun is turned on again.
UnderrunRecovers ==
  rx_rcc_underrun ~> (~rx_rcc_underrun /\ (dma = "run" \/ ~rx_enabled))

\* No completed frame stays in the ring for ever, unless the receiver is
\* turned off or the ring reset under the bottom half.
FramesLeaveRing ==
  \A f \in 1 .. MaxFrames :
    (\E i \in Ring : rcc[i][1] = f) ~> (\/ \A i \in Ring : rcc[i][1] # f
                                        \/ ~rx_enabled \/ raced)
=============================================================================
