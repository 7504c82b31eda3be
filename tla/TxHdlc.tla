------------------------------- MODULE TxHdlc -------------------------------
(***************************************************************************)
(* The HDLC transmit path: frames offered by the line discipline, the      *)
(* write entry point of the driver, the transmitter, its status interrupt, *)
(* its five second timer and the calls that stop, start, flush or abort it.*)
(*                                                                         *)
(* r56_write looks at tx_active, sets xmit_cnt, fills the DMA buffers and  *)
(* looks at the flow control flags without irq_spinlock and takes it only  *)
(* to start the transmitter: each is a step.  The timer is stopped with    *)
(* del_timer, which does not wait for a running callback, so the callback  *)
(* is three steps.  Everything else runs under the lock and is one step.   *)
(***************************************************************************)
EXTENDS Integers, Sequences

CONSTANTS
  MaxFrames,   \* bound: frames the application sends
  MaxOps,      \* bound: calls to the operations below
  Ops,         \* operations that processes and the line perform
  AutoRts,     \* HDLC_FLAG_AUTO_RTS is set
  NoEcho       \* R56_INTERFACE_NE is set: receiver off while sending

AllOps == {"timeout", "abort", "flush", "params", "txenable", "stop", "cts"}

ASSUME TxAssumption ==
  /\ {MaxFrames, MaxOps} \subseteq Nat
  /\ Ops \subseteq AllOps
  /\ {AutoRts, NoEcho} \subseteq BOOLEAN

VARIABLES
  \* r56_struct
  tx_active, tx_enabled,
  xmit_cnt,    \* 0, or 1 for the length of a frame
  loaded,      \* content of the DMA buffers at start_tx_dma_buffer
  rts, drop_rts_on_tx_done,
  rx_enabled,
  timer,       \* tx_timer is armed
  pending,     \* BH_TRANSMIT is raised
  counted,     \* icount.txok + txunder + txabort + txtimeout
  \* tty
  flow,        \* software flow control: "go", "stopping", "stopped", "starting"
  hw_stopped,
  \* the line discipline (external) and r56_write
  offered,     \* frames the application has written
  accepted,    \* frames r56_write has accepted
  wakeup,      \* the line discipline is to try (again)
  w,           \* control point of r56_write
  ret,         \* what r56_write will return: frame accepted or not
  \* the timer callback
  tmo,         \* "off", "lock", "wakeup"
  \* the 16C32 transmitter (external)
  sending,     \* content being sent
  txirq,       \* transmit status not serviced yet
  \* history and bounds
  line,        \* what was sent to its closing flag
  started,     \* frames whose transmission was begun
  ops,         \* number of operations performed
  used         \* their kinds

port   == <<tx_active, tx_enabled, xmit_cnt, loaded, rts, drop_rts_on_tx_done,
            rx_enabled, timer>>
writer == <<offered, accepted, wakeup, w, ret>>
tty    == <<flow, hw_stopped>>
chip   == <<sending, txirq>>
done   == <<ops, used>>
vars   == <<port, pending, counted, tty, writer, tmo, chip, line, started, done>>

None  == -1   \* nothing
Stale == 0    \* no frame: what xmit_buf holds, or two frames mixed
                \* (the frames are 1, 2, ...)

Contents == {None, Stale} \cup 1 .. MaxFrames

TypeOK ==
  /\ {tx_active, tx_enabled, rts, drop_rts_on_tx_done, rx_enabled, timer, pending,
      hw_stopped, wakeup, ret} \subseteq BOOLEAN
  /\ xmit_cnt \in {0, 1}
  /\ loaded \in Contents /\ sending \in Contents
  /\ counted \in Nat
  /\ flow \in {"go", "stopping", "stopped", "starting"}
  /\ offered \in 0 .. MaxFrames /\ accepted \in 0 .. offered
  /\ w \in {"idle", "count", "load", "check", "start"}
  /\ tmo \in {"off", "lock", "wakeup"}
  /\ txirq \in {"none", "eof", "underrun", "abort"}
  /\ line \in Seq(Contents \ {None})
  /\ started \subseteq Contents
  /\ ops \in 0 .. MaxOps /\ used \subseteq Ops

\* tty->stopped || tty->hw_stopped
Stopped == flow \in {"stopping", "stopped"} \/ hw_stopped

-----------------------------------------------------------------------------
(* The transmitter, under irq_spinlock.                                    *)

\* Slip: the timer is not armed for the frame.
StartTransmitterNoTimer ==
  /\ tx_enabled' = TRUE
  /\ IF xmit_cnt = 0
     THEN UNCHANGED <<tx_active, rts, drop_rts_on_tx_done, rx_enabled, chip, started>>
     ELSE /\ tx_active' = TRUE
          /\ drop_rts_on_tx_done' = (AutoRts /\ ~rts)
          /\ rts' = (rts \/ AutoRts)
          /\ rx_enabled' = (rx_enabled /\ ~NoEcho)
          /\ sending' = loaded
          /\ txirq' = "none"
          /\ started' = started \cup {loaded}
  /\ UNCHANGED timer

\* Slip: RTS is tested after it has been raised.
StartTransmitterLateTest ==
  /\ tx_enabled' = TRUE
  /\ IF xmit_cnt = 0
     THEN UNCHANGED <<tx_active, rts, drop_rts_on_tx_done, rx_enabled, timer, chip, started>>
     ELSE /\ tx_active' = TRUE
          /\ rts' = (rts \/ AutoRts)
          /\ drop_rts_on_tx_done' = (AutoRts /\ ~rts')
          /\ rx_enabled' = (rx_enabled /\ ~NoEcho)
          /\ timer' = TRUE
          /\ sending' = loaded
          /\ txirq' = "none"
          /\ started' = started \cup {loaded}

\* usc_start_transmitter: begins the loaded frame if there is one.
StartTransmitter ==
  /\ tx_enabled' = TRUE
  /\ IF xmit_cnt = 0
     THEN UNCHANGED <<tx_active, rts, drop_rts_on_tx_done, rx_enabled, timer, chip, started>>
     ELSE /\ tx_active' = TRUE
          /\ drop_rts_on_tx_done' = (AutoRts /\ ~rts)
          /\ rts' = (rts \/ AutoRts)
          /\ rx_enabled' = (rx_enabled /\ ~NoEcho)
          /\ timer' = TRUE
          /\ sending' = loaded
          /\ txirq' = "none"
          /\ started' = started \cup {loaded}

\* usc_stop_transmitter: xmit_cnt and the DMA buffers are left alone.
StopTransmitter ==
  /\ tx_enabled' = FALSE
  /\ tx_active' = FALSE
  /\ timer' = FALSE
  /\ sending' = None
  /\ txirq' = "none"
  /\ UNCHANGED <<rts, drop_rts_on_tx_done, rx_enabled, started>>

-----------------------------------------------------------------------------
(* The 16C32 transmitter (external).                                       *)

\* The frame has gone out to its closing flag.
HwFrameSent ==
  /\ sending # None
  /\ line' = Append(line, sending)
  /\ sending' = None
  /\ txirq' = "eof"
  /\ UNCHANGED <<port, pending, counted, tty, writer, tmo, started, done>>

\* The FIFO ran empty: the frame is aborted.
HwUnderrun ==
  /\ sending # None
  /\ sending' = None
  /\ txirq' = "underrun"
  /\ UNCHANGED <<port, pending, counted, tty, writer, tmo, line, started, done>>

\* Slip: the line discipline is not woken.
IsrTransmitStatusNoWakeup ==
  /\ txirq # "none"
  /\ counted' = counted + 1
  /\ xmit_cnt' = 0
  /\ rts' = (rts /\ ~drop_rts_on_tx_done)
  /\ drop_rts_on_tx_done' = FALSE
  /\ tx_active' = FALSE
  /\ timer' = FALSE
  /\ txirq' = "none"
  /\ IF Stopped THEN tx_enabled' = FALSE /\ sending' = None ELSE UNCHANGED <<tx_enabled, sending>>
  /\ UNCHANGED <<pending, loaded, rx_enabled, tty, writer, tmo, line, started, done>>

\* r56_isr_transmit_status
IsrTransmitStatus ==
  /\ txirq # "none"
  /\ counted' = counted + 1
  /\ xmit_cnt' = 0
  /\ rts' = (rts /\ ~drop_rts_on_tx_done)
  /\ drop_rts_on_tx_done' = FALSE
  /\ tx_active' = FALSE
  /\ timer' = FALSE
  /\ txirq' = "none"
  /\ IF Stopped
     THEN tx_enabled' = FALSE /\ sending' = None /\ UNCHANGED pending
     ELSE pending' = TRUE /\ UNCHANGED <<tx_enabled, sending>>
  /\ UNCHANGED <<loaded, rx_enabled, tty, writer, tmo, line, started, done>>

\* r56_bh_transmit: tty_wakeup
BhTransmit ==
  /\ pending
  /\ pending' = FALSE
  /\ wakeup' = TRUE
  /\ UNCHANGED <<port, counted, tty, offered, accepted, w, ret, tmo, chip, line, started, done>>

-----------------------------------------------------------------------------
(* The line discipline (external) and r56_write.                           *)

\* The application writes a frame; the line discipline queues it and tries.
AppWrite ==
  /\ offered < MaxFrames
  /\ offered' = offered + 1
  /\ wakeup' = TRUE
  /\ UNCHANGED <<port, pending, counted, tty, accepted, w, ret, tmo, chip, line, started, done>>

\* r56_write is called with the next queued frame; while the transmitter is
\* busy it refuses, and the frame waits for the next wakeup.
WriteBegin ==
  /\ w = "idle" /\ wakeup
  /\ wakeup' = FALSE
  /\ w' = IF accepted < offered /\ ~tx_active THEN "count" ELSE "idle"
  /\ UNCHANGED <<port, pending, counted, tty, offered, accepted, ret, tmo, chip, line,
                 started, done>>

\* A frame is accepted if no count stands from before.
WriteCount ==
  /\ w = "count"
  /\ ret' = (xmit_cnt = 0)
  /\ xmit_cnt' = 1
  /\ w' = "load"
  /\ UNCHANGED <<tx_active, tx_enabled, loaded, rts, drop_rts_on_tx_done, rx_enabled, timer,
                 pending, counted, tty, offered, accepted, wakeup, tmo, chip, line, started, done>>

\* r56_load_tx_dma_buffer: the DMA buffers are filled with the frame or, if it
\* was not accepted, with what is in xmit_buf; a frame that the transmitter is
\* still sending from them may be damaged.
WriteLoad ==
  /\ w = "load"
  /\ loaded' = IF ret THEN accepted + 1 ELSE Stale
  /\ sending' \in IF sending = None THEN {None} ELSE {sending, Stale}
  /\ w' = "check"
  /\ UNCHANGED <<tx_active, tx_enabled, xmit_cnt, rts, drop_rts_on_tx_done, rx_enabled, timer,
                 pending, counted, tty, offered, accepted, wakeup, ret, tmo, txirq, line,
                 started, done>>

\* Slip: the count is returned only when the transmitter was not started.
WriteReturnUnstarted ==
  /\ accepted' = IF ret /\ w # "start" THEN accepted + 1 ELSE accepted
  /\ wakeup' = (wakeup \/ ret)
  /\ w' = "idle"
  /\ UNCHANGED <<offered, ret>>

\* r56_write returns; after an accepted frame the line discipline goes on.
WriteReturn ==
  /\ accepted' = IF ret THEN accepted + 1 ELSE accepted
  /\ wakeup' = (wakeup \/ ret)
  /\ w' = "idle"
  /\ UNCHANGED <<offered, ret>>

\* xmit_cnt and the flow control flags are read without the lock.
WriteCheck ==
  /\ w = "check"
  /\ IF xmit_cnt # 0 /\ ~Stopped
     THEN w' = "start" /\ UNCHANGED <<offered, accepted, wakeup, ret>>
     ELSE WriteReturn
  /\ UNCHANGED <<port, pending, counted, tty, tmo, chip, line, started, done>>

\* Under the lock the transmitter is started if it is idle.
WriteStart ==
  /\ w = "start"
  /\ IF tx_active
     THEN UNCHANGED <<tx_active, tx_enabled, rts, drop_rts_on_tx_done, rx_enabled, timer,
                      chip, started>>
     ELSE StartTransmitter
  /\ WriteReturn
  /\ UNCHANGED <<xmit_cnt, loaded, pending, counted, tty, tmo, line, done>>

Write == WriteBegin \/ WriteCount \/ WriteLoad \/ WriteCheck \/ WriteStart

-----------------------------------------------------------------------------
(* r56_tx_timeout.  The kernel runs one callback of a timer at a time.     *)

\* The timer expires; txtimeout is counted without the lock.
TimerFires ==
  /\ "timeout" \in Ops
  /\ timer /\ tmo = "off"
  /\ timer' = FALSE
  /\ counted' = IF tx_active THEN counted + 1 ELSE counted
  /\ tmo' = "lock"
  /\ used' = used \cup {"timeout"}
  /\ UNCHANGED <<tx_active, tx_enabled, xmit_cnt, loaded, rts, drop_rts_on_tx_done, rx_enabled,
                 pending, tty, writer, chip, line, started, ops>>

\* Slip: the transmitter stays busy.
TimeoutLockedBusy ==
  /\ tmo = "lock"
  /\ xmit_cnt' = 0
  /\ tmo' = "wakeup"
  /\ UNCHANGED <<tx_active, tx_enabled, loaded, rts, drop_rts_on_tx_done, rx_enabled, timer,
                 pending, counted, tty, writer, chip, line, started, done>>

\* The frame is given up; transmitter, DMA and RTS are left as they are.
TimeoutLocked ==
  /\ tmo = "lock"
  /\ tx_active' = FALSE
  /\ xmit_cnt' = 0
  /\ tmo' = "wakeup"
  /\ UNCHANGED <<tx_enabled, loaded, rts, drop_rts_on_tx_done, rx_enabled, timer, pending,
                 counted, tty, writer, chip, line, started, done>>

\* r56_bh_transmit, called from the timer.
TimeoutWakeup ==
  /\ tmo = "wakeup"
  /\ wakeup' = TRUE
  /\ tmo' = "off"
  /\ UNCHANGED <<port, pending, counted, tty, offered, accepted, w, ret, chip, line, started,
                 done>>

Timeout == TimerFires \/ TimeoutLocked \/ TimeoutWakeup

-----------------------------------------------------------------------------
(* Calls of processes and changes of the line.                             *)

\* One of the bounded number of operations of kind op happens.
Operation(op) ==
  op \in Ops /\ ops < MaxOps /\ ops' = ops + 1 /\ used' = used \cup {op}

\* Slip: the abort is counted when it is asked for.
TxAbortCounts ==
  /\ Operation("abort")
  /\ tx_active
  /\ counted' = counted + 1
  /\ IF sending # None THEN sending' = None /\ txirq' = "abort" ELSE UNCHANGED chip
  /\ UNCHANGED <<port, pending, tty, writer, tmo, line, started>>

\* r56_txabort.  An abort sequence takes the place of the rest of the frame.
TxAbort ==
  /\ Operation("abort")
  /\ tx_active
  /\ IF sending # None THEN sending' = None /\ txirq' = "abort" ELSE UNCHANGED chip
  /\ UNCHANGED <<port, pending, counted, tty, writer, tmo, line, started>>

\* r56_flush_buffer: tx_active is left as it is.
FlushBuffer ==
  /\ Operation("flush")
  /\ xmit_cnt' = 0
  /\ timer' = FALSE
  /\ wakeup' = TRUE
  /\ UNCHANGED <<tx_active, tx_enabled, loaded, rts, drop_rts_on_tx_done, rx_enabled, pending,
                 counted, tty, offered, accepted, w, ret, tmo, chip, line, started>>

\* r56_program_hw on a port with CREAD (IOCSPARAMS, set_termios).
ProgramHw ==
  /\ Operation("params")
  /\ tx_enabled' = FALSE /\ tx_active' = FALSE
  /\ timer' = FALSE
  /\ xmit_cnt' = 0
  /\ sending' = None /\ txirq' = "none"
  /\ rx_enabled' = TRUE
  /\ UNCHANGED <<loaded, rts, drop_rts_on_tx_done, pending, counted, tty, writer, tmo, line,
                 started>>

\* r56_txenable.
TxEnable(enable) ==
  /\ Operation("txenable")
  /\ IF enable THEN ~tx_enabled /\ StartTransmitter ELSE tx_enabled /\ StopTransmitter
  /\ UNCHANGED <<xmit_cnt, loaded, pending, counted, tty, writer, tmo, line>>

\* The tty layer (external) sets tty->stopped, then calls r56_stop.
TtyStop ==
  /\ Operation("stop")
  /\ flow = "go" /\ flow' = "stopping"
  /\ UNCHANGED <<port, pending, counted, hw_stopped, writer, tmo, chip, line, started>>

\* r56_stop.
R56Stop ==
  /\ flow = "stopping" /\ flow' = "stopped"
  /\ IF tx_enabled THEN StopTransmitter
     ELSE UNCHANGED <<tx_active, tx_enabled, rts, drop_rts_on_tx_done, rx_enabled, timer, chip,
                      started>>
  /\ UNCHANGED <<xmit_cnt, loaded, pending, counted, hw_stopped, writer, tmo, line, done>>

\* The tty layer (external) clears tty->stopped, then calls r56_start.
TtyStart ==
  /\ flow = "stopped" /\ flow' = "starting"
  /\ UNCHANGED <<port, pending, counted, hw_stopped, writer, tmo, chip, line, started, done>>

\* r56_start, after which the tty layer wakes the line discipline.
R56Start ==
  /\ flow = "starting" /\ flow' = "go"
  /\ IF tx_enabled
     THEN UNCHANGED <<tx_active, tx_enabled, rts, drop_rts_on_tx_done, rx_enabled, timer, chip,
                      started>>
     ELSE StartTransmitter
  /\ wakeup' = TRUE
  /\ UNCHANGED <<xmit_cnt, loaded, pending, counted, hw_stopped, offered, accepted, w, ret, tmo,
                 line, done>>

\* r56_isr_io_pin with CTS flow control: CTS went down.
CtsDown ==
  /\ Operation("cts")
  /\ ~hw_stopped /\ hw_stopped' = TRUE
  /\ StopTransmitter
  /\ UNCHANGED <<xmit_cnt, loaded, pending, counted, flow, writer, tmo, line>>

\* r56_isr_io_pin with CTS flow control: CTS came up.
CtsUp ==
  /\ hw_stopped /\ hw_stopped' = FALSE
  /\ StartTransmitter
  /\ pending' = TRUE
  /\ UNCHANGED <<xmit_cnt, loaded, counted, flow, writer, tmo, line, done>>

-----------------------------------------------------------------------------
\* The port is open in HDLC mode, RTS is off and no frame has been offered.
Init ==
  /\ tx_active = FALSE /\ tx_enabled = FALSE
  /\ xmit_cnt = 0 /\ loaded = Stale
  /\ rts = FALSE /\ drop_rts_on_tx_done = FALSE
  /\ rx_enabled = TRUE
  /\ timer = FALSE /\ tmo = "off"
  /\ pending = FALSE /\ counted = 0
  /\ flow = "go" /\ hw_stopped = FALSE
  /\ offered = 0 /\ accepted = 0 /\ wakeup = FALSE /\ w = "idle" /\ ret = FALSE
  /\ sending = None /\ txirq = "none"
  /\ line = << >> /\ started = {} /\ ops = 0 /\ used = {}

Hardware == HwFrameSent \/ HwUnderrun
FlowControl == TtyStop \/ R56Stop \/ TtyStart \/ R56Start \/ CtsDown \/ CtsUp
Ioctl == TxAbort \/ FlushBuffer \/ ProgramHw \/ \E b \in BOOLEAN : TxEnable(b)

Next == \/ Hardware \/ IsrTransmitStatus \/ BhTransmit \/ AppWrite \/ Write \/ Timeout
        \/ FlowControl \/ Ioctl

\* Interrupts, the bottom half, a write under way and the timer proceed.  The
\* transmitter owes nothing: its clock may come from the line and stop.
Fairness ==
  /\ WF_vars(IsrTransmitStatus)
  /\ WF_vars(BhTransmit)
  /\ WF_vars(Write)
  /\ WF_vars(Timeout)

Spec == Init /\ [][Next]_vars /\ Fairness

-----------------------------------------------------------------------------
\* A frame in progress is watched: its timer is armed, or the callback that
\* will give it up is about to.  Without this a transmitter whose clock stops
\* would stay busy for ever (usc_start_transmitter, r56_isr_transmit_status,
\* r56_tx_timeout).  A flush takes the timer away and keeps the frame.
ActiveHasTimer == "flush" \notin used => (tx_active => timer \/ tmo = "lock")

\* Frames that go out whole do so in the order they were offered, and each
\* once, through timeouts, aborts, flushes and new parameters (r56_write,
\* usc_start_transmitter).  Output that is stopped and started may send the
\* frame it was stopped in again, whole.
SentOnce ==
  used \cap {"stop", "cts", "txenable"} = {} =>
    \A i, j \in DOMAIN line : i < j /\ line[j] # Stale => line[i] < line[j]

\* While frames end by a status interrupt alone, each accepted frame is
\* counted once, as sent, underrun or aborted (r56_isr_transmit_status).
Accounting ==
  used \subseteq {"abort"} => counted + (IF tx_active THEN 1 ELSE 0) = accepted

\* When the status of a frame has been handled, the RTS that was raised for
\* it is off again (usc_start_transmitter, r56_isr_transmit_status), while no
\* frame is given up or stopped without a status.
RtsDropped ==
  [][IsrTransmitStatus /\ AutoRts /\ used \subseteq {"abort", "flush"} => ~rts']_vars

\* Nothing but the timeout and aborts gives frames up.  (A flush takes the timer
\* away; stopping, disabling or reprogramming the transmitter discards the frame
\* without a wakeup.)
OnlyTimeouts == used \subseteq {"timeout", "abort"}

\* The loop of r56_wait_until_sent ends: the transmitter does not stay busy,
\* whether or not the frame's status ever comes.
DrainEnds == []OnlyTimeouts => (tx_active ~> ~tx_active)

\* Every frame offered is accepted in the end: no wakeup of the line
\* discipline is lost (r56_isr_transmit_status, r56_tx_timeout, r56_write).
AllAccepted == []OnlyTimeouts => \A f \in 1 .. MaxFrames : offered >= f ~> accepted >= f
=============================================================================
