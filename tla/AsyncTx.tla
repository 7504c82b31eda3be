------------------------------ MODULE AsyncTx ------------------------------
(***************************************************************************)
(* Transmission in asynchronous mode: the circular xmit_buf filled by      *)
(* r56_write and r56_put_char, emptied into the transmit FIFO by           *)
(* usc_load_txfifo, and the calls that stop, start, flush and reprogram    *)
(* the transmitter.                                                        *)
(*                                                                         *)
(* Every change of the buffer is made under irq_spinlock.  The tests that  *)
(* decide whether to start the transmitter after a write, and the stores   *)
(* of x_char, ASYNC_CTS_FLOW and, in r56_set_termios, hw_stopped are made  *)
(* without it and are steps of their own.                                  *)
(***************************************************************************)
EXTENDS Integers, Sequences

CONSTANTS
  Size,        \* SERIAL_XMIT_SIZE, a power of two
  Wakeup,      \* WAKEUP_CHARS
  Fifo,        \* size of the transmit FIFO
  MaxChars,    \* bound: characters written
  MaxOps,      \* bound: calls to the operations below
  Ops          \* operations that processes and the line perform

ASSUME AsyncTxAssumption ==
  /\ Size \in Nat /\ Size > 1
  /\ Wakeup \in 1 .. Size - 1
  /\ Fifo \in Nat /\ Fifo > 0
  /\ {MaxChars, MaxOps} \subseteq Nat
  /\ Ops \subseteq {"stop", "cts", "flush", "params", "txenable", "xchar"}

VARIABLES
  \* r56_struct
  xmit_buf, xmit_head, xmit_tail, xmit_cnt,
  x_char,      \* a flow control character is to be sent
  tx_active, tx_enabled,
  pending,     \* BH_TRANSMIT is raised
  \* tty
  flow,        \* software flow control: "go", "stopping", "stopped", "starting"
  hw_stopped,
  cts_flow,    \* CRTSCTS, as ASYNC_CTS_FLOW
  \* the line discipline (external) and r56_write
  w,           \* control point of the writer
  written,     \* characters r56_write and r56_put_char have accepted
  woken,       \* the line discipline is to try (again)
  \* r56_send_xchar
  sx,          \* control point
  \* r56_set_termios
  st,          \* control point
  \* the 16C32 transmitter (external)
  fifo,        \* characters in the FIFO
  data_irq,    \* TRANSMIT_DATA interrupts are enabled
  txirq,       \* ... and one is pending
  \* history and bounds
  taken,       \* every character of xmit_buf that was put into the FIFO
  ops, used,   \* operations performed: their number, their kinds
  misled       \* r56_start has been, or will be, misled (see Misled)

ring   == <<xmit_buf, xmit_head, xmit_tail, xmit_cnt>>
state  == <<tx_active, tx_enabled>>
tty    == <<flow, hw_stopped, cts_flow>>
calls  == <<sx, st>>
writer == <<w, written>>
chip   == <<fifo, data_irq, txirq>>
done   == <<ops, used>>
vars   == <<ring, x_char, state, pending, tty, writer, woken, calls, chip, taken, done>>
all    == <<vars, misled>>

XChar == 0            \* the flow control character; the others are 1, 2, ...
Char  == 1 .. MaxChars

TypeOK ==
  /\ xmit_buf \in [0 .. Size - 1 -> Char \cup {XChar}]
  /\ xmit_head \in 0 .. Size - 1 /\ xmit_tail \in 0 .. Size - 1
  /\ xmit_cnt \in 0 .. Size - 1
  /\ {x_char, tx_active, tx_enabled, pending, hw_stopped, cts_flow, woken, data_irq, txirq, misled} \subseteq BOOLEAN
  /\ flow \in {"go", "stopping", "stopped", "starting"}
  /\ w \in {"wait", "copy", "check", "start"}
  /\ sx \in {"idle", "start"}
  /\ st \in {"idle", "same", "off", "cts", "start"}
  /\ written \in 0 .. MaxChars
  /\ fifo \in Seq(Char \cup {XChar}) /\ Len(fifo) <= Fifo
  /\ taken \in Seq(Char)
  /\ ops \in 0 .. MaxOps /\ used \subseteq Ops

\* tty->stopped || tty->hw_stopped
Stopped == flow \in {"stopping", "stopped"} \/ hw_stopped

Min(a, b) == IF a < b THEN a ELSE b

\* The characters waiting in the circular buffer, oldest first.
Queue == [i \in 1 .. xmit_cnt |-> xmit_buf[(xmit_tail + i - 1) % Size]]

-----------------------------------------------------------------------------
(* The transmitter: usc_load_txfifo, usc_start_transmitter,                *)
(* usc_stop_transmitter.                                                   *)

\* usc_load_txfifo: while there is room and there are characters; x_char first.
LoadTxfifo ==
  LET room == Fifo - Len(fifo)
      x == x_char /\ xmit_cnt > 0 /\ room > 0
      n == Min(xmit_cnt, IF x THEN room - 1 ELSE room)
      chars == [i \in 1 .. n |-> Queue[i]]
  IN /\ fifo' = fifo \o (IF x THEN <<XChar>> ELSE <<>>) \o chars
     /\ x_char' = (x_char /\ ~x)
     /\ taken' = taken \o chars
     /\ xmit_tail' = (xmit_tail + n) % Size
     /\ xmit_cnt' = xmit_cnt - n
     /\ UNCHANGED <<xmit_buf, xmit_head>>

\* usc_start_transmitter in asynchronous mode.
StartTransmitter ==
  /\ tx_enabled' = TRUE
  /\ tx_active' = (tx_active \/ xmit_cnt > 0)
  /\ IF xmit_cnt > 0 /\ ~tx_active
     THEN /\ data_irq' = TRUE /\ txirq' = FALSE
          /\ LoadTxfifo
     ELSE UNCHANGED <<ring, x_char, chip, taken>>

\* usc_stop_transmitter: the FIFO is purged.
StopTransmitter ==
  /\ tx_enabled' = FALSE /\ tx_active' = FALSE
  /\ data_irq' = FALSE /\ txirq' = FALSE
  /\ fifo' = <<>>

\* The transmitter sends a character; the interrupt comes with the last.
HwSend ==
  /\ tx_enabled /\ fifo # <<>>
  /\ fifo' = Tail(fifo)
  /\ txirq' = (txirq \/ (data_irq /\ Len(fifo) = 1))
  /\ UNCHANGED <<ring, x_char, state, pending, tty, writer, woken, calls, data_irq, taken, done>>

\* Slip: the transmitter is left active when there is nothing to send.
IsrTransmitDataStaysActive ==
  /\ txirq
  /\ \/ Stopped /\ StopTransmitter /\ UNCHANGED <<ring, x_char, pending, taken>>
     \/ /\ ~Stopped
        /\ txirq' = FALSE /\ UNCHANGED <<state, data_irq>>
        /\ IF xmit_cnt > 0 THEN LoadTxfifo ELSE UNCHANGED <<ring, x_char, fifo, taken>>
        /\ pending' = (pending \/ xmit_cnt' < Wakeup)
  /\ UNCHANGED <<tty, writer, woken, calls, done>>

\* r56_isr_transmit_data
IsrTransmitData ==
  /\ txirq
  /\ \/ Stopped /\ StopTransmitter /\ UNCHANGED <<ring, x_char, pending, taken>>
     \/ /\ ~Stopped
        /\ txirq' = FALSE /\ UNCHANGED <<tx_enabled, data_irq>>
        /\ IF xmit_cnt > 0 THEN LoadTxfifo /\ UNCHANGED tx_active
           ELSE tx_active' = FALSE /\ UNCHANGED <<ring, x_char, fifo, taken>>
        /\ pending' = (pending \/ xmit_cnt' < Wakeup)
  /\ UNCHANGED <<tty, writer, woken, calls, done>>

\* r56_bh_transmit, run by the bottom half: tty_wakeup.
BhTransmit ==
  /\ pending
  /\ pending' = FALSE /\ woken' = TRUE
  /\ UNCHANGED <<ring, x_char, state, tty, writer, calls, chip, taken, done>>

-----------------------------------------------------------------------------
(* r56_write, r56_put_char and r56_flush_chars.                            *)

\* The line discipline (external) calls r56_write with all that is left.
WriteBegin ==
  /\ w = "wait" /\ woken
  /\ written < MaxChars
  /\ w' = "copy" /\ woken' = FALSE
  /\ UNCHANGED <<ring, x_char, state, pending, tty, written, calls, chip, taken, done>>

\* n characters are copied to the head of the buffer.
Copy(n) ==
  /\ xmit_buf' = [i \in 0 .. Size - 1 |->
                    IF i \in xmit_head .. xmit_head + n - 1 THEN written + 1 + (i - xmit_head)
                    ELSE xmit_buf[i]]
  /\ xmit_head' = (xmit_head + n) % Size
  /\ xmit_cnt' = xmit_cnt + n
  /\ written' = written + n
  /\ UNCHANGED xmit_tail

\* How many characters one turn of the loop of r56_write copies.
CopySize == Min(MaxChars - written, Min(Size - xmit_cnt - 1, Size - xmit_head))

\* The loop of r56_write: one locked copy, or the loop is over.
WriteCopy ==
  /\ w = "copy"
  /\ IF CopySize > 0 THEN Copy(CopySize) /\ UNCHANGED w
     ELSE w' = "check" /\ UNCHANGED <<ring, written>>
  /\ UNCHANGED <<x_char, state, pending, tty, woken, calls, chip, taken, done>>

\* r56_put_char, to be followed by r56_flush_chars.  The line discipline
\* (external) goes on by itself if the character was taken.
PutChar ==
  /\ w = "wait" /\ woken
  /\ written < MaxChars
  /\ IF xmit_cnt < Size - 1 THEN Copy(1) ELSE UNCHANGED <<ring, written>>
  /\ woken' = (xmit_cnt < Size - 1)
  /\ w' = "check"
  /\ UNCHANGED <<x_char, state, pending, tty, calls, chip, taken, done>>

\* The unlocked test of r56_write and r56_flush_chars.
WriteCheck ==
  /\ w = "check"
  /\ w' = IF xmit_cnt > 0 /\ ~Stopped THEN "start" ELSE "wait"
  /\ UNCHANGED <<ring, x_char, state, pending, tty, written, woken, calls, chip, taken, done>>

\* Slip: the transmitter is started only if it is not enabled.
WriteStartIfDisabled ==
  /\ w = "start"
  /\ IF tx_enabled THEN UNCHANGED <<ring, x_char, state, chip, taken>> ELSE StartTransmitter
  /\ w' = "wait"
  /\ UNCHANGED <<pending, tty, written, woken, calls, done>>

\* They start the transmitter unless it is active.
WriteStart ==
  /\ w = "start"
  /\ IF tx_active THEN UNCHANGED <<ring, x_char, state, chip, taken>> ELSE StartTransmitter
  /\ w' = "wait"
  /\ UNCHANGED <<pending, tty, written, woken, calls, done>>

-----------------------------------------------------------------------------
(* The operations that processes and the line perform.                     *)

Op(kind) ==
  /\ kind \in Ops /\ ops < MaxOps
  /\ ops' = ops + 1 /\ used' = used \cup {kind}

\* The line discipline (external) sets tty->stopped ...
TtyStop ==
  /\ flow = "go" /\ Op("stop")
  /\ flow' = "stopping"
  /\ UNCHANGED <<ring, x_char, state, pending, hw_stopped, cts_flow, writer, woken, calls, chip, taken>>

\* ... and calls r56_stop.
R56Stop ==
  /\ flow = "stopping"
  /\ flow' = "stopped"
  /\ IF tx_enabled THEN StopTransmitter ELSE UNCHANGED <<state, chip>>
  /\ UNCHANGED <<ring, x_char, pending, hw_stopped, cts_flow, writer, woken, calls, taken, done>>

\* It clears tty->stopped ...
TtyStart ==
  /\ flow = "stopped"
  /\ flow' = "starting"
  /\ UNCHANGED <<ring, x_char, state, pending, hw_stopped, cts_flow, writer, woken, calls, chip, taken, done>>

\* ... and calls r56_start.
R56Start ==
  /\ flow = "starting"
  /\ flow' = "go"
  /\ IF ~tx_enabled THEN StartTransmitter ELSE UNCHANGED <<ring, x_char, state, chip, taken>>
  /\ UNCHANGED <<pending, hw_stopped, cts_flow, writer, woken, calls, done>>

\* r56_isr_io_pin with ASYNC_CTS_FLOW: CTS goes off, and comes back.
CtsDown ==
  /\ cts_flow /\ ~hw_stopped /\ Op("cts")
  /\ hw_stopped' = TRUE
  /\ StopTransmitter
  /\ UNCHANGED <<ring, x_char, pending, flow, cts_flow, writer, woken, calls, taken>>

CtsUp ==
  /\ cts_flow /\ hw_stopped
  /\ hw_stopped' = FALSE
  /\ StartTransmitter
  /\ pending' = TRUE
  /\ UNCHANGED <<flow, cts_flow, writer, woken, calls, done>>

\* xmit_cnt = xmit_head = xmit_tail = 0
ResetBuffer == xmit_cnt' = 0 /\ xmit_head' = 0 /\ xmit_tail' = 0 /\ UNCHANGED xmit_buf

\* Slip: the head is not put back.
FlushBufferKeepsHead ==
  /\ Op("flush")
  /\ xmit_cnt' = 0 /\ xmit_tail' = 0 /\ UNCHANGED <<xmit_buf, xmit_head>>
  /\ woken' = TRUE
  /\ UNCHANGED <<x_char, state, pending, tty, writer, calls, chip, taken>>

\* r56_flush_buffer, with its tty_wakeup.
FlushBuffer ==
  /\ Op("flush")
  /\ ResetBuffer
  /\ woken' = TRUE
  /\ UNCHANGED <<x_char, state, pending, tty, writer, calls, chip, taken>>

\* r56_program_hw stops the transmitter and resets the buffer.
ProgramHw ==
  /\ StopTransmitter
  /\ ResetBuffer
  /\ UNCHANGED <<x_char, pending, flow, hw_stopped, writer, woken, sx, taken>>

\* IOCSPARAMS: r56_change_params without new termios.
SetParams ==
  /\ Op("params")
  /\ ProgramHw
  /\ UNCHANGED <<cts_flow, st>>

\* r56_set_termios with CRTSCTS on or off: r56_change_params stores
\* ASYNC_CTS_FLOW ...
SetTermios(crtscts) ==
  /\ st = "idle" /\ Op("params")
  /\ cts_flow' = crtscts
  /\ st' = IF cts_flow /\ ~crtscts THEN "off" ELSE "same"
  /\ UNCHANGED <<ring, x_char, state, pending, flow, hw_stopped, writer, woken, sx, chip, taken>>

\* ... and takes the lock to reprogram the port.
SetTermiosProgram ==
  /\ st \in {"same", "off"}
  /\ ProgramHw
  /\ st' = IF st = "off" THEN "cts" ELSE "idle"
  /\ UNCHANGED <<cts_flow, done>>

\* CRTSCTS was turned off: hw_stopped is cleared, without the lock ...
SetTermiosCts ==
  /\ st = "cts"
  /\ hw_stopped' = FALSE
  /\ st' = "start"
  /\ UNCHANGED <<ring, x_char, state, pending, flow, cts_flow, writer, woken, sx, chip, taken, done>>

\* ... and r56_start called.
SetTermiosStart ==
  /\ st = "start"
  /\ IF ~tx_enabled THEN StartTransmitter ELSE UNCHANGED <<ring, x_char, state, chip, taken>>
  /\ st' = "idle"
  /\ UNCHANGED <<pending, tty, writer, woken, sx, done>>

\* r56_txenable
TxEnable(enable) ==
  /\ Op("txenable")
  /\ \/ enable /\ ~tx_enabled /\ StartTransmitter
     \/ ~enable /\ tx_enabled /\ StopTransmitter /\ UNCHANGED <<ring, x_char, taken>>
  /\ UNCHANGED <<pending, tty, writer, woken, calls>>

\* r56_throttle and r56_unthrottle with IXOFF: r56_send_xchar stores x_char ...
SendXchar ==
  /\ sx = "idle" /\ Op("xchar")
  /\ x_char' = TRUE
  /\ sx' = "start"
  /\ UNCHANGED <<ring, state, pending, tty, writer, woken, st, chip, taken>>

\* ... and starts the transmitter if it is not enabled.
SendXcharStart ==
  /\ sx = "start"
  /\ sx' = "idle"
  /\ IF ~tx_enabled THEN StartTransmitter ELSE UNCHANGED <<ring, x_char, state, chip, taken>>
  /\ UNCHANGED <<pending, tty, writer, woken, st, done>>

\* r56_unthrottle drops an x_char that has not been sent.
UnthrottleDrops ==
  /\ sx = "idle" /\ x_char /\ Op("xchar")
  /\ x_char' = FALSE
  /\ UNCHANGED <<ring, state, pending, tty, writer, woken, calls, chip, taken>>

-----------------------------------------------------------------------------
Init ==
  /\ xmit_buf = [i \in 0 .. Size - 1 |-> XChar]
  /\ xmit_head = 0 /\ xmit_tail = 0 /\ xmit_cnt = 0
  /\ x_char = FALSE /\ tx_active = FALSE /\ tx_enabled = FALSE
  /\ pending = FALSE
  /\ flow = "go" /\ hw_stopped = FALSE
  /\ w = "wait" /\ written = 0 /\ woken = TRUE
  /\ cts_flow \in BOOLEAN
  /\ sx = "idle" /\ st = "idle"
  /\ fifo = <<>> /\ data_irq = FALSE /\ txirq = FALSE
  /\ taken = <<>>
  /\ ops = 0 /\ used = {}
  /\ misled = FALSE

Writer == WriteCopy \/ WriteCheck \/ WriteStart
Driver == IsrTransmitData \/ BhTransmit
Operations == \/ TtyStop \/ R56Stop \/ TtyStart \/ R56Start \/ CtsDown \/ CtsUp \/ FlushBuffer
              \/ \E b \in BOOLEAN : SetTermios(b) \/ TxEnable(b)
              \/ SetParams \/ SetTermiosProgram \/ SetTermiosCts \/ SetTermiosStart
              \/ SendXchar \/ SendXcharStart \/ UnthrottleDrops

Step == WriteBegin \/ PutChar \/ Writer \/ HwSend \/ Driver \/ Operations

\* Output is stopped, by the tty or by CTS while CRTSCTS is being turned off, and
\* the transmitter enabled with nothing to send: r56_start, which looks at
\* tx_enabled, will not start what is written meanwhile.
Misled ==
  /\ flow = "stopped" \/ (st = "cts" /\ hw_stopped)
  /\ tx_enabled /\ ~tx_active

Next == Step /\ misled' = (misled \/ Misled')

\* The writer has characters and goes on when woken; calls that have begun go on;
\* the transmitter sends, interrupts are serviced and the bottom half runs;
\* output that was stopped is started again.
Fairness ==
  /\ WF_vars(WriteBegin \/ PutChar) /\ WF_vars(Writer)
  /\ WF_vars(HwSend) /\ WF_vars(IsrTransmitData) /\ WF_vars(BhTransmit)
  /\ WF_vars(R56Stop) /\ WF_vars(R56Start) /\ WF_vars(SendXcharStart)
  /\ WF_vars(SetTermiosProgram \/ SetTermiosCts \/ SetTermiosStart)
  /\ WF_vars(TtyStart) /\ WF_vars(CtsUp)

Spec == Init /\ [][Next]_all /\ Fairness

-----------------------------------------------------------------------------
\* The circular buffer is a queue of at most Size - 1 characters: whatever
\* writes, interrupts, restarts and flushes do in between, characters go to the
\* FIFO in the order they were written, none twice, none skipped unless the
\* buffer was flushed (r56_write, r56_put_char, usc_load_txfifo).
CharQueueSpec == INSTANCE CharQueue WITH queue <- Queue, Capacity <- Size - 1
ImplementsQueue == CharQueueSpec!Spec

\* Characters waiting in the buffer have somebody to send them: unless output is
\* stopped or about to be restarted, or a write is on its way to start it, the
\* transmitter is active with characters in the FIFO or its interrupt pending
\* (r56_write, r56_start, r56_isr_io_pin, r56_isr_transmit_data).  Not so once
\* r56_start was misled, or the application has disabled the transmitter.
NotStranded ==
  /\ ~misled /\ "txenable" \notin used
  /\ xmit_cnt > 0 /\ ~Stopped /\ flow = "go" /\ st # "start" /\ w = "wait"
  => tx_active /\ tx_enabled /\ data_irq /\ (fifo # <<>> \/ txirq)

\* Every character offered is accepted and put into the FIFO in the end, through
\* stops, CTS changes, flushes and flow control characters: no wakeup of the
\* writer and no restart of the transmitter is lost.  Reprogramming the port
\* discards output without a wakeup, and is excepted with the above.  A stop that
\* purges the FIFO takes its interrupt too, so Wakeup has to exceed what MaxOps
\* restarts load: stops and starts in quick succession can leave the writer asleep.
AllSent ==
  [](~misled /\ used \cap {"params", "txenable"} = {})
     => <>[](written = MaxChars /\ xmit_cnt = 0)
=============================================================================
