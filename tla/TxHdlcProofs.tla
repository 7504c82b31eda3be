---------------------------- MODULE TxHdlcProofs ----------------------------
(***************************************************************************)
(* Proofs about the HDLC transmit path, for any number of frames and       *)
(* operations.                                                             *)
(***************************************************************************)
EXTENDS TxHdlc, SequenceTheorems, TLAPS

\* Whatever processes and the line do short of r56_flush_buffer, a frame in
\* progress has a timer that is armed or a callback about to give it up.
THEOREM FramesAreWatched == Spec => []ActiveHasTimer
<1>1. Init => ActiveHasTimer
  BY DEF Init, ActiveHasTimer
<1>2. ActiveHasTimer /\ [Next]_vars => ActiveHasTimer'
  <2> SUFFICES ASSUME ActiveHasTimer, [Next]_vars PROVE ActiveHasTimer'
    OBVIOUS
  <2> USE DEF ActiveHasTimer, port, writer, tty, chip, done, Operation, StartTransmitter,
             StopTransmitter
  <2>1. CASE Hardware
    BY <2>1 DEF Hardware, HwFrameSent, HwUnderrun
  <2>2. CASE IsrTransmitStatus
    BY <2>2 DEF IsrTransmitStatus
  <2>3. CASE BhTransmit \/ AppWrite
    BY <2>3 DEF BhTransmit, AppWrite
  <2>4. CASE Write
    BY <2>4 DEF Write, WriteBegin, WriteCount, WriteLoad, WriteCheck, WriteStart
  <2>5. CASE Timeout
    BY <2>5 DEF Timeout, TimerFires, TimeoutLocked, TimeoutWakeup
  <2>6. CASE FlowControl
    BY <2>6 DEF FlowControl, TtyStop, R56Stop, TtyStart, R56Start, CtsDown, CtsUp
  <2>7. CASE Ioctl
    BY <2>7 DEF Ioctl, TxAbort, FlushBuffer, ProgramHw, TxEnable
  <2>8. CASE UNCHANGED vars
    BY <2>8 DEF vars
  <2>9. QED
    BY <2>1, <2>2, <2>3, <2>4, <2>5, <2>6, <2>7, <2>8 DEF Next
<1>3. QED
  BY <1>1, <1>2, PTL DEF Spec

-----------------------------------------------------------------------------
\* The inductive invariant behind the accounting: while frames end by a status
\* interrupt alone, r56_write runs only when the transmitter is idle, a count
\* stands exactly from r56_write's store to the status interrupt, and an
\* active transmitter is sending a frame or has its status to report.
OneFrame ==
  /\ counted \in Nat /\ accepted \in Nat /\ xmit_cnt \in {0, 1} /\ loaded # None
  /\ txirq \in {"none", "eof", "underrun", "abort"}
  /\ flow = "go" /\ ~hw_stopped /\ tmo = "off"
  /\ tx_active <=> (sending # None \/ txirq # "none")
  /\ sending = None \/ txirq = "none"
  /\ w = "idle" => (tx_active <=> xmit_cnt = 1)
  /\ w # "idle" => ~tx_active
  /\ w = "count" => xmit_cnt = 0
  /\ w \in {"load", "check", "start"} => xmit_cnt = 1 /\ ret
  /\ w \in {"idle", "count", "load", "check", "start"}

\* As long as output has not been stopped, no frame has outlived its timer and
\* nothing but aborts has interfered, every accepted frame is in progress or
\* has been counted, and none is counted twice.
THEOREM EveryFrameCounted == Spec => []Accounting
<1> DEFINE Counted == counted + (IF tx_active THEN 1 ELSE 0) = accepted
           Inv == used \subseteq {"abort"} => OneFrame /\ Counted
<1>1. Init => Inv
  <2> SUFFICES ASSUME Init PROVE Inv
    OBVIOUS
  <2>1. OneFrame
    BY DEF Init, OneFrame, None, Stale
  <2>2. Counted
    <3>1. ~tx_active /\ counted = 0 /\ accepted = 0
      BY DEF Init
    <3>2. QED
      BY <3>1
  <2>3. QED
    BY <2>1, <2>2
<1>2. Inv /\ [Next]_vars => Inv'
  <2> USE DEF port, writer, tty, chip, done, None
  <2>0. [Next]_vars => used \subseteq used'
    BY DEF Next, vars, Hardware, HwFrameSent, HwUnderrun, IsrTransmitStatus, BhTransmit, AppWrite,
           Write, WriteBegin, WriteCount, WriteLoad, WriteCheck, WriteStart, Timeout, TimerFires,
           TimeoutLocked, TimeoutWakeup, FlowControl, TtyStop, R56Stop, TtyStart, R56Start,
           CtsDown, CtsUp, Ioctl, TxAbort, FlushBuffer, ProgramHw, TxEnable, Operation
  <2> SUFFICES ASSUME used' \subseteq {"abort"}, OneFrame, Counted, [Next]_vars
               PROVE  OneFrame' /\ Counted'
    BY <2>0
  <2> USE DEF OneFrame
  <2>1. CASE Hardware
    BY <2>1 DEF Hardware, HwFrameSent, HwUnderrun
  <2>2. CASE IsrTransmitStatus
    <3>1. tx_active /\ sending = None /\ w = "idle" /\ sending' = None
      BY <2>2 DEF IsrTransmitStatus
    <3>2. ~tx_active' /\ counted' = counted + 1 /\ accepted' = accepted
      BY <2>2 DEF IsrTransmitStatus
    <3>3. OneFrame'
      BY <2>2, <3>1 DEF IsrTransmitStatus
    <3>4. Counted'
      BY <3>1, <3>2
    <3>5. QED
      BY <3>3, <3>4
  <2>3. CASE BhTransmit \/ AppWrite
    BY <2>3 DEF BhTransmit, AppWrite
  <2>4. CASE WriteBegin
    BY <2>4 DEF WriteBegin
  <2>5. CASE WriteCount
    BY <2>5 DEF WriteCount
  <2>6. CASE WriteLoad
    BY <2>6 DEF WriteLoad
  <2>7. CASE WriteCheck
    BY <2>7 DEF WriteCheck, Stopped
  <2>8. CASE WriteStart
    BY <2>8 DEF WriteStart, StartTransmitter, WriteReturn
  <2>9. ~Timeout /\ ~FlowControl
    BY DEF Timeout, TimerFires, TimeoutLocked, TimeoutWakeup, FlowControl, TtyStop, R56Stop,
           TtyStart, R56Start, CtsDown, CtsUp, Operation
  <2>10. CASE TxAbort
    BY <2>10 DEF TxAbort
  <2>11. ~FlushBuffer /\ ~ProgramHw /\ \A b \in BOOLEAN : ~TxEnable(b)
    BY DEF FlushBuffer, ProgramHw, TxEnable, Operation
  <2>12. CASE UNCHANGED vars
    BY <2>12 DEF vars
  <2>13. QED
    BY <2>1, <2>2, <2>3, <2>4, <2>5, <2>6, <2>7, <2>8, <2>9, <2>10, <2>11, <2>12
       DEF Next, Write, Ioctl
<1>3. Inv => Accounting
  BY DEF Accounting
<1>4. QED
  BY <1>1, <1>2, <1>3, PTL DEF Spec

-----------------------------------------------------------------------------
\* The inductive invariant behind RtsDropped: while every frame ends by a status
\* interrupt, RTS is up only for a frame in progress, for which it was raised.
RtsForFrame ==
  used \subseteq {"abort", "flush"} /\ AutoRts =>
    /\ flow = "go" /\ ~hw_stopped /\ tmo = "off"
    /\ rts => tx_active /\ drop_rts_on_tx_done

\* No operation is forgotten.
LEMMA UsedGrows == [Next]_vars => used \subseteq used'
BY DEF Next, vars, Hardware, HwFrameSent, HwUnderrun, IsrTransmitStatus, BhTransmit, AppWrite,
       Write, WriteBegin, WriteCount, WriteLoad, WriteCheck, WriteStart, Timeout, TimerFires,
       TimeoutLocked, TimeoutWakeup, FlowControl, TtyStop, R56Stop, TtyStart, R56Start,
       CtsDown, CtsUp, Ioctl, TxAbort, FlushBuffer, ProgramHw, TxEnable, Operation,
       port, writer, tty, chip, done

\* The RTS that usc_start_transmitter raised for a frame is off when the status
\* interrupt has handled the frame, for any number of frames, aborts and flushes.
THEOREM RtsAlwaysDropped == Spec => RtsDropped
<1>1. Init => RtsForFrame
  BY DEF Init, RtsForFrame
<1>2. RtsForFrame /\ [Next]_vars => RtsForFrame'
  <2> SUFFICES ASSUME RtsForFrame, [Next]_vars, used' \subseteq {"abort", "flush"}, AutoRts
               PROVE  RtsForFrame'
    BY DEF RtsForFrame
  <2>0. /\ flow = "go" /\ ~hw_stopped /\ tmo = "off"
        /\ rts => tx_active /\ drop_rts_on_tx_done
    BY UsedGrows DEF RtsForFrame
  <2> USE <2>0 DEF RtsForFrame, port, writer, tty, chip, done
  <2>1. CASE Hardware \/ BhTransmit \/ AppWrite
    BY <2>1 DEF Hardware, HwFrameSent, HwUnderrun, BhTransmit, AppWrite
  <2>2. CASE IsrTransmitStatus
    BY <2>2 DEF IsrTransmitStatus
  <2>3. CASE WriteBegin \/ WriteCount \/ WriteLoad \/ WriteCheck
    BY <2>3 DEF WriteBegin, WriteCount, WriteLoad, WriteCheck
  <2>4. CASE WriteStart
    BY <2>4 DEF WriteStart, StartTransmitter
  <2>5. ~Timeout /\ ~FlowControl
    BY DEF Timeout, TimerFires, TimeoutLocked, TimeoutWakeup, FlowControl, TtyStop, R56Stop,
           TtyStart, R56Start, CtsDown, CtsUp, Operation
  <2>6. CASE TxAbort \/ FlushBuffer
    BY <2>6 DEF TxAbort, FlushBuffer
  <2>7. ~ProgramHw /\ \A b \in BOOLEAN : ~TxEnable(b)
    BY DEF ProgramHw, TxEnable, Operation
  <2>8. CASE UNCHANGED vars
    BY <2>8 DEF vars
  <2>9. QED
    BY <2>1, <2>2, <2>3, <2>4, <2>5, <2>6, <2>7, <2>8 DEF Next, Write, Ioctl
<1>3. RtsForFrame => (IsrTransmitStatus /\ AutoRts /\ used \subseteq {"abort", "flush"} => ~rts')
  BY DEF RtsForFrame, IsrTransmitStatus
<1>4. QED
  BY <1>1, <1>2, <1>3, PTL DEF Spec, RtsDropped

-----------------------------------------------------------------------------
\* The inductive invariant behind SentOnce: while nothing stops and restarts the
\* transmitter, it is started by r56_write alone, right after loading the frame
\* that comes after all those accepted, and hence after all those begun.
Ahead ==
  /\ accepted \in Nat /\ sending \in Nat \cup {None} /\ loaded \in Nat
  /\ flow = "go" /\ ~hw_stopped
  /\ w \in {"check", "start"} => loaded = IF ret THEN accepted + 1 ELSE Stale
  /\ sending <= accepted
  /\ line \in Seq(Nat)
  /\ \A i \in 1 .. Len(line) : line[i] <= accepted /\ (sending > 0 => line[i] < sending)
  /\ \A i, j \in 1 .. Len(line) : i < j /\ line[j] # Stale => line[i] < line[j]

\* Steps that only give the transmission up or leave it alone keep the order.
LEMMA AheadKept ==
  ASSUME Ahead, flow' = "go", ~hw_stopped', accepted' = accepted, line' = line,
         sending' = sending \/ sending' = None \/ (sending' = Stale /\ sending # None),
         loaded' = loaded, w' = w \/ w' \notin {"check", "start"}, ret' = ret
  PROVE  Ahead'
BY DEF Ahead, None, Stale

\* Frames sent to their closing flag were sent in the order offered and once,
\* through any number of timeouts, aborts, flushes and new parameters.
THEOREM FramesSentOnce == Spec => []SentOnce
<1> DEFINE Inv == used \cap {"stop", "cts", "txenable"} = {} => Ahead
<1>1. Init => Inv
  <2> SUFFICES ASSUME Init PROVE Ahead
    OBVIOUS
  <2>1. line = <<>> /\ Len(line) = 0 /\ line \in Seq(Nat)
    BY EmptySeq DEF Init
  <2>2. QED
    BY <2>1 DEF Init, Ahead, None, Stale
<1>2. Inv /\ [Next]_vars => Inv'
  <2> SUFFICES ASSUME used' \cap {"stop", "cts", "txenable"} = {}, Ahead, [Next]_vars
               PROVE  Ahead'
    BY UsedGrows
  <2>0. flow = "go" /\ ~hw_stopped
    BY DEF Ahead
  <2> USE DEF port, writer, tty, chip, done
  <2>1. CASE HwFrameSent
    <3> DEFINE n == Len(line)
               l == Append(line, sending)
    <3>1. /\ accepted \in Nat /\ sending \in Nat /\ sending <= accepted /\ line \in Seq(Nat)
          /\ sending' = None /\ accepted' = accepted /\ line' = l
      BY <2>1 DEF HwFrameSent, Ahead
    <3>2. /\ n \in Nat /\ l \in Seq(Nat) /\ Len(l) = n + 1
          /\ l[n + 1] = sending /\ \A i \in 1 .. n : l[i] = line[i]
      BY <3>1, LenProperties
    <3>3. /\ \A i \in 1 .. n : line[i] <= accepted /\ (sending > 0 => line[i] < sending)
          /\ \A i, j \in 1 .. n : i < j /\ line[j] # Stale => line[i] < line[j]
      BY DEF Ahead
    <3> HIDE DEF l, n
    <3>4. \A i \in 1 .. n + 1 : l[i] <= accepted
      <4>1. \A i \in 1 .. n + 1 : i \in 1 .. n \/ i = n + 1
        BY <3>2
      <4>2. \A i \in 1 .. n : l[i] <= accepted
        BY <3>2, <3>3, Zenon
      <4>3. l[n + 1] <= accepted
        BY <3>1, <3>2, Zenon
      <4>4. QED
        BY <4>1, <4>2, <4>3, Zenon
    <3>5. ASSUME NEW i \in 1 .. n + 1, NEW j \in 1 .. n + 1, i < j, l[j] # Stale
          PROVE  l[i] < l[j]
      <4>1. i \in 1 .. n
        BY <3>2, <3>5
      <4>2. CASE j = n + 1
        BY <3>1, <3>2, <3>3, <3>5, <4>1, <4>2 DEF Stale
      <4>3. CASE j \in 1 .. n
        BY <3>2, <3>3, <3>5, <4>1, <4>3
      <4>4. QED
        BY <3>2, <4>2, <4>3
    <3>6. loaded' = loaded /\ w' = w /\ ret' = ret /\ flow' = flow /\ hw_stopped' = hw_stopped
      BY <2>1 DEF HwFrameSent
    <3>7. /\ Len(line') = n + 1 /\ ~(sending' > 0) /\ sending' <= accepted'
          /\ sending' \in Nat \cup {None}
      BY <3>1, <3>2 DEF None
    <3>8. QED
      BY <3>1, <3>2, <3>4, <3>5, <3>6, <3>7 DEF Ahead
  <2>2. CASE HwUnderrun \/ IsrTransmitStatus \/ BhTransmit \/ AppWrite \/ WriteBegin
    BY <2>0, <2>2, AheadKept
       DEF HwUnderrun, IsrTransmitStatus, BhTransmit, AppWrite, WriteBegin, Stopped
  <2>3. CASE WriteCount
    BY <2>3 DEF WriteCount, Ahead
  <2>4. CASE WriteLoad
    <3>1. /\ w' = "check" /\ ret' = ret /\ accepted' = accepted /\ line' = line
          /\ loaded' = (IF ret THEN accepted + 1 ELSE Stale)
          /\ sending' = sending \/ (sending' = Stale /\ sending # None)
          /\ flow' = flow /\ hw_stopped' = hw_stopped
      BY <2>4 DEF WriteLoad
    <3>2. QED
      BY <3>1 DEF Ahead, None, Stale
  <2>5. CASE WriteCheck
    <3>1. CASE w' = "start"
      BY <2>0, <2>5, <3>1 DEF WriteCheck, WriteReturn, Ahead
    <3>2. CASE w' = "idle"
      BY <2>0, <2>5, <3>2 DEF WriteCheck, WriteReturn, Ahead, None
    <3>3. QED
      BY <2>5, <3>1, <3>2 DEF WriteCheck, WriteReturn
  <2>6. CASE WriteStart
    <3>1. /\ w' = "idle" /\ accepted' = (IF ret THEN accepted + 1 ELSE accepted)
          /\ line' = line /\ loaded' = loaded /\ flow' = flow /\ hw_stopped' = hw_stopped
          /\ sending' = sending \/ sending' = loaded
          /\ loaded = (IF ret THEN accepted + 1 ELSE Stale)
      BY <2>6 DEF WriteStart, WriteReturn, StartTransmitter, Ahead
    <3>2. QED
      BY <3>1 DEF Ahead, None, Stale
  <2>7. CASE Timeout
    BY <2>0, <2>7, AheadKept DEF Timeout, TimerFires, TimeoutLocked, TimeoutWakeup
  <2>8. ~FlowControl /\ \A b \in BOOLEAN : ~TxEnable(b)
    BY <2>0 DEF FlowControl, TtyStop, R56Stop, TtyStart, R56Start, CtsDown, CtsUp, TxEnable,
                Operation
  <2>9. CASE TxAbort \/ FlushBuffer \/ ProgramHw
    BY <2>0, <2>9, AheadKept DEF TxAbort, FlushBuffer, ProgramHw
  <2>10. CASE UNCHANGED vars
    BY <2>0, <2>10, AheadKept DEF vars
  <2>11. QED
    BY <2>1, <2>2, <2>3, <2>4, <2>5, <2>6, <2>7, <2>8, <2>9, <2>10 DEF Next, Hardware, Write, Ioctl
<1>3. Inv => SentOnce
  <2>1. Ahead => DOMAIN line = 1 .. Len(line)
    BY LenProperties DEF Ahead
  <2>2. QED
    BY <2>1 DEF SentOnce, Ahead
<1>4. QED
  BY <1>1, <1>2, <1>3, PTL DEF Spec

-----------------------------------------------------------------------------
(* Types. *)

Flags ==
  /\ tx_active \in BOOLEAN /\ tx_enabled \in BOOLEAN /\ rts \in BOOLEAN
  /\ drop_rts_on_tx_done \in BOOLEAN /\ rx_enabled \in BOOLEAN /\ timer \in BOOLEAN
  /\ pending \in BOOLEAN /\ hw_stopped \in BOOLEAN /\ wakeup \in BOOLEAN /\ ret \in BOOLEAN

\* r56_write runs only for a frame that was offered and not accepted yet, which
\* is why what it loads is a frame.
Values ==
  /\ xmit_cnt \in {0, 1}
  /\ loaded \in Contents /\ sending \in Contents
  /\ counted \in Nat
  /\ flow \in {"go", "stopping", "stopped", "starting"}
  /\ offered \in 0 .. MaxFrames /\ accepted \in 0 .. offered
  /\ w \in {"idle", "count", "load", "check", "start"}
  /\ w # "idle" => accepted < offered
  /\ tmo \in {"off", "lock", "wakeup"}
  /\ txirq \in {"none", "eof", "underrun", "abort"}
  /\ line \in Seq(Contents \ {None})
  /\ started \subseteq Contents
  /\ ops \in 0 .. MaxOps /\ used \subseteq Ops

\* Every variable keeps its type, for any number of frames and operations; in
\* particular r56_write never accepts a frame that was not offered.
THEOREM TypeCorrect == Spec => []TypeOK
<1>0. MaxFrames \in Nat /\ MaxOps \in Nat
  BY TxAssumption
<1>1. Init => Flags /\ Values
  <2> SUFFICES ASSUME Init PROVE Flags /\ Values
    OBVIOUS
  <2>1. Flags
    BY Zenon DEF Init, Flags
  <2>2. line \in Seq(Contents \ {None})
    BY EmptySeq DEF Init
  <2>3. QED
    BY <1>0, <2>1, <2>2 DEF Init, Values, Contents, None, Stale
<1>2. Flags /\ [Next]_vars => Flags'
  <2> SUFFICES ASSUME Flags, [Next]_vars PROVE Flags'
    OBVIOUS
  <2> USE DEF port, writer, tty, chip, done
  <2> DEFINE Line == /\ tx_active' \in BOOLEAN /\ tx_enabled' \in BOOLEAN /\ rts' \in BOOLEAN
                     /\ drop_rts_on_tx_done' \in BOOLEAN /\ rx_enabled' \in BOOLEAN
                     /\ timer' \in BOOLEAN
             Rest == pending' = pending /\ hw_stopped' = hw_stopped /\ wakeup' = wakeup /\ ret' = ret
             Same == UNCHANGED <<tx_active, tx_enabled, rts, drop_rts_on_tx_done, rx_enabled, timer>>
  <2>0. StartTransmitter \/ StopTransmitter \/ Same => Line
    <3>1. ASSUME Same PROVE Line
      <4>1. /\ tx_active' = tx_active /\ tx_enabled' = tx_enabled /\ rts' = rts /\ timer' = timer
            /\ drop_rts_on_tx_done' = drop_rts_on_tx_done /\ rx_enabled' = rx_enabled
        BY <3>1
      <4>2. QED
        BY <4>1, Zenon DEF Flags
    <3>2. ASSUME StartTransmitter, xmit_cnt = 0 PROVE Line
      <4>1. /\ tx_active' = tx_active /\ tx_enabled' = TRUE /\ rts' = rts /\ timer' = timer
            /\ drop_rts_on_tx_done' = drop_rts_on_tx_done /\ rx_enabled' = rx_enabled
        BY <3>2 DEF StartTransmitter
      <4>2. QED
        BY <4>1, Zenon DEF Flags
    <3>3. ASSUME StartTransmitter, xmit_cnt # 0 PROVE Line
      BY <3>3, Zenon DEF StartTransmitter, Flags
    <3>4. ASSUME StopTransmitter PROVE Line
      <4>1. /\ tx_active' = FALSE /\ tx_enabled' = FALSE /\ rts' = rts /\ timer' = FALSE
            /\ drop_rts_on_tx_done' = drop_rts_on_tx_done /\ rx_enabled' = rx_enabled
        BY <3>4 DEF StopTransmitter
      <4>2. QED
        BY <4>1, Zenon DEF Flags
    <3>5. QED
      BY <3>1, <3>2, <3>3, <3>4, Zenon
  <2>1. CASE Hardware \/ IsrTransmitStatus \/ BhTransmit \/ AppWrite
    <3>1. CASE Hardware \/ BhTransmit \/ AppWrite
      <4>1. /\ Same /\ hw_stopped' = hw_stopped /\ ret' = ret
            /\ pending' = pending \/ pending' = FALSE
            /\ wakeup' = wakeup \/ wakeup' = TRUE
        BY <3>1 DEF Hardware, HwFrameSent, HwUnderrun, BhTransmit, AppWrite
      <4>2. QED
        BY <2>0, <4>1, Zenon DEF Flags
    <3>2. CASE IsrTransmitStatus
      <4>1. /\ rts' = (rts /\ ~drop_rts_on_tx_done) /\ drop_rts_on_tx_done' = FALSE
            /\ tx_active' = FALSE /\ timer' = FALSE
            /\ tx_enabled' = FALSE \/ tx_enabled' = tx_enabled
            /\ pending' = TRUE \/ pending' = pending
            /\ rx_enabled' = rx_enabled /\ hw_stopped' = hw_stopped /\ wakeup' = wakeup
            /\ ret' = ret
        BY <3>2 DEF IsrTransmitStatus
      <4>2. QED
        BY <4>1, Zenon DEF Flags
    <3>3. QED
      BY <2>1, <3>1, <3>2
  <2>2. CASE WriteBegin \/ WriteCount \/ WriteLoad \/ WriteCheck
    <3>1. Same /\ pending' = pending /\ hw_stopped' = hw_stopped
      BY <2>2 DEF WriteBegin, WriteCount, WriteLoad, WriteCheck
    <3>2. /\ wakeup' = wakeup \/ wakeup' = FALSE \/ wakeup' = (wakeup \/ ret)
          /\ ret' = ret \/ ret' = (xmit_cnt = 0)
      BY <2>2 DEF WriteBegin, WriteCount, WriteLoad, WriteCheck, WriteReturn
    <3>3. QED
      BY <2>0, <3>1, <3>2, Zenon DEF Flags
  <2>3. CASE WriteStart
    <3>1. /\ StartTransmitter \/ Same
          /\ pending' = pending /\ hw_stopped' = hw_stopped /\ ret' = ret
          /\ wakeup' = (wakeup \/ ret)
      BY <2>3 DEF WriteStart, WriteReturn
    <3>2. QED
      BY <2>0, <3>1, Zenon DEF Flags
  <2>4. CASE Timeout
    BY <2>4, ZenonT(60) DEF Timeout, TimerFires, TimeoutLocked, TimeoutWakeup, Flags
  <2>5. CASE FlowControl
    <3>1. /\ StartTransmitter \/ StopTransmitter \/ Same
          /\ pending' = pending \/ pending' = TRUE
          /\ hw_stopped' = hw_stopped \/ hw_stopped' = TRUE \/ hw_stopped' = FALSE
          /\ wakeup' = wakeup \/ wakeup' = TRUE
          /\ ret' = ret
      BY <2>5 DEF FlowControl, TtyStop, R56Stop, TtyStart, R56Start, CtsDown, CtsUp
    <3>2. QED
      BY <2>0, <3>1, Zenon DEF Flags
  <2>6. CASE Ioctl
    <3>1. CASE TxAbort \/ FlushBuffer \/ ProgramHw
      BY <3>1, ZenonT(60) DEF TxAbort, FlushBuffer, ProgramHw, Flags
    <3>2. CASE \E b \in BOOLEAN : TxEnable(b)
      <4>1. (StartTransmitter \/ StopTransmitter) /\ Rest
        BY <3>2 DEF TxEnable
      <4>2. QED
        BY <2>0, <4>1, Zenon DEF Flags
    <3>3. QED
      BY <2>6, <3>1, <3>2 DEF Ioctl
  <2>7. CASE UNCHANGED vars
    BY <2>7 DEF vars, Flags
  <2>8. QED
    BY <2>1, <2>2, <2>3, <2>4, <2>5, <2>6, <2>7 DEF Next, Write
<1>3. Values /\ [Next]_vars => Values'
  <2> SUFFICES ASSUME Values, [Next]_vars PROVE Values'
    OBVIOUS
  <2> USE <1>0 DEF Values, port, writer, tty, chip, done
  <2>0. None \in Contents /\ Stale \in Contents /\ Stale \in Contents \ {None}
    BY DEF Contents, None, Stale
  <2>1. CASE HwFrameSent
    <3>1. line' \in Seq(Contents \ {None})
      BY <2>1, AppendProperties DEF HwFrameSent
    <3>2. QED
      BY <2>0, <2>1, <3>1 DEF HwFrameSent
  <2>2. CASE HwUnderrun \/ IsrTransmitStatus \/ BhTransmit \/ AppWrite
    BY <2>0, <2>2 DEF HwUnderrun, IsrTransmitStatus, BhTransmit, AppWrite
  <2>3. CASE WriteBegin \/ WriteCount \/ WriteCheck
    BY <2>3 DEF WriteBegin, WriteCount, WriteCheck, WriteReturn
  <2>4. CASE WriteLoad
    <3>1. accepted + 1 \in Contents
      BY <2>4 DEF WriteLoad, Contents
    <3>2. QED
      BY <2>0, <2>4, <3>1 DEF WriteLoad
  <2> DEFINE Kept == UNCHANGED <<loaded, counted, flow, offered, line>>
             Chip == UNCHANGED <<sending, txirq, started>>
                     \/ /\ sending' \in {loaded, None} /\ txirq' = "none"
                        /\ started' \in {started, started \cup {loaded}}
  <2>11. StartTransmitter \/ StopTransmitter => Chip
    BY DEF StartTransmitter, StopTransmitter
  <2>12. Chip => /\ sending' \in Contents /\ started' \subseteq Contents
                 /\ txirq' \in {"none", "eof", "underrun", "abort"}
    BY <2>0
  <2> HIDE DEF Chip
  <2>5. CASE WriteStart
    <3>1. Chip
      <4>1. UNCHANGED <<sending, txirq, started>> => Chip
        BY DEF Chip
      <4>2. QED
        BY <2>5, <2>11, <4>1 DEF WriteStart
    <3>2. /\ Kept /\ w' = "idle" /\ accepted' \in {accepted, accepted + 1} /\ accepted < offered
          /\ UNCHANGED <<xmit_cnt, tmo, ops, used>>
      BY <2>5 DEF WriteStart, WriteReturn
    <3>3. QED
      BY <2>12, <3>1, <3>2
  <2>6. CASE Timeout
    <3>1. CASE TimerFires
      BY <3>1 DEF TimerFires
    <3>2. CASE TimeoutLocked \/ TimeoutWakeup
      BY <3>2 DEF TimeoutLocked, TimeoutWakeup
    <3>3. QED
      BY <2>6, <3>1, <3>2 DEF Timeout
  <2>13. \A kind : Operation(kind) => ops' \in 0 .. MaxOps /\ used' \subseteq Ops
    BY DEF Operation
  <2>14. UNCHANGED done => ops' \in 0 .. MaxOps /\ used' \subseteq Ops
    OBVIOUS
  <2>15. UNCHANGED <<sending, txirq, started>> => Chip
    BY DEF Chip
  <2>7. CASE FlowControl
    <3>1. /\ Chip /\ UNCHANGED <<loaded, counted, offered, accepted, w, line, xmit_cnt, tmo>>
          /\ flow' \in {"go", "stopping", "stopped", "starting"}
      BY <2>7, <2>11, <2>15
         DEF FlowControl, TtyStop, R56Stop, TtyStart, R56Start, CtsDown, CtsUp
    <3>2. ops' \in 0 .. MaxOps /\ used' \subseteq Ops
      BY <2>7, <2>13, <2>14 DEF FlowControl, TtyStop, R56Stop, TtyStart, R56Start, CtsDown, CtsUp
    <3>3. QED
      BY <2>12, <3>1, <3>2
  <2>8. CASE Ioctl
    <3>1. CASE TxAbort \/ FlushBuffer \/ ProgramHw
      <4>1. /\ UNCHANGED <<loaded, counted, offered, accepted, w, line, tmo, flow, started>>
            /\ xmit_cnt' \in {0, xmit_cnt} /\ sending' \in {sending, None}
            /\ txirq' \in {txirq, "abort", "none"}
        BY <3>1 DEF TxAbort, FlushBuffer, ProgramHw
      <4>2. ops' \in 0 .. MaxOps /\ used' \subseteq Ops
        BY <2>13, <3>1 DEF TxAbort, FlushBuffer, ProgramHw
      <4>3. QED
        BY <2>0, <4>1, <4>2
    <3>2. CASE \E b \in BOOLEAN : TxEnable(b)
      <4>1. Chip /\ UNCHANGED <<loaded, counted, offered, accepted, w, line, tmo, flow, xmit_cnt>>
        BY <2>11, <3>2 DEF TxEnable
      <4>2. ops' \in 0 .. MaxOps /\ used' \subseteq Ops
        BY <2>13, <3>2 DEF TxEnable
      <4>3. QED
        BY <2>12, <4>1, <4>2
    <3>3. QED
      BY <2>8, <3>1, <3>2 DEF Ioctl
  <2>9. CASE UNCHANGED vars
    BY <2>9 DEF vars
  <2>10. QED
    BY <2>1, <2>2, <2>3, <2>4, <2>5, <2>6, <2>7, <2>8, <2>9 DEF Next, Hardware, Write
<1>4. Flags /\ Values => TypeOK
  <2> SUFFICES ASSUME Flags, Values PROVE TypeOK
    OBVIOUS
  <2>1. {tx_active, tx_enabled, rts, drop_rts_on_tx_done, rx_enabled, timer, pending,
         hw_stopped, wakeup, ret} \subseteq BOOLEAN
    BY Zenon DEF Flags
  <2>2. QED
    BY <2>1, Zenon DEF Values, TypeOK
<1>5. QED
  BY <1>1, <1>2, <1>3, <1>4, PTL DEF Spec
=============================================================================
