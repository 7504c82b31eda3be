------------------------------ MODULE Settings ------------------------------
(***************************************************************************)
(* The settings of an open port and what is programmed into the 16C32 for  *)
(* them: R56_IOCSPARAMS, set_termios, R56_IOCSTXIDLE, the modem control    *)
(* outputs (TIOCMSET, throttling, automatic RTS, dtr_rts), break, the      *)
(* receiver switch, opening and closing, and the same for a port used as a *)
(* network interface (hdlcdev_open, hdlcdev_close, hdlcdev_attach,         *)
(* hdlcdev_ioctl).                                                         *)
(*                                                                         *)
(* Each system call is a process of its own; two calls of one kind exclude *)
(* each other (port.mutex, the termios lock of the tty layer, one process  *)
(* for each of the others).  What is done under irq_spinlock is one step;  *)
(* what is done to serial_signals, params and tcsr_value outside it is a   *)
(* step of its own.                                                        *)
(***************************************************************************)
EXTENDS UscRegs

CONSTANTS
  Params,      \* parameters given to R56_IOCSPARAMS
  Termios,     \* termios settings: baud, size, two_stop, parity, crtscts, cread, hupcl
  Idles,       \* idle patterns given to R56_IOCSTXIDLE
  NetLines,    \* clock, rate and loopback given to IF_IFACE_SYNC_SERIAL
  NetCodings,  \* encoding and CRC the generic HDLC layer attaches with
  MaxCalls     \* bound: operations

\* Parameters are structures with all their members.
ASSUME SettingsAssumption ==
  /\ \A p \in Params : DOMAIN p = DOMAIN Default /\ p.clock_speed \in Nat
  /\ \A l \in NetLines : l.rate \in Nat
  /\ MaxCalls \in Nat

VARIABLES
  \* r56_struct
  params, idle_mode,
  serial_signals,  \* the outputs: subset of {"DTR", "RTS"}
  drop_rts,        \* drop_rts_on_tx_done
  sending,         \* tx_active
  \* the chip and what the driver remembers of it
  hw,
  \* the tty and network layers
  open,            \* as a tty
  net,             \* netcount: open as a network interface
  termios, old_termios, throttled,
  \* the calls
  pc, tmp,
  calls

tty  == <<open, net, termios, old_termios, throttled>>
vars == <<params, idle_mode, serial_signals, drop_rts, sending, hw, tty, pc, tmp, calls>>

Calls   == {"params", "termios", "tiocmset", "txidle"}
Outputs == {"DTR", "RTS"}

Init ==
  /\ params = Default /\ idle_mode = "flags" /\ serial_signals = {}
  /\ drop_rts = FALSE /\ sending = FALSE
  /\ hw = UscReset(Default, [idle |-> "flags", underwait |-> FALSE])
  /\ open = FALSE /\ net = FALSE /\ throttled = FALSE
  /\ termios = [baud |-> 9600, size |-> 8, two_stop |-> FALSE, parity |-> "none",
                crtscts |-> FALSE, cread |-> TRUE, hupcl |-> TRUE]
  /\ old_termios = termios
  /\ pc = [c \in Calls |-> "out"] /\ tmp = [c \in Calls |-> {}]
  /\ calls = 0

\* A new operation on the port.
Op(guard) == guard /\ calls < MaxCalls /\ calls' = calls + 1
Begin(c, next) == pc[c] = "out" /\ pc' = [pc EXCEPT ![c] = next]
Step(c, from, to) == pc[c] = from /\ pc' = [pc EXCEPT ![c] = to] /\ UNCHANGED calls

-----------------------------------------------------------------------------
(* r56_change_params up to r56_program_hw: what termios says goes into the *)
(* parameters and, in async mode, into the outputs.                        *)
ChangedParams ==
  [params EXCEPT !.data_bits = termios.size,
                 !.stop_bits = IF termios.two_stop THEN 2 ELSE 1,
                 !.parity = termios.parity,
                 !.data_rate = IF @ <= 460800 THEN termios.baud ELSE @]
ChangedSignals ==
  IF params.mode # "ASYNC" THEN serial_signals
  ELSE IF termios.baud # 0 THEN Outputs ELSE {}

(* The diagnostics of startup reset the chip, program it with the default  *)
(* parameters in loopback, and reset it again before the parameters are    *)
(* restored.                                                               *)
AdapterTest ==
  LET test == LoopbackOn(SetSdlcMode(UscReset(Default, hw.tcsr_value), Default, idle_mode), Default)
  IN UscReset(Default, test.tcsr_value)

Startup ==
  /\ Op(~open /\ ~net) /\ open' = TRUE
  /\ params' = ChangedParams /\ serial_signals' = ChangedSignals
  /\ hw' = ProgramHw(AdapterTest, params', idle_mode, serial_signals', termios.cread, FALSE)
  /\ UNCHANGED <<idle_mode, drop_rts, sending, net, termios, old_termios, throttled, pc, tmp>>

(* shutdown; without HUPCL serial_signals keeps what the outputs no longer  *)
(* show.                                                                   *)
SwitchOff(hupcl) ==
  LET off == [StopTransmitter(StopReceiver([hw EXCEPT !.mie = FALSE]))
                EXCEPT !.pcr.port7 = "high", !.pcr.port6 = "high"]
  IN IF hupcl THEN serial_signals' = {} /\ hw' = SetSerialSignals(off, {})
     ELSE hw' = off /\ UNCHANGED serial_signals

Shutdown ==
  /\ Op(open) /\ \A c \in Calls : pc[c] = "out"
  /\ open' = FALSE /\ sending' = FALSE
  /\ SwitchOff(termios.hupcl)
  /\ UNCHANGED <<params, idle_mode, drop_rts, net, termios, old_termios, throttled, pc, tmp>>

-----------------------------------------------------------------------------
(* The network interface: its calls exclude each other (rtnl_lock) and are  *)
(* refused while the tty is open.                                          *)
NetOpen ==
  /\ Op(~open /\ ~net) /\ net' = TRUE
  /\ serial_signals' = Outputs
  /\ hw' = ProgramHw(AdapterTest, params, idle_mode, serial_signals', FALSE, TRUE)
  /\ UNCHANGED <<params, idle_mode, drop_rts, sending, open, termios, old_termios, throttled,
                 pc, tmp>>

NetClose ==
  /\ Op(net) /\ net' = FALSE /\ sending' = FALSE
  /\ SwitchOff(TRUE)
  /\ UNCHANGED <<params, idle_mode, drop_rts, open, termios, old_termios, throttled, pc, tmp>>

\* New parameters, programmed if the interface is up.
NetChange(p) ==
  /\ Op(~open) /\ params' = p
  /\ IF net THEN /\ hw' = ProgramHw(hw, p, idle_mode, serial_signals, FALSE, TRUE)
                 /\ sending' = FALSE
     ELSE UNCHANGED <<hw, sending>>
  /\ UNCHANGED <<idle_mode, serial_signals, drop_rts, tty, pc, tmp>>

NetAttach(coding) ==
  NetChange([params EXCEPT !.encoding = coding.encoding, !.crc_type = coding.crc])

\* The pins as clock sources are the absence of a flag.
ClockFlags == {"RXC_DPLL", "RXC_BRG", "RXC_TXCPIN", "TXC_DPLL", "TXC_BRG", "TXC_RXCPIN"}
LineFlags(clock) == CASE clock = "EXT" -> {}
                      [] clock = "TXFROMRX" -> {"TXC_RXCPIN"}
                      [] clock = "INT" -> {"RXC_BRG", "TXC_BRG"}
                      [] clock = "TXINT" -> {"TXC_BRG"}
                      [] clock = "DEFAULT" -> params.flags \cap ClockFlags
NetIoctl(line) ==
  LET flags == LineFlags(line.clock)
  IN NetChange([params EXCEPT !.flags = (@ \ ClockFlags) \cup flags, !.loopback = line.loopback,
                              !.clock_speed = IF flags \cap {"RXC_BRG", "TXC_BRG"} # {}
                                              THEN line.rate ELSE 0])

-----------------------------------------------------------------------------
(* R56_IOCSPARAMS and set_termios *)
SetParams(p) ==
  /\ Op(open) /\ Begin("params", "change") /\ params' = p
  /\ UNCHANGED <<idle_mode, serial_signals, drop_rts, sending, hw, tty, tmp>>

SetTermios(t) ==
  /\ Op(open) /\ Begin("termios", "change")
  /\ old_termios' = termios /\ termios' = t
  /\ UNCHANGED <<params, idle_mode, serial_signals, drop_rts, sending, hw, open, net, throttled, tmp>>

ChangeParams(c) ==
  /\ Step(c, "change", "program")
  /\ params' = ChangedParams /\ serial_signals' = ChangedSignals
  /\ UNCHANGED <<idle_mode, drop_rts, sending, hw, tty, tmp>>

(* set_termios goes on when the rate was or became B0, and starts output    *)
(* when CRTSCTS was turned off.                                            *)
AfterSignals(c) ==
  IF c = "termios" /\ old_termios.crtscts /\ ~termios.crtscts THEN "start" ELSE "out"
AfterProgram(c) ==
  IF c = "termios" /\ (old_termios.baud = 0) # (termios.baud = 0) THEN "fetch" ELSE AfterSignals(c)

Program(c) ==
  /\ Step(c, "program", AfterProgram(c))
  /\ hw' = ProgramHw(hw, params, idle_mode, serial_signals, termios.cread, FALSE)
  /\ sending' = FALSE
  /\ UNCHANGED <<params, idle_mode, serial_signals, drop_rts, tty, tmp>>

FetchTermios ==
  /\ Step("termios", "fetch", "store")
  /\ tmp' = [tmp EXCEPT !["termios"] =
       IF termios.baud = 0 THEN {}
       ELSE serial_signals \cup {"DTR"} \cup
              (IF termios.crtscts /\ throttled THEN {} ELSE {"RTS"})]
  /\ UNCHANGED <<params, idle_mode, serial_signals, drop_rts, sending, hw, tty>>

(* TIOCMSET: serial_signals is read, changed and written without the lock. *)
Tiocmset(set, clear) ==
  /\ Op(open) /\ Begin("tiocmset", "store")
  /\ tmp' = [tmp EXCEPT !["tiocmset"] = (serial_signals \cup set) \ clear]
  /\ UNCHANGED <<params, idle_mode, serial_signals, drop_rts, sending, hw, tty>>

StoreSignals(c) ==
  /\ Step(c, "store", "show") /\ serial_signals' = tmp[c]
  /\ tmp' = [tmp EXCEPT ![c] = {}]
  /\ UNCHANGED <<params, idle_mode, drop_rts, sending, hw, tty>>

ShowSignals(c) ==
  /\ Step(c, "show", AfterSignals(c)) /\ hw' = SetSerialSignals(hw, serial_signals)
  /\ UNCHANGED <<params, idle_mode, serial_signals, drop_rts, sending, tty, tmp>>

(* R56_IOCSTXIDLE first writes the pattern of the old idle_mode, unlocked. *)
SetTxIdleUnlocked(i) ==
  /\ Op(open) /\ Begin("txidle", "idle")
  /\ hw' = MapIdle(hw, idle_mode) /\ tmp' = [tmp EXCEPT !["txidle"] = {i}]
  /\ UNCHANGED <<params, idle_mode, serial_signals, drop_rts, sending, tty>>

SetTxIdleLocked ==
  /\ Step("txidle", "idle", "out")
  /\ idle_mode' \in tmp["txidle"] /\ tmp' = [tmp EXCEPT !["txidle"] = {}]
  /\ hw' = SetTxIdle(hw, params, idle_mode')
  /\ UNCHANGED <<params, serial_signals, drop_rts, sending, tty>>

-----------------------------------------------------------------------------
(* Operations of one locked step *)
SetSignals(s) == serial_signals' = s /\ hw' = SetSerialSignals(hw, s)

Throttle ==
  /\ Op(open) /\ ~throttled /\ throttled' = TRUE
  /\ IF termios.crtscts THEN SetSignals(serial_signals \ {"RTS"}) ELSE UNCHANGED <<serial_signals, hw>>
  /\ UNCHANGED <<params, idle_mode, drop_rts, sending, open, net, termios, old_termios, pc, tmp>>

Unthrottle ==
  /\ Op(open) /\ throttled /\ throttled' = FALSE
  /\ IF termios.crtscts THEN SetSignals(serial_signals \cup {"RTS"}) ELSE UNCHANGED <<serial_signals, hw>>
  /\ UNCHANGED <<params, idle_mode, drop_rts, sending, open, net, termios, old_termios, pc, tmp>>

DtrRts(on) ==
  /\ Op(open) /\ SetSignals(IF on THEN Outputs ELSE {})
  /\ UNCHANGED <<params, idle_mode, drop_rts, sending, tty, pc, tmp>>

(* Break is bit 7 of IOCR, the upper bit of the field for TxD. *)
Break(on) ==
  /\ Op(open)
  /\ hw' = [hw EXCEPT !.iocr.txd = IF on THEN (IF @ \in {"data", "low"} THEN "low" ELSE "high")
                                         ELSE (IF @ \in {"data", "low"} THEN "data" ELSE "tristate")]
  /\ UNCHANGED <<params, idle_mode, serial_signals, drop_rts, sending, tty, pc, tmp>>

RxEnable(on) ==
  /\ Op(open) /\ (hw.rmr.enabled = "no") = on
  /\ hw' = IF on THEN StartReceiver(hw, params) ELSE StopReceiver(hw)
  /\ UNCHANGED <<params, idle_mode, serial_signals, drop_rts, sending, tty, pc, tmp>>

(* usc_start_transmitter raises RTS for a frame, and the interrupt at its  *)
(* end drops it, if automatic RTS is on and RTS was not up already.        *)
Enabled(r) ==
  IF r.tmr.enabled # "no" THEN r
  ELSE [r EXCEPT !.tmr.enabled = IF "AUTO_CTS" \in params.flags THEN "auto_cts" ELSE "yes"]

StartTransmitter ==
  /\ sending' = TRUE
  /\ drop_rts' = ("AUTO_RTS" \in params.flags /\ "RTS" \notin serial_signals)
  /\ IF drop_rts' THEN /\ serial_signals' = serial_signals \cup {"RTS"}
                       /\ hw' = Enabled(SetSerialSignals(hw, serial_signals'))
     ELSE hw' = Enabled(hw) /\ UNCHANGED serial_signals

Send ==
  /\ Op(open \/ net) /\ ~sending /\ StartTransmitter
  /\ UNCHANGED <<params, idle_mode, tty, pc, tmp>>

(* r56_start at the end of set_termios, with or without something to send. *)
StartOutput ==
  /\ Step("termios", "start", "out")
  /\ \/ ~sending /\ hw.tmr.enabled = "no" /\ StartTransmitter
     \/ hw' = Enabled(hw) /\ UNCHANGED <<sending, drop_rts, serial_signals>>
  /\ UNCHANGED <<params, idle_mode, tty, tmp>>

SendDone ==
  /\ sending /\ sending' = FALSE /\ drop_rts' = FALSE
  /\ IF drop_rts THEN SetSignals(serial_signals \ {"RTS"}) ELSE UNCHANGED <<serial_signals, hw>>
  /\ UNCHANGED <<params, idle_mode, tty, pc, tmp, calls>>

-----------------------------------------------------------------------------
Next ==
  \/ Startup \/ Shutdown \/ NetOpen \/ NetClose
  \/ \E c \in NetCodings : NetAttach(c)
  \/ \E l \in NetLines : NetIoctl(l)
  \/ \E p \in Params : SetParams(p)
  \/ \E t \in Termios : SetTermios(t)
  \/ \E c \in Calls : ChangeParams(c) \/ Program(c) \/ StoreSignals(c) \/ ShowSignals(c)
  \/ FetchTermios \/ StartOutput
  \/ \E set, clear \in SUBSET Outputs : set \cap clear = {} /\ Tiocmset(set, clear)
  \/ \E i \in Idles : SetTxIdleUnlocked(i)
  \/ SetTxIdleLocked
  \/ Throttle \/ Unthrottle \/ Send \/ SendDone
  \/ \E on \in BOOLEAN : DtrRts(on) \/ Break(on) \/ RxEnable(on)

Spec == Init /\ [][Next]_vars

-----------------------------------------------------------------------------
(* Properties *)

\* No call is between storing parameters and programming the chip for them.
Settled == (open \/ net) /\ \A c \in Calls : pc[c] \notin {"change", "program"}

(* Programming the chip leaves nothing of earlier settings in it: whatever *)
(* parameters, idle patterns, breaks and loopbacks came before, the        *)
(* registers that matter in the mode are those a chip fresh from reset     *)
(* would get (usc_set_sync_mode, usc_set_async_mode: most registers are    *)
(* written whole, IOCR, PCR, SICR and HCR are read, changed and written).  *)
(* Not so the DCD pin, which stays a sync input when RAW mode ends.        *)
Live(r) ==
  [r EXCEPT !.rsr = IF r.cmr.filter THEN @ ELSE 0,
            !.tc1 = IF r.hcr.brg1 THEN @ ELSE 0,
            !.tsr = IF r.cmr.tx = "monosync" THEN @ ELSE "flags",
            !.iocr.dcd = IF r.cmr.rx = "extsync" THEN @ ELSE "dcd"]
Fresh(r) == LET reset == UscReset(params', r.tcsr_value)
            IN ProgramHw(reset, params', idle_mode, serial_signals, termios.cread, net)
Reprograms == (\E c \in Calls : Program(c)) \/ (net /\ net' /\ params' # params)
NoResidue == [][Reprograms => Live(hw') = Live(Fresh(hw))]_vars

(* In a synchronous mode without loopback the clocks are the ones asked    *)
(* for, however the port was set up before: the divisor of BRG0 is the     *)
(* nearest to clock_speed, that of BRG1 the nearest to the reference of a  *)
(* DPLL in use, for every rate the 16 bits of a time constant reach (the   *)
(* comment of usc_enable_aux_clock: "a more precise time constant"); TxC   *)
(* is driven exactly if its line driver points outwards; and neither RxC   *)
(* as the receive clock nor TxC as the transmit clock is an output.        *)
(*                                                                         *)
(* dox/API:661-671 says otherwise of BRG0: a clock of 14.7456 MHz on every *)
(* board, and a time constant rounded up.  The code divides 20 MHz on a    *)
(* PCI board (route56.h:132), and rounds to the nearest: 9600 gives 2082,  *)
(* where rounding up gives 2083 and the clock of the document 1535.        *)
Nearest(clk, rate, tc) ==
  LET error == clk - (tc + 1) * rate
  IN rate \in (clk \div 65536 + 1) .. clk => 2 * (IF error < 0 THEN -error ELSE error) <= rate
ClocksAsAsked ==
  Settled /\ (Sync(params) \/ net) /\ ~params.loopback =>
    /\ params.clock_speed # 0 => hw.hcr.brg0 /\ Nearest(Xtal, params.clock_speed, hw.tc0)
    /\ hw.cmcr.rx = "RXC_DPLL" \/ hw.cmcr.tx = "TXC_DPLL" =>
         /\ hw.hcr.brg1 /\ hw.hcr.dpll # "off"
         /\ params.clock_speed # 0 => Nearest(Xtal \div hw.hcr.div, params.clock_speed, hw.tc1)
    /\ hw.iocr.txc # "input" <=> hw.pcr.port5 = "low"
    /\ hw.cmcr.rx = "RXC_RXCPIN" => hw.iocr.rxc = "input"
    /\ hw.cmcr.tx = "TXC_TXCPIN" => hw.iocr.txc = "input"

(* The DTR and RTS pins show serial_signals whenever no caller is between  *)
(* changing it and writing it out, although TIOCMSET, set_termios and      *)
(* R56_IOCSPARAMS change it without the lock that the interrupt routines,  *)
(* throttling and dtr_rts change it under (usc_set_serial_signals).        *)
SignalsShown ==
  (open \/ net) /\ (\A c \in Calls : pc[c] \notin {"program", "show"}) =>
    /\ hw.pcr.port7 = IF "RTS" \in serial_signals THEN "low" ELSE "high"
    /\ hw.pcr.port6 = IF "DTR" \in serial_signals THEN "low" ELSE "high"

(* "If non-zero, transmit data is looped back internally to receive data"  *)
(* (API, params.loopback): in a synchronous mode the chip is in loopback   *)
(* exactly when asked to be, it then keeps its data off the TxD pin, and   *)
(* no command, break or dummy frame of usc_loopback_frame changes that     *)
(* (usc_enable_loopback, loopback_bits).                                   *)
LoopbackIsolated ==
  Settled => /\ hw.ccar <=> (Sync(params) \/ net) /\ params.loopback
             /\ hw.loopback_bits = hw.ccar
             /\ IF hw.ccar THEN hw.iocr.txd \in {"high", "tristate"}
                ELSE hw.iocr.txd \in {"data", "low"}

=============================================================================
