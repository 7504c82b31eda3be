------------------------------ MODULE UscRegs ------------------------------
(***************************************************************************)
(* How the driver programs the 16C32 of a PCI adapter: the routines that   *)
(* write its registers for the parameters in info->params, as operators    *)
(* from the registers before to the registers after.                       *)
(*                                                                         *)
(* A register is a record of the fields the code tells apart, each with    *)
(* the name of the setting its bits stand for (z16c32.h); fields that are  *)
(* always written with the same value are left out.  The values the driver *)
(* keeps beside the chip (tcsr_value, loopback_bits, mbre_bit) are fields  *)
(* of the same record.  The FIFOs, the DMA lists and the interrupt enable  *)
(* bits are in the modules of the receive and transmit paths.              *)
(***************************************************************************)
EXTENDS Integers, FiniteSets

CONSTANTS
  Xtal,        \* R56_PCI_XTAL_SPEED
  PreSL1660    \* the chip is an IUSC before SL1660

ASSUME RegsAssumption == Xtal \in Nat \ {0} /\ PreSL1660 \in BOOLEAN

U16(n) == n % 65536

NoFilter == 255

Default == [mode |-> "HDLC", loopback |-> FALSE, interface |-> "RS530",
            flags |-> {"UNDERRUN_ABORT15"}, encoding |-> "NRZI_SPACE", clock_speed |-> 0,
            addr_filter |-> NoFilter, crc_type |-> "16_CCITT", preamble_length |-> 8,
            preamble |-> "none", data_rate |-> 9600, data_bits |-> 8, stop_bits |-> 1,
            parity |-> "none"]

Sync(p) == p.mode \in {"HDLC", "RAW"}

\* The first flag of the list that is set, or the setting without any.
First(p, a, b, c, none) == CASE a \in p.flags -> a [] b \in p.flags /\ a \notin p.flags -> b
                             [] c \in p.flags /\ {a, b} \cap p.flags = {} -> c
                             [] OTHER -> none

-----------------------------------------------------------------------------
(* Commands: CCAR and DCAR are written with the bits the driver remembers. *)
UscRTCmd(r) == [r EXCEPT !.ccar = r.loopback_bits]
UscDmaCmd(r) == [r EXCEPT !.dcar = r.mbre_bit]

(* A transmit command, or unlatching transmit status, writes the rest of   *)
(* TCSR from tcsr_value.                                                   *)
UscTCmd(r) == [r EXCEPT !.tcsr = r.tcsr_value]

StopReceiver(r) == UscRTCmd(UscDmaCmd([r EXCEPT !.rmr.enabled = "no"]))
StopTransmitter(r) == UscRTCmd(UscDmaCmd([UscTCmd(r) EXCEPT !.tmr.enabled = "no"]))
StartReceiver(r, p) ==
  [UscDmaCmd(StopReceiver(r)) EXCEPT
     !.rmr.enabled = IF Sync(p) /\ "AUTO_DCD" \in p.flags THEN "auto_dcd" ELSE "yes",
     !.ccsr = "sync"]

\* Slip: the old setting of the port is not cleared before a signal is raised.
SetSerialSignalsNoClear(r, signals) ==
  [r EXCEPT !.pcr.port7 = IF "RTS" \in signals THEN @ ELSE "high",
            !.pcr.port6 = IF "DTR" \in signals THEN @ ELSE "high"]

(* DTR is port 6 and RTS is port 7, both active low. *)
SetSerialSignals(r, signals) ==
  [r EXCEPT !.pcr.port7 = IF "RTS" \in signals THEN "low" ELSE "high",
            !.pcr.port6 = IF "DTR" \in signals THEN "low" ELSE "high"]

SetInterface(r, p) == [r EXCEPT !.interface = p.interface]

(* A hardware reset clears every register; the driver then sets up the pins *)
(* and forgets what it remembered, save tcsr_value.                        *)
UscReset(p, tcsr_value) ==
  [cmr |-> [tx |-> "async", rx |-> "async", underrun |-> "no", preamble |-> FALSE,
            share_zero |-> FALSE, filter |-> FALSE, stop2 |-> FALSE],
   rsr |-> 0,
   rmr |-> [encoding |-> "NRZ", crc |-> "none", char7 |-> FALSE, parity |-> "none", enabled |-> "no"],
   tmr |-> [encoding |-> "NRZ", crc |-> "none", char7 |-> FALSE, parity |-> "none", enabled |-> "no"],
   ricr |-> "none", ticr |-> "none", tsr |-> "flags",
   tcsr |-> [idle |-> "flags", underwait |-> FALSE],
   cmcr |-> [rx |-> "no", tx |-> "no"],
   hcr |-> [brg0 |-> FALSE, brg1 |-> FALSE, dpll |-> "off", div |-> 32], tc0 |-> 0, tc1 |-> 0,
   iocr |-> [dcd |-> "dcd", txd |-> "data", txc |-> "input", rxc |-> "input"],
   pcr |-> [port7 |-> IF p.interface \in {"RS485_TERM", "RS485_NOTERM"} THEN "complete" ELSE "high",
            port6 |-> "high", port5 |-> "high"],
   ccsr |-> "bypass", sicr |-> {}, mie |-> FALSE, dma |-> "none",
   ccr |-> [length |-> 8, pattern |-> "zeros", blocks |-> FALSE],
   ccar |-> FALSE, dcar |-> FALSE, interface |-> "unpaged",
   tcsr_value |-> tcsr_value, loopback_bits |-> FALSE, mbre_bit |-> FALSE]

-----------------------------------------------------------------------------
(* usc_set_sdlc_mode, one register after the other *)
WriteCmr(r, p) ==
  LET loop == "HDLC_LOOPMODE" \in p.flags
      raw  == ~loop /\ p.mode = "RAW"
      cmr  == [tx |-> CASE loop -> "loop" [] raw -> "monosync" [] OTHER -> "hdlc",
               rx |-> IF raw THEN "extsync" ELSE "hdlc",
               underrun |-> CASE loop -> "UNDERRUN_FLAG"
                              [] raw -> "no"
                              [] OTHER -> First(p, "UNDERRUN_ABORT15", "UNDERRUN_FLAG", "UNDERRUN_CRC", "no"),
               preamble |-> ~loop /\ p.preamble # "none",
               share_zero |-> p.mode = "HDLC" /\ "SHARE_ZERO" \in p.flags,
               filter |-> p.addr_filter # NoFilter, stop2 |-> FALSE]
  IN [r EXCEPT !.cmr = cmr,
               !.iocr.dcd = IF raw THEN "rxsync" ELSE @,
               !.rsr = IF cmr.filter THEN p.addr_filter ELSE @]

SyncFrame(p) == [encoding |-> p.encoding,
                 crc |-> IF p.crc_type \in {"16_CCITT", "32_CCITT"} THEN p.crc_type ELSE "none",
                 char7 |-> FALSE, parity |-> "none", enabled |-> "no"]
WriteRmr(r, p) == [r EXCEPT !.rmr = SyncFrame(p)]
WriteRicr(r) == [r EXCEPT !.ricr = "dma"]
WriteTmr(r, p) == [r EXCEPT !.tmr = SyncFrame(p)]

(* The idle pattern is merged into tcsr_value; in RAW mode it is also what  *)
(* the transmitter sends as sync characters.                               *)
SyncChar(idle) == CASE idle \in {"zeros", "space"} -> "zeros" [] idle \in {"ones", "mark"} -> "ones"
                    [] OTHER -> idle
MapIdle(r, idle) == LET v == [r.tcsr_value EXCEPT !.idle = idle]
                    IN [r EXCEPT !.tcsr_value = v, !.tcsr = v]
SetTxIdle(r, p, idle) ==
  [MapIdle(r, idle) EXCEPT !.tsr = IF p.mode = "RAW" THEN SyncChar(idle) ELSE @]

WriteTicr(r) == [r EXCEPT !.ticr = "dma"]

WriteTcsr(r) == LET v == [idle |-> "flags", underwait |-> ~PreSL1660]
                IN [r EXCEPT !.tcsr_value = v, !.tcsr = v]

(* The clock pins are made outputs first; the ones that supply a clock are *)
(* then made inputs.  Port 5 opens the line driver of TxC.                 *)
WriteCmcr(r, p) ==
  LET rx == First(p, "RXC_DPLL", "RXC_BRG", "RXC_TXCPIN", "RXC_RXCPIN")
      tx == First(p, "TXC_DPLL", "TXC_BRG", "TXC_RXCPIN", "TXC_TXCPIN")
  IN [r EXCEPT !.cmcr = [rx |-> rx, tx |-> tx],
               !.pcr.port5 = IF tx = "TXC_TXCPIN" THEN "high" ELSE "low",
               !.iocr.txc = IF tx = "TXC_TXCPIN" THEN "input" ELSE "clock",
               !.iocr.rxc = IF rx = "RXC_RXCPIN" THEN "input" ELSE "clock"]

\* Slip: the quotient is never rounded up.
TimeConstantTruncated(clk, rate) == U16(clk \div rate - 1)

(* The time constant of a baud rate generator: clk / rate, rounded, less 1. *)
TimeConstant(clk, rate) ==
  U16(IF (clk % rate) * 2 < rate THEN clk \div rate - 1 ELSE clk \div rate)

Dpll(p) == {"RXC_DPLL", "TXC_DPLL"} \cap p.flags # {}
Divisor(p) == CASE "DPLL_DIV16" \in p.flags -> 16
                [] "DPLL_DIV8" \in p.flags /\ "DPLL_DIV16" \notin p.flags -> 8
                [] OTHER -> 32
DpllMode(p) == CASE p.encoding \in {"NRZ", "NRZB", "NRZI_MARK", "NRZI_SPACE"} -> "nrz"
                 [] p.encoding \in {"BIPHASE_MARK", "BIPHASE_SPACE"} -> "biphase"
                 [] OTHER -> "level"

\* Slip: HCR is only written when the DPLL is asked for.
WriteHcrForDpll(r, p) ==
  IF Dpll(p)
    THEN [r EXCEPT !.hcr = [brg0 |-> TRUE, brg1 |-> TRUE, dpll |-> DpllMode(p), div |-> Divisor(p)],
                   !.tc1 = IF p.clock_speed = 0 THEN U16(-1)
                           ELSE TimeConstant(Xtal \div Divisor(p), p.clock_speed)]
    ELSE [r EXCEPT !.hcr.brg0 = TRUE]

(* BRG0 on; with the DPLL in use BRG1 is its reference clock. *)
WriteHcr(r, p) ==
  [r EXCEPT !.hcr = [brg0 |-> TRUE, brg1 |-> Dpll(p),
                     dpll |-> IF Dpll(p) THEN DpllMode(p) ELSE "off",
                     div |-> IF Dpll(p) THEN Divisor(p) ELSE 32],
            !.tc1 = IF ~Dpll(p) THEN @
                    ELSE IF p.clock_speed = 0 THEN U16(-1)
                    ELSE TimeConstant(Xtal \div Divisor(p), p.clock_speed)]

WriteCcsr(r, p) == [r EXCEPT !.ccsr = "sync", !.mie = TRUE,
                             !.sicr = @ \cup {"RCC"} \cup (IF "AUTO_CTS" \in p.flags THEN {"CTS_INACTIVE"} ELSE {})]

(* Bus mastering off, both channels reset, bus mastering on, the modes. *)
WriteDma(r) == [UscDmaCmd([r EXCEPT !.mbre_bit = FALSE, !.dcar = FALSE])
                  EXCEPT !.mbre_bit = TRUE, !.dcar = TRUE, !.dma = "list"]

WriteCcr(r, p) == [r EXCEPT !.ccr = [length |-> p.preamble_length, blocks |-> TRUE,
                                     pattern |-> IF p.preamble = "none" THEN "zeros" ELSE p.preamble]]

SetSdlcMode(r, p, idle) ==
  LET frame  == WriteTmr(WriteRicr(WriteRmr(WriteCmr(r, p), p)), p)
      status == WriteTcsr(UscTCmd(WriteTicr(UscTCmd(SetTxIdle(frame, p, idle)))))
      clocks == WriteCcsr(WriteHcr(WriteCmcr(status, p), p), p)
      dma    == WriteCcr(WriteDma(clocks), p)
  IN SetInterface(StopReceiver(StopTransmitter(dma)), p)

-----------------------------------------------------------------------------
\* Slip: what the driver remembers of CCAR still has the loopback bits.
LoopbackOffForgotten(r) == [r EXCEPT !.iocr.txd = "data", !.ccar = FALSE]

(* Internal loopback, with both clocks from BRG0 and TxD held high outside. *)
LoopbackOn(r, p) ==
  [r EXCEPT !.iocr.txd = "high", !.iocr.rxc = "brg0",
            !.cmcr = [rx |-> "RXC_BRG", tx |-> "TXC_BRG"],
            !.tc0 = IF p.clock_speed = 0 THEN 8 ELSE U16(Xtal \div p.clock_speed - 1),
            !.hcr.brg0 = TRUE, !.loopback_bits = TRUE, !.ccar = TRUE]
LoopbackOff(r) == [r EXCEPT !.iocr.txd = "data", !.loopback_bits = FALSE, !.ccar = FALSE]

EnableAuxClock(r, rate) ==
  IF rate = 0 THEN [r EXCEPT !.hcr.brg0 = FALSE]
  ELSE [r EXCEPT !.tc0 = TimeConstant(Xtal, rate), !.hcr.brg0 = TRUE]

(* A frame of two bytes is looped back by polling, to get rid of stale      *)
(* status; the parameters say HDLC mode meanwhile.                         *)
LoopbackFrame(r, p, idle) ==
  LET hdlc == [p EXCEPT !.mode = "HDLC"]
      on == [LoopbackOn(SetSdlcMode([r EXCEPT !.mie = FALSE], hdlc, idle), hdlc)
               EXCEPT !.tc0 = 0, !.ccr = [length |-> 8, pattern |-> "ones", blocks |-> FALSE],
                      !.rmr.enabled = "yes", !.tmr.enabled = "yes"]
  IN [LoopbackOff(UscTCmd(UscRTCmd(on))) EXCEPT !.mie = TRUE]

SetSyncMode(r, p, idle) ==
  LET s == EnableAuxClock(SetSdlcMode(LoopbackFrame(r, p, idle), p, idle), p.clock_speed)
  IN IF p.loopback THEN LoopbackOn(s, p) ELSE s

EnableAsyncClock(r, rate) ==
  IF rate = 0 THEN [r EXCEPT !.hcr.brg0 = FALSE]
  ELSE [r EXCEPT !.cmcr = [rx |-> "RXC_BRG", tx |-> "TXC_BRG"], !.tc0 = U16(Xtal \div rate - 1),
                 !.hcr.brg0 = TRUE, !.iocr.rxc = "brg0"]

(* Every length but 8 is 7 bits, and bit 6 of RMR and TMR, which z16c32.h   *)
(* calls odd parity, is set for every parity but odd.                      *)
AsyncFrame(p) == [encoding |-> "NRZ", crc |-> "none", char7 |-> p.data_bits # 8,
                  parity |-> CASE p.parity = "none" -> "none" [] p.parity = "odd" -> "even"
                               [] OTHER -> "odd",
                  enabled |-> "no"]

SetAsyncMode(r, p, idle) ==
  LET looped == LoopbackFrame(UscDmaCmd([r EXCEPT !.mie = FALSE, !.interface = "off", !.dcar = FALSE]),
                              p, idle)
      framed == [looped EXCEPT
                   !.cmr = [tx |-> "async", rx |-> "async", underrun |-> "no", preamble |-> FALSE,
                            share_zero |-> FALSE, filter |-> FALSE, stop2 |-> p.stop_bits # 1],
                   !.rmr = AsyncFrame(p), !.tmr = AsyncFrame(p), !.ricr = "int"]
      idled  == [UscTCmd(SetTxIdle(framed, p, idle)) EXCEPT !.ticr = "int"]
  IN SetInterface([EnableAsyncClock(idled, p.data_rate) EXCEPT !.ccsr = "bypass", !.mie = TRUE], p)

(* r56_program_hw, from the registers it finds; net: the port is a network  *)
(* interface, which is synchronous whatever the mode.                      *)
ProgramHw(r, p, idle, signals, cread, net) ==
  LET stopped == StopTransmitter(StopReceiver(r))
      moded == IF Sync(p) \/ net THEN SetSyncMode(stopped, p, idle) ELSE SetAsyncMode(stopped, p, idle)
      set == [SetSerialSignals(moded, signals)
                EXCEPT !.sicr = @ \cup {"CTS_ACTIVE", "CTS_INACTIVE", "DSR", "DCD", "RI"}]
  IN IF cread \/ net THEN StartReceiver(set, p) ELSE set

=============================================================================
