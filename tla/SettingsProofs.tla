--------------------------- MODULE SettingsProofs ---------------------------
(***************************************************************************)
(* Settings.tla for any parameters, termios settings and idle patterns and *)
(* any number of calls: the outputs, the loopback and the clocks of the    *)
(* chip are what was asked for, and nothing is left of earlier settings.   *)
(***************************************************************************)
EXTENDS Settings, TLAPS

\* The registers and what the driver remembers, the fields of two registers that are
\* written in part, and the interrupt sources that are ever armed.
Names == {"cmr", "rsr", "rmr", "tmr", "ricr", "ticr", "tsr", "tcsr", "cmcr", "hcr", "tc0", "tc1",
          "iocr", "pcr", "ccsr", "sicr", "mie", "dma", "ccr", "ccar", "dcar", "interface",
          "tcsr_value", "loopback_bits", "mbre_bit"}
IocrNames == {"dcd", "txd", "txc", "rxc"}
PcrNames == {"port5", "port6", "port7"}
Sources == {"RCC", "CTS_ACTIVE", "CTS_INACTIVE", "DSR", "DCD", "RI"}
USE DEF Names, IocrNames, PcrNames, Sources

\* A register file that has the registers spoken of here, and in which the command
\* register has the loopback bits that the driver remembers.
Formed(r) ==
  /\ DOMAIN r = Names /\ DOMAIN r.iocr = IocrNames /\ DOMAIN r.pcr = PcrNames
  /\ r.sicr \subseteq Sources
  /\ {"brg0", "brg1", "dpll", "div"} \subseteq DOMAIN r.hcr
  /\ r.ccar = r.loopback_bits

\* q has the outputs, the TxD pin and the loopback of r; it has the clocks of r, too.
Outside(r) == <<r.pcr.port6, r.pcr.port7, r.iocr.txd, r.ccar>>
Timing(r) == <<r.cmcr, r.hcr, r.tc0, r.tc1, r.iocr.txc, r.iocr.rxc, r.pcr.port5>>
Alike(q, r) == Formed(q) /\ Outside(q) = Outside(r)
Same(q, r) == Alike(q, r) /\ Timing(q) = Timing(r)

-----------------------------------------------------------------------------
(* The register operations.                                                *)

\* Commands and mode registers touch neither outputs nor loopback nor clocks.
LEMMA SameWrites ==
  ASSUME NEW r, Formed(r), NEW p, NEW idle
  PROVE  /\ Same(UscRTCmd(r), r) /\ Same(UscDmaCmd(r), r) /\ Same(UscTCmd(r), r)
         /\ Same(SetInterface(r, p), r)
         /\ Same(WriteRmr(r, p), r) /\ Same(WriteRicr(r), r) /\ Same(WriteTmr(r, p), r)
         /\ Same(MapIdle(r, idle), r) /\ Same(WriteTicr(r), r)
         /\ Same(WriteTcsr(r), r)
         /\ Same(WriteCcr(r, p), r)
<1> USE DEF Same, Alike, Formed, Outside, Timing
<1>1. Same(UscRTCmd(r), r)
  BY DEF UscRTCmd
<1>2. Same(UscDmaCmd(r), r)
  BY DEF UscDmaCmd
<1>3. Same(UscTCmd(r), r)
  BY DEF UscTCmd
<1>4. Same(SetInterface(r, p), r)
  BY DEF SetInterface
<1>5. Same(WriteRmr(r, p), r)
  BY DEF WriteRmr
<1>6. Same(WriteRicr(r), r)
  BY DEF WriteRicr
<1>7. Same(WriteTmr(r, p), r)
  BY DEF WriteTmr
<1>8. Same(MapIdle(r, idle), r)
  BY DEF MapIdle
<1>9. Same(WriteTicr(r), r)
  BY DEF WriteTicr
<1>10. Same(WriteTcsr(r), r)
  BY DEF WriteTcsr
<1>11. Same(WriteCcr(r, p), r)
  BY DEF WriteCcr
<1> QED
  BY <1>1, <1>2, <1>3, <1>4, <1>5, <1>6, <1>7, <1>8, <1>9, <1>10, <1>11

\* Nor do stopping and starting the receiver,
LEMMA SameReceiver ==
  ASSUME NEW r, Formed(r), NEW p
  PROVE  Same(StopReceiver(r), r) /\ Same(StartReceiver(r, p), r)
<1> DEFINE a == [r EXCEPT !.rmr.enabled = "no"]
<1>1. Same(a, r)
  BY DEF Same, Alike, Formed, Outside, Timing
<1>2. Same(UscDmaCmd(a), r)
  <2> HIDE DEF a
  <2> QED BY <1>1, SameWrites DEF Same, Alike
<1>3. Same(StopReceiver(r), r)
  <2> DEFINE b == UscDmaCmd(a)
  <2>1. StopReceiver(r) = UscRTCmd(b)
    BY DEF StopReceiver
  <2> HIDE DEF b
  <2> QED BY <1>2, <2>1, SameWrites DEF Same, Alike, b
<1>4. Same(StartReceiver(r, p), r)
  <2> DEFINE b == StopReceiver(r)
             d == UscDmaCmd(b)
  <2> HIDE DEF b
  <2>1. Same(d, r)
    BY <1>3, SameWrites DEF Same, Alike, b
  <2>2. StartReceiver(r, p)
          = [d EXCEPT !.rmr.enabled = IF Sync(p) /\ "AUTO_DCD" \in p.flags THEN "auto_dcd" ELSE "yes",
                      !.ccsr = "sync"]
    BY DEF StartReceiver, b
  <2> HIDE DEF d
  <2> QED BY <2>1, <2>2, ZenonT(60) DEF Same, Alike, Formed, Outside, Timing
<1> QED BY <1>3, <1>4

\* stopping the transmitter,
LEMMA SameTransmitter ==
  ASSUME NEW r, Formed(r)
  PROVE  Same(StopTransmitter(r), r)
<1> DEFINE a == UscTCmd(r)
           b == [a EXCEPT !.tmr.enabled = "no"]
           d == UscDmaCmd(b)
<1>1. StopTransmitter(r) = UscRTCmd(d)
  BY DEF StopTransmitter
<1>2. Same(a, r)
  BY SameWrites
<1> HIDE DEF a
<1>3. Same(b, r)
  BY <1>2 DEF Same, Alike, Formed, Outside, Timing
<1> HIDE DEF b
<1>4. Same(d, r)
  BY <1>3, SameWrites DEF Same, Alike
<1> HIDE DEF d
<1> QED BY <1>1, <1>4, SameWrites DEF Same, Alike

\* and CMR, the idle pattern and the DMA registers; CMCR and HCR change the
\* clocks alone.
LEMMA SameModes ==
  ASSUME NEW r, Formed(r), NEW p, NEW idle
  PROVE  /\ Same(WriteCmr(r, p), r) /\ Same(SetTxIdle(r, p, idle), r)
         /\ Alike(WriteCmcr(r, p), r) /\ Alike(WriteHcr(r, p), r) /\ Same(WriteCcsr(r, p), r)
         /\ Same(WriteDma(r), r)
<1> USE DEF Same, Alike, Formed, Outside, Timing
<1>1. Same(WriteCmr(r, p), r)
  BY DEF WriteCmr
<1>2. Same(SetTxIdle(r, p, idle), r)
  <2> DEFINE a == MapIdle(r, idle)
  <2>1. Same(a, r)
    BY SameWrites
  <2> DEFINE v == IF p.mode = "RAW" THEN SyncChar(idle) ELSE a.tsr
  <2>2. SetTxIdle(r, p, idle) = [a EXCEPT !.tsr = v]
    BY DEF SetTxIdle
  <2> HIDE DEF a, v
  <2> QED BY <2>1, <2>2, ZenonT(60)
<1>3. Alike(WriteCmcr(r, p), r)
  BY DEF WriteCmcr
<1>4. Alike(WriteHcr(r, p), r)
  BY DEF WriteHcr
<1>5. Same(WriteCcsr(r, p), r)
  BY DEF WriteCcsr
<1>6. Same(WriteDma(r), r)
  <2> DEFINE a == [r EXCEPT !.mbre_bit = FALSE, !.dcar = FALSE]
             b == UscDmaCmd(a)
  <2>1. Same(a, r)
    OBVIOUS
  <2> HIDE DEF a
  <2>2. Same(b, r)
    <3> HIDE DEF Formed, Outside, Timing
    <3> QED BY <2>1, SameWrites
  <2>3. WriteDma(r) = [b EXCEPT !.mbre_bit = TRUE, !.dcar = TRUE, !.dma = "list"]
    BY DEF WriteDma, a
  <2> HIDE DEF b
  <2> QED BY <2>2, <2>3, ZenonT(60)
<1> QED BY <1>1, <1>2, <1>3, <1>4, <1>5, <1>6

\* A quotient q with remainder m fits into a time constant for a rate in its reach.
LEMMA Reach ==
  ASSUME NEW clk \in Nat, NEW rate \in Nat, NEW q \in Nat, NEW m \in Nat,
         m < rate, clk = q * rate + m, rate <= clk, clk < 65536 * rate
  PROVE  1 <= q /\ q <= 65535
<1>1. q # 0
  <2> SUFFICES ASSUME q = 0 PROVE FALSE
    OBVIOUS
  <2>1. clk = m
    OBVIOUS
  <2> QED BY <2>1
<1>2. ASSUME q >= 65536 PROVE FALSE
  <2>1. q * rate >= 65536 * rate
    BY <1>2
  <2> QED BY <2>1
<1> QED BY <1>1, <1>2

\* The rounded quotient is the nearest.
LEMMA Rounding ==
  ASSUME NEW clk \in Nat, NEW rate \in Nat, NEW q \in Nat, NEW m \in Nat,
         m < rate, clk = q * rate + m, NEW tc \in Nat,
         tc = IF m * 2 < rate THEN q - 1 ELSE q
  PROVE  LET error == clk - (tc + 1) * rate
         IN 2 * (IF error < 0 THEN -error ELSE error) <= rate
<1>1. q * rate \in Nat
  OBVIOUS
<1>2. CASE m * 2 < rate
  <2>1. (tc + 1) * rate = q * rate
    BY <1>2
  <2>2. clk - (tc + 1) * rate = m
    BY <1>1, <2>1
  <2> QED BY <1>2, <2>2
<1>3. CASE ~(m * 2 < rate)
  <2>1. (tc + 1) * rate = q * rate + rate
    BY <1>3
  <2>2. clk - (tc + 1) * rate = m - rate
    BY <1>1, <2>1
  <2> QED BY <1>3, <2>2
<1> QED BY <1>2, <1>3

\* usc_enable_aux_clock rounds to the nearest divisor, for every crystal and
\* every speed that sixteen bits reach.
LEMMA NearestDivisor ==
  ASSUME NEW clk \in Nat, NEW rate \in Nat
  PROVE  Nearest(clk, rate, TimeConstant(clk, rate))
<1> SUFFICES ASSUME rate \in (clk \div 65536 + 1) .. clk
             PROVE  LET error == clk - (TimeConstant(clk, rate) + 1) * rate
                    IN 2 * (IF error < 0 THEN -error ELSE error) <= rate
  BY DEF Nearest
<1>1. rate \in Nat /\ rate > 0 /\ rate <= clk /\ clk < 65536 * rate
  OBVIOUS
<1> DEFINE q == clk \div rate
           m == clk % rate
           tc == TimeConstant(clk, rate)
<1>2. q \in Int /\ q >= 0
  BY <1>1
<1>3. m \in Int /\ m >= 0
  BY <1>1
<1>4. m < rate
  BY <1>1
<1>5. clk = q * rate + m
  BY <1>1
<1>6. tc = U16(IF m * 2 < rate THEN q - 1 ELSE q)
  BY DEF TimeConstant
<1> HIDE DEF q, m, tc
<1>7. 1 <= q /\ q <= 65535
  BY <1>1, <1>2, <1>3, <1>4, <1>5, Reach
<1>8. tc = IF m * 2 < rate THEN q - 1 ELSE q
  <2> DEFINE n == IF m * 2 < rate THEN q - 1 ELSE q
  <2>1. n \in Nat /\ n <= 65535
    BY <1>2, <1>7
  <2>2. tc = U16(n)
    BY <1>6
  <2> HIDE DEF n
  <2>3. tc = n
    BY <2>1, <2>2 DEF U16
  <2> QED BY <2>3 DEF n
<1>9. tc \in Nat
  BY <1>2, <1>7, <1>8
<1>10. LET error == clk - (tc + 1) * rate
       IN 2 * (IF error < 0 THEN -error ELSE error) <= rate
  BY <1>1, <1>2, <1>3, <1>4, <1>5, <1>8, <1>9, Rounding
<1> QED BY <1>10 DEF tc

\* The clocks are as p asks, but for BRG0.
Sourced(r, p) ==
  /\ r.cmcr.rx = "RXC_DPLL" \/ r.cmcr.tx = "TXC_DPLL" =>
       /\ r.hcr.brg1 /\ r.hcr.dpll # "off"
       /\ p.clock_speed # 0 => Nearest(Xtal \div r.hcr.div, p.clock_speed, r.tc1)
  /\ r.iocr.txc # "input" <=> r.pcr.port5 = "low"
  /\ r.cmcr.rx = "RXC_RXCPIN" => r.iocr.rxc = "input"
  /\ r.cmcr.tx = "TXC_TXCPIN" => r.iocr.txc = "input"

\* WriteCmcr and WriteHcr.
LEMMA ClocksSourced ==
  ASSUME NEW r, Formed(r), NEW p, p.clock_speed \in Nat
  PROVE  Sourced(WriteHcr(WriteCmcr(r, p), p), p)
<1> DEFINE rx == First(p, "RXC_DPLL", "RXC_BRG", "RXC_TXCPIN", "RXC_RXCPIN")
           tx == First(p, "TXC_DPLL", "TXC_BRG", "TXC_RXCPIN", "TXC_TXCPIN")
           a == WriteCmcr(r, p)
           b == WriteHcr(a, p)
<1>1. rx = "RXC_DPLL" \/ tx = "TXC_DPLL" => Dpll(p)
  <2>1. rx = "RXC_DPLL" => "RXC_DPLL" \in p.flags
    BY DEF First
  <2>2. tx = "TXC_DPLL" => "TXC_DPLL" \in p.flags
    BY DEF First
  <2> QED BY <2>1, <2>2 DEF Dpll
<1> HIDE DEF rx, tx
<1>2. /\ Formed(a) /\ a.cmcr = [rx |-> rx, tx |-> tx]
      /\ a.pcr.port5 = IF tx = "TXC_TXCPIN" THEN "high" ELSE "low"
      /\ a.iocr.txc = IF tx = "TXC_TXCPIN" THEN "input" ELSE "clock"
      /\ a.iocr.rxc = IF rx = "RXC_RXCPIN" THEN "input" ELSE "clock"
  BY DEF WriteCmcr, Formed, rx, tx
<1> HIDE DEF a
<1>3. b.cmcr = a.cmcr /\ b.pcr = a.pcr /\ b.iocr = a.iocr
  BY <1>2 DEF WriteHcr, Formed
<1>4. ASSUME Dpll(p)
      PROVE  /\ b.hcr.brg1 = TRUE /\ b.hcr.dpll = DpllMode(p) /\ b.hcr.div = Divisor(p)
             /\ b.tc1 = IF p.clock_speed = 0 THEN U16(-1)
                        ELSE TimeConstant(Xtal \div Divisor(p), p.clock_speed)
  BY <1>2, <1>4 DEF WriteHcr, Formed
<1> HIDE DEF b
<1>5. DpllMode(p) # "off"
  BY DEF DpllMode
<1>6. Divisor(p) \in {8, 16, 32}
  BY DEF Divisor
<1>7. Xtal \div Divisor(p) \in Nat
  BY <1>6, RegsAssumption
<1>8. ASSUME Dpll(p), p.clock_speed # 0
      PROVE  Nearest(Xtal \div b.hcr.div, p.clock_speed, b.tc1)
  <2>1. Nearest(Xtal \div Divisor(p), p.clock_speed, TimeConstant(Xtal \div Divisor(p), p.clock_speed))
    BY <1>7, NearestDivisor
  <2>2. b.hcr.div = Divisor(p) /\ b.tc1 = TimeConstant(Xtal \div Divisor(p), p.clock_speed)
    BY <1>4, <1>8
  <2> QED BY <2>1, <2>2, Zenon
<1>9. b.cmcr.rx = rx /\ b.cmcr.tx = tx
  BY <1>2, <1>3
<1>10. b.cmcr.rx = "RXC_DPLL" \/ b.cmcr.tx = "TXC_DPLL" =>
       /\ b.hcr.brg1 /\ b.hcr.dpll # "off"
       /\ p.clock_speed # 0 => Nearest(Xtal \div b.hcr.div, p.clock_speed, b.tc1)
  BY <1>1, <1>4, <1>5, <1>8, <1>9, Zenon
<1>11. /\ b.iocr.txc # "input" <=> b.pcr.port5 = "low"
       /\ b.cmcr.rx = "RXC_RXCPIN" => b.iocr.rxc = "input"
       /\ b.cmcr.tx = "TXC_TXCPIN" => b.iocr.txc = "input"
  BY <1>2, <1>3, <1>9
<1>12. Sourced(b, p)
  BY <1>10, <1>11, Zenon DEF Sourced
<1> QED BY <1>12 DEF a, b

\* Sourced and Clocked speak of the clock registers alone.
LEMMA SourcedKept ==
  ASSUME NEW q, NEW r, Timing(q) = Timing(r), NEW p, Sourced(r, p)
  PROVE  Sourced(q, p)
<1>1. /\ q.cmcr = r.cmcr /\ q.hcr = r.hcr /\ q.tc1 = r.tc1
      /\ q.iocr.txc = r.iocr.txc /\ q.iocr.rxc = r.iocr.rxc /\ q.pcr.port5 = r.pcr.port5
  BY DEF Timing
<1> QED BY <1>1, Zenon DEF Sourced

\* The clocks are as p asks.
Clocked(r, p) ==
  /\ p.clock_speed # 0 => r.hcr.brg0 /\ Nearest(Xtal, p.clock_speed, r.tc0)
  /\ Sourced(r, p)

\* (The same for Clocked.)
LEMMA ClockedKept ==
  ASSUME NEW q, NEW r, Timing(q) = Timing(r), NEW p, Clocked(r, p)
  PROVE  Clocked(q, p)
<1>1. q.hcr = r.hcr /\ q.tc0 = r.tc0
  BY DEF Timing
<1>2. Sourced(q, p)
  BY SourcedKept DEF Clocked
<1> QED BY <1>1, <1>2, Zenon DEF Clocked

\* usc_enable_aux_clock completes the clocks of a synchronous mode.
LEMMA AuxClock ==
  ASSUME NEW r, Formed(r), NEW p, p.clock_speed \in Nat, Sourced(r, p)
  PROVE  Clocked(EnableAuxClock(r, p.clock_speed), p)
<1> DEFINE a == EnableAuxClock(r, p.clock_speed)
<1>1. /\ a.cmcr = r.cmcr /\ a.iocr = r.iocr /\ a.pcr = r.pcr /\ a.tc1 = r.tc1
      /\ a.hcr.brg1 = r.hcr.brg1 /\ a.hcr.dpll = r.hcr.dpll /\ a.hcr.div = r.hcr.div
  BY DEF EnableAuxClock, Formed
<1>2. p.clock_speed # 0 => a.hcr.brg0 = TRUE /\ a.tc0 = TimeConstant(Xtal, p.clock_speed)
  BY DEF EnableAuxClock, Formed
<1> HIDE DEF a
<1>3. Sourced(a, p)
  BY <1>1, Zenon DEF Sourced
<1>4. Nearest(Xtal, p.clock_speed, TimeConstant(Xtal, p.clock_speed))
  BY NearestDivisor, RegsAssumption
<1>5. Clocked(a, p)
  BY <1>2, <1>3, <1>4, Zenon DEF Clocked
<1> QED BY <1>5 DEF a

\* usc_set_sdlc_mode leaves the outputs, the TxD pin and the loopback alone, and sets the
\* clocks.
LEMMA SdlcMode ==
  ASSUME NEW r, Formed(r), NEW p, NEW idle
  PROVE  /\ Alike(SetSdlcMode(r, p, idle), r)
         /\ p.clock_speed \in Nat => Sourced(SetSdlcMode(r, p, idle), p)
<1> DEFINE a == WriteCmr(r, p)
           b == WriteRmr(a, p)
           c == WriteRicr(b)
           d == WriteTmr(c, p)
           e == SetTxIdle(d, p, idle)
           f == UscTCmd(e)
           g == WriteTicr(f)
           h == UscTCmd(g)
           i == WriteTcsr(h)
           j == WriteCmcr(i, p)
           k == WriteHcr(j, p)
           l == WriteCcsr(k, p)
           m == WriteDma(l)
           n == WriteCcr(m, p)
           o == StopTransmitter(n)
           q == StopReceiver(o)
<1>0. SetSdlcMode(r, p, idle) = SetInterface(q, p)
  BY DEF SetSdlcMode
<1>1. Same(a, r)
  BY SameModes
<1> HIDE DEF a
<1>2. Same(b, a)
  BY <1>1, SameWrites DEF Same, Alike
<1> HIDE DEF b
<1>3. Same(c, b)
  BY <1>2, SameWrites DEF Same, Alike
<1> HIDE DEF c
<1>4. Same(d, c)
  BY <1>3, SameWrites DEF Same, Alike
<1> HIDE DEF d
<1>5. Same(e, d)
  BY <1>4, SameModes DEF Same, Alike
<1> HIDE DEF e
<1>6. Same(f, e)
  BY <1>5, SameWrites DEF Same, Alike
<1> HIDE DEF f
<1>7. Same(g, f)
  BY <1>6, SameWrites DEF Same, Alike
<1> HIDE DEF g
<1>8. Same(h, g)
  BY <1>7, SameWrites DEF Same, Alike
<1> HIDE DEF h
<1>9. Same(i, h)
  BY <1>8, SameWrites DEF Same, Alike
<1> HIDE DEF i
<1>s. p.clock_speed \in Nat => Sourced(k, p)
  BY <1>9, ClocksSourced DEF Same, Alike
<1>10. Alike(j, i)
  BY <1>9, SameModes DEF Same, Alike
<1> HIDE DEF j
<1>11. Alike(k, j)
  BY <1>10, SameModes DEF Same, Alike
<1> HIDE DEF k
<1>12. Same(l, k)
  BY <1>11, SameModes DEF Same, Alike
<1> HIDE DEF l
<1>13. Same(m, l)
  BY <1>12, SameModes DEF Same, Alike
<1> HIDE DEF m
<1>14. Same(n, m)
  BY <1>13, SameWrites DEF Same, Alike
<1> HIDE DEF n
<1>15. Same(o, n)
  BY <1>14, SameTransmitter DEF Same, Alike
<1> HIDE DEF o
<1>16. Same(q, o)
  BY <1>15, SameReceiver DEF Same, Alike
<1> HIDE DEF q
<1>17. Same(SetInterface(q, p), q)
  BY <1>16, SameWrites DEF Same, Alike
<1>18. Alike(SetInterface(q, p), r)
  BY <1>1, <1>2, <1>3, <1>4, <1>5, <1>6, <1>7, <1>8, <1>9, <1>10, <1>11, <1>12, <1>13,
     <1>14, <1>15, <1>16, <1>17 DEF Same, Alike
<1>19. Timing(SetInterface(q, p)) = Timing(k)
  BY <1>12, <1>13, <1>14, <1>15, <1>16, <1>17 DEF Same
<1>20. p.clock_speed \in Nat => Sourced(SetInterface(q, p), p)
  BY <1>s, <1>19, SourcedKept
<1> QED BY <1>0, <1>18, <1>20

\* The chip in loopback or not, the outputs as in r.
Lines(r) == <<r.pcr.port6, r.pcr.port7>>
Looped(q, r, on) ==
  /\ Formed(q) /\ Lines(q) = Lines(r)
  /\ q.ccar = on
  /\ q.iocr.txd = IF on THEN "high" ELSE "data"

\* usc_enable_loopback leaves the chip as told.
LEMMA LoopbackSwitch ==
  ASSUME NEW r, Formed(r), NEW p
  PROVE  Looped(LoopbackOn(r, p), r, TRUE) /\ Looped(LoopbackOff(r), r, FALSE)
<1>1. Looped(LoopbackOn(r, p), r, TRUE)
  BY DEF LoopbackOn, Looped, Lines, Formed
<1>2. Looped(LoopbackOff(r), r, FALSE)
  BY DEF LoopbackOff, Looped, Lines, Formed
<1> QED BY <1>1, <1>2

\* usc_loopback_frame ends outside loopback.
LEMMA FrameLoopedBack ==
  ASSUME NEW r, Formed(r), NEW p, NEW idle
  PROVE  Looped(LoopbackFrame(r, p, idle), r, FALSE)
<1> DEFINE hdlc == [p EXCEPT !.mode = "HDLC"]
           a == [r EXCEPT !.mie = FALSE]
           b == SetSdlcMode(a, hdlc, idle)
           c == LoopbackOn(b, hdlc)
           d == [c EXCEPT !.tc0 = 0, !.ccr = [length |-> 8, pattern |-> "ones", blocks |-> FALSE],
                          !.rmr.enabled = "yes", !.tmr.enabled = "yes"]
           e == UscRTCmd(d)
           f == UscTCmd(e)
           g == LoopbackOff(f)
<1>0. LoopbackFrame(r, p, idle) = [g EXCEPT !.mie = TRUE]
  BY DEF LoopbackFrame
<1> HIDE DEF hdlc
<1>1. Same(a, r)
  BY DEF Same, Alike, Formed, Outside, Timing
<1> HIDE DEF a
<1>2. Alike(b, a)
  BY <1>1, SdlcMode DEF Same, Alike
<1> HIDE DEF b
<1>3. Formed(c) /\ Lines(c) = Lines(b)
  BY <1>2, LoopbackSwitch DEF Same, Alike, Looped
<1> HIDE DEF c
<1>4. Formed(d) /\ Lines(d) = Lines(c)
  BY <1>3 DEF Formed, Lines
<1> HIDE DEF d
<1>5. Same(e, d)
  BY <1>4, SameWrites
<1> HIDE DEF e
<1>6. Same(f, e)
  BY <1>5, SameWrites DEF Same, Alike
<1> HIDE DEF f
<1>7. Looped(g, f, FALSE)
  BY <1>6, LoopbackSwitch DEF Same, Alike
<1> HIDE DEF g
<1>8. Looped([g EXCEPT !.mie = TRUE], g, FALSE)
  BY <1>7 DEF Looped, Formed, Lines
<1>9. Lines(g) = Lines(r)
  BY <1>1, <1>2, <1>3, <1>4, <1>5, <1>6, <1>7 DEF Same, Alike, Outside, Lines, Looped
<1> QED BY <1>0, <1>8, <1>9 DEF Looped

\* usc_set_sync_mode: loopback and clocks are those of the parameters, whatever
\* the chip was in before.
LEMMA SyncMode ==
  ASSUME NEW r, Formed(r), NEW p, NEW idle
  PROVE  /\ p.loopback => Looped(SetSyncMode(r, p, idle), r, TRUE)
         /\ ~p.loopback => Looped(SetSyncMode(r, p, idle), r, FALSE)
         /\ ~p.loopback /\ p.clock_speed \in Nat => Clocked(SetSyncMode(r, p, idle), p)
<1> DEFINE a == LoopbackFrame(r, p, idle)
           b == SetSdlcMode(a, p, idle)
           c == EnableAuxClock(b, p.clock_speed)
<1>0. SetSyncMode(r, p, idle) = IF p.loopback THEN LoopbackOn(c, p) ELSE c
  BY DEF SetSyncMode
<1>1. Looped(a, r, FALSE)
  BY FrameLoopedBack
<1> HIDE DEF a
<1>2. Alike(b, a) /\ (p.clock_speed \in Nat => Sourced(b, p))
  BY <1>1, SdlcMode DEF Looped
<1> HIDE DEF b
<1>c. p.clock_speed \in Nat => Clocked(c, p)
  BY <1>2, AuxClock DEF Alike
<1>3. Alike(c, b)
  BY <1>2 DEF EnableAuxClock, Alike, Formed, Outside
<1> HIDE DEF c
<1>4. Looped(c, r, FALSE)
  BY <1>1, <1>2, <1>3 DEF Looped, Same, Alike, Outside, Lines
<1>5. Looped(LoopbackOn(c, p), r, TRUE)
  BY <1>3, <1>4, LoopbackSwitch DEF Looped, Same, Alike
<1> QED BY <1>0, <1>4, <1>5, <1>c

\* usc_set_async_mode ends outside loopback.
LEMMA AsyncMode ==
  ASSUME NEW r, Formed(r), NEW p, NEW idle
  PROVE  Looped(SetAsyncMode(r, p, idle), r, FALSE)
<1> DEFINE a == [r EXCEPT !.mie = FALSE, !.interface = "off", !.dcar = FALSE]
           b == UscDmaCmd(a)
           c == LoopbackFrame(b, p, idle)
           cmr == [tx |-> "async", rx |-> "async", underrun |-> "no", preamble |-> FALSE,
                   share_zero |-> FALSE, filter |-> FALSE, stop2 |-> p.stop_bits # 1]
           d == [c EXCEPT !.cmr = cmr, !.rmr = AsyncFrame(p), !.tmr = AsyncFrame(p), !.ricr = "int"]
           e == SetTxIdle(d, p, idle)
           f == UscTCmd(e)
           g == [f EXCEPT !.ticr = "int"]
           h == EnableAsyncClock(g, p.data_rate)
           i == [h EXCEPT !.ccsr = "bypass", !.mie = TRUE]
<1>0. SetAsyncMode(r, p, idle) = SetInterface(i, p)
  BY DEF SetAsyncMode
<1>1. Same(a, r)
  BY DEF Same, Alike, Formed, Outside, Timing
<1> HIDE DEF a
<1>2. Same(b, a)
  BY <1>1, SameWrites DEF Same, Alike
<1> HIDE DEF b
<1>3. Looped(c, b, FALSE)
  BY <1>2, FrameLoopedBack DEF Same, Alike
<1> HIDE DEF c, cmr
<1>4. Same(d, c)
  BY <1>3 DEF Looped, Same, Alike, Formed, Outside, Timing
<1> HIDE DEF d
<1>5. Same(e, d)
  BY <1>4, SameModes DEF Same, Alike
<1> HIDE DEF e
<1>6. Same(f, e)
  BY <1>5, SameWrites DEF Same, Alike
<1> HIDE DEF f
<1>7. Same(g, f)
  BY <1>6 DEF Same, Alike, Formed, Outside, Timing
<1> HIDE DEF g
<1>8. Alike(h, g)
  BY <1>7 DEF EnableAsyncClock, Same, Alike, Formed, Outside
<1> HIDE DEF h
<1>9. Same(i, h)
  BY <1>8 DEF Same, Alike, Formed, Outside, Timing
<1> HIDE DEF i
<1>10. Same(SetInterface(i, p), i)
  BY <1>9, SameWrites DEF Same, Alike
<1>11. Outside(SetInterface(i, p)) = Outside(c)
  BY <1>4, <1>5, <1>6, <1>7, <1>8, <1>9, <1>10 DEF Same, Alike
<1> QED
  BY <1>0, <1>1, <1>2, <1>3, <1>10, <1>11 DEF Same, Alike, Looped, Outside, Lines

\* The pins show the signals.
Shown(r, signals) ==
  /\ r.pcr.port7 = IF "RTS" \in signals THEN "low" ELSE "high"
  /\ r.pcr.port6 = IF "DTR" \in signals THEN "low" ELSE "high"

\* usc_set_serial_signals writes both pins and nothing else that matters here.
LEMMA SignalsWritten ==
  ASSUME NEW r, Formed(r), NEW signals
  PROVE  /\ Formed(SetSerialSignals(r, signals)) /\ Shown(SetSerialSignals(r, signals), signals)
         /\ SetSerialSignals(r, signals).ccar = r.ccar
         /\ SetSerialSignals(r, signals).iocr = r.iocr
         /\ Timing(SetSerialSignals(r, signals)) = Timing(r)
BY DEF SetSerialSignals, Shown, Formed, Timing

\* Programming the chip: the outputs are the signals, and the chip is in loopback exactly
\* in a synchronous mode with loopback.
Loopback(p, n) == (Sync(p) \/ n) /\ p.loopback
ProgrammedFor(h, p, signals, n) ==
  /\ Formed(h) /\ Shown(h, signals)
  /\ Loopback(p, n) => h.ccar = TRUE /\ h.iocr.txd = "high"
  /\ ~Loopback(p, n) => h.ccar = FALSE /\ h.iocr.txd = "data"
  /\ (Sync(p) \/ n) /\ ~p.loopback => Clocked(h, p)

\* r56_program_hw establishes what the invariant says of the parameters it is
\* given.
LEMMA Programmed ==
  ASSUME NEW r, Formed(r), NEW p, p.clock_speed \in Nat,
         NEW idle, NEW signals, NEW cread, NEW n
  PROVE  ProgrammedFor(ProgramHw(r, p, idle, signals, cread, n), p, signals, n)
<1> DEFINE loopback == Loopback(p, n)
           clocks == (Sync(p) \/ n) /\ ~p.loopback
           a == StopReceiver(r)
           b == StopTransmitter(a)
           c == IF Sync(p) \/ n THEN SetSyncMode(b, p, idle) ELSE SetAsyncMode(b, p, idle)
           d == SetSerialSignals(c, signals)
           e == [d EXCEPT !.sicr = @ \cup {"CTS_ACTIVE", "CTS_INACTIVE", "DSR", "DCD", "RI"}]
           f == StartReceiver(e, p)
<1>0. ProgramHw(r, p, idle, signals, cread, n) = IF cread \/ n THEN f ELSE e
  BY DEF ProgramHw
<1>1. Formed(a)
  BY SameReceiver DEF Same, Alike
<1> HIDE DEF a
<1>2. Formed(b)
  BY <1>1, SameTransmitter DEF Same, Alike
<1> HIDE DEF b
<1>3. /\ Formed(c)
      /\ loopback => c.ccar = TRUE /\ c.iocr.txd = "high"
      /\ ~loopback => c.ccar = FALSE /\ c.iocr.txd = "data"
      /\ clocks => Clocked(c, p)
  <2>1. CASE Sync(p) \/ n
    <3> DEFINE s == SetSyncMode(b, p, idle)
    <3>1. c = s
      BY <2>1
    <3>2. /\ p.loopback => Looped(s, b, TRUE)
          /\ ~p.loopback => Looped(s, b, FALSE) /\ Clocked(s, p)
      BY <1>2, SyncMode
    <3>3. (loopback <=> p.loopback) /\ (clocks <=> ~p.loopback)
      BY <2>1 DEF Loopback
    <3> HIDE DEF s, c, loopback, clocks
    <3> QED BY <3>1, <3>2, <3>3 DEF Looped
  <2>2. CASE ~(Sync(p) \/ n)
    <3> DEFINE s == SetAsyncMode(b, p, idle)
    <3>1. c = s
      BY <2>2
    <3>2. Looped(s, b, FALSE)
      BY <1>2, AsyncMode
    <3>3. ~loopback /\ ~clocks
      BY <2>2 DEF Loopback
    <3> HIDE DEF s, c, loopback, clocks
    <3> QED BY <3>1, <3>2, <3>3 DEF Looped
  <2> QED BY <2>1, <2>2
<1> HIDE DEF c
<1>4. /\ Formed(d) /\ Shown(d, signals) /\ d.ccar = c.ccar /\ d.iocr = c.iocr
      /\ Timing(d) = Timing(c)
  BY <1>3, SignalsWritten
<1> HIDE DEF d
<1>5. Same(e, d)
  BY <1>4 DEF Same, Alike, Formed, Outside, Timing
<1> HIDE DEF e
<1>6. Same(f, e)
  BY <1>5, SameReceiver DEF Same, Alike
<1> HIDE DEF f
<1> DEFINE h == IF cread \/ n THEN f ELSE e
<1>7. Formed(h) /\ Outside(h) = Outside(d) /\ Timing(h) = Timing(d)
  BY <1>5, <1>6 DEF Same, Alike
<1> HIDE DEF h
<1>8. Shown(h, signals)
  BY <1>4, <1>7 DEF Shown, Outside
<1>9. h.ccar = c.ccar /\ h.iocr.txd = c.iocr.txd
  BY <1>4, <1>7 DEF Outside
<1> HIDE DEF loopback, clocks
<1>c. clocks => Clocked(h, p)
  BY <1>3, <1>4, <1>7, ClockedKept
<1>10. /\ Formed(h) /\ Shown(h, signals)
       /\ loopback => h.ccar = TRUE /\ h.iocr.txd = "high"
       /\ ~loopback => h.ccar = FALSE /\ h.iocr.txd = "data"
  BY <1>3, <1>7, <1>8, <1>9
<1>11. ProgrammedFor(h, p, signals, n)
  BY <1>10, <1>c, Zenon DEF loopback, clocks, ProgrammedFor
<1> QED BY <1>0, <1>11 DEF h

\* What startup and the adapter test leave in the chip.
LEMMA ResetFormed ==
  ASSUME NEW p, NEW v
  PROVE  Formed(UscReset(p, v)) /\ UscReset(p, v).ccar = FALSE /\ UscReset(p, v).iocr.txd = "data"
BY DEF UscReset, Formed

-----------------------------------------------------------------------------
(* The inductive invariant.                                                *)

\* Only an open tty has calls in progress, and it is not a network interface.
Ports ==
  /\ ~(open /\ net)
  /\ pc = [c \in Calls |-> pc[c]]
  /\ \A c \in Calls : pc[c] # "out" => open

\* The clock speed is a number.
Speed == "clock_speed" \in DOMAIN params /\ params.clock_speed \in Nat

\* TxD carries data, or the break level of data, exactly outside loopback.
Txd(r) ==
  \/ r.ccar = TRUE /\ r.iocr.txd \in {"high", "tristate"}
  \/ r.ccar = FALSE /\ r.iocr.txd \in {"data", "low"}

Chip == Formed(hw) /\ Txd(hw)

AsAsked ==
  Settled => /\ hw.ccar <=> Loopback(params, net)
             /\ (Sync(params) \/ net) /\ ~params.loopback => Clocked(hw, params)

IInv == Ports /\ Chip /\ SignalsShown /\ AsAsked

-----------------------------------------------------------------------------
(* How a step keeps each part of it.                                       *)

\* A call that goes on leaves the others where they are.
LEMMA PcSet ==
  ASSUME Ports, NEW c \in Calls, NEW to, pc' = [pc EXCEPT ![c] = to]
  PROVE  pc'[c] = to /\ \A d \in Calls \ {c} : pc'[d] = pc[d]
BY DEF Ports

\* (Its part of the invariant.)
LEMMA PortsCall ==
  ASSUME Ports, NEW c \in Calls, NEW to, pc' = [pc EXCEPT ![c] = to],
         open, UNCHANGED <<open, net>>
  PROVE  Ports'
BY DEF Ports

\* SignalsShown is kept if the pins and serial_signals are and nobody finishes,
LEMMA SignalsKept ==
  ASSUME SignalsShown, Lines(hw') = Lines(hw), UNCHANGED serial_signals,
         open' \/ net' => open \/ net,
         \A c \in Calls : pc[c] \in {"program", "show"} => pc'[c] \in {"program", "show"}
  PROVE  SignalsShown'
BY DEF SignalsShown, Lines

\* and holds if the pins were just written or somebody is about to.
LEMMA SignalsNew ==
  ASSUME Shown(hw', serial_signals') \/ (~open' /\ ~net')
           \/ \E c \in Calls : pc'[c] \in {"program", "show"}
  PROVE  SignalsShown'
BY DEF SignalsShown, Shown

\* AsAsked is kept with the clocks, the loopback and the parameters,
LEMMA AskedKept ==
  ASSUME AsAsked, hw'.ccar = hw.ccar, Timing(hw') = Timing(hw), UNCHANGED <<params, open, net>>,
         \A c \in Calls : pc[c] \in {"change", "program"} => pc'[c] \in {"change", "program"}
  PROVE  AsAsked'
<1> DEFINE on == Loopback(params, net)
           clocks == (Sync(params) \/ net) /\ ~params.loopback
<1>1. (on' <=> on) /\ (clocks' <=> clocks)
  BY Zenon DEF Loopback, Sync
<1>2. Settled' => Settled
  BY Zenon DEF Settled
<1>3. Clocked(hw, params) => Clocked(hw', params')
  BY ClockedKept
<1>4. AsAsked <=> (Settled => (hw.ccar <=> on) /\ (clocks => Clocked(hw, params)))
  BY Zenon DEF AsAsked
<1>5. AsAsked' <=> (Settled' => (hw'.ccar <=> on') /\ (clocks' => Clocked(hw', params')))
  BY Zenon DEF AsAsked, Clocked, Sourced, Sync, Loopback, Settled
<1> HIDE DEF on, clocks
<1> QED BY <1>1, <1>2, <1>3, <1>4, <1>5, Zenon

\* and says nothing of a port being programmed or closed.
LEMMA AskedOpen ==
  ASSUME (~open' /\ ~net') \/ \E c \in Calls : pc'[c] \in {"change", "program"}
  PROVE  AsAsked'
BY Zenon DEF AsAsked, Settled

\* The chip is programmed for the parameters and the signals the step leaves.
LEMMA ProgramStep ==
  ASSUME NEW r, Formed(r), NEW idle, NEW cread, NEW n, n \in BOOLEAN,
         hw' = ProgramHw(r, params', idle, serial_signals', cread, n),
         net' <=> n, params'.clock_speed \in Nat
  PROVE  Chip' /\ SignalsShown' /\ AsAsked'
<1> DEFINE p == params'
           g == serial_signals'
<1>0. hw' = ProgramHw(r, p, idle, g, cread, n)
  OBVIOUS
<1>p. PICK q : q = p
  OBVIOUS
<1>g. PICK s : s = g
  OBVIOUS
<1> DEFINE h == ProgramHw(r, q, idle, s, cread, n)
           loopback == Loopback(q, n)
<1>1. ProgrammedFor(h, q, s, n)
  <2>1. q.clock_speed \in Nat
    BY <1>p
  <2> QED BY <2>1, Programmed, Zenon
<1>2. hw' = h
  BY <1>0, <1>p, <1>g, Zenon
<1>3. loopback <=> Loopback(params', net')
  BY <1>p, Zenon DEF Loopback
<1>a. /\ Formed(h) /\ Shown(h, s)
      /\ loopback => h.ccar = TRUE /\ h.iocr.txd = "high"
      /\ ~loopback => h.ccar = FALSE /\ h.iocr.txd = "data"
  BY <1>1 DEF ProgrammedFor
<1>b. (Sync(q) \/ n) /\ ~q.loopback => Clocked(h, q)
  BY <1>1, Zenon DEF ProgrammedFor
<1> HIDE DEF h, loopback
<1>4. Formed(hw') /\ Txd(hw')
  BY <1>a, <1>2 DEF Txd
<1>5. SignalsShown'
  BY <1>a, <1>2, <1>g, SignalsNew
<1>6. hw'.ccar <=> loopback
  BY <1>a, <1>2, Zenon
<1>7. (Sync(params') \/ net') /\ ~params'.loopback => Clocked(hw', params')
  BY <1>b, <1>2, <1>p, Zenon
<1>8. AsAsked'
  BY <1>3, <1>6, <1>7, Zenon DEF AsAsked
<1> QED
  BY <1>4, <1>5, <1>8, Zenon DEF Chip

\* A register operation that leaves the outside alone.
LEMMA QuietStep ==
  ASSUME Chip, Same(hw', hw)
  PROVE  Chip' /\ Lines(hw') = Lines(hw) /\ hw'.ccar = hw.ccar /\ Timing(hw') = Timing(hw)
<1>1. Lines(hw') = Lines(hw) /\ hw'.ccar = hw.ccar /\ hw'.iocr.txd = hw.iocr.txd
  BY DEF Same, Alike, Outside, Lines
<1>2. Formed(hw')
  BY DEF Same, Alike
<1>3. Txd(hw')
  BY <1>1, Zenon DEF Chip, Txd
<1>4. Timing(hw') = Timing(hw)
  BY DEF Same
<1> QED BY <1>1, <1>2, <1>3, <1>4, Zenon DEF Chip

\* A step that writes the signals to the pins.
Written ==
  /\ Formed(hw') /\ Shown(hw', serial_signals')
  /\ hw'.ccar = hw.ccar /\ hw'.iocr.txd = hw.iocr.txd
  /\ Timing(hw') = Timing(hw)

\* Writing the pins under the lock.
LEMMA WriteSignals ==
  ASSUME Chip, hw' = SetSerialSignals(hw, serial_signals')
  PROVE  Written
<1>g. PICK s : s = serial_signals'
  OBVIOUS
<1> QED
  BY <1>g, SignalsWritten DEF Chip, Written

\* (What follows from it.)
LEMMA WrittenStep ==
  ASSUME Chip, Written
  PROVE  Chip' /\ SignalsShown' /\ hw'.ccar = hw.ccar /\ Timing(hw') = Timing(hw)
<1>1. /\ SignalsShown' /\ Formed(hw') /\ hw'.ccar = hw.ccar /\ hw'.iocr.txd = hw.iocr.txd
      /\ Timing(hw') = Timing(hw)
  BY SignalsNew DEF Written
<1>2. Txd(hw')
  BY <1>1, Zenon DEF Chip, Txd
<1> QED BY <1>1, <1>2, Zenon DEF Chip

-----------------------------------------------------------------------------
(* The actions.                                                            *)

\* A port never opened.
LEMMA InitInv == Init => IInv
<1> SUFFICES ASSUME Init PROVE IInv
  OBVIOUS
<1>1. Ports
  BY DEF Init, Ports
<1>2. Chip
  <2> DEFINE v == [idle |-> "flags", underwait |-> FALSE]
  <2>1. hw = UscReset(Default, v)
    BY DEF Init
  <2> HIDE DEF v
  <2>2. Formed(hw) /\ hw.ccar = FALSE /\ hw.iocr.txd = "data"
    BY <2>1, ResetFormed
  <2> QED BY <2>2, Zenon DEF Chip, Txd
<1>3. SignalsShown /\ AsAsked
  BY DEF Init, SignalsShown, AsAsked, Settled
<1> QED BY <1>1, <1>2, <1>3 DEF IInv

\* Opening a port nobody has.
LEMMA PortsUp ==
  ASSUME Ports, ~open, UNCHANGED pc, ~(open' /\ net')
  PROVE  Ports'
BY Zenon DEF Ports

\* Opening programs the chip from its reset state.
LEMMA StartupStep ==
  ASSUME IInv, Startup \/ NetOpen, Speed'
  PROVE  IInv'
<1>0. ~open /\ UNCHANGED pc /\ ~(open' /\ net')
  <2>1. CASE Startup
    BY <2>1, Zenon DEF Startup, Op
  <2>2. CASE NetOpen
    BY <2>2, Zenon DEF NetOpen, Op
  <2> QED BY <2>1, <2>2
<1>1. Ports'
  BY <1>0, PortsUp DEF IInv
<1>2. Formed(AdapterTest)
  BY ResetFormed DEF AdapterTest
<1>3. CASE Startup
  <2>1. hw' = ProgramHw(AdapterTest, params', idle_mode, serial_signals', termios.cread, FALSE)
    BY <1>3 DEF Startup
  <2>2. net' <=> FALSE
    BY <1>3, Zenon DEF Startup, Op
  <2>3. Chip' /\ SignalsShown' /\ AsAsked'
    BY <1>2, <2>1, <2>2, ProgramStep, Zenon DEF Speed
  <2> QED BY <1>1, <2>3, Zenon DEF IInv
<1>4. CASE NetOpen
  <2>1. hw' = ProgramHw(AdapterTest, params', idle_mode, serial_signals', FALSE, TRUE)
    BY <1>4, Zenon DEF NetOpen
  <2>2. net' <=> TRUE
    BY <1>4, Zenon DEF NetOpen
  <2>3. Chip' /\ SignalsShown' /\ AsAsked'
    BY <1>2, <2>1, <2>2, ProgramStep, Zenon DEF Speed
  <2> QED BY <1>1, <2>3, Zenon DEF IInv
<1> QED BY <1>3, <1>4

\* Closing a port asks nothing of the chip.
LEMMA ShutdownStep ==
  ASSUME IInv, Shutdown \/ NetClose
  PROVE  IInv'
<1> DEFINE a == [hw EXCEPT !.mie = FALSE]
           b == StopReceiver(a)
           d == StopTransmitter(b)
           off == [d EXCEPT !.pcr.port7 = "high", !.pcr.port6 = "high"]
<1>0. /\ ~open' /\ ~net' /\ UNCHANGED pc
      /\ \A c \in Calls : pc[c] = "out"
  <2>1. CASE Shutdown
    BY <2>1, Zenon DEF Shutdown, Op, IInv, Ports
  <2>2. CASE NetClose
    BY <2>2, Zenon DEF NetClose, Op, IInv, Ports
  <2> QED BY <2>1, <2>2
<1>1. Ports'
  BY <1>0, Zenon DEF IInv, Ports
<1>2. SignalsShown' /\ AsAsked'
  BY <1>0, SignalsNew, AskedOpen
<1>3. hw' = off \/ hw' = SetSerialSignals(off, {})
  BY DEF Shutdown, NetClose, SwitchOff
<1>4. Same(a, hw)
  BY DEF IInv, Chip, Same, Alike, Formed, Outside, Timing
<1> HIDE DEF a
<1>5. Same(b, a)
  BY <1>4, SameReceiver DEF Same, Alike
<1> HIDE DEF b
<1>6. Same(d, b)
  BY <1>5, SameTransmitter DEF Same, Alike
<1> HIDE DEF d
<1>7. Formed(off) /\ off.ccar = d.ccar /\ off.iocr = d.iocr
  BY <1>6 DEF Same, Alike, Formed
<1> HIDE DEF off
<1>8. Formed(hw') /\ hw'.ccar = d.ccar /\ hw'.iocr.txd = d.iocr.txd
  BY <1>3, <1>7, SignalsWritten
<1>9. d.ccar = hw.ccar /\ d.iocr.txd = hw.iocr.txd
  BY <1>4, <1>5, <1>6 DEF Same, Alike, Outside
<1>10. Chip'
  BY <1>8, <1>9, Zenon DEF IInv, Chip, Txd
<1> QED BY <1>1, <1>2, <1>10, Zenon DEF IInv

\* hdlcdev_ioctl programs at once.
LEMMA NetChangeStep ==
  ASSUME IInv, NEW p, NetChange(p), Speed'
  PROVE  IInv'
<1>0. ~open /\ UNCHANGED <<open, net, pc, serial_signals>> /\ params' = p
  BY DEF NetChange, Op, tty
<1>1. Ports'
  BY <1>0, PortsUp, Zenon DEF IInv
<1>2. CASE net
  <2>1. hw' = ProgramHw(hw, params', idle_mode, serial_signals', FALSE, TRUE)
    BY <1>0, <1>2, Zenon DEF NetChange
  <2>2. net' <=> TRUE
    BY <1>0, <1>2, Zenon
  <2>3. Chip' /\ SignalsShown' /\ AsAsked'
    BY <2>1, <2>2, ProgramStep, Zenon DEF IInv, Chip, Speed
  <2> QED BY <1>1, <2>3, Zenon DEF IInv
<1>3. CASE ~net
  <2>1. UNCHANGED hw /\ ~open' /\ ~net'
    BY <1>0, <1>3, Zenon DEF NetChange
  <2>2. Chip'
    BY <2>1, Zenon DEF IInv, Chip
  <2>3. SignalsShown' /\ AsAsked'
    BY <2>1, SignalsNew, AskedOpen
  <2> QED BY <1>1, <2>2, <2>3, Zenon DEF IInv
<1> QED BY <1>2, <1>3

\* A step of a call that does not program the chip.
LEMMA CallStep ==
  ASSUME IInv, NEW c \in Calls, NEW to, open, UNCHANGED <<open, net>>,
         pc' = [pc EXCEPT ![c] = to],
         \/ Same(hw', hw) /\ UNCHANGED serial_signals /\ pc[c] \notin {"program", "show"}
         \/ Same(hw', hw) /\ to \in {"program", "show"}
         \/ Written,
         \/ UNCHANGED params /\ pc[c] \notin {"change", "program"}
         \/ to \in {"change", "program"}
  PROVE  IInv'
<1>1. Ports'
  BY PortsCall DEF IInv
<1>2. Same(hw', hw) => Chip' /\ Lines(hw') = Lines(hw) /\ hw'.ccar = hw.ccar /\ Timing(hw') = Timing(hw)
  BY QuietStep DEF IInv
<1>3. Written => Chip' /\ SignalsShown' /\ hw'.ccar = hw.ccar /\ Timing(hw') = Timing(hw)
  BY WrittenStep DEF IInv
<1>4. pc'[c] = to /\ \A d \in Calls \ {c} : pc'[d] = pc[d]
  BY PcSet DEF IInv
<1>5. SignalsShown'
  <2>1. CASE Same(hw', hw) /\ UNCHANGED serial_signals /\ pc[c] \notin {"program", "show"}
    <3>1. \A d \in Calls : pc[d] \in {"program", "show"} => pc'[d] \in {"program", "show"}
      BY <1>4, <2>1
    <3> QED BY <1>2, <2>1, <3>1, SignalsKept DEF IInv
  <2>2. CASE to \in {"program", "show"}
    BY <1>4, <2>2, SignalsNew
  <2> QED BY <1>3, <2>1, <2>2, Zenon
<1>6. Chip' /\ hw'.ccar = hw.ccar /\ Timing(hw') = Timing(hw)
  BY <1>2, <1>3, Zenon
<1>7. AsAsked'
  <2>1. CASE UNCHANGED params /\ pc[c] \notin {"change", "program"}
    <3>1. \A d \in Calls : pc[d] \in {"change", "program"} => pc'[d] \in {"change", "program"}
      BY <1>4, <2>1
    <3> QED BY <1>6, <2>1, <3>1, AskedKept DEF IInv
  <2>2. CASE to \in {"change", "program"}
    BY <1>4, <2>2, AskedOpen
  <2> QED BY <2>1, <2>2
<1> QED BY <1>1, <1>5, <1>6, <1>7, Zenon DEF IInv

\* A locked step outside the calls: the signals are kept or written out.
LEMMA LockedStep ==
  ASSUME IInv, UNCHANGED <<params, open, net, pc>>,
         Written \/ (Same(hw', hw) /\ UNCHANGED serial_signals)
  PROVE  IInv'
<1>1. Ports'
  BY Zenon DEF IInv, Ports
<1>2. Chip' /\ SignalsShown' /\ hw'.ccar = hw.ccar /\ Timing(hw') = Timing(hw)
  <2>1. CASE Same(hw', hw) /\ UNCHANGED serial_signals
    <3>1. Chip' /\ Lines(hw') = Lines(hw) /\ hw'.ccar = hw.ccar /\ Timing(hw') = Timing(hw)
      BY <2>1, QuietStep DEF IInv
    <3>2. SignalsShown'
      BY <2>1, <3>1, SignalsKept DEF IInv
    <3> QED BY <3>1, <3>2, Zenon
  <2>2. CASE Written
    BY <2>2, WrittenStep, Zenon DEF IInv
  <2> QED BY <2>1, <2>2
<1>3. AsAsked'
  BY <1>2, AskedKept DEF IInv
<1> QED BY <1>1, <1>2, <1>3, Zenon DEF IInv

\* The unlocked steps of system calls.
LEMMA CallActions ==
  ASSUME IInv,
         \/ \E p \in Params : SetParams(p)
         \/ \E t \in Termios : SetTermios(t)
         \/ \E c \in Calls : ChangeParams(c) \/ StoreSignals(c) \/ ShowSignals(c)
         \/ FetchTermios
         \/ \E set, clear \in SUBSET Outputs : Tiocmset(set, clear)
         \/ \E i \in Idles : SetTxIdleUnlocked(i)
         \/ SetTxIdleLocked
  PROVE  IInv'
<1>0. Formed(hw) /\ Same(hw, hw)
  BY DEF IInv, Chip, Same, Alike
<1>1. ASSUME NEW p \in Params, SetParams(p) PROVE IInv'
  <2>1. /\ open /\ UNCHANGED <<open, net, serial_signals, hw>>
        /\ pc["params"] = "out" /\ pc' = [pc EXCEPT !["params"] = "change"]
    BY <1>1 DEF SetParams, Op, Begin, tty
  <2> QED BY <1>0, <2>1, CallStep DEF Calls
<1>2. ASSUME NEW t \in Termios, SetTermios(t) PROVE IInv'
  <2>1. /\ open /\ UNCHANGED <<open, net, serial_signals, hw, params>>
        /\ pc["termios"] = "out" /\ pc' = [pc EXCEPT !["termios"] = "change"]
    BY <1>2 DEF SetTermios, Op, Begin
  <2> QED BY <1>0, <2>1, CallStep DEF Calls
<1>3. ASSUME NEW c \in Calls, ChangeParams(c) PROVE IInv'
  <2>1. /\ UNCHANGED <<open, net, hw>>
        /\ pc[c] = "change" /\ pc' = [pc EXCEPT ![c] = "program"]
    BY <1>3 DEF ChangeParams, Step, tty
  <2>2. open
    BY <2>1 DEF IInv, Ports
  <2> QED BY <1>0, <2>1, <2>2, CallStep
<1>4. ASSUME NEW c \in Calls, StoreSignals(c) PROVE IInv'
  <2>1. /\ UNCHANGED <<open, net, hw, params>>
        /\ pc[c] = "store" /\ pc' = [pc EXCEPT ![c] = "show"]
    BY <1>4 DEF StoreSignals, Step, tty
  <2>2. open
    BY <2>1 DEF IInv, Ports
  <2> QED BY <1>0, <2>1, <2>2, CallStep
<1>5. ASSUME NEW c \in Calls, ShowSignals(c) PROVE IInv'
  <2>1. /\ UNCHANGED <<open, net, params, serial_signals>>
        /\ pc[c] = "show" /\ pc' = [pc EXCEPT ![c] = AfterSignals(c)]
        /\ hw' = SetSerialSignals(hw, serial_signals)
    BY <1>5 DEF ShowSignals, Step, tty
  <2>2. open
    BY <2>1 DEF IInv, Ports
  <2>3. Written
    BY <2>1, WriteSignals DEF IInv
  <2> QED BY <2>1, <2>2, <2>3, CallStep
<1>6. CASE FetchTermios
  <2>1. /\ UNCHANGED <<open, net, hw, params, serial_signals>>
        /\ pc["termios"] = "fetch" /\ pc' = [pc EXCEPT !["termios"] = "store"]
    BY <1>6 DEF FetchTermios, Step, tty
  <2>2. open
    BY <2>1 DEF IInv, Ports, Calls
  <2> QED BY <1>0, <2>1, <2>2, CallStep DEF Calls
<1>7. ASSUME NEW set, NEW clear, Tiocmset(set, clear) PROVE IInv'
  <2>1. /\ open /\ UNCHANGED <<open, net, serial_signals, hw, params>>
        /\ pc["tiocmset"] = "out" /\ pc' = [pc EXCEPT !["tiocmset"] = "store"]
    BY <1>7 DEF Tiocmset, Op, Begin, tty
  <2> QED BY <1>0, <2>1, CallStep DEF Calls
<1>8. ASSUME NEW i \in Idles, SetTxIdleUnlocked(i) PROVE IInv'
  <2>1. /\ open /\ UNCHANGED <<open, net, serial_signals, params>>
        /\ pc["txidle"] = "out" /\ pc' = [pc EXCEPT !["txidle"] = "idle"]
        /\ hw' = MapIdle(hw, idle_mode)
    BY <1>8 DEF SetTxIdleUnlocked, Op, Begin, tty
  <2>2. Same(hw', hw)
    BY <1>0, <2>1, SameWrites
  <2> QED BY <2>1, <2>2, CallStep DEF Calls
<1>9. CASE SetTxIdleLocked
  <2>1. /\ UNCHANGED <<open, net, params, serial_signals>>
        /\ pc["txidle"] = "idle" /\ pc' = [pc EXCEPT !["txidle"] = "out"]
        /\ hw' = SetTxIdle(hw, params, idle_mode')
    BY <1>9 DEF SetTxIdleLocked, Step, tty
  <2>2. open
    BY <2>1 DEF IInv, Ports, Calls
  <2>3. Same(hw', hw)
    BY <1>0, <2>1, SameModes
  <2> QED BY <2>1, <2>2, <2>3, CallStep DEF Calls
<1> QED BY <1>1, <1>2, <1>3, <1>4, <1>5, <1>6, <1>7, <1>8, <1>9

\* The locked step in which a system call programs the chip.
LEMMA ProgramAction ==
  ASSUME IInv, NEW c \in Calls, Program(c), Speed'
  PROVE  IInv'
<1>1. /\ pc[c] = "program" /\ pc' = [pc EXCEPT ![c] = AfterProgram(c)]
      /\ UNCHANGED <<open, net, params, serial_signals>>
      /\ hw' = ProgramHw(hw, params, idle_mode, serial_signals, termios.cread, FALSE)
  BY DEF Program, Step, tty
<1>2. open /\ ~net
  BY <1>1 DEF IInv, Ports
<1>3. Ports'
  BY <1>1, <1>2, PortsCall DEF IInv
<1>4. net' <=> FALSE
  BY <1>1, <1>2, Zenon
<1>5. hw' = ProgramHw(hw, params', idle_mode, serial_signals', termios.cread, FALSE)
  BY <1>1, Zenon
<1>6. Chip' /\ SignalsShown' /\ AsAsked'
  BY <1>4, <1>5, ProgramStep, Zenon DEF IInv, Chip, Speed
<1> QED BY <1>3, <1>6, Zenon DEF IInv

\* usc_start_transmitter: RTS is raised and written out, or nothing is changed outside.
LEMMA EnabledSame ==
  ASSUME NEW r, Formed(r)
  PROVE  Same(Enabled(r), r)
BY DEF Enabled, Same, Alike, Formed, Outside, Timing

\* usc_start_transmitter raises RTS by way of serial_signals or leaves both
\* alone.
LEMMA TransmitterStarts ==
  ASSUME IInv, StartTransmitter
  PROVE  Written \/ (Same(hw', hw) /\ UNCHANGED serial_signals)
<1>0. Formed(hw)
  BY DEF IInv, Chip
<1>1. CASE drop_rts'
  <2>g. PICK s : s = serial_signals'
    OBVIOUS
  <2> DEFINE a == SetSerialSignals(hw, s)
  <2>1. hw' = Enabled(a)
    BY <1>1, <2>g, Zenon DEF StartTransmitter
  <2>2. /\ Formed(a) /\ Shown(a, s) /\ a.ccar = hw.ccar /\ a.iocr = hw.iocr
        /\ Timing(a) = Timing(hw)
    BY <1>0, SignalsWritten
  <2> HIDE DEF a
  <2>3. Same(hw', a)
    BY <2>1, <2>2, EnabledSame
  <2>4. /\ Formed(hw') /\ Shown(hw', s) /\ hw'.ccar = hw.ccar /\ hw'.iocr.txd = hw.iocr.txd
        /\ Timing(hw') = Timing(hw)
    BY <2>2, <2>3 DEF Same, Alike, Outside, Shown
  <2> QED BY <2>4, <2>g DEF Written
<1>2. CASE ~drop_rts'
  <2>1. hw' = Enabled(hw) /\ UNCHANGED serial_signals
    BY <1>2, Zenon DEF StartTransmitter
  <2> QED BY <1>0, <2>1, EnabledSame
<1> QED BY <1>1, <1>2

\* The operations that are one step under the lock.
LEMMA LockedActions ==
  ASSUME IInv,
         \/ Throttle \/ Unthrottle \/ Send \/ SendDone \/ StartOutput
         \/ \E on \in BOOLEAN : DtrRts(on) \/ RxEnable(on)
  PROVE  IInv'
<1>0. Formed(hw) /\ Same(hw, hw)
  BY DEF IInv, Chip, Same, Alike
<1>1. CASE Throttle
  <2>1. UNCHANGED <<params, open, net, pc>>
    BY <1>1 DEF Throttle
  <2>2. hw' = SetSerialSignals(hw, serial_signals') \/ UNCHANGED <<hw, serial_signals>>
    BY <1>1 DEF Throttle, SetSignals
  <2> QED BY <1>0, <2>1, <2>2, WriteSignals, LockedStep DEF IInv
<1>2. CASE Unthrottle
  <2>1. UNCHANGED <<params, open, net, pc>>
    BY <1>2 DEF Unthrottle
  <2>2. hw' = SetSerialSignals(hw, serial_signals') \/ UNCHANGED <<hw, serial_signals>>
    BY <1>2 DEF Unthrottle, SetSignals
  <2> QED BY <1>0, <2>1, <2>2, WriteSignals, LockedStep DEF IInv
<1>3. CASE Send
  <2>1. UNCHANGED <<params, open, net, pc>> /\ StartTransmitter
    BY <1>3 DEF Send, tty
  <2> QED BY <2>1, TransmitterStarts, LockedStep
<1>4. CASE SendDone
  <2>1. UNCHANGED <<params, open, net, pc>>
    BY <1>4 DEF SendDone, tty
  <2>2. hw' = SetSerialSignals(hw, serial_signals') \/ UNCHANGED <<hw, serial_signals>>
    BY <1>4 DEF SendDone, SetSignals
  <2> QED BY <1>0, <2>1, <2>2, WriteSignals, LockedStep DEF IInv
<1>5. CASE StartOutput
  <2>1. /\ UNCHANGED <<open, net, params>>
        /\ pc["termios"] = "start" /\ pc' = [pc EXCEPT !["termios"] = "out"]
        /\ StartTransmitter \/ (hw' = Enabled(hw) /\ UNCHANGED serial_signals)
    BY <1>5 DEF StartOutput, Step, tty
  <2>2. open
    BY <2>1 DEF IInv, Ports, Calls
  <2>3. Written \/ (Same(hw', hw) /\ UNCHANGED serial_signals)
    BY <1>0, <2>1, TransmitterStarts, EnabledSame
  <2> QED BY <2>1, <2>2, <2>3, CallStep DEF Calls
<1>6. ASSUME NEW on \in BOOLEAN, DtrRts(on) PROVE IInv'
  <2>1. UNCHANGED <<params, open, net, pc>>
    BY <1>6 DEF DtrRts, tty
  <2>2. hw' = SetSerialSignals(hw, serial_signals')
    BY <1>6 DEF DtrRts, SetSignals
  <2> QED BY <2>1, <2>2, WriteSignals, LockedStep DEF IInv
<1>7. ASSUME NEW on \in BOOLEAN, RxEnable(on) PROVE IInv'
  <2>1. UNCHANGED <<params, open, net, pc, serial_signals>>
    BY <1>7 DEF RxEnable, tty
  <2>2. hw' = StartReceiver(hw, params) \/ hw' = StopReceiver(hw)
    BY <1>7, Zenon DEF RxEnable
  <2>3. Same(hw', hw)
    BY <1>0, <2>2, SameReceiver
  <2> QED BY <2>1, <2>3, LockedStep
<1> QED BY <1>1, <1>2, <1>3, <1>4, <1>5, <1>6, <1>7

\* A break moves TxD between data and its break level, and in loopback keeps it off.
LEMMA BreakStep ==
  ASSUME IInv, NEW on \in BOOLEAN, Break(on)
  PROVE  IInv'
<1> DEFINE txd == IF on THEN (IF hw.iocr.txd \in {"data", "low"} THEN "low" ELSE "high")
                  ELSE (IF hw.iocr.txd \in {"data", "low"} THEN "data" ELSE "tristate")
<1>1. hw' = [hw EXCEPT !.iocr.txd = txd] /\ UNCHANGED <<params, open, net, pc, serial_signals>>
  BY DEF Break, tty
<1>2. /\ hw.iocr.txd \in {"data", "low"} => txd \in {"data", "low"}
      /\ hw.iocr.txd \in {"high", "tristate"} => txd \in {"high", "tristate"}
  BY Zenon
<1> HIDE DEF txd
<1>3. /\ Formed(hw') /\ hw'.ccar = hw.ccar /\ hw'.iocr.txd = txd
      /\ Lines(hw') = Lines(hw) /\ Timing(hw') = Timing(hw)
  BY <1>1 DEF IInv, Chip, Formed, Lines, Timing
<1>4. Chip'
  BY <1>2, <1>3, Zenon DEF IInv, Chip, Txd
<1>5. Ports'
  BY <1>1, Zenon DEF IInv, Ports
<1>6. SignalsShown'
  BY <1>1, <1>3, SignalsKept DEF IInv
<1>7. AsAsked'
  BY <1>1, <1>3, AskedKept DEF IInv
<1> QED BY <1>4, <1>5, <1>6, <1>7, Zenon DEF IInv

\* clock_speed stays a number, what hdlcdev_ioctl makes of it included.
LEMMA SpeedStep == Speed /\ [Next]_vars => Speed'
<1> SUFFICES ASSUME Speed, [Next]_vars PROVE Speed'
  OBVIOUS
<1> USE DEF Speed
<1>1. CASE UNCHANGED params
  BY <1>1
<1>2. CASE params' = ChangedParams
  BY <1>2 DEF ChangedParams
<1>3. ASSUME NEW c \in NetCodings, NetAttach(c) PROVE Speed'
  BY <1>3 DEF NetAttach, NetChange
<1>4. ASSUME NEW l \in NetLines, NetIoctl(l) PROVE Speed'
  BY <1>4, SettingsAssumption DEF NetIoctl, NetChange
<1>5. ASSUME NEW p \in Params, SetParams(p) PROVE Speed'
  <2>1. params' = p
    BY <1>5 DEF SetParams
  <2>2. "clock_speed" \in DOMAIN Default
    BY DEF Default
  <2> QED BY <2>1, <2>2, SettingsAssumption
<1> HIDE DEF Speed
<1>6. UNCHANGED params \/ params' = ChangedParams \/ (\E c \in NetCodings : NetAttach(c))
        \/ (\E l \in NetLines : NetIoctl(l)) \/ \E p \in Params : SetParams(p)
  BY DEF Next, vars, Startup, Shutdown, NetOpen, NetClose, SetTermios, ChangeParams, Program,
     StoreSignals, ShowSignals, FetchTermios, StartOutput, Tiocmset, SetTxIdleUnlocked,
     SetTxIdleLocked, Throttle, Unthrottle, Send, SendDone, DtrRts, Break, RxEnable
<1> QED BY <1>1, <1>2, <1>3, <1>4, <1>5, <1>6

\* Every step keeps the invariant.
LEMMA StepInv == Speed /\ IInv /\ [Next]_vars => IInv'
<1> SUFFICES ASSUME Speed, IInv, [Next]_vars PROVE IInv'
  OBVIOUS
<1>0. Speed'
  BY SpeedStep
<1>1. CASE UNCHANGED vars
  BY <1>1, Zenon DEF vars, tty, IInv, Ports, Chip, SignalsShown, AsAsked, Settled, Clocked,
     Sourced, Loopback, Sync
<1>2. ASSUME NEW c \in NetCodings, NetAttach(c) PROVE IInv'
  BY <1>0, <1>2, NetChangeStep DEF NetAttach
<1>3. ASSUME NEW l \in NetLines, NetIoctl(l) PROVE IInv'
  BY <1>0, <1>3, NetChangeStep DEF NetIoctl
<1> QED
  BY <1>0, <1>1, <1>2, <1>3, StartupStep, ShutdownStep, CallActions, ProgramAction, LockedActions,
     BreakStep DEF Next

-----------------------------------------------------------------------------

(* The chip's registers keep their shape and the driver's copy of the       *)
(* loopback bits is the chip's, calls are only in progress on an open tty,  *)
(* and TxD carries data exactly outside loopback: the inductive invariant   *)
(* behind the theorems below.                                              *)
THEOREM SettingsInvariant == Spec => [](Speed /\ IInv)
<1>1. Init => Speed
  BY DEF Init, Speed, Default
<1> QED BY <1>1, InitInv, SpeedStep, StepInv, PTL DEF Spec

(* The DTR and RTS pins show serial_signals whenever no call is between    *)
(* changing it and writing it out (usc_set_serial_signals and its callers),*)
(* for any parameters and any number of calls.                             *)
THEOREM SignalsAlwaysShown == Spec => []SignalsShown
<1>1. IInv => SignalsShown
  BY DEF IInv
<1> QED BY <1>1, SettingsInvariant, PTL

(* In a synchronous mode the chip is in loopback exactly when asked to be, *)
(* and then keeps its data off TxD, whatever was set before and whatever    *)
(* commands and breaks came since (usc_enable_loopback, loopback_bits).    *)
THEOREM LoopbackAlwaysIsolated == Spec => []LoopbackIsolated
<1>1. IInv => LoopbackIsolated
  <2> SUFFICES ASSUME IInv, Settled
               PROVE  /\ hw.ccar <=> (Sync(params) \/ net) /\ params.loopback
                      /\ hw.loopback_bits = hw.ccar
                      /\ IF hw.ccar THEN hw.iocr.txd \in {"high", "tristate"}
                         ELSE hw.iocr.txd \in {"data", "low"}
    BY DEF LoopbackIsolated
  <2>1. hw.ccar <=> (Sync(params) \/ net) /\ params.loopback
    BY Zenon DEF IInv, AsAsked, Loopback
  <2>2. hw.loopback_bits = hw.ccar
    BY DEF IInv, Chip, Formed
  <2>3. IF hw.ccar THEN hw.iocr.txd \in {"high", "tristate"} ELSE hw.iocr.txd \in {"data", "low"}
    BY Zenon DEF IInv, Chip, Txd
  <2> QED BY <2>1, <2>2, <2>3, Zenon
<1> QED BY <1>1, SettingsInvariant, PTL

(* In a synchronous mode without loopback the clocks are the ones asked    *)
(* for, whatever the crystal and however the port was set up before: the   *)
(* time constants of speeds that sixteen bits reach are the nearest, TxC   *)
(* is driven exactly if its line driver points outwards, and no clock      *)
(* input is an output (usc_set_sdlc_mode, usc_enable_aux_clock).           *)
THEOREM ClocksAlwaysAsAsked == Spec => []ClocksAsAsked
<1>1. IInv => ClocksAsAsked
  BY Zenon DEF IInv, AsAsked, ClocksAsAsked, Clocked, Sourced
<1> QED BY <1>1, SettingsInvariant, PTL

-----------------------------------------------------------------------------
(* Programming leaves nothing of earlier settings: two chips that are      *)
(* programmed alike come to agree.                                         *)

\* q and r agree in the registers F, in the fields G of IOCR and H of PCR, both have the
\* sources K armed, and where they have CMR or HCR in common they agree in what is live.
Agree(F, G, H, K, p, q, r) ==
  /\ Formed(q) /\ Formed(r)
  /\ F \subseteq Names \ {"iocr", "pcr"} /\ G \subseteq IocrNames /\ H \subseteq PcrNames
  /\ "dcar" \in F => "mbre_bit" \in F
  /\ "tcsr" \in F => "tcsr_value" \in F
  /\ \A f \in F : q[f] = r[f]
  /\ \A g \in G : q.iocr[g] = r.iocr[g]
  /\ \A h \in H : q.pcr[h] = r.pcr[h]
  /\ K \subseteq q.sicr /\ K \subseteq r.sicr
  /\ "cmr" \in F => /\ q.cmr.filter => q.rsr = r.rsr
                    /\ q.cmr.rx = "extsync" => q.iocr.dcd = r.iocr.dcd
                    /\ q.cmr.tx = "monosync" => p.mode = "RAW"
  /\ "hcr" \in F => (q.hcr.brg1 => q.tc1 = r.tc1)

\* Commands keep an agreement.
LEMMA AgreeCommands ==
  ASSUME NEW F, NEW G, NEW H, NEW K, NEW p, NEW q, NEW r, Agree(F, G, H, K, p, q, r)
  PROVE  /\ Agree(F, G, H, K, p, UscRTCmd(q), UscRTCmd(r))
         /\ Agree(F, G, H, K, p, UscDmaCmd(q), UscDmaCmd(r))
         /\ Agree(F, G, H, K, p, UscTCmd(q), UscTCmd(r))
<1> USE DEF Agree
<1>1. Agree(F, G, H, K, p, UscRTCmd(q), UscRTCmd(r))
  BY DEF UscRTCmd, Formed
<1>2. Agree(F, G, H, K, p, UscDmaCmd(q), UscDmaCmd(r))
  BY DEF UscDmaCmd, Formed
<1>3. Agree(F, G, H, K, p, UscTCmd(q), UscTCmd(r))
  BY SMTT(60) DEF UscTCmd, Formed
<1> QED BY <1>1, <1>2, <1>3

\* A register written whole is agreed on from then on, as is what MapIdle
\* changes of tcsr_value.
LEMMA AgreeWrites ==
  ASSUME NEW F, NEW G, NEW H, NEW K, NEW p, NEW q, NEW r, Agree(F, G, H, K, p, q, r), NEW idle
  PROVE  /\ Agree(F \cup {"interface"}, G, H, K, p, SetInterface(q, p), SetInterface(r, p))
         /\ Agree(F \cup {"rmr"}, G, H, K, p, WriteRmr(q, p), WriteRmr(r, p))
         /\ Agree(F \cup {"ricr"}, G, H, K, p, WriteRicr(q), WriteRicr(r))
         /\ Agree(F \cup {"tmr"}, G, H, K, p, WriteTmr(q, p), WriteTmr(r, p))
         /\ Agree(F \cup {"ticr"}, G, H, K, p, WriteTicr(q), WriteTicr(r))
         /\ Agree(F, G, H, K, p, MapIdle(q, idle), MapIdle(r, idle))
         /\ Agree(F \cup {"tcsr", "tcsr_value"}, G, H, K, p, WriteTcsr(q), WriteTcsr(r))
         /\ Agree(F \cup {"ccr"}, G, H, K, p, WriteCcr(q, p), WriteCcr(r, p))
<1> USE DEF Agree, Formed
<1>1. Agree(F \cup {"interface"}, G, H, K, p, SetInterface(q, p), SetInterface(r, p))
  BY DEF SetInterface
<1>2. Agree(F \cup {"rmr"}, G, H, K, p, WriteRmr(q, p), WriteRmr(r, p))
  BY DEF WriteRmr
<1>3. Agree(F \cup {"ricr"}, G, H, K, p, WriteRicr(q), WriteRicr(r))
  BY DEF WriteRicr
<1>4. Agree(F \cup {"tmr"}, G, H, K, p, WriteTmr(q, p), WriteTmr(r, p))
  BY DEF WriteTmr
<1>5. Agree(F \cup {"ticr"}, G, H, K, p, WriteTicr(q), WriteTicr(r))
  BY DEF WriteTicr
<1>6. Agree(F, G, H, K, p, MapIdle(q, idle), MapIdle(r, idle))
  BY ZenonT(60) DEF MapIdle
<1>7. Agree(F \cup {"tcsr", "tcsr_value"}, G, H, K, p, WriteTcsr(q), WriteTcsr(r))
  BY ZenonT(60) DEF WriteTcsr
<1>8. Agree(F \cup {"ccr"}, G, H, K, p, WriteCcr(q, p), WriteCcr(r, p))
  BY ZenonT(60) DEF WriteCcr
<1> QED BY <1>1, <1>2, <1>3, <1>4, <1>5, <1>6, <1>7, <1>8

\* With CMR come the address filter and, in RAW mode, the DCD pin.
LEMMA AgreeCmr ==
  ASSUME NEW F, NEW G, NEW H, NEW K, NEW p, NEW p0, NEW q, NEW r, Agree(F, G, H, K, p0, q, r)
  PROVE  Agree(F \cup {"cmr"}, G, H, K, p, WriteCmr(q, p), WriteCmr(r, p))
<1> DEFINE loop == "HDLC_LOOPMODE" \in p.flags
           raw  == ~loop /\ p.mode = "RAW"
<1>1. PICK cmr : /\ cmr.filter <=> p.addr_filter # NoFilter
                 /\ cmr.tx = "monosync" => raw
                 /\ cmr.rx = "extsync" => raw
                 /\ \A x \in {q, r} : WriteCmr(x, p) =
                      [x EXCEPT !.cmr = cmr, !.iocr.dcd = IF raw THEN "rxsync" ELSE @,
                                !.rsr = IF cmr.filter THEN p.addr_filter ELSE @]
  <2> DEFINE c == [tx |-> CASE loop -> "loop" [] raw -> "monosync" [] OTHER -> "hdlc",
                   rx |-> IF raw THEN "extsync" ELSE "hdlc",
                   underrun |-> CASE loop -> "UNDERRUN_FLAG"
                                  [] raw -> "no"
                                  [] OTHER -> First(p, "UNDERRUN_ABORT15", "UNDERRUN_FLAG",
                                                    "UNDERRUN_CRC", "no"),
                   preamble |-> ~loop /\ p.preamble # "none",
                   share_zero |-> p.mode = "HDLC" /\ "SHARE_ZERO" \in p.flags,
                   filter |-> p.addr_filter # NoFilter, stop2 |-> FALSE]
  <2>1. c.filter <=> p.addr_filter # NoFilter
    OBVIOUS
  <2>2. c.tx = "monosync" => raw
    OBVIOUS
  <2>3. c.rx = "extsync" => raw
    OBVIOUS
  <2>4. \A x \in {q, r} : WriteCmr(x, p) =
                      [x EXCEPT !.cmr = c, !.iocr.dcd = IF raw THEN "rxsync" ELSE @,
                                !.rsr = IF c.filter THEN p.addr_filter ELSE @]
    BY Zenon DEF WriteCmr
  <2> HIDE DEF c
  <2> QED BY <2>1, <2>2, <2>3, <2>4, Zenon
<1>2. raw => p.mode = "RAW"
  OBVIOUS
<1> HIDE DEF raw
<1>3. ASSUME NEW x \in {q, r}
      PROVE  /\ Formed(WriteCmr(x, p))
             /\ \A f \in Names \ {"cmr", "iocr", "rsr"} : WriteCmr(x, p)[f] = x[f]
             /\ WriteCmr(x, p).cmr = cmr
             /\ WriteCmr(x, p).rsr = IF cmr.filter THEN p.addr_filter ELSE x.rsr
             /\ WriteCmr(x, p).iocr = [x.iocr EXCEPT !.dcd = IF raw THEN "rxsync" ELSE @]
  <2>1. Formed(x)
    BY <1>3 DEF Agree
  <2>2. WriteCmr(x, p) = [x EXCEPT !.cmr = cmr, !.iocr.dcd = IF raw THEN "rxsync" ELSE @,
                                   !.rsr = IF cmr.filter THEN p.addr_filter ELSE @]
    BY <1>1, <1>3
  <2> QED BY <2>1, <2>2, ZenonT(60) DEF Formed
<1> DEFINE a == WriteCmr(q, p)
           b == WriteCmr(r, p)
<1> HIDE DEF a, b
<1>4. /\ Formed(a) /\ Formed(b)
      /\ \A f \in Names \ {"cmr", "iocr", "rsr"} : a[f] = q[f] /\ b[f] = r[f]
      /\ a.cmr = cmr /\ b.cmr = cmr
      /\ a.rsr = IF cmr.filter THEN p.addr_filter ELSE q.rsr
      /\ b.rsr = IF cmr.filter THEN p.addr_filter ELSE r.rsr
      /\ a.iocr = [q.iocr EXCEPT !.dcd = IF raw THEN "rxsync" ELSE @]
      /\ b.iocr = [r.iocr EXCEPT !.dcd = IF raw THEN "rxsync" ELSE @]
  BY <1>3 DEF a, b
<1>5. \A f \in F \cup {"cmr"} : a[f] = b[f]
  BY <1>4 DEF Agree
<1>6. /\ \A g \in G : a.iocr[g] = b.iocr[g]
      /\ a.cmr.rx = "extsync" => a.iocr.dcd = b.iocr.dcd
  BY <1>1, <1>4 DEF Agree, Formed
<1>7. /\ \A h \in H : a.pcr[h] = b.pcr[h]
      /\ K \subseteq a.sicr /\ K \subseteq b.sicr
      /\ a.cmr.filter => a.rsr = b.rsr
      /\ a.cmr.tx = "monosync" => p.mode = "RAW"
      /\ "hcr" \in F => (a.hcr.brg1 => a.tc1 = b.tc1)
  BY <1>1, <1>2, <1>4 DEF Agree
<1>8. Agree(F \cup {"cmr"}, G, H, K, p, a, b)
  BY <1>4, <1>5, <1>6, <1>7 DEF Agree
<1> QED BY <1>8 DEF a, b

\* The idle pattern, and in RAW mode the sync character.
LEMMA AgreeTxIdle ==
  ASSUME NEW F, NEW G, NEW H, NEW K, NEW p, NEW q, NEW r, Agree(F, G, H, K, p, q, r), NEW idle
  PROVE  /\ Agree(F, G, H, K, p, SetTxIdle(q, p, idle), SetTxIdle(r, p, idle))
         /\ p.mode = "RAW" =>
              Agree(F \cup {"tsr"}, G, H, K, p, SetTxIdle(q, p, idle), SetTxIdle(r, p, idle))
<1> DEFINE a == MapIdle(q, idle)
           b == MapIdle(r, idle)
<1>1. Agree(F, G, H, K, p, a, b)
  BY AgreeWrites
<1>2. /\ SetTxIdle(q, p, idle) = [a EXCEPT !.tsr = IF p.mode = "RAW" THEN SyncChar(idle) ELSE @]
      /\ SetTxIdle(r, p, idle) = [b EXCEPT !.tsr = IF p.mode = "RAW" THEN SyncChar(idle) ELSE @]
  BY Zenon DEF SetTxIdle
<1> HIDE DEF a, b
<1>3. Agree(F, G, H, K, p, SetTxIdle(q, p, idle), SetTxIdle(r, p, idle))
  BY <1>1, <1>2 DEF Agree, Formed
<1>4. ASSUME p.mode = "RAW"
      PROVE  Agree(F \cup {"tsr"}, G, H, K, p, SetTxIdle(q, p, idle), SetTxIdle(r, p, idle))
  BY <1>1, <1>2, <1>4 DEF Agree, Formed
<1> QED BY <1>3, <1>4

\* The clock sources, with TxC, RxC and the line driver of TxC.
LEMMA AgreeCmcr ==
  ASSUME NEW F, NEW G, NEW H, NEW K, NEW p, NEW q, NEW r, Agree(F, G, H, K, p, q, r)
  PROVE  Agree(F \cup {"cmcr"}, G \cup {"txc", "rxc"}, H \cup {"port5"}, K, p,
               WriteCmcr(q, p), WriteCmcr(r, p))
<1> DEFINE rx == First(p, "RXC_DPLL", "RXC_BRG", "RXC_TXCPIN", "RXC_RXCPIN")
           tx == First(p, "TXC_DPLL", "TXC_BRG", "TXC_RXCPIN", "TXC_TXCPIN")
           port5 == IF tx = "TXC_TXCPIN" THEN "high" ELSE "low"
           txc == IF tx = "TXC_TXCPIN" THEN "input" ELSE "clock"
           rxc == IF rx = "RXC_RXCPIN" THEN "input" ELSE "clock"
           cmcr == [rx |-> rx, tx |-> tx]
           a == WriteCmcr(q, p)
           b == WriteCmcr(r, p)
<1>1. \A x : WriteCmcr(x, p) =
               [x EXCEPT !.cmcr = cmcr, !.pcr.port5 = port5, !.iocr.txc = txc, !.iocr.rxc = rxc]
  BY Zenon DEF WriteCmcr
<1> HIDE DEF port5, txc, rxc, cmcr
<1>2. ASSUME NEW x, Formed(x)
      PROVE  /\ Formed(WriteCmcr(x, p))
             /\ \A f \in Names \ {"cmcr", "iocr", "pcr"} : WriteCmcr(x, p)[f] = x[f]
             /\ WriteCmcr(x, p).cmcr = cmcr
             /\ WriteCmcr(x, p).pcr = [x.pcr EXCEPT !.port5 = port5]
             /\ WriteCmcr(x, p).iocr = [x.iocr EXCEPT !.txc = txc, !.rxc = rxc]
  <2>1. WriteCmcr(x, p) =
          [x EXCEPT !.cmcr = cmcr, !.pcr.port5 = port5, !.iocr.txc = txc, !.iocr.rxc = rxc]
    BY <1>1, Zenon
  <2> QED BY <1>2, <2>1, ZenonT(60) DEF Formed
<1> HIDE DEF a, b
<1>3. /\ Formed(a) /\ Formed(b)
      /\ \A f \in Names \ {"cmcr", "iocr", "pcr"} : a[f] = q[f] /\ b[f] = r[f]
      /\ a.cmcr = cmcr /\ b.cmcr = cmcr
      /\ a.pcr = [q.pcr EXCEPT !.port5 = port5] /\ b.pcr = [r.pcr EXCEPT !.port5 = port5]
      /\ a.iocr = [q.iocr EXCEPT !.txc = txc, !.rxc = rxc]
      /\ b.iocr = [r.iocr EXCEPT !.txc = txc, !.rxc = rxc]
  <2>1. Formed(q) /\ Formed(r)
    BY DEF Agree
  <2> QED BY <1>2, <2>1, Zenon DEF a, b
<1>4. \A f \in F \cup {"cmcr"} : a[f] = b[f]
  BY <1>3 DEF Agree, Formed
<1>5. /\ \A g \in G \cup {"txc", "rxc"} : a.iocr[g] = b.iocr[g]
      /\ a.cmr.rx = "extsync" /\ "cmr" \in F => a.iocr.dcd = b.iocr.dcd
  <2>1. /\ a.iocr.txc = txc /\ b.iocr.txc = txc /\ a.iocr.rxc = rxc /\ b.iocr.rxc = rxc
        /\ \A g \in IocrNames \ {"txc", "rxc"} : a.iocr[g] = q.iocr[g] /\ b.iocr[g] = r.iocr[g]
    BY <1>3 DEF Agree, Formed
  <2>2. \A g \in G \cup {"txc", "rxc"} : a.iocr[g] = b.iocr[g]
    BY <2>1 DEF Agree
  <2>3. a.cmr = q.cmr
    BY <1>3
  <2>4. a.cmr.rx = "extsync" /\ "cmr" \in F => a.iocr.dcd = b.iocr.dcd
    BY <2>1, <2>3 DEF Agree
  <2> QED BY <2>2, <2>4
<1>6. \A h \in H \cup {"port5"} : a.pcr[h] = b.pcr[h]
  BY <1>3 DEF Agree, Formed
<1>7. /\ K \subseteq a.sicr /\ K \subseteq b.sicr
      /\ "cmr" \in F => /\ a.cmr.filter => a.rsr = b.rsr
                        /\ a.cmr.tx = "monosync" => p.mode = "RAW"
      /\ "hcr" \in F => (a.hcr.brg1 => a.tc1 = b.tc1)
  BY <1>3 DEF Agree, Formed
<1>8. Agree(F \cup {"cmcr"}, G \cup {"txc", "rxc"}, H \cup {"port5"}, K, p, a, b)
  BY <1>3, <1>4, <1>5, <1>6, <1>7 DEF Agree
<1> QED BY <1>8 DEF a, b

\* HCR with the time constant of the DPLL; the interrupts of usc_set_sdlc_mode.
LEMMA AgreeClocks ==
  ASSUME NEW F, NEW G, NEW H, NEW K, NEW p, NEW q, NEW r, Agree(F, G, H, K, p, q, r)
  PROVE  /\ Agree(F \cup {"hcr"}, G, H, K, p, WriteHcr(q, p), WriteHcr(r, p))
         /\ Agree(F \cup {"ccsr", "mie"}, G, H, K \cup {"RCC"}, p, WriteCcsr(q, p), WriteCcsr(r, p))
<1> USE DEF Agree, Formed
<1>1. Agree(F \cup {"hcr"}, G, H, K, p, WriteHcr(q, p), WriteHcr(r, p))
  BY ZenonT(60) DEF WriteHcr
<1>2. Agree(F \cup {"ccsr", "mie"}, G, H, K \cup {"RCC"}, p, WriteCcsr(q, p), WriteCcsr(r, p))
  BY ZenonT(60) DEF WriteCcsr
<1> QED BY <1>1, <1>2

\* The DMA channels.
LEMMA AgreeDma ==
  ASSUME NEW F, NEW G, NEW H, NEW K, NEW p, NEW q, NEW r, Agree(F, G, H, K, p, q, r)
  PROVE  Agree(F \cup {"mbre_bit", "dcar", "dma"}, G, H, K, p, WriteDma(q), WriteDma(r))
<1> DEFINE on(x) == [x EXCEPT !.mbre_bit = TRUE, !.dcar = TRUE, !.dma = "list"]
           a == UscDmaCmd([q EXCEPT !.mbre_bit = FALSE, !.dcar = FALSE])
           b == UscDmaCmd([r EXCEPT !.mbre_bit = FALSE, !.dcar = FALSE])
<1>1. WriteDma(q) = on(a) /\ WriteDma(r) = on(b)
  BY Zenon DEF WriteDma
<1>2. Agree(F \cup {"mbre_bit", "dcar"}, G, H, K, p, a, b)
  BY ZenonT(60) DEF Agree, Formed, UscDmaCmd
<1> HIDE DEF a, b
<1>3. Agree(F \cup {"mbre_bit", "dcar", "dma"}, G, H, K, p, on(a), on(b))
  BY <1>2, ZenonT(60) DEF Agree, Formed
<1> QED BY <1>1, <1>3

\* Stopping and starting keep an agreement.
LEMMA AgreeStops ==
  ASSUME NEW F, NEW G, NEW H, NEW K, NEW p, NEW q, NEW r, Agree(F, G, H, K, p, q, r)
  PROVE  /\ Agree(F, G, H, K, p, StopReceiver(q), StopReceiver(r))
         /\ Agree(F, G, H, K, p, StopTransmitter(q), StopTransmitter(r))
         /\ Agree(F, G, H, K, p, StartReceiver(q, p), StartReceiver(r, p))
<1>1. ASSUME NEW x, NEW y, Agree(F, G, H, K, p, x, y)
      PROVE  Agree(F, G, H, K, p, [x EXCEPT !.rmr.enabled = "no"], [y EXCEPT !.rmr.enabled = "no"])
  BY <1>1 DEF Agree, Formed
<1>2. ASSUME NEW x, NEW y, Agree(F, G, H, K, p, x, y)
      PROVE  Agree(F, G, H, K, p, [x EXCEPT !.tmr.enabled = "no"], [y EXCEPT !.tmr.enabled = "no"])
  BY <1>2 DEF Agree, Formed
<1>3. Agree(F, G, H, K, p, StopReceiver(q), StopReceiver(r))
  <2> DEFINE a == [q EXCEPT !.rmr.enabled = "no"]
             b == [r EXCEPT !.rmr.enabled = "no"]
             c == UscDmaCmd(a)
             d == UscDmaCmd(b)
  <2>1. StopReceiver(q) = UscRTCmd(c) /\ StopReceiver(r) = UscRTCmd(d)
    BY DEF StopReceiver
  <2>2. Agree(F, G, H, K, p, a, b)
    BY <1>1
  <2> HIDE DEF a, b
  <2>3. Agree(F, G, H, K, p, c, d)
    BY <2>2, AgreeCommands
  <2> HIDE DEF c, d
  <2> QED BY <2>1, <2>3, AgreeCommands
<1>4. Agree(F, G, H, K, p, StopTransmitter(q), StopTransmitter(r))
  <2> DEFINE a == UscTCmd(q)
             b == UscTCmd(r)
             c == [a EXCEPT !.tmr.enabled = "no"]
             d == [b EXCEPT !.tmr.enabled = "no"]
             e == UscDmaCmd(c)
             f == UscDmaCmd(d)
  <2>1. StopTransmitter(q) = UscRTCmd(e) /\ StopTransmitter(r) = UscRTCmd(f)
    BY DEF StopTransmitter
  <2>2. Agree(F, G, H, K, p, a, b)
    BY AgreeCommands
  <2> HIDE DEF a, b
  <2>3. Agree(F, G, H, K, p, c, d)
    BY <2>2, <1>2
  <2> HIDE DEF c, d
  <2>4. Agree(F, G, H, K, p, e, f)
    BY <2>3, AgreeCommands
  <2> HIDE DEF e, f
  <2> QED BY <2>1, <2>4, AgreeCommands
<1>5. Agree(F, G, H, K, p, StartReceiver(q, p), StartReceiver(r, p))
  <2> DEFINE v == IF Sync(p) /\ "AUTO_DCD" \in p.flags THEN "auto_dcd" ELSE "yes"
             a == StopReceiver(q)
             b == StopReceiver(r)
             c == UscDmaCmd(a)
             d == UscDmaCmd(b)
  <2>1. /\ StartReceiver(q, p) = [c EXCEPT !.rmr.enabled = v, !.ccsr = "sync"]
        /\ StartReceiver(r, p) = [d EXCEPT !.rmr.enabled = v, !.ccsr = "sync"]
    BY Zenon DEF StartReceiver
  <2> HIDE DEF a, b, v
  <2>2. Agree(F, G, H, K, p, c, d)
    BY <1>3, AgreeCommands DEF a, b
  <2> HIDE DEF c, d
  <2> DEFINE e == [c EXCEPT !.rmr.enabled = v]
             f == [d EXCEPT !.rmr.enabled = v]
  <2>3. Agree(F, G, H, K, p, e, f)
    BY <2>2 DEF Agree, Formed
  <2>4. /\ [c EXCEPT !.rmr.enabled = v, !.ccsr = "sync"] = [e EXCEPT !.ccsr = "sync"]
        /\ [d EXCEPT !.rmr.enabled = v, !.ccsr = "sync"] = [f EXCEPT !.ccsr = "sync"]
    OBVIOUS
  <2> HIDE DEF e, f
  <2>5. Agree(F, G, H, K, p, [e EXCEPT !.ccsr = "sync"], [f EXCEPT !.ccsr = "sync"])
    BY <2>3 DEF Agree, Formed
  <2> QED BY <2>1, <2>4, <2>5
<1> QED BY <1>3, <1>4, <1>5

\* Who agrees in more agrees in less.
LEMMA Weaker ==
  ASSUME NEW F, NEW G, NEW H, NEW K, NEW p, NEW q, NEW r, Agree(F, G, H, K, p, q, r),
         NEW E \in SUBSET F, NEW G1 \in SUBSET G, NEW H1 \in SUBSET H, NEW K1 \in SUBSET K,
         NEW p1, "cmr" \notin E \/ p1.mode = p.mode,
         "dcar" \in E => "mbre_bit" \in E, "tcsr" \in E => "tcsr_value" \in E
  PROVE  Agree(E, G1, H1, K1, p1, q, r)
<1> HIDE DEF Names, IocrNames, PcrNames
<1> QED BY DEF Agree

\* What usc_set_sdlc_mode writes.
SdlcRegs == {"cmr", "rmr", "ricr", "tmr", "ticr", "tcsr", "tcsr_value", "cmcr", "hcr", "ccsr",
             "mie", "mbre_bit", "dcar", "dma", "ccr", "interface"}

\* usc_set_sdlc_mode makes any two chips agree in all it writes, in whatever
\* order modes came before.
LEMMA AgreeSdlc ==
  ASSUME NEW F, NEW G, NEW H, NEW K, NEW p, NEW p0, NEW q, NEW r, Agree(F, G, H, K, p0, q, r),
         NEW idle, NEW T, T = {} \/ (p.mode = "RAW" /\ T = {"tsr"})
  PROVE  Agree(F \cup SdlcRegs \cup T, G \cup {"txc", "rxc"}, H \cup {"port5"}, K \cup {"RCC"}, p,
               SetSdlcMode(q, p, idle), SetSdlcMode(r, p, idle))
<1> DEFINE s1(x) == WriteCmr(x, p)
           s2(x) == WriteRmr(s1(x), p)
           s3(x) == WriteRicr(s2(x))
           s4(x) == WriteTmr(s3(x), p)
           s5(x) == SetTxIdle(s4(x), p, idle)
           s6(x) == UscTCmd(s5(x))
           s7(x) == WriteTicr(s6(x))
           s8(x) == UscTCmd(s7(x))
           s9(x) == WriteTcsr(s8(x))
           s10(x) == WriteCmcr(s9(x), p)
           s11(x) == WriteHcr(s10(x), p)
           s12(x) == WriteCcsr(s11(x), p)
           s13(x) == WriteDma(s12(x))
           s14(x) == WriteCcr(s13(x), p)
           s15(x) == StopTransmitter(s14(x))
           s16(x) == StopReceiver(s15(x))
           s17(x) == SetInterface(s16(x), p)
           F1 == F \cup {"cmr"}
           F2 == F1 \cup {"rmr"}
           F3 == F2 \cup {"ricr"}
           F4 == F3 \cup {"tmr"}
           F5 == F4 \cup T
           F7 == F5 \cup {"ticr"}
           F9 == F7 \cup {"tcsr", "tcsr_value"}
           F10 == F9 \cup {"cmcr"}
           F11 == F10 \cup {"hcr"}
           F12 == F11 \cup {"ccsr", "mie"}
           F13 == F12 \cup {"mbre_bit", "dcar", "dma"}
           F14 == F13 \cup {"ccr"}
           F17 == F14 \cup {"interface"}
           G1 == G \cup {"txc", "rxc"}
           H1 == H \cup {"port5"}
           K1 == K \cup {"RCC"}
<1>0. SetSdlcMode(q, p, idle) = s17(q) /\ SetSdlcMode(r, p, idle) = s17(r)
  BY DEF SetSdlcMode
<1>1. Agree(F1, G, H, K, p, s1(q), s1(r))
  BY AgreeCmr
<1> HIDE DEF s1, F1
<1>2. Agree(F2, G, H, K, p, s2(q), s2(r))
  BY <1>1, AgreeWrites
<1> HIDE DEF s2, F2
<1>3. Agree(F3, G, H, K, p, s3(q), s3(r))
  BY <1>2, AgreeWrites
<1> HIDE DEF s3, F3
<1>4. Agree(F4, G, H, K, p, s4(q), s4(r))
  BY <1>3, AgreeWrites
<1> HIDE DEF s4, F4
<1>5. Agree(F5, G, H, K, p, s5(q), s5(r))
  BY <1>4, AgreeTxIdle
<1> HIDE DEF s5, F5
<1>6. Agree(F5, G, H, K, p, s6(q), s6(r))
  BY <1>5, AgreeCommands
<1> HIDE DEF s6
<1>7. Agree(F7, G, H, K, p, s7(q), s7(r))
  BY <1>6, AgreeWrites
<1> HIDE DEF s7, F7
<1>8. Agree(F7, G, H, K, p, s8(q), s8(r))
  BY <1>7, AgreeCommands
<1> HIDE DEF s8
<1>9. Agree(F9, G, H, K, p, s9(q), s9(r))
  BY <1>8, AgreeWrites
<1> HIDE DEF s9, F9
<1>10. Agree(F10, G1, H1, K, p, s10(q), s10(r))
  BY <1>9, AgreeCmcr
<1> HIDE DEF s10, F10
<1>11. Agree(F11, G1, H1, K, p, s11(q), s11(r))
  BY <1>10, AgreeClocks
<1> HIDE DEF s11, F11
<1>12. Agree(F12, G1, H1, K1, p, s12(q), s12(r))
  BY <1>11, AgreeClocks
<1> HIDE DEF s12, F12
<1>13. Agree(F13, G1, H1, K1, p, s13(q), s13(r))
  BY <1>12, AgreeDma
<1> HIDE DEF s13, F13
<1>14. Agree(F14, G1, H1, K1, p, s14(q), s14(r))
  BY <1>13, AgreeWrites
<1> HIDE DEF s14, F14
<1>15. Agree(F14, G1, H1, K1, p, s15(q), s15(r))
  BY <1>14, AgreeStops
<1> HIDE DEF s15
<1>16. Agree(F14, G1, H1, K1, p, s16(q), s16(r))
  BY <1>15, AgreeStops
<1> HIDE DEF s16
<1>17. Agree(F17, G1, H1, K1, p, s17(q), s17(r))
  BY <1>16, AgreeWrites
<1> HIDE DEF s17, F17
<1>18. F17 = F \cup SdlcRegs \cup T
  BY DEF F1, F2, F3, F4, F5, F7, F9, F10, F11, F12, F13, F14, F17, SdlcRegs
<1> QED BY <1>0, <1>17, <1>18

\* usc_enable_loopback, on and off.
LEMMA AgreeLoopback ==
  ASSUME NEW F, NEW G, NEW H, NEW K, NEW p, NEW p0, NEW q, NEW r, Agree(F, G, H, K, p0, q, r)
  PROVE  /\ Agree(F \cup {"cmcr", "tc0", "loopback_bits", "ccar"}, G \cup {"txd", "rxc"}, H, K, p0,
                  LoopbackOn(q, p), LoopbackOn(r, p))
         /\ Agree(F \cup {"loopback_bits", "ccar"}, G \cup {"txd"}, H, K, p0,
                  LoopbackOff(q), LoopbackOff(r))
<1>1. Agree(F \cup {"cmcr", "tc0", "loopback_bits", "ccar"}, G \cup {"txd", "rxc"}, H, K, p0,
            LoopbackOn(q, p), LoopbackOn(r, p))
  <2> DEFINE cmcr == [rx |-> "RXC_BRG", tx |-> "TXC_BRG"]
             tc0 == IF p.clock_speed = 0 THEN 8 ELSE U16(Xtal \div p.clock_speed - 1)
             a == LoopbackOn(q, p)
             b == LoopbackOn(r, p)
             kept == Names \ {"cmcr", "tc0", "loopback_bits", "ccar", "iocr", "hcr"}
  <2>1. \A x : LoopbackOn(x, p) =
          [x EXCEPT !.iocr.txd = "high", !.iocr.rxc = "brg0", !.cmcr = cmcr, !.tc0 = tc0,
                    !.hcr.brg0 = TRUE, !.loopback_bits = TRUE, !.ccar = TRUE]
    BY Zenon DEF LoopbackOn
  <2> HIDE DEF cmcr, tc0
  <2>2. ASSUME NEW x, Formed(x)
        PROVE  /\ Formed(LoopbackOn(x, p))
               /\ \A f \in kept : LoopbackOn(x, p)[f] = x[f]
               /\ LoopbackOn(x, p).cmcr = cmcr /\ LoopbackOn(x, p).tc0 = tc0
               /\ LoopbackOn(x, p).loopback_bits = TRUE /\ LoopbackOn(x, p).ccar = TRUE
               /\ LoopbackOn(x, p).hcr = [x.hcr EXCEPT !.brg0 = TRUE]
               /\ LoopbackOn(x, p).iocr = [x.iocr EXCEPT !.txd = "high", !.rxc = "brg0"]
    <3>1. LoopbackOn(x, p) =
          [x EXCEPT !.iocr.txd = "high", !.iocr.rxc = "brg0", !.cmcr = cmcr, !.tc0 = tc0,
                    !.hcr.brg0 = TRUE, !.loopback_bits = TRUE, !.ccar = TRUE]
      BY <2>1, Zenon
    <3> DEFINE y == LoopbackOn(x, p)
    <3>2. DOMAIN x = Names /\ DOMAIN x.iocr = IocrNames
      BY <2>2 DEF Formed
    <3> HIDE DEF y
    <3>3. y = [x EXCEPT !.iocr.txd = "high", !.iocr.rxc = "brg0", !.cmcr = cmcr, !.tc0 = tc0,
                        !.hcr.brg0 = TRUE, !.loopback_bits = TRUE, !.ccar = TRUE]
      BY <3>1 DEF y
    <3>4. DOMAIN y = Names /\ \A f \in kept : y[f] = x[f]
      BY <3>2, <3>3
    <3>5. y.cmcr = cmcr /\ y.tc0 = tc0 /\ y.loopback_bits = TRUE /\ y.ccar = TRUE
      BY <3>2, <3>3
    <3>6. y.hcr = [x.hcr EXCEPT !.brg0 = TRUE]
      BY <3>2, <3>3
    <3>7. y.iocr = [x.iocr EXCEPT !.txd = "high", !.rxc = "brg0"]
      BY <3>2, <3>3
    <3>8. Formed(y)
      BY <2>2, <3>4, <3>5, <3>6, <3>7, ZenonT(60) DEF Formed
    <3> QED BY <3>4, <3>5, <3>6, <3>7, <3>8 DEF y
  <2> HIDE DEF a, b, kept
  <2>3. Formed(q) /\ Formed(r)
    BY DEF Agree
  <2>4. /\ Formed(a) /\ Formed(b)
        /\ \A f \in kept : a[f] = q[f] /\ b[f] = r[f]
        /\ a.cmcr = b.cmcr /\ a.tc0 = b.tc0 /\ a.loopback_bits = b.loopback_bits /\ a.ccar = b.ccar
        /\ a.hcr = [q.hcr EXCEPT !.brg0 = TRUE] /\ b.hcr = [r.hcr EXCEPT !.brg0 = TRUE]
        /\ a.iocr = [q.iocr EXCEPT !.txd = "high", !.rxc = "brg0"]
        /\ b.iocr = [r.iocr EXCEPT !.txd = "high", !.rxc = "brg0"]
    <3> HIDE DEF Names
    <3>1. /\ Formed(a) /\ \A f \in kept : a[f] = q[f]
          /\ a.cmcr = cmcr /\ a.tc0 = tc0 /\ a.loopback_bits = TRUE /\ a.ccar = TRUE
          /\ a.hcr = [q.hcr EXCEPT !.brg0 = TRUE]
          /\ a.iocr = [q.iocr EXCEPT !.txd = "high", !.rxc = "brg0"]
      BY <2>2, <2>3, Zenon DEF a
    <3>2. /\ Formed(b) /\ \A f \in kept : b[f] = r[f]
          /\ b.cmcr = cmcr /\ b.tc0 = tc0 /\ b.loopback_bits = TRUE /\ b.ccar = TRUE
          /\ b.hcr = [r.hcr EXCEPT !.brg0 = TRUE]
          /\ b.iocr = [r.iocr EXCEPT !.txd = "high", !.rxc = "brg0"]
      BY <2>2, <2>3, Zenon DEF b
    <3> QED BY <3>1, <3>2
  <2> USE DEF kept
  <2>5. \A f \in F \cup {"cmcr", "tc0", "loopback_bits", "ccar"} : a[f] = b[f]
    <3>1. "hcr" \in F => a.hcr = b.hcr
      BY <2>4 DEF Agree
    <3> QED BY <2>4, <3>1 DEF Agree
  <2>6. /\ \A g \in G \cup {"txd", "rxc"} : a.iocr[g] = b.iocr[g]
        /\ a.cmr.rx = "extsync" /\ "cmr" \in F => a.iocr.dcd = b.iocr.dcd
    <3>1. /\ a.iocr.txd = "high" /\ b.iocr.txd = "high" /\ a.iocr.rxc = "brg0" /\ b.iocr.rxc = "brg0"
          /\ \A g \in IocrNames \ {"txd", "rxc"} : a.iocr[g] = q.iocr[g] /\ b.iocr[g] = r.iocr[g]
      BY <2>3, <2>4 DEF Formed
    <3>2. \A g \in G \cup {"txd", "rxc"} : a.iocr[g] = b.iocr[g]
      BY <3>1 DEF Agree
    <3>3. a.cmr = q.cmr
      BY <2>4
    <3>4. a.cmr.rx = "extsync" /\ "cmr" \in F => a.iocr.dcd = b.iocr.dcd
      BY <3>1, <3>3 DEF Agree
    <3> QED BY <3>2, <3>4
  <2>7. /\ \A h \in H : a.pcr[h] = b.pcr[h]
        /\ K \subseteq a.sicr /\ K \subseteq b.sicr
        /\ "cmr" \in F => /\ a.cmr.filter => a.rsr = b.rsr
                          /\ a.cmr.tx = "monosync" => p0.mode = "RAW"
    BY <2>4 DEF Agree
  <2>8. "hcr" \in F => (a.hcr.brg1 => a.tc1 = b.tc1)
    <3>1. a.hcr.brg1 = q.hcr.brg1 /\ a.tc1 = q.tc1 /\ b.tc1 = r.tc1
      BY <2>3, <2>4 DEF Formed
    <3> QED BY <3>1, Zenon DEF Agree
  <2>9. Agree(F \cup {"cmcr", "tc0", "loopback_bits", "ccar"}, G \cup {"txd", "rxc"}, H, K, p0, a, b)
    BY <2>4, <2>5, <2>6, <2>7, <2>8 DEF Agree
  <2> QED BY <2>9 DEF a, b
<1>2. Agree(F \cup {"loopback_bits", "ccar"}, G \cup {"txd"}, H, K, p0, LoopbackOff(q), LoopbackOff(r))
  BY ZenonT(60) DEF Agree, Formed, LoopbackOff
<1> QED BY <1>1, <1>2

\* What usc_loopback_frame leaves written.
FrameRegs == SdlcRegs \cup {"tc0", "loopback_bits", "ccar"}


\* usc_loopback_frame; CMR is left out, as it is written for HDLC mode.
LEMMA AgreeFrame ==
  ASSUME NEW q, NEW r, Formed(q), Formed(r), NEW p, NEW idle
  PROVE  Agree(FrameRegs \ {"cmr"}, {"txc", "rxc", "txd"}, {"port5"}, {"RCC"}, p,
               LoopbackFrame(q, p, idle), LoopbackFrame(r, p, idle))
<1> DEFINE hdlc == [p EXCEPT !.mode = "HDLC"]
           ccr == [length |-> 8, pattern |-> "ones", blocks |-> FALSE]
           s1(x) == [x EXCEPT !.mie = FALSE]
           s2(x) == SetSdlcMode(s1(x), hdlc, idle)
           s3(x) == LoopbackOn(s2(x), hdlc)
           s4(x) == [s3(x) EXCEPT !.tc0 = 0, !.ccr = ccr, !.rmr.enabled = "yes", !.tmr.enabled = "yes"]
           s5(x) == UscRTCmd(s4(x))
           s6(x) == UscTCmd(s5(x))
           s7(x) == LoopbackOff(s6(x))
           s8(x) == [s7(x) EXCEPT !.mie = TRUE]
           Z == {}
           C == {"txc", "rxc"}
           D == {"txd", "rxc"}
           G == {"txc", "rxc", "txd"}
           H == {"port5"}
           K == {"RCC"}
           L == {"cmcr", "tc0", "loopback_bits", "ccar"}
           M == {"loopback_bits", "ccar"}
           X == {"txd"}
           E == FrameRegs \ {"cmr"}
<1>0. LoopbackFrame(q, p, idle) = s8(q) /\ LoopbackFrame(r, p, idle) = s8(r)
  BY DEF LoopbackFrame
<1>a. /\ SdlcRegs \in SUBSET (Z \cup SdlcRegs \cup Z) /\ C \in SUBSET (Z \cup C)
      /\ H \in SUBSET (Z \cup H) /\ K \in SUBSET (Z \cup K)
      /\ FrameRegs \in SUBSET (SdlcRegs \cup L) /\ G \in SUBSET (C \cup D)
      /\ H \in SUBSET H /\ K \in SUBSET K
      /\ FrameRegs \in SUBSET (FrameRegs \cup M) /\ G \in SUBSET (G \cup X) /\ G \in SUBSET G
  BY DEF FrameRegs
<1>b. /\ "dcar" \in SdlcRegs => "mbre_bit" \in SdlcRegs
      /\ "tcsr" \in SdlcRegs => "tcsr_value" \in SdlcRegs
      /\ "dcar" \in FrameRegs => "mbre_bit" \in FrameRegs
      /\ "tcsr" \in FrameRegs => "tcsr_value" \in FrameRegs
      /\ "dcar" \in E => "mbre_bit" \in E
      /\ "tcsr" \in E => "tcsr_value" \in E
      /\ "cmr" \notin E /\ E \in SUBSET FrameRegs
  BY DEF FrameRegs, SdlcRegs
<1> HIDE DEF hdlc, ccr
<1>1. Agree(Z, Z, Z, Z, p, s1(q), s1(r))
  BY DEF Agree, Formed
<1> HIDE DEF s1
<1>2. Agree(SdlcRegs, C, H, K, hdlc, s2(q), s2(r))
  <2> HIDE DEF Z
  <2>1. Agree(Z \cup SdlcRegs \cup Z, Z \cup C, Z \cup H, Z \cup K, hdlc, s2(q), s2(r))
    BY <1>1, AgreeSdlc DEF Z
  <2> HIDE DEF s2, C, H, K
  <2> QED BY <2>1, <1>a, <1>b, Weaker
<1> HIDE DEF s2
<1>3. Agree(FrameRegs, G, H, K, hdlc, s3(q), s3(r))
  <2> HIDE DEF C, H, K
  <2>1. Agree(SdlcRegs \cup L, C \cup D, H, K, hdlc, s3(q), s3(r))
    BY <1>2, AgreeLoopback
  <2> HIDE DEF s3, L, D, G
  <2> QED BY <2>1, <1>a, <1>b, Weaker
<1> HIDE DEF s3, L, D, C
<1>4. Agree(FrameRegs, G, H, K, hdlc, s4(q), s4(r))
  BY <1>3 DEF Agree, Formed, FrameRegs, SdlcRegs
<1> HIDE DEF s4, G, H, K
<1>5. Agree(FrameRegs, G, H, K, hdlc, s5(q), s5(r))
  BY <1>4, AgreeCommands
<1> HIDE DEF s5
<1>6. Agree(FrameRegs, G, H, K, hdlc, s6(q), s6(r))
  BY <1>5, AgreeCommands
<1> HIDE DEF s6
<1>7. Agree(FrameRegs, G, H, K, hdlc, s7(q), s7(r))
  <2>1. Agree(FrameRegs \cup M, G \cup X, H, K, hdlc, s7(q), s7(r))
    BY <1>6, AgreeLoopback
  <2> HIDE DEF s7, M, X
  <2> QED BY <2>1, <1>a, <1>b, Weaker
<1> HIDE DEF s7
<1>8. Agree(FrameRegs, G, H, K, hdlc, s8(q), s8(r))
  BY <1>7 DEF Agree, Formed
<1> HIDE DEF s8, E
<1>9. Agree(E, G, H, K, p, s8(q), s8(r))
  BY <1>8, <1>a, <1>b, Weaker
<1> QED BY <1>0, <1>9 DEF E, G, H, K

\* A bit of HCR changed alone, which needs no agreement on HCR.
LEMMA AgreeBrg0 ==
  ASSUME NEW F, NEW G, NEW H, NEW K, NEW p, NEW q, NEW r, Agree(F, G, H, K, p, q, r),
         NEW v
  PROVE  Agree(F, G, H, K, p, [q EXCEPT !.hcr.brg0 = v], [r EXCEPT !.hcr.brg0 = v])
<1> DEFINE t(x) == [x EXCEPT !.hcr.brg0 = v]
           kept == Names \ {"hcr"}
<1>1. ASSUME NEW x, Formed(x)
      PROVE  /\ Formed(t(x)) /\ \A f \in kept : t(x)[f] = x[f]
             /\ t(x).hcr = [x.hcr EXCEPT !.brg0 = v] /\ t(x).hcr.brg1 = x.hcr.brg1
  BY <1>1 DEF Formed
<1> HIDE DEF t
<1>2. Formed(q) /\ Formed(r)
  BY DEF Agree
<1> DEFINE a == t(q)
           b == t(r)
<1>3. /\ Formed(a) /\ \A f \in kept : a[f] = q[f]
      /\ a.hcr = [q.hcr EXCEPT !.brg0 = v] /\ a.hcr.brg1 = q.hcr.brg1
  BY <1>1, <1>2, Zenon
<1>4. /\ Formed(b) /\ \A f \in kept : b[f] = r[f]
      /\ b.hcr = [r.hcr EXCEPT !.brg0 = v] /\ b.hcr.brg1 = r.hcr.brg1
  BY <1>1, <1>2, Zenon
<1> HIDE DEF a, b
<1>5. \A f \in F : a[f] = b[f]
  <2>1. "hcr" \in F => a.hcr = b.hcr
    BY <1>3, <1>4 DEF Agree
  <2> QED BY <1>3, <1>4, <2>1 DEF Agree
<1>6. a.tc1 = q.tc1 /\ b.tc1 = r.tc1
  BY <1>3, <1>4
<1>7. "hcr" \in F => (a.hcr.brg1 => a.tc1 = b.tc1)
  BY <1>3, <1>6, Zenon DEF Agree
<1>8. /\ a.iocr = q.iocr /\ b.iocr = r.iocr /\ a.pcr = q.pcr /\ b.pcr = r.pcr
      /\ a.sicr = q.sicr /\ b.sicr = r.sicr
      /\ a.cmr = q.cmr /\ b.cmr = r.cmr /\ a.rsr = q.rsr /\ b.rsr = r.rsr
  BY <1>3, <1>4
<1>9. Agree(F, G, H, K, p, a, b)
  <2> HIDE DEF Names, IocrNames, PcrNames
  <2> QED BY <1>3, <1>4, <1>5, <1>7, <1>8 DEF Agree
<1> QED BY <1>9 DEF a, b, t

\* A time constant.
LEMMA AgreeTc0 ==
  ASSUME NEW F, NEW G, NEW H, NEW K, NEW p, NEW q, NEW r, Agree(F, G, H, K, p, q, r), NEW v
  PROVE  Agree(F, G, H, K, p, [q EXCEPT !.tc0 = v], [r EXCEPT !.tc0 = v])
BY DEF Agree, Formed

\* usc_enable_aux_clock
LEMMA AgreeAux ==
  ASSUME NEW F, NEW G, NEW H, NEW K, NEW p, NEW q, NEW r, Agree(F, G, H, K, p, q, r), NEW rate
  PROVE  Agree(F, G, H, K, p, EnableAuxClock(q, rate), EnableAuxClock(r, rate))
<1>1. CASE rate = 0
  BY <1>1, AgreeBrg0 DEF EnableAuxClock
<1>2. CASE rate # 0
  <2> DEFINE v == TimeConstant(Xtal, rate)
             s1(x) == [x EXCEPT !.tc0 = v]
             s2(x) == [s1(x) EXCEPT !.hcr.brg0 = TRUE]
  <2>0. EnableAuxClock(q, rate) = s2(q) /\ EnableAuxClock(r, rate) = s2(r)
    BY <1>2, Zenon DEF EnableAuxClock
  <2> HIDE DEF v
  <2>1. Agree(F, G, H, K, p, s1(q), s1(r))
    BY AgreeTc0
  <2> HIDE DEF s1
  <2>2. Agree(F, G, H, K, p, s2(q), s2(r))
    BY <2>1, AgreeBrg0
  <2> QED BY <2>0, <2>2
<1> QED BY <1>1, <1>2

\* The register that matters in RAW mode alone.
Tsr(p) == IF p.mode = "RAW" THEN {"tsr"} ELSE {}

\* usc_set_sync_mode
LEMMA AgreeSync ==
  ASSUME NEW q, NEW r, Formed(q), Formed(r), NEW p, NEW idle
  PROVE  Agree(FrameRegs \cup Tsr(p), {"txc", "rxc", "txd"}, {"port5"}, {"RCC"}, p,
               SetSyncMode(q, p, idle), SetSyncMode(r, p, idle))
<1> DEFINE s1(x) == LoopbackFrame(x, p, idle)
           s2(x) == SetSdlcMode(s1(x), p, idle)
           s3(x) == EnableAuxClock(s2(x), p.clock_speed)
           s4(x) == LoopbackOn(s3(x), p)
           G == {"txc", "rxc", "txd"}
           H == {"port5"}
           K == {"RCC"}
           C == {"txc", "rxc"}
           D == {"txd", "rxc"}
           E == FrameRegs \ {"cmr"}
           L == {"cmcr", "tc0", "loopback_bits", "ccar"}
           T == Tsr(p)
           A == FrameRegs \cup T
<1>0. /\ p.loopback => SetSyncMode(q, p, idle) = s4(q) /\ SetSyncMode(r, p, idle) = s4(r)
      /\ ~p.loopback => SetSyncMode(q, p, idle) = s3(q) /\ SetSyncMode(r, p, idle) = s3(r)
  BY Zenon DEF SetSyncMode
<1>a. T = {} \/ (p.mode = "RAW" /\ T = {"tsr"})
  BY DEF Tsr
<1> HIDE DEF T
<1>b. /\ A \in SUBSET (E \cup SdlcRegs \cup T) /\ A \in SUBSET (A \cup L)
      /\ G \in SUBSET (G \cup C) /\ H \in SUBSET (H \cup H) /\ K \in SUBSET (K \cup K)
      /\ G \in SUBSET (G \cup D) /\ H \in SUBSET H /\ K \in SUBSET K
  BY DEF FrameRegs, SdlcRegs
<1>c. /\ "dcar" \in A => "mbre_bit" \in A
      /\ "tcsr" \in A => "tcsr_value" \in A
  BY DEF FrameRegs, SdlcRegs
<1> HIDE DEF A, E, G, H, K
<1>1. Agree(E, G, H, K, p, s1(q), s1(r))
  BY AgreeFrame DEF E, G, H, K
<1> HIDE DEF s1
<1>2. Agree(A, G, H, K, p, s2(q), s2(r))
  <2>1. Agree(E \cup SdlcRegs \cup T, G \cup C, H \cup H, K \cup K, p, s2(q), s2(r))
    BY <1>1, <1>a, AgreeSdlc DEF H, K
  <2> HIDE DEF s2, C
  <2> QED BY <2>1, <1>b, <1>c, Weaker
<1> HIDE DEF s2
<1>3. Agree(A, G, H, K, p, s3(q), s3(r))
  BY <1>2, AgreeAux
<1> HIDE DEF s3
<1>4. Agree(A, G, H, K, p, s4(q), s4(r))
  <2>1. Agree(A \cup L, G \cup D, H, K, p, s4(q), s4(r))
    BY <1>3, AgreeLoopback
  <2> HIDE DEF s4, D, L
  <2> QED BY <2>1, <1>b, <1>c, Weaker
<1> HIDE DEF s4
<1>5. Agree(A, G, H, K, p, SetSyncMode(q, p, idle), SetSyncMode(r, p, idle))
  BY <1>0, <1>3, <1>4
<1> QED BY <1>5 DEF A, T, G, H, K

\* usc_enable_async_clock
LEMMA AgreeAsyncClock ==
  ASSUME NEW F, NEW G, NEW H, NEW K, NEW p, NEW q, NEW r, Agree(F, G, H, K, p, q, r), NEW rate
  PROVE  Agree(F, G, H, K, p, EnableAsyncClock(q, rate), EnableAsyncClock(r, rate))
<1>1. CASE rate = 0
  BY <1>1, AgreeBrg0 DEF EnableAsyncClock
<1>2. CASE rate # 0
  <2> DEFINE v == U16(Xtal \div rate - 1)
             w == [rx |-> "RXC_BRG", tx |-> "TXC_BRG"]
             s1(x) == [x EXCEPT !.cmcr = w]
             s2(x) == [s1(x) EXCEPT !.tc0 = v]
             s3(x) == [s2(x) EXCEPT !.hcr.brg0 = TRUE]
             s4(x) == [s3(x) EXCEPT !.iocr.rxc = "brg0"]
  <2>0. EnableAsyncClock(q, rate) = s4(q) /\ EnableAsyncClock(r, rate) = s4(r)
    BY <1>2, Zenon DEF EnableAsyncClock
  <2> HIDE DEF v, w
  <2>1. Agree(F, G, H, K, p, s1(q), s1(r))
    BY DEF Agree, Formed
  <2> HIDE DEF s1
  <2>2. Agree(F, G, H, K, p, s2(q), s2(r))
    BY <2>1, AgreeTc0
  <2> HIDE DEF s2
  <2>3. Agree(F, G, H, K, p, s3(q), s3(r))
    BY <2>2, AgreeBrg0
  <2> HIDE DEF s3
  <2>4. Agree(F, G, H, K, p, s4(q), s4(r))
    BY <2>3 DEF Agree, Formed
  <2> QED BY <2>0, <2>4
<1> QED BY <1>1, <1>2

\* usc_set_async_mode
LEMMA AgreeAsync ==
  ASSUME NEW q, NEW r, Formed(q), Formed(r), NEW p, p.mode # "RAW", NEW idle
  PROVE  Agree(FrameRegs \cup Tsr(p), {"txc", "rxc", "txd"}, {"port5"}, {"RCC"}, p,
               SetAsyncMode(q, p, idle), SetAsyncMode(r, p, idle))
<1> DEFINE cmr == [tx |-> "async", rx |-> "async", underrun |-> "no", preamble |-> FALSE,
                   share_zero |-> FALSE, filter |-> FALSE, stop2 |-> p.stop_bits # 1]
           frame == AsyncFrame(p)
           s0(x) == [x EXCEPT !.mie = FALSE, !.interface = "off", !.dcar = FALSE]
           s1(x) == UscDmaCmd(s0(x))
           s2(x) == LoopbackFrame(s1(x), p, idle)
           s3(x) == [s2(x) EXCEPT !.cmr = cmr]
           s4(x) == [s3(x) EXCEPT !.rmr = frame]
           s5(x) == [s4(x) EXCEPT !.tmr = frame]
           s6(x) == [s5(x) EXCEPT !.ricr = "int"]
           s7(x) == SetTxIdle(s6(x), p, idle)
           s8(x) == UscTCmd(s7(x))
           s9(x) == [s8(x) EXCEPT !.ticr = "int"]
           s10(x) == EnableAsyncClock(s9(x), p.data_rate)
           s11(x) == [s10(x) EXCEPT !.ccsr = "bypass"]
           s12(x) == [s11(x) EXCEPT !.mie = TRUE]
           s13(x) == SetInterface(s12(x), p)
           G == {"txc", "rxc", "txd"}
           H == {"port5"}
           K == {"RCC"}
           E == FrameRegs \ {"cmr"}
           A == FrameRegs
           I == {"interface"}
<1>0. SetAsyncMode(q, p, idle) = s13(q) /\ SetAsyncMode(r, p, idle) = s13(r)
  BY Zenon DEF SetAsyncMode
<1>a. /\ cmr.filter = FALSE /\ cmr.rx = "async" /\ cmr.tx = "async"
  OBVIOUS
<1>b. A \cup I = A /\ A = FrameRegs \cup Tsr(p)
  BY DEF FrameRegs, SdlcRegs, Tsr
<1> HIDE DEF cmr, frame
<1>1. Formed(s1(q)) /\ Formed(s1(r))
  BY DEF Formed, UscDmaCmd
<1> HIDE DEF s1
<1>2. Agree(E, G, H, K, p, s2(q), s2(r))
  BY <1>1, AgreeFrame
<1> HIDE DEF s2
<1>3. Agree(A, G, H, K, p, s3(q), s3(r))
  <2>1. A \subseteq E \cup {"cmr"} /\ A \subseteq Names \ {"iocr", "pcr"}
        /\ ("dcar" \in A => "mbre_bit" \in A) /\ ("tcsr" \in A => "tcsr_value" \in A)
    BY DEF FrameRegs, SdlcRegs
  <2>2. "hcr" \in E
    BY DEF FrameRegs, SdlcRegs
  <2> HIDE DEF A, E, G, H, K
  <2> QED BY <1>2, <1>a, <2>1, <2>2 DEF Agree, Formed
<1> HIDE DEF s3, A, E, G, H, K
<1>4. Agree(A, G, H, K, p, s4(q), s4(r))
  BY <1>3 DEF Agree, Formed
<1> HIDE DEF s4
<1>5. Agree(A, G, H, K, p, s5(q), s5(r))
  BY <1>4 DEF Agree, Formed
<1> HIDE DEF s5
<1>6. Agree(A, G, H, K, p, s6(q), s6(r))
  BY <1>5 DEF Agree, Formed
<1> HIDE DEF s6
<1>7. Agree(A, G, H, K, p, s7(q), s7(r))
  BY <1>6, AgreeTxIdle
<1> HIDE DEF s7
<1>8. Agree(A, G, H, K, p, s8(q), s8(r))
  BY <1>7, AgreeCommands
<1> HIDE DEF s8
<1>9. Agree(A, G, H, K, p, s9(q), s9(r))
  BY <1>8 DEF Agree, Formed
<1> HIDE DEF s9
<1>10. Agree(A, G, H, K, p, s10(q), s10(r))
  BY <1>9, AgreeAsyncClock
<1> HIDE DEF s10
<1>11. Agree(A, G, H, K, p, s11(q), s11(r))
  BY <1>10 DEF Agree, Formed
<1> HIDE DEF s11
<1>12. Agree(A, G, H, K, p, s12(q), s12(r))
  BY <1>11 DEF Agree, Formed
<1> HIDE DEF s12
<1>13. Agree(A \cup I, G, H, K, p, s13(q), s13(r))
  BY <1>12, AgreeWrites
<1> HIDE DEF s13, I
<1>14. Agree(FrameRegs \cup Tsr(p), G, H, K, p, s13(q), s13(r))
  BY <1>13, <1>b
<1> QED BY <1>0, <1>14 DEF G, H, K

-----------------------------------------------------------------------------
\* Two functions on the same domain with the same values are one.
LEMMA Extensional ==
  ASSUME NEW S, NEW f, NEW g, f = [x \in S |-> f[x]], g = [x \in S |-> g[x]],
         \A x \in S : f[x] = g[x]
  PROVE  f = g
OBVIOUS

\* Where programmed chips agree, what is live in them is the same.
LEMMA AgreeLive ==
  ASSUME NEW p, NEW q, NEW r,
         Agree(FrameRegs \cup Tsr(p), {"txc", "rxc", "txd"}, {"port5"}, {"RCC"}, p, q, r),
         q.pcr = r.pcr, q.sicr = r.sicr
  PROVE  Live(q) = Live(r)
<1> DEFINE rsr(x) == IF x.cmr.filter THEN x.rsr ELSE 0
           tc1(x) == IF x.hcr.brg1 THEN x.tc1 ELSE 0
           tsr(x) == IF x.cmr.tx = "monosync" THEN x.tsr ELSE "flags"
           dcd(x) == IF x.cmr.rx = "extsync" THEN x.iocr.dcd ELSE "dcd"
           kept == Names \ {"rsr", "tc1", "tsr", "iocr"}
<1>1. \A x : Formed(x) => Live(x) = [x EXCEPT !.rsr = rsr(x), !.tc1 = tc1(x), !.tsr = tsr(x),
                                              !.iocr.dcd = dcd(x)]
  BY DEF Live, Formed
<1>2. rsr(q) = rsr(r) /\ tc1(q) = tc1(r) /\ tsr(q) = tsr(r) /\ dcd(q) = dcd(r)
  BY DEF Agree, FrameRegs, SdlcRegs, Tsr
<1> HIDE DEF rsr, tc1, tsr, dcd
<1>3. ASSUME NEW x, Formed(x)
      PROVE  /\ Live(x) = [f \in Names |-> Live(x)[f]]
             /\ \A f \in kept : Live(x)[f] = x[f]
             /\ Live(x).rsr = rsr(x) /\ Live(x).tc1 = tc1(x) /\ Live(x).tsr = tsr(x)
             /\ Live(x).iocr = [x.iocr EXCEPT !.dcd = dcd(x)]
  <2>1. DOMAIN x = Names
    BY <1>3 DEF Formed
  <2>2. Live(x) = [x EXCEPT !.rsr = rsr(x), !.tc1 = tc1(x), !.tsr = tsr(x), !.iocr.dcd = dcd(x)]
    BY <1>1, <1>3
  <2> DEFINE y == Live(x)
  <2> HIDE DEF y
  <2>3. y = [x EXCEPT !.rsr = rsr(x), !.tc1 = tc1(x), !.tsr = tsr(x), !.iocr.dcd = dcd(x)]
    BY <2>2 DEF y
  <2>4. y = [f \in Names |-> y[f]]
    BY <2>1, <2>3
  <2>5. \A f \in kept : y[f] = x[f]
    BY <2>1, <2>3
  <2>6. y.rsr = rsr(x) /\ y.tc1 = tc1(x) /\ y.tsr = tsr(x) /\ y.iocr = [x.iocr EXCEPT !.dcd = dcd(x)]
    BY <2>1, <2>3
  <2> QED BY <2>4, <2>5, <2>6 DEF y
<1> DEFINE a == Live(q)
           b == Live(r)
<1> HIDE DEF a, b
<1>4. Formed(q) /\ Formed(r)
  BY DEF Agree
<1>5. /\ a = [f \in Names |-> a[f]] /\ b = [f \in Names |-> b[f]]
      /\ \A f \in kept : a[f] = q[f] /\ b[f] = r[f]
      /\ a.rsr = b.rsr /\ a.tc1 = b.tc1 /\ a.tsr = b.tsr
      /\ a.iocr = [q.iocr EXCEPT !.dcd = dcd(q)] /\ b.iocr = [r.iocr EXCEPT !.dcd = dcd(q)]
  <2> HIDE DEF Names, kept
  <2>1. /\ a = [f \in Names |-> a[f]] /\ \A f \in kept : a[f] = q[f]
        /\ a.rsr = rsr(q) /\ a.tc1 = tc1(q) /\ a.tsr = tsr(q)
        /\ a.iocr = [q.iocr EXCEPT !.dcd = dcd(q)]
    BY <1>3, <1>4, Zenon DEF a
  <2>2. /\ b = [f \in Names |-> b[f]] /\ \A f \in kept : b[f] = r[f]
        /\ b.rsr = rsr(r) /\ b.tc1 = tc1(r) /\ b.tsr = tsr(r)
        /\ b.iocr = [r.iocr EXCEPT !.dcd = dcd(r)]
    BY <1>3, <1>4, Zenon DEF b
  <2> QED BY <1>2, <2>1, <2>2
<1>6. a.iocr = b.iocr
  <2> DEFINE m == a.iocr
             n == b.iocr
             v == dcd(q)
  <2>1. m = [q.iocr EXCEPT !.dcd = v] /\ n = [r.iocr EXCEPT !.dcd = v]
    BY <1>5
  <2>2. DOMAIN q.iocr = IocrNames /\ DOMAIN r.iocr = IocrNames
    BY <1>4 DEF Formed
  <2> HIDE DEF m, n, v
  <2>3. m = [g \in IocrNames |-> m[g]] /\ n = [g \in IocrNames |-> n[g]]
    BY <2>1, <2>2
  <2>4. \A g \in {"txc", "rxc", "txd"} : q.iocr[g] = r.iocr[g]
    BY DEF Agree
  <2>5. \A g \in IocrNames : m[g] = n[g]
    BY <2>1, <2>2, <2>4
  <2> QED BY <2>3, <2>5, Extensional DEF m, n
<1>7. \A f \in kept : q[f] = r[f]
  <2>1. kept \subseteq FrameRegs \cup {"pcr", "sicr"}
    BY DEF FrameRegs, SdlcRegs
  <2>2. \A f \in FrameRegs : q[f] = r[f]
    BY DEF Agree
  <2> QED BY <2>1, <2>2
<1>8. \A f \in Names : a[f] = b[f]
  BY <1>5, <1>6, <1>7
<1>9. a = b
  BY <1>5, <1>8, Extensional
<1> QED BY <1>9 DEF a, b

\* r56_program_hw: what it is given decides everything that is live.
LEMMA SameLive ==
  ASSUME NEW q, NEW r, Formed(q), Formed(r), NEW p, NEW idle, NEW signals,
         NEW cread, NEW n, NEW cread1, NEW n1, n <=> n1, cread \/ n <=> cread1 \/ n1
  PROVE  Live(ProgramHw(q, p, idle, signals, cread, n))
         = Live(ProgramHw(r, p, idle, signals, cread1, n1))
<1> DEFINE sync == Sync(p) \/ n
           on == cread \/ n
           port7 == IF "RTS" \in signals THEN "low" ELSE "high"
           port6 == IF "DTR" \in signals THEN "low" ELSE "high"
           s1(x) == StopReceiver(x)
           s2(x) == StopTransmitter(s1(x))
           s3(x) == IF sync THEN SetSyncMode(s2(x), p, idle) ELSE SetAsyncMode(s2(x), p, idle)
           s4(x) == SetSerialSignals(s3(x), signals)
           s5(x) == [s4(x) EXCEPT !.sicr = @ \cup {"CTS_ACTIVE", "CTS_INACTIVE", "DSR", "DCD", "RI"}]
           s6(x) == StartReceiver(s5(x), p)
           A == FrameRegs \cup Tsr(p)
           G == {"txc", "rxc", "txd"}
           H == {"port5"}
           K == {"RCC"}
<1>0. /\ on => /\ ProgramHw(q, p, idle, signals, cread, n) = s6(q)
               /\ ProgramHw(r, p, idle, signals, cread1, n1) = s6(r)
      /\ ~on => /\ ProgramHw(q, p, idle, signals, cread, n) = s5(q)
                /\ ProgramHw(r, p, idle, signals, cread1, n1) = s5(r)
  BY Zenon DEF ProgramHw
<1>1. ASSUME NEW x, Formed(x)
      PROVE  Formed(s2(x))
  <2>1. Formed(s1(x))
    BY <1>1, SameReceiver DEF Same, Alike
  <2> HIDE DEF s1
  <2> QED BY <2>1, SameTransmitter DEF Same, Alike
<1>2. Formed(s2(q)) /\ Formed(s2(r))
  BY <1>1
<1> HIDE DEF s2
<1>3. Agree(A, G, H, K, p, s3(q), s3(r))
  <2>1. CASE sync
    BY <1>2, <2>1, AgreeSync
  <2>2. CASE ~sync
    <3>1. p.mode # "RAW"
      BY <2>2 DEF Sync
    <3> QED BY <1>2, <2>2, <3>1, AgreeAsync
  <2> QED BY <2>1, <2>2
<1> HIDE DEF s3, sync, A
<1>4. ASSUME NEW x, Formed(s3(x)), "RCC" \in s3(x).sicr
      PROVE  /\ Formed(s5(x)) /\ \A f \in Names \ {"pcr", "sicr"} : s5(x)[f] = s3(x)[f]
             /\ s5(x).pcr = [port5 |-> s3(x).pcr.port5, port6 |-> port6, port7 |-> port7]
             /\ s5(x).sicr = Sources
  <2> HIDE DEF port6, port7
  <2> DEFINE y == s3(x)
             z == s4(x)
             u == s5(x)
  <2>1. Formed(y) /\ "RCC" \in y.sicr
    BY <1>4
  <2>2. z = [y EXCEPT !.pcr.port7 = port7, !.pcr.port6 = port6]
    BY Zenon DEF SetSerialSignals, port6, port7
  <2>3. u = [z EXCEPT !.sicr = @ \cup {"CTS_ACTIVE", "CTS_INACTIVE", "DSR", "DCD", "RI"}]
    OBVIOUS
  <2> HIDE DEF y, z, u
  <2>4. /\ DOMAIN z = Names /\ \A f \in Names \ {"pcr"} : z[f] = y[f]
        /\ z.pcr = [y.pcr EXCEPT !.port7 = port7, !.port6 = port6]
    BY <2>1, <2>2 DEF Formed
  <2>5. z.pcr = [port5 |-> y.pcr.port5, port6 |-> port6, port7 |-> port7]
    <3> DEFINE m == z.pcr
               n0 == [port5 |-> y.pcr.port5, port6 |-> port6, port7 |-> port7]
    <3>1. m = [y.pcr EXCEPT !.port7 = port7, !.port6 = port6]
      BY <2>4
    <3>2. DOMAIN y.pcr = PcrNames
      BY <2>1 DEF Formed
    <3> HIDE DEF m
    <3>3. m = [h \in PcrNames |-> m[h]] /\ n0 = [h \in PcrNames |-> n0[h]]
      BY <3>1, <3>2
    <3>4. \A h \in PcrNames : m[h] = n0[h]
      BY <3>1, <3>2
    <3> HIDE DEF n0
    <3>5. m = n0
      BY <3>3, <3>4, Extensional
    <3> QED BY <3>5 DEF m, n0
  <2>6. /\ DOMAIN u = Names /\ \A f \in Names \ {"sicr"} : u[f] = z[f]
        /\ u.sicr = z.sicr \cup {"CTS_ACTIVE", "CTS_INACTIVE", "DSR", "DCD", "RI"}
    BY <2>3, <2>4
  <2>7. u.sicr = Sources
    <3>1. z.sicr = y.sicr
      BY <2>4
    <3>2. y.sicr \subseteq Sources
      BY <2>1 DEF Formed
    <3> QED BY <2>1, <2>6, <3>1, <3>2
  <2>8. u.pcr = [port5 |-> y.pcr.port5, port6 |-> port6, port7 |-> port7]
    BY <2>5, <2>6
  <2>9. \A f \in Names \ {"pcr", "sicr"} : u[f] = y[f]
    BY <2>4, <2>6
  <2>10. Formed(u)
    <3>1. u.iocr = y.iocr /\ u.hcr = y.hcr /\ u.ccar = y.ccar /\ u.loopback_bits = y.loopback_bits
      BY <2>9
    <3>2. DOMAIN u.pcr = PcrNames
      BY <2>8
    <3> QED BY <2>1, <2>6, <2>7, <3>1, <3>2 DEF Formed
  <2> QED BY <2>7, <2>8, <2>9, <2>10 DEF u, y
<1>5. Agree(A, G, H, K, p, s5(q), s5(r)) /\ s5(q).pcr = s5(r).pcr /\ s5(q).sicr = s5(r).sicr
  <2> DEFINE a == s5(q)
             b == s5(r)
             c == s3(q)
             d == s3(r)
  <2>1. Agree(A, G, H, K, p, c, d)
    BY <1>3
  <2>2. Formed(c) /\ Formed(d) /\ "RCC" \in c.sicr /\ "RCC" \in d.sicr
    BY <2>1 DEF Agree
  <2>3. /\ Formed(a) /\ \A f \in Names \ {"pcr", "sicr"} : a[f] = c[f]
        /\ a.pcr = [port5 |-> c.pcr.port5, port6 |-> port6, port7 |-> port7]
        /\ a.sicr = Sources
    <3> HIDE DEF Names, Sources, s5
    <3> QED BY <1>4, <2>2, Zenon
  <2>4. /\ Formed(b) /\ \A f \in Names \ {"pcr", "sicr"} : b[f] = d[f]
        /\ b.pcr = [port5 |-> d.pcr.port5, port6 |-> port6, port7 |-> port7]
        /\ b.sicr = Sources
    <3> HIDE DEF Names, Sources, s5
    <3> QED BY <1>4, <2>2, Zenon
  <2> HIDE DEF a, b, c, d, port6, port7
  <2>5. c.pcr.port5 = d.pcr.port5
    BY <2>1 DEF Agree
  <2>6. a.pcr = b.pcr /\ a.sicr = b.sicr
    BY <2>3, <2>4, <2>5
  <2>7. "sicr" \notin A
    BY DEF A, FrameRegs, SdlcRegs, Tsr
  <2>8. \A f \in A : a[f] = b[f]
    BY <2>1, <2>3, <2>4, <2>7 DEF Agree
  <2>9. /\ a.iocr = c.iocr /\ b.iocr = d.iocr /\ a.cmr = c.cmr /\ b.cmr = d.cmr
        /\ a.rsr = c.rsr /\ b.rsr = d.rsr /\ a.hcr = c.hcr /\ a.tc1 = c.tc1 /\ b.tc1 = d.tc1
    BY <2>3, <2>4
  <2>10. K \subseteq a.sicr /\ K \subseteq b.sicr /\ \A h \in H : a.pcr[h] = b.pcr[h]
    BY <2>3, <2>4, <2>6
  <2> HIDE DEF Names, IocrNames, PcrNames, K, H, G
  <2>11. Agree(A, G, H, K, p, a, b)
    BY <2>1, <2>3, <2>4, <2>8, <2>9, <2>10 DEF Agree
  <2> QED BY <2>6, <2>11 DEF a, b
<1> HIDE DEF s4, s5
<1>6. ASSUME NEW x, Formed(x)
      PROVE  StartReceiver(x, p).pcr = x.pcr /\ StartReceiver(x, p).sicr = x.sicr
  BY <1>6 DEF StartReceiver, StopReceiver, UscRTCmd, UscDmaCmd, Formed
<1>7. Agree(A, G, H, K, p, s6(q), s6(r)) /\ s6(q).pcr = s6(r).pcr /\ s6(q).sicr = s6(r).sicr
  <2>1. Formed(s5(q)) /\ Formed(s5(r))
    BY <1>5 DEF Agree
  <2>2. Agree(A, G, H, K, p, s6(q), s6(r))
    BY <1>5, AgreeStops
  <2>3. /\ s6(q).pcr = s5(q).pcr /\ s6(r).pcr = s5(r).pcr
        /\ s6(q).sicr = s5(q).sicr /\ s6(r).sicr = s5(r).sicr
    BY <1>6, <2>1
  <2> QED BY <1>5, <2>2, <2>3
<1> HIDE DEF s6
<1>8. Live(s5(q)) = Live(s5(r)) /\ Live(s6(q)) = Live(s6(r))
  BY <1>5, <1>7, AgreeLive DEF A
<1> HIDE DEF on
<1> QED BY <1>0, <1>8

\* While the network interface is up, only its own calls change the parameters.
LEMMA NetChangeOnly ==
  ASSUME IInv, Next, net, params' # params
  PROVE  \E p : NetChange(p)
<1>1. ~open /\ \A c \in Calls : pc[c] = "out"
  BY Zenon DEF IInv, Ports
<1>2. CASE Startup \/ Shutdown \/ NetOpen \/ NetClose
  BY <1>2, Zenon DEF Startup, Shutdown, NetOpen, NetClose, Op
<1>3. CASE \/ \E c \in NetCodings : NetAttach(c)
           \/ \E l \in NetLines : NetIoctl(l)
  BY <1>3, Zenon DEF NetAttach, NetIoctl
<1>4. CASE \/ \E p \in Params : SetParams(p)
           \/ \E t \in Termios : SetTermios(t)
           \/ \E set, clear \in SUBSET Outputs : set \cap clear = {} /\ Tiocmset(set, clear)
           \/ \E i \in Idles : SetTxIdleUnlocked(i)
           \/ Throttle \/ Unthrottle \/ Send \/ SendDone
           \/ \E on \in BOOLEAN : DtrRts(on) \/ Break(on) \/ RxEnable(on)
  BY <1>1, <1>4, Zenon DEF SetParams, SetTermios, Tiocmset, SetTxIdleUnlocked, Throttle, Unthrottle,
     Send, SendDone, DtrRts, Break, RxEnable, Op
<1>5. CASE \E c \in Calls : ChangeParams(c) \/ Program(c) \/ StoreSignals(c) \/ ShowSignals(c)
  <2>1. \A c \in Calls : pc[c] # "change"
    BY <1>1
  <2> QED BY <1>5, <2>1, Zenon DEF ChangeParams, Program, StoreSignals, ShowSignals, Step
<1>6. CASE FetchTermios \/ StartOutput \/ SetTxIdleLocked
  BY <1>6, Zenon DEF FetchTermios, StartOutput, SetTxIdleLocked
<1> QED BY <1>2, <1>3, <1>4, <1>5, <1>6, Zenon DEF Next

(* Programming leaves no residue: for any parameters, idle patterns and     *)
(* termios, whatever loopbacks, breaks and modes came before, the chip is   *)
(* left as one fresh from reset would be in all that is live in its mode    *)
(* (r56_program_hw, usc_set_sync_mode, usc_set_async_mode).                 *)
THEOREM ResidueNeverLeft == Spec => NoResidue
<1> DEFINE Good == Reprograms => Live(hw') = Live(Fresh(hw))
<1>1. IInv /\ Next => Good
  <2> SUFFICES ASSUME IInv, Next, Reprograms
               PROVE  Live(hw') = Live(Fresh(hw))
    OBVIOUS
  <2> DEFINE reset == UscReset(params', hw.tcsr_value)
  <2>1. Formed(hw) /\ Formed(reset)
    BY ResetFormed DEF IInv, Chip
  <2>2. Fresh(hw) = ProgramHw(reset, params', idle_mode, serial_signals, termios.cread, net)
    BY DEF Fresh
  <2> HIDE DEF reset
  <2>3. ASSUME NEW c \in Calls, Program(c)
        PROVE  Live(hw') = Live(Fresh(hw))
    <3>1. pc[c] = "program"
      BY <2>3 DEF Program, Step
    <3>2. ~net
      BY <3>1 DEF IInv, Ports
    <3>3. /\ hw' = ProgramHw(hw, params, idle_mode, serial_signals, termios.cread, FALSE)
          /\ params' = params
      BY <2>3 DEF Program
    <3> DEFINE none == FALSE
    <3>4. /\ none <=> net
          /\ termios.cread \/ none <=> termios.cread \/ net
      BY <3>2
    <3> HIDE DEF none
    <3>5. Live(ProgramHw(hw, params, idle_mode, serial_signals, termios.cread, none))
          = Live(ProgramHw(reset, params, idle_mode, serial_signals, termios.cread, net))
      BY <2>1, <3>4, SameLive
    <3> QED BY <2>2, <3>3, <3>5 DEF none
  <2>4. ASSUME net, net', params' # params
        PROVE  Live(hw') = Live(Fresh(hw))
    <3>1. PICK p : NetChange(p)
      BY <2>4, NetChangeOnly
    <3>2. hw' = ProgramHw(hw, p, idle_mode, serial_signals, FALSE, TRUE) /\ params' = p
      BY <2>4, <3>1 DEF NetChange
    <3> DEFINE up == TRUE
               none == FALSE
    <3>3. /\ up <=> net
          /\ none \/ up <=> termios.cread \/ net
      BY <2>4
    <3> HIDE DEF up, none
    <3>4. Live(ProgramHw(hw, p, idle_mode, serial_signals, none, up))
          = Live(ProgramHw(reset, p, idle_mode, serial_signals, termios.cread, net))
      BY <2>1, <3>3, SameLive
    <3> QED BY <2>2, <3>2, <3>4 DEF up, none
  <2> QED BY <2>3, <2>4 DEF Reprograms
<1>2. IInv /\ [Next]_vars => [Good]_vars
  BY <1>1
<1>3. Spec => [][Good]_vars
  BY <1>2, SettingsInvariant, PTL DEF Spec
<1> QED BY <1>3 DEF NoResidue

=============================================================================
