----------------------------- MODULE MCSettings -----------------------------
EXTENDS Settings

P(mode, loopback, flags, encoding, speed) ==
  [Default EXCEPT !.mode = mode, !.loopback = loopback, !.flags = flags,
                  !.encoding = encoding, !.clock_speed = speed]

\* Settings that differ in every choice the code makes: the clock sources,
\* rates that round down and up, at the limits of a time constant and zero,
\* loopback, loop mode, RAW and async mode, the DPLL and its divisors.
ParamSet ==
  {P("HDLC", FALSE, {"UNDERRUN_FLAG", "RXC_BRG", "TXC_BRG", "SHARE_ZERO"}, "NRZ", 64000),
   P("HDLC", FALSE, {"RXC_DPLL", "TXC_DPLL", "DPLL_DIV8", "AUTO_RTS"}, "BIPHASE_LEVEL", 9600),
   P("HDLC", TRUE, {"UNDERRUN_CRC", "AUTO_CTS"}, "NRZI_SPACE", 7000000),
   [P("HDLC", FALSE, {"HDLC_LOOPMODE", "RXC_DPLL", "TXC_BRG", "DPLL_DIV16"}, "NRZI_SPACE", 20000000)
      EXCEPT !.addr_filter = 5],
   [P("RAW", FALSE, {"RXC_TXCPIN", "TXC_RXCPIN", "AUTO_DCD"}, "NRZB", 306)
      EXCEPT !.preamble = "flags", !.preamble_length = 16, !.crc_type = "none"],
   P("HDLC", FALSE, {"RXC_BRG", "TXC_RXCPIN", "UNDERRUN_ABORT15"}, "NRZI_MARK", 7000000),
   P("RAW", TRUE, {"TXC_DPLL"}, "BIPHASE_MARK", 0),
   [P("ASYNC", TRUE, {"RXC_DPLL", "AUTO_RTS"}, "NRZ", 7000000)
      EXCEPT !.interface = "RS485_TERM", !.data_rate = 921600]}

TermiosSet ==
  {[baud |-> 0, size |-> 8, two_stop |-> FALSE, parity |-> "none",
    crtscts |-> FALSE, cread |-> TRUE, hupcl |-> FALSE],
   [baud |-> 38400, size |-> 7, two_stop |-> TRUE, parity |-> "odd",
    crtscts |-> TRUE, cread |-> FALSE, hupcl |-> TRUE]}

LineSet ==
  {[clock |-> "INT", rate |-> 64000, loopback |-> FALSE],
   [clock |-> "TXFROMRX", rate |-> 64000, loopback |-> TRUE],
   [clock |-> "DEFAULT", rate |-> 7000000, loopback |-> FALSE]}

CodingSet == {[encoding |-> "BIPHASE_LEVEL", crc |-> "32_CCITT"]}

=============================================================================
