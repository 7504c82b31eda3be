----------------------------- MODULE LoopDriver -----------------------------
(***************************************************************************)
(* HDLC loop mode of the driver, for a loop of one primary (station 0) and *)
(* the secondaries 1 .. N, cabled primary -> 1 -> ... -> N -> primary.     *)
(*                                                                         *)
(* A secondary enters the loop on the first go-ahead after its transmitter *)
(* is enabled.  From then on its adapter repeats what it receives, except  *)
(* between the first frame it sends and R56_IOCLOOPTXDONE: meanwhile it    *)
(* streams flags and everything from upstream ends at it.  The frames an   *)
(* application writes pass through the line discipline (n_hdlc), which     *)
(* hands one at a time to r56_write and waits for tty_wakeup for the next. *)
(***************************************************************************)
EXTENDS Naturals, Sequences

CONSTANTS N,           \* number of secondary stations
          TxBufs,      \* frames n_hdlc buffers for transmission
          MaxFaults    \* bound on failed sends and timeouts in a behaviour

ASSUME LoopAssumption == N \in Nat \ {0} /\ TxBufs \in Nat \ {0} /\ MaxFaults \in Nat

Primary == 0
Sec == 1 .. N
Stations == 0 .. N
ALL == N + 1           \* BROADCAST_ADDR

(* A frame is a record of what its receivers tell apart: address, control  *)
(* field and length and, of an information frame, whether it is a request  *)
(* and the number n of its transaction.                                    *)
VARIABLES
  insert_requested, \* loopmode_insert_requested
  cmr13,            \* BIT13 of cmr_value while it asks for insertion
  onLoop,           \* CCSR:7, usc_loopmode_active
  rxabort,          \* the rxabort count has changed since the station read it
  tx_active,        \* a frame is loaded and started
  txList,           \* frames n_hdlc holds; the first is the driver's if tx_active
  send_done,        \* loopmode_send_done_requested
  bhTx,             \* BH_TRANSMIT is pending
  sending,          \* the adapter drives TxD itself instead of repeating RxD
  rxOn,             \* receiver enabled
  inbox,            \* frames received and not yet read
  idleOnes,         \* the primary idles ones, which carries the go-ahead
  lost,             \* some frame was not sent or did not reach who it was meant for
  faults            \* failed sends and transmit timeouts so far

driver == <<insert_requested, cmr13, onLoop, rxabort, tx_active, txList, send_done, bhTx,
            sending>>
line == <<rxOn, inbox, idleOnes, lost, faults>>

(* The loop is intact between the two stations named.                      *)
Repeats(t) == onLoop[t] /\ ~sending[t]
Passes(from, to) == \A t \in (from + 1) .. (to - 1) : Repeats(t)

(* A go-ahead reaches s: the primary idles ones and everyone before s      *)
(* repeats it.                                                             *)
GoAhead(s) == idleOnes /\ Passes(0, s)

(* The primary has address 0xff and hears everything, but its program      *)
(* passes over the frames it broadcast itself (CheckReceive) and over SIM  *)
(* responses and poll responses (no case of ProcessRxFrames): those are    *)
(* left out on arrival.                                                    *)
PassedOver(f) == f.addr = ALL \/ (f.ctrl = "SIM" /\ f.size = 3) \/ f.ctrl = "RR"

(* Who gets a frame: secondaries filter on the address (the hardware's     *)
(* addr_filter).                                                           *)
Hears(x, f) ==
    {t \in Sec : t > x /\ rxOn[t] /\ f.addr \in {t, ALL} /\ Passes(x, t)}
      \cup {t \in {Primary} : /\ rxOn[t] /\ ~PassedOver(f)
                              /\ \A u \in (x + 1) .. N : Repeats(u)}

(* Who should have got it.                                                 *)
Meant(x, f) == IF x = Primary THEN {t \in Sec : f.addr \in {t, ALL} /\ onLoop[t] /\ rxOn[t]}
               ELSE {t \in {Primary} : rxOn[t] /\ ~PassedOver(f)}

Missed(x, f) == ~(Meant(x, f) \subseteq Hears(x, f))

(* The inboxes after f has come to those in box.                           *)
Delivered(box, x, f) ==
    [t \in Stations |-> IF t \in Hears(x, f) THEN Append(box[t], f) ELSE box[t]]

Transmit(x, f) == /\ inbox' = Delivered(inbox, x, f)
                  /\ lost' = (lost \/ Missed(x, f))

(* The secondaries have been started: receiver on, flags as idle pattern,  *)
(* and the transmitter enabled, by which r56_txenable asks for insertion.  *)
DriverInit ==
    /\ insert_requested = [s \in Sec |-> TRUE]
    /\ cmr13 = [s \in Sec |-> TRUE]
    /\ onLoop = [s \in Sec |-> FALSE]
    /\ rxabort = [s \in Sec |-> FALSE]
    /\ tx_active = [s \in Sec |-> FALSE]
    /\ txList = [s \in Sec |-> <<>>]
    /\ send_done = [s \in Sec |-> FALSE]
    /\ bhTx = [s \in Sec |-> FALSE]
    /\ sending = [s \in Sec |-> FALSE]
    /\ rxOn = [t \in Stations |-> TRUE]
    /\ inbox = [t \in Stations |-> <<>>]
    /\ idleOnes = TRUE
    /\ lost = FALSE
    /\ faults = 0

(* The go-ahead inserts the station, and the receive status interrupt      *)
(* counts it and starts the echo.                                          *)
IsrInserted(s) ==
    /\ insert_requested[s]
    /\ cmr13[s]
    /\ GoAhead(s)
    /\ onLoop' = [onLoop EXCEPT ![s] = TRUE]
    /\ rxabort' = [rxabort EXCEPT ![s] = TRUE]
    /\ insert_requested' = [insert_requested EXCEPT ![s] = FALSE]
    /\ cmr13' = [cmr13 EXCEPT ![s] = FALSE]
    /\ UNCHANGED <<tx_active, txList, send_done, bhTx, sending, line>>

(* A frame that ends in an abort counts in rxabort as well.                *)
AbortedFrame(s) ==
    /\ rxOn[s]
    /\ ~onLoop[s]
    /\ ~rxabort[s]
    /\ faults < MaxFaults
    /\ faults' = faults + 1
    /\ rxabort' = [rxabort EXCEPT ![s] = TRUE]
    /\ UNCHANGED <<insert_requested, cmr13, onLoop, tx_active, txList, send_done, bhTx, sending, rxOn, inbox, idleOnes, lost>>

(* n_hdlc passes the first frame it holds to r56_write, which takes it     *)
(* unless a frame is in progress or the station is not on the loop.        *)
Loads(s, list, active) == active \/ (list # <<>> /\ onLoop[s])

(* n_hdlc has a buffer free; the one of the frame in progress is free again. *)
Room(s) == Len(txList[s]) < TxBufs + (IF tx_active[s] THEN 1 ELSE 0)

Write(s, f) ==
    /\ Room(s)
    /\ txList' = [txList EXCEPT ![s] = Append(@, f)]
    /\ tx_active' = [tx_active EXCEPT ![s] = Loads(s, txList'[s], @)]
    /\ UNCHANGED <<insert_requested, cmr13, onLoop, rxabort, send_done, bhTx, sending>>

(* The frame goes out once a go-ahead has come by, or at once if the       *)
(* station still has the line; the transmit status interrupt ends it.      *)
IsrFrameSent(s) ==
    /\ tx_active[s]
    /\ sending[s] \/ GoAhead(s)
    /\ Transmit(s, Head(txList[s]))
    /\ sending' = [sending EXCEPT ![s] = TRUE]
    /\ txList' = [txList EXCEPT ![s] = Tail(@)]
    /\ tx_active' = [tx_active EXCEPT ![s] = FALSE]
    /\ bhTx' = [bhTx EXCEPT ![s] = TRUE]
    /\ UNCHANGED <<insert_requested, cmr13, onLoop, rxabort, send_done, rxOn, idleOnes,
                   faults>>

(* usc_loopmode_send_done *)
SendDone(s) ==
    /\ send_done' = [send_done EXCEPT ![s] = FALSE]
    /\ cmr13' = [cmr13 EXCEPT ![s] = FALSE]
    /\ sending' = [sending EXCEPT ![s] = FALSE]

(* A slip: the release is looked at only while a frame is in progress. *)
BhTransmitNoRelease(s) ==
    /\ bhTx[s]
    /\ bhTx' = [bhTx EXCEPT ![s] = FALSE]
    /\ tx_active' = [tx_active EXCEPT ![s] = Loads(s, txList[s], @)]
    /\ UNCHANGED <<insert_requested, cmr13, onLoop, rxabort, txList, send_done, sending, line>>

(* r56_bh_transmit: the line discipline hands over its next frame; only if *)
(* there is none is a release that was asked for carried out.              *)
BhTransmit(s) ==
    /\ bhTx[s]
    /\ bhTx' = [bhTx EXCEPT ![s] = FALSE]
    /\ tx_active' = [tx_active EXCEPT ![s] = Loads(s, txList[s], @)]
    /\ IF ~tx_active'[s] /\ send_done[s] THEN SendDone(s)
       ELSE UNCHANGED <<send_done, cmr13, sending>>
    /\ UNCHANGED <<insert_requested, onLoop, rxabort, txList, line>>

(* R56_IOCLOOPTXDONE: r56_loopmode_send_done.                              *)
LoopTxDone(s) ==
    /\ IF tx_active[s]
       THEN send_done' = [send_done EXCEPT ![s] = TRUE] /\ UNCHANGED <<cmr13, sending>>
       ELSE SendDone(s)
    /\ UNCHANGED <<insert_requested, onLoop, rxabort, tx_active, txList, bhTx>>

(* r56_tx_timeout: no go-ahead for 5 s.  The frame is dropped, the line    *)
(* released and the next frame taken from the line discipline.             *)
TxTimeout(s) ==
    /\ tx_active[s]
    /\ faults < MaxFaults
    /\ faults' = faults + 1
    /\ SendDone(s)
    /\ txList' = [txList EXCEPT ![s] = Tail(@)]
    /\ tx_active' = [tx_active EXCEPT ![s] = Loads(s, txList'[s], FALSE)]
    /\ UNCHANGED <<insert_requested, onLoop, rxabort, bhTx, rxOn, inbox, idleOnes, lost>>

(* The port is closed: the adapter is reset and repeats nothing.           *)
ClosePort(s) ==
    /\ insert_requested' = [insert_requested EXCEPT ![s] = FALSE]
    /\ cmr13' = [cmr13 EXCEPT ![s] = FALSE]
    /\ onLoop' = [onLoop EXCEPT ![s] = FALSE]
    /\ tx_active' = [tx_active EXCEPT ![s] = FALSE]
    /\ txList' = [txList EXCEPT ![s] = <<>>]
    /\ send_done' = [send_done EXCEPT ![s] = FALSE]
    /\ bhTx' = [bhTx EXCEPT ![s] = FALSE]
    /\ sending' = [sending EXCEPT ![s] = FALSE]
    /\ rxOn' = [rxOn EXCEPT ![s] = FALSE]
    /\ inbox' = [inbox EXCEPT ![s] = <<>>]
    /\ UNCHANGED <<rxabort, idleOnes, lost, faults>>

DriverStep(s) == IsrInserted(s) \/ IsrFrameSent(s) \/ BhTransmit(s)
DriverFault(s) == AbortedFrame(s) \/ TxTimeout(s)

=============================================================================
