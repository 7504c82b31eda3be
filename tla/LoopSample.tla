----------------------------- MODULE LoopSample -----------------------------
(***************************************************************************)
(* The loop mode sample programs (examples/sample-loopmode) over the loop  *)
(* of LoopDriver: the primary polls, the secondaries join with a SIM       *)
(* exchange, send their transactions when polled and match the answers,    *)
(* and the primary goes off line with a DISC exchange.                     *)
(*                                                                         *)
(* A program waits only in CheckReceive; its main loop is the set of       *)
(* actions enabled at pc "loop" (mode "run" of the primary).  A frame      *)
(* written and the R56_IOCLOOPTXDONE after it are two steps.               *)
(***************************************************************************)
EXTENDS LoopDriver, SequencesExt, FiniteSetsExt

CONSTANTS SlowPolls,       \* the poll interval is longer than a frame takes
          MaxTransactions, \* bound on the transactions each secondary creates
          MaxInbox,        \* the poll timer waits for stations that far behind
          Leavers          \* secondaries whose user may end them

ASSUME SampleAssumption == /\ SlowPolls \in BOOLEAN
                           /\ MaxTransactions \in [Sec -> Nat] /\ MaxInbox \in Nat \ {0}
                           /\ Leavers \subseteq Sec

VARIABLES
  \* the primary
  mode,      \* where PrimaryLoopTest is
  clients,   \* pClientList
  requests,  \* pQueuedTransactionList
  \* the secondaries
  phase,     \* where SecondaryLoopTest is
  pc,        \* inside ProcessRxFrame and what it calls
  bInitialized,
  queued,    \* pQueuedTransactionList: numbers waiting to be sent
  pending,   \* pPendingTransactionList: numbers waiting for an answer
  created    \* LastTransactionNumber

primary == <<mode, clients, requests>>
secondary == <<phase, pc, bInitialized, queued, pending, created>>
vars == <<driver, line, primary, secondary>>

Init ==
    /\ DriverInit
    /\ mode = "run" /\ clients = {} /\ requests = <<>>
    /\ phase = [s \in Sec |-> "insert"]
    /\ pc = [s \in Sec |-> "loop"]
    /\ bInitialized = [s \in Sec |-> FALSE]
    /\ queued = [s \in Sec |-> <<>>]
    /\ pending = [s \in Sec |-> <<>>]
    /\ created = [s \in Sec |-> 0]

-----------------------------------------------------------------------------
(* Frames *)

Ctrl(a, c, z) == [addr |-> a, ctrl |-> c, size |-> z, request |-> FALSE, n |-> 0]
Info(a, req, k) == [addr |-> a, ctrl |-> "I", size |-> 4, request |-> req, n |-> k]

GeneralPoll == Ctrl(ALL, "RR", 2)
DiscRequest == Ctrl(ALL, "DISC", 2)
SIMResponse(s) == Ctrl(s, "SIM", 3)
SIMRequest(s) == Ctrl(s, "SIM", 2)
PollResponse(s) == Ctrl(s, "RR", 2)
DiscResponse(s) == Ctrl(s, "DISC", 2)

(* The poll bit 0x10 is set in POLL | RR, in SIM (0x17) and in DISC (0x53). *)
IS_POLL(f) == f.ctrl \in {"RR", "SIM", "DISC"}

(* What a secondary that is not initialized waits for, and DISC.           *)
IsSIMResponseTwoBytes(f) == f.size = 2 /\ f.ctrl = "SIM"   \* a slip
AsksForSIM(f) == f.size = 2 /\ f.ctrl = "RR"
IsSIMResponse(f) == f.size = 3 /\ f.ctrl = "SIM"
IsDisc(f) == f.size = 2 /\ f.ctrl = "DISC"

-----------------------------------------------------------------------------
(* Primary *)

(* SendFrame of the primary, which is an ordinary HDLC station.            *)
SendFrame(f) == Transmit(Primary, f) /\ UNCHANGED <<rxOn, idleOnes, faults>>

(* write_timed gives up: nothing is sent.                                  *)
SendFails == /\ faults < MaxFaults
             /\ faults' = faults + 1
             /\ UNCHANGED <<rxOn, inbox, idleOnes, lost>>

(* SetIdle of the primary: ones carry the go-ahead, flags do not.          *)
SetIdle(ones) == idleOnes' = ones

Take(t) == inbox[t] # <<>>
Rest(t) == [inbox EXCEPT ![t] = Tail(@)]

(* POLL_TIMER has run out: meanwhile the bottom halves have run, the        *)
(* programs are back in CheckReceive with fewer than MaxInbox frames to    *)
(* read and, with a poll interval of a second or more, the frames that     *)
(* could go out have gone.                                                 *)
PollTimerExpired ==
    /\ \A t \in Stations : Len(inbox[t]) < MaxInbox
    /\ \A s \in Sec : ~bhTx[s] /\ pc[s] = "loop"
    /\ SlowPolls => \A s \in Sec : tx_active[s] => ~(sending[s] \/ GoAhead(s))

(* A slip: only the first client is entered in the list. *)
AllocateClientFirstOnly(a) == IF clients = {} THEN {a} ELSE clients

AllocateClient(a) == clients \cup {a}

(* A slip: a client is unlinked only from the head of the list. *)
DeallocateClientHeadOnly(a) == IF a = Min(clients \cup {a}) THEN clients \ {a} ELSE clients

DeallocateClient(a) == clients \ {a}

(* A slip: answers that have come round are queued as well. *)
QueueEveryTransaction(f) == IF f.addr \in clients THEN Append(requests, f) ELSE requests

(* The requests the primary queues: those of clients that are requests,    *)
(* not its own answers that have come round.                               *)
QueueTransaction(f) == IF f.addr \in clients /\ f.request THEN Append(requests, f) ELSE requests

(* CheckReceive with the callback ProcessRxFrames.  A SIM request makes the *)
(* sender a client, which is answered at once if SendFrame succeeds.       *)
PReceiveSIM ==
    /\ mode = "run" /\ Take(Primary)
    /\ LET f == Head(inbox[Primary])
           r == SIMResponse(f.addr)
       IN /\ f.size = 2 /\ f.ctrl = "SIM"
          /\ clients' = AllocateClient(f.addr)
          /\ \/ /\ inbox' = Delivered(Rest(Primary), Primary, r)
                /\ lost' = (lost \/ Missed(Primary, r))
                /\ UNCHANGED faults
             \/ /\ faults < MaxFaults
                /\ faults' = faults + 1
                /\ inbox' = Rest(Primary)
                /\ UNCHANGED lost
    /\ UNCHANGED <<driver, rxOn, idleOnes, mode, requests, secondary>>

PReceive ==
    /\ mode = "run" /\ Take(Primary)
    /\ LET f == Head(inbox[Primary])
       IN /\ ~(f.size = 2 /\ f.ctrl = "SIM")
          /\ clients' = IF IsDisc(f) THEN DeallocateClient(f.addr) ELSE clients
          /\ requests' = IF f.ctrl = "I" THEN QueueTransaction(f) ELSE requests
    /\ inbox' = Rest(Primary)
    /\ UNCHANGED <<driver, rxOn, idleOnes, lost, faults, mode, secondary>>

(* CheckTransmit: poll, or answer what is queued; with more than one answer *)
(* the primary idles flags so that no secondary gets a go-ahead.           *)
PCheckTransmit ==
    /\ mode = "run" /\ PollTimerExpired
    /\ IF requests # <<>>
       THEN /\ mode' = "respond"
            /\ SetIdle(Len(requests) = 1)
            /\ UNCHANGED <<rxOn, inbox, lost, faults>>
       ELSE /\ SendFrame(GeneralPoll) \/ SendFails
            /\ UNCHANGED mode
    /\ UNCHANGED <<driver, clients, requests, secondary>>

RemoveRequest(q) == Tail(q)

(* One turn of the loop of SendTransactionResponses.                       *)
PRespond ==
    /\ mode = "respond" /\ requests # <<>>
    /\ LET f == Head(requests)
       IN \/ /\ f.addr \notin clients
             /\ requests' = RemoveRequest(requests)
             /\ UNCHANGED <<line, mode>>
          \/ /\ f.addr \in clients
             /\ SendFrame(Info(f.addr, FALSE, f.n))
             /\ requests' = RemoveRequest(requests)
             /\ UNCHANGED mode
          \/ /\ f.addr \in clients
             /\ SendFails
             /\ mode' = "poll"
             /\ UNCHANGED requests
    /\ UNCHANGED <<driver, clients, secondary>>

(* ... and the general poll after it, with the timer of CheckTransmit.     *)
PPoll ==
    /\ mode = "poll" \/ (mode = "respond" /\ requests = <<>>)
    /\ SendFrame(GeneralPoll) \/ SendFails
    /\ mode' = IF idleOnes THEN "run" ELSE "idle"
    /\ UNCHANGED <<driver, clients, requests, secondary>>

(* wait_all_sent, then the primary idles ones again, sent or not.          *)
PIdleOnes ==
    /\ mode = "idle"
    /\ mode' = "run"
    /\ SetIdle(TRUE)
    /\ UNCHANGED <<driver, rxOn, inbox, lost, faults, clients, requests, secondary>>

(* SIGINT: the main loop ends and DoDisc starts.                           *)
PStartDisc ==
    /\ mode = "run"
    /\ mode' = "disc"
    /\ UNCHANGED <<driver, line, clients, requests, secondary>>

(* EnableReceiver(FALSE) and the end of the program.                       *)
GoOffline == /\ mode' = "off"
             /\ rxOn' = [rxOn EXCEPT ![Primary] = FALSE]

(* The DISC request is sent at the top of DoDisc's loop, so not before a   *)
(* turn has found the client list not empty.                               *)
PDisc ==
    /\ mode = "disc" /\ PollTimerExpired /\ clients # {}
    /\ \/ /\ SendFrame(DiscRequest)
          /\ UNCHANGED mode
       \/ /\ faults < MaxFaults
          /\ faults' = faults + 1
          /\ GoOffline
          /\ inbox' = [inbox EXCEPT ![Primary] = <<>>]
          /\ UNCHANGED <<idleOnes, lost>>
    /\ UNCHANGED <<driver, clients, requests, secondary>>

(* CheckReceive with ProcessRxDiscFrames.                                  *)
PReceiveDisc ==
    /\ mode = "disc" /\ Take(Primary)
    /\ LET f == Head(inbox[Primary])
       IN clients' = IF IsDisc(f) THEN DeallocateClient(f.addr) ELSE clients
    /\ inbox' = Rest(Primary)
    /\ UNCHANGED <<driver, rxOn, idleOnes, lost, faults, mode, requests, secondary>>

(* All stations have answered, or the user gives another SIGINT.           *)
PDiscOver == /\ mode = "disc"
             /\ GoOffline
             /\ inbox' = [inbox EXCEPT ![Primary] = <<>>]
             /\ UNCHANGED <<driver, idleOnes, lost, faults, clients, requests, secondary>>
PDiscDone == clients = {} /\ PDiscOver
PDiscGivenUp == clients # {} /\ PDiscOver

PStep == \/ PReceiveSIM \/ PReceive \/ PCheckTransmit \/ PRespond \/ PPoll \/ PIdleOnes
         \/ PDisc \/ PReceiveDisc \/ PDiscDone

-----------------------------------------------------------------------------
(* Secondaries *)

(* The wait for the rxabort count to change.                               *)
SInserted(s) ==
    /\ phase[s] = "insert" /\ rxabort[s]
    /\ phase' = [phase EXCEPT ![s] = "main"]
    /\ UNCHANGED <<driver, line, primary, pc, bInitialized, queued, pending, created>>

SLeave(s) ==
    /\ s \in Leavers
    /\ phase[s] \in {"insert", "main"} /\ pc[s] = "loop"
    /\ phase' = [phase EXCEPT ![s] = "gone"]
    /\ ClosePort(s)
    /\ UNCHANGED <<primary, pc, bInitialized, queued, pending, created>>

(* SendFrame of a secondary: n_hdlc takes the frame, or write_timed times   *)
(* out because it has no buffer free.                                      *)
Sends(s, f) == Write(s, f) /\ UNCHANGED <<lost, faults>>
SendTimesOut(s) == ~Room(s) /\ lost' = TRUE /\ UNCHANGED <<driver, faults>>

(* LoopModeSendLastFrame: send, then R56_IOCLOOPTXDONE whether or not the  *)
(* frame was taken (SRelease).                                             *)
SRelease(s) ==
    /\ pc[s] = "release"
    /\ LoopTxDone(s)
    /\ pc' = [pc EXCEPT ![s] = "loop"]
    /\ UNCHANGED <<line, primary, phase, bInitialized, queued, pending, created>>

(* ReconcileTransaction: the first match leaves the pending list, if any.   *)
ReconcileTransaction(s, k) == pending' = [pending EXCEPT ![s] = RemoveFirst(@, k)]

(* CheckReceive with the callback ProcessRxFrame, one action per outcome.  *)
Reads(s) == /\ phase[s] = "main" /\ pc[s] = "loop" /\ Take(s)
            /\ inbox' = Rest(s)
            /\ UNCHANGED <<rxOn, idleOnes, primary, phase, created>>

(* Send f as the only, so last, frame; then says what that changes.        *)
SReply(s, f) ==
    /\ Sends(s, f) \/ SendTimesOut(s)
    /\ pc' = [pc EXCEPT ![s] = "release"]

SReceiveDisc(s) ==
    /\ Reads(s)
    /\ IsDisc(Head(inbox[s]))
    /\ IF bInitialized[s]
       THEN /\ SReply(s, DiscResponse(s))
            /\ bInitialized' = [bInitialized EXCEPT ![s] = ~Room(s)]
       ELSE UNCHANGED <<driver, lost, faults, pc, bInitialized>>
    /\ UNCHANGED <<queued, pending>>

SReceiveJoining(s) ==
    /\ Reads(s)
    /\ ~bInitialized[s] /\ ~IsDisc(Head(inbox[s]))
    /\ LET f == Head(inbox[s])
       IN IF AsksForSIM(f) THEN SReply(s, SIMRequest(s)) ELSE UNCHANGED <<driver, lost, faults, pc>>
    /\ bInitialized' = [bInitialized EXCEPT ![s] = IsSIMResponse(Head(inbox[s]))]
    /\ UNCHANGED <<queued, pending>>

(* DoPollResponse without and with transactions to send.                   *)
SReceivePoll(s) ==
    /\ Reads(s)
    /\ bInitialized[s] /\ ~IsDisc(Head(inbox[s]))
    /\ Head(inbox[s]).size = 2 /\ IS_POLL(Head(inbox[s]))
    /\ IF queued[s] = <<>> THEN SReply(s, PollResponse(s))
       ELSE pc' = [pc EXCEPT ![s] = "respond"] /\ UNCHANGED <<driver, lost, faults>>
    /\ UNCHANGED <<bInitialized, queued, pending>>

SReceiveInfo(s) ==
    /\ Reads(s)
    /\ bInitialized[s] /\ ~IsDisc(Head(inbox[s]))
    /\ ~(Head(inbox[s]).size = 2 /\ IS_POLL(Head(inbox[s])))
    /\ LET f == Head(inbox[s])
       IN IF f.ctrl = "I" /\ ~f.request THEN ReconcileTransaction(s, f.n)
          ELSE UNCHANGED <<pending>>
    /\ UNCHANGED <<driver, lost, faults, pc, bInitialized, queued>>

(* RemoveQueuedTransationListHead clears pNext of the head before it makes *)
(* that pointer the new list: whatever was behind the head is gone.        *)
RemoveQueuedTransationListHead(q) == <<>>

(* MoveQueuedTransactionToPendingList: the head, which has been sent.       *)
MoveToPending(s) ==
    /\ queued' = [queued EXCEPT ![s] = RemoveQueuedTransationListHead(@)]
    /\ pending' = [pending EXCEPT ![s] = Append(@, Head(queued[s]))]

(* One turn of the loop of DoPollResponse.                                 *)
SRespond(s) ==
    /\ pc[s] = "respond"
    /\ LET last == Len(queued[s]) = 1
       IN \/ /\ Sends(s, Info(s, TRUE, Head(queued[s])))
             /\ MoveToPending(s)
             /\ pc' = [pc EXCEPT ![s] = IF last THEN "release"
                                        ELSE IF queued'[s] # <<>> THEN "respond" ELSE "loop"]
          \/ /\ SendTimesOut(s)
             /\ pc' = [pc EXCEPT ![s] = IF last THEN "release" ELSE "loop"]
             /\ UNCHANGED <<queued, pending>>
    /\ UNCHANGED <<rxOn, inbox, idleOnes, primary, phase, bInitialized, created>>

(* CheckForNewTransactions, when its timer has run out.                    *)
SNewTransaction(s) ==
    /\ phase[s] = "main" /\ pc[s] = "loop"
    /\ bInitialized[s]
    /\ created[s] < MaxTransactions[s]
    /\ created' = [created EXCEPT ![s] = @ + 1]
    /\ queued' = [queued EXCEPT ![s] = Append(@, created[s] + 1)]
    /\ UNCHANGED <<driver, line, primary, phase, pc, bInitialized, pending>>

SReceive(s) == SReceiveDisc(s) \/ SReceiveJoining(s) \/ SReceivePoll(s) \/ SReceiveInfo(s)
SStep(s) == SInserted(s) \/ SReceive(s) \/ SRelease(s) \/ SRespond(s)

-----------------------------------------------------------------------------
Running == \/ PStep \/ PStartDisc \/ PDiscGivenUp
        \/ \E s \in Sec : \/ SStep(s) \/ SNewTransaction(s) \/ SLeave(s)
                          \/ (DriverStep(s) /\ UNCHANGED <<primary, secondary>>)
                          \/ (DriverFault(s) /\ UNCHANGED <<primary, secondary>>)

(* The story ends when the primary is off line.                            *)
Next == mode # "off" /\ Running

(* The programs' loops run on, time passes and the adapters do their work. *)
(* A station waits for the line while others use it, hence the strong      *)
(* fairness of what needs a go-ahead.                                      *)
Fairness ==
    /\ WF_vars(PStep)
    /\ \A s \in Sec : /\ WF_vars(SStep(s))
                      /\ SF_vars(IsrInserted(s) /\ UNCHANGED <<primary, secondary>>)
                      /\ SF_vars(IsrFrameSent(s) /\ UNCHANGED <<primary, secondary>>)
                      /\ WF_vars(BhTransmit(s) /\ UNCHANGED <<primary, secondary>>)

Spec == Init /\ [][Next]_vars /\ Fairness

-----------------------------------------------------------------------------
(* Properties *)

(* "If a match is found (and there should always be a match)": an answer   *)
(* on its way to a secondary belongs to a transaction that it is still     *)
(* waiting for, and no transaction is answered twice, whatever is lost,    *)
(* delayed or cancelled and although the answers come round to the primary *)
(* again (ProcessRxFrames, SendTransactionResponses, DoPollResponse).      *)
Answers(s) == {i \in DOMAIN inbox[s] : inbox[s][i].ctrl = "I"}
ResponsesMatch ==
    \A s \in Sec : phase[s] # "gone" =>
        /\ \A i \in Answers(s) : inbox[s][i].n \in Range(pending[s])
        /\ \A i, j \in Answers(s) : inbox[s][i].n = inbox[s][j].n => i = j

(* A station that believes it is initialized is a client of the primary    *)
(* for as long as the primary runs: its requests are not "station unknown" *)
(* (AllocateClient and the SIM response against the DISC response).        *)
InitializedIsKnown == \A s \in Sec : bInitialized[s] => s \in clients

(* The sample has no retransmission: what it does without losses.          *)
Untroubled == ~lost /\ faults = 0 /\ \A s \in Sec : phase[s] # "gone"

(* ... then whenever a station has taken the line there is a time later    *)
(* when nobody has it, be it after the answer to a later poll, so that the *)
(* go-ahead reaches every station (r56_loopmode_send_done,                 *)
(* r56_bh_transmit, LoopModeSendLastFrame).                                *)
LineComesFree ==
    [](Untroubled) =>
        ((\E s \in Sec : sending[s]) ~> (mode = "off" \/ \A s \in Sec : ~sending[s]))

(* ... then the secondaries on the loop get through the SIM exchange, all   *)
(* of them, or the primary goes off line (SendSIMRequest, ProcessRxFrames). *)
Joined(s) == phase[s] = "main" => bInitialized[s]
JoinsEventually ==
    [](Untroubled) =>
        ((\E s \in Sec : ~Joined(s)) ~> (mode \in {"disc", "off"} \/ \A s \in Sec : Joined(s)))

(* ... and DoDisc ends without a second SIGINT: every client answers the   *)
(* DISC request (DoDisc, SendDiscResponse, ProcessRxDiscFrames).           *)
ShutdownCompletes == [](Untroubled) => (mode = "disc" ~> mode = "off")

=============================================================================
