------------------------------ MODULE PortLife ------------------------------
(***************************************************************************)
(* Opening, closing and hanging up a port: the open count, the wait for    *)
(* carrier, the adapter resources claimed by the first open and given back *)
(* by the last close, and the network interface that may have the port     *)
(* instead (netcount, hdlcdev_open, hdlcdev_close).                        *)
(*                                                                         *)
(* The tty layer is external.  It calls open, close and hangup with the    *)
(* tty lock held; block_til_ready and the drain in tty_port_close_start    *)
(* let the lock go while they wait, the sleep of r56_open on close_wait    *)
(* does not.  After a failed open the tty layer releases the file, which   *)
(* calls r56_close.  The network layer does not take the tty lock, so      *)
(* startup and shutdown, which both sides call, go claim by claim and in   *)
(* steps; what else happens in one stretch under the lock is one step.     *)
(***************************************************************************)
EXTENDS Integers, FiniteSets, Sequences

CONSTANTS
  Procs,       \* processes
  Pci,         \* PCI adapter, else ISA
  Clocal,      \* CLOCAL is set: opens do not wait for carrier
  MaxOpens,    \* bound: opens
  MaxFaults,   \* bound: failures of a claim or a test in startup
  MaxHangups,  \* bound: hangups
  MaxDcd       \* bound: changes of carrier

ASSUME PortAssumption ==
  /\ IsFiniteSet(Procs)
  /\ {Pci, Clocal} \subseteq BOOLEAN
  /\ {MaxOpens, MaxFaults, MaxHangups, MaxDcd} \subseteq Nat

VARIABLES
  \* tty_port and r56_struct
  count, blocked_open,
  initialized, closing,    \* ASYNC_INITIALIZED, ASYNC_CLOSING
  tty_set,                 \* port.tty is not NULL
  held,                    \* what the driver can give back: its flags and pointers
  claimed,                 \* what the kernel (external) has given it
  job, claim,              \* for each side, the step of startup or shutdown, and
                           \* the claim that startup makes next
  \* the tty layer (external)
  tty_count,               \* tty->count
  hung,                    \* processes whose file is hung up
  io_error,                \* TTY_IO_ERROR
  hup,                     \* r56_hangup is running
  \* the network interface
  net,                     \* "down", "claimed", "up", "closing"; netcount unless down
  \* the line
  dcd,
  \* the processes
  pc, woken,
  \* history and bounds
  failed,                  \* an open failed other than by a hangup
  contended,               \* the network came to a port the tty side still used
  crossed,                 \* both sides have been in shutdown at once
  opens, faults, hangups, changes

flags  == <<initialized, closing, tty_set>>
res    == <<held, claimed>>
jobs   == <<job, claim, crossed>>
ttyv   == <<tty_count, hung, io_error, hup>>
procv  == <<pc, woken>>
bounds == <<opens, faults, hangups, changes>>
netv   == <<net, contended>>
vars   == <<count, blocked_open, flags, res, jobs, ttyv, netv, dcd, procv, failed, bounds>>

\* What startup, r56_claim_resources, r56_allocate_dma_buffers and
\* r56_adapter_test do, in order.  Each may fail; tests leave nothing behind.
Claims ==
  IF Pci
  THEN <<"xmit_buf", "io", "irq", "lcr256", "memory_base", "memory test", "lcr",
         "rxbuffer", "txbuffers", "adapter test">>
  ELSE <<"xmit_buf", "io", "irq", "dma", "buffer_list", "frames", "rxbuffer", "txbuffers",
         "adapter test">>

Tests == {"memory test", "adapter test"}

\* Claims that the kernel does not grant twice.
Exclusive == {"io", "dma"} \cup IF Pci THEN {} ELSE {"irq"}

\* The second ioremap overwrites lcr_base, whether it succeeds or not: the driver
\* has lost the first mapping, the kernel has not.
Forget(S, c) == IF c = "lcr" THEN S \ {"lcr256"} ELSE S
Keep(S, c) == IF c = "lcr" /\ "lcr256" \in S THEN (S \ {"lcr256"}) \cup {"lost"} ELSE S

\* After the first n claims.
Held(n) == {Claims[i] : i \in 1 .. n} \ (Tests \cup IF Pci /\ n >= 7 THEN {"lcr256"} ELSE {})
Resources == Held(Len(Claims))

Sides == {"tty", "net"}
Starting == {"claim", "undo", "run"}
Stopping == {"free", "release", "clear"}

TypeOK ==
  /\ count \in 0 .. Cardinality(Procs) /\ blocked_open \in 0 .. Cardinality(Procs)
  /\ tty_count \in 0 .. Cardinality(Procs)
  /\ {initialized, closing, tty_set, io_error, hup, dcd, failed, contended, crossed} \subseteq BOOLEAN
  /\ net \in {"down", "claimed", "up", "closing"}
  /\ held \subseteq claimed /\ claimed \subseteq Resources \cup {"lcr256", "lost"}
  /\ job \in [Sides -> {"none", "ok", "error"} \cup Starting \cup Stopping]
  /\ claim \in [Sides -> 1 .. Len(Claims)]
  /\ hung \subseteq Procs
  /\ pc \in [Procs -> {"out", "close_wait", "startup", "blocked", "in", "failed", "draining", "closing"}]
  /\ woken \in [Procs -> BOOLEAN]
  /\ opens <= MaxOpens /\ faults <= MaxFaults /\ hangups <= MaxHangups /\ changes <= MaxDcd

At(s) == {p \in Procs : pc[p] = s}

\* The tty lock is free: no open, close or hangup is running, nobody sleeps on
\* close_wait with it.
LockFree == ~hup /\ \A p \in Procs : pc[p] \notin {"close_wait", "startup", "closing"}

-----------------------------------------------------------------------------
(* startup and shutdown, called by a side s.                               *)

\* The next step of a side.
Goto(s, point) == job' = [job EXCEPT ![s] = point]

\* startup is called: it has nothing to do on a port that is initialized.
Startup(s) ==
  /\ Goto(s, IF initialized THEN "ok" ELSE "claim")
  /\ UNCHANGED <<claim, crossed>>

\* shutdown is called: it has nothing to do on one that is not.
Shutdown(s) ==
  /\ Goto(s, IF initialized THEN "free" ELSE "ok")
  /\ crossed' = (crossed \/ (initialized /\ \E t \in Sides \ {s} : job[t] \in Stopping))
  /\ UNCHANGED claim

\* Slip: the interrupt line is not given back.
GiveBackAllButIrq == held \ {"xmit_buf", "irq"}

\* What r56_release_resources gives back; xmit_buf is not its.
GiveBack == held \ {"xmit_buf"}

RestUnchanged ==
  UNCHANGED <<count, blocked_open, closing, tty_set, tty_count, hung, hup, crossed, netv, dcd, procv,
              failed, opens, hangups, changes>>

\* The next claim, or test, succeeds.
ClaimMade(s) ==
  LET c == Claims[claim[s]]
  IN /\ job[s] = "claim"
     /\ c \in Exclusive => c \notin claimed
     /\ held' = Forget(held, c) \cup ({c} \ Tests)
     /\ claimed' = Keep(claimed, c) \cup ({c} \ Tests)
     /\ IF claim[s] = Len(Claims) THEN Goto(s, "run") /\ claim' = [claim EXCEPT ![s] = 1]
        ELSE claim' = [claim EXCEPT ![s] = claim[s] + 1] /\ UNCHANGED job
     /\ UNCHANGED <<initialized, io_error, faults>> /\ RestUnchanged

\* It fails.  Without a transmit buffer startup returns at once.
ClaimFailed(s) ==
  LET c == Claims[claim[s]]
  IN /\ job[s] = "claim"
     /\ c = "xmit_buf" => c \notin held
     /\ c \in Exclusive \cap claimed \/ faults < MaxFaults
     /\ faults' = IF c \in Exclusive \cap claimed THEN faults ELSE faults + 1
     /\ held' = Forget(held, c) /\ claimed' = Keep(claimed, c)
     /\ Goto(s, IF c = "xmit_buf" THEN "error" ELSE "undo") /\ claim' = [claim EXCEPT ![s] = 1]
     /\ UNCHANGED <<initialized, io_error>> /\ RestUnchanged

\* r56_release_resources on the way out of a startup that failed, and TTY_IO_ERROR
\* if the process may do that.
Undo(s) ==
  /\ job[s] = "undo"
  /\ held' = held \ GiveBack /\ claimed' = claimed \ GiveBack
  /\ io_error' \in IF tty_set THEN {io_error, TRUE} ELSE {io_error}
  /\ Goto(s, "error")
  /\ UNCHANGED <<claim, initialized, faults>> /\ RestUnchanged

\* The end of a startup that succeeds.
Run(s) ==
  /\ job[s] = "run"
  /\ io_error' = (io_error /\ ~tty_set)
  /\ initialized' = TRUE
  /\ Goto(s, "ok")
  /\ UNCHANGED <<res, claim, faults>> /\ RestUnchanged

\* shutdown frees xmit_buf ...
Free(s) ==
  /\ job[s] = "free"
  /\ held' = held \ {"xmit_buf"} /\ claimed' = claimed \ {"xmit_buf"}
  /\ Goto(s, "release")
  /\ UNCHANGED <<claim, initialized, io_error, faults>> /\ RestUnchanged

\* ... calls r56_release_resources ...
Release(s) ==
  /\ job[s] = "release"
  /\ held' = held \ GiveBack /\ claimed' = claimed \ GiveBack
  /\ Goto(s, "clear")
  /\ UNCHANGED <<claim, initialized, io_error, faults>> /\ RestUnchanged

\* ... and says so last.
Clear(s) ==
  /\ job[s] = "clear"
  /\ io_error' = (io_error \/ tty_set)
  /\ initialized' = FALSE
  /\ Goto(s, "ok")
  /\ UNCHANGED <<res, claim, faults>> /\ RestUnchanged

Working(s) == ClaimMade(s) \/ ClaimFailed(s) \/ Undo(s) \/ Run(s) \/ Free(s) \/ Release(s) \/ Clear(s)

\* The caller goes on.
Return(s) == Goto(s, "none") /\ UNCHANGED <<claim, crossed>>

-----------------------------------------------------------------------------
(* r56_open and block_til_ready.                                           *)

\* r56_open gives up with an error, the port's count being c and port.tty set
\* or not: the count goes down if it can.
OpenFails(p, c, set) ==
  /\ pc' = [pc EXCEPT ![p] = "failed"]
  /\ count' = IF c > 0 THEN c - 1 ELSE 0
  /\ tty_set' = (set /\ tty_count' # 1)
  /\ failed' = (failed \/ p \notin hung')

\* The tty layer (external) opens a file for p.
FileOpened(p) ==
  /\ pc[p] = "out" /\ opens < MaxOpens /\ LockFree
  /\ opens' = opens + 1
  /\ tty_count' = tty_count + 1
  /\ hung' = hung \ {p}

\* r56_open finds the port closing and sleeps on close_wait, holding the lock.
OpenClosing(p) ==
  /\ FileOpened(p)
  /\ closing
  /\ pc' = [pc EXCEPT ![p] = "close_wait"]
  /\ tty_set' = TRUE
  /\ UNCHANGED <<count, blocked_open, initialized, closing, res, jobs, io_error, hup, netv, dcd,
                 woken, failed, faults, hangups, changes>>

\* A signal ends that sleep.  (The close that would end it waits for the lock.)
OpenInterrupted(p) ==
  /\ pc[p] = "close_wait"
  /\ UNCHANGED <<blocked_open, initialized, closing, res, jobs, ttyv, netv, dcd, woken, bounds>>
  /\ OpenFails(p, count, tty_set)

\* One turn of the loop of block_til_ready, in which p is not counted in c and
\* others is the number of the other waiting opens; p leaves the loop, and is
\* counted again, or sleeps.
Look(p, c, others, set, signal) ==
  IF p \in hung \/ ~initialized \/ (signal /\ (closing \/ ~(Clocal \/ dcd)))
  THEN OpenFails(p, c + 1, set) /\ blocked_open' = others /\ UNCHANGED woken
  ELSE IF ~closing /\ (Clocal \/ dcd)
  THEN /\ pc' = [pc EXCEPT ![p] = "in"] /\ count' = c + 1 /\ blocked_open' = others
       /\ tty_set' = set /\ UNCHANGED <<woken, failed>>
  ELSE /\ pc' = [pc EXCEPT ![p] = "blocked"] /\ count' = c /\ blocked_open' = others + 1
       /\ woken' = [woken EXCEPT ![p] = FALSE]
       /\ tty_set' = set /\ UNCHANGED failed

\* Slip: the count is not dropped for the wait, and restored after it.
BlockTilReadyKeepsCount(p, nonblock, signal) ==
  IF nonblock \/ io_error
  THEN /\ pc' = [pc EXCEPT ![p] = "in"]
       /\ UNCHANGED <<count, tty_set, blocked_open, woken, failed>>
  ELSE Look(p, count, blocked_open, tty_set, signal)

\* block_til_ready up to its first sleep.
BlockTilReady(p, nonblock, signal) ==
  IF nonblock \/ io_error
  THEN /\ pc' = [pc EXCEPT ![p] = "in"]
       /\ UNCHANGED <<count, tty_set, blocked_open, woken, failed>>
  ELSE Look(p, count - 1, blocked_open, tty_set, signal)

\* r56_open on a port that the network interface has: -EBUSY.
OpenBusy(p) ==
  /\ FileOpened(p)
  /\ ~closing /\ net # "down"
  /\ OpenFails(p, count, TRUE)
  /\ UNCHANGED <<blocked_open, initialized, closing, res, jobs, io_error, hup, netv, dcd, woken,
                 faults, hangups, changes>>

\* r56_open on a port that is not closing: the first open calls startup.
Open(p) ==
  /\ FileOpened(p)
  /\ ~closing /\ net = "down"
  /\ tty_set' = TRUE
  /\ count' = count + 1
  /\ pc' = [pc EXCEPT ![p] = "startup"]
  /\ IF count = 0 THEN Startup("tty") ELSE Goto("tty", "ok") /\ UNCHANGED <<claim, crossed>>
  /\ UNCHANGED <<blocked_open, initialized, closing, res, io_error, hup, netv, dcd, woken, failed,
                 faults, hangups, changes>>

\* The rest of r56_open.
OpenStarted(p, nonblock, signal) ==
  /\ pc[p] = "startup"
  /\ UNCHANGED <<initialized, closing, res, ttyv, netv, dcd, bounds>>
  /\ \/ job["tty"] = "ok" /\ BlockTilReady(p, nonblock, signal)
     \/ job["tty"] = "error" /\ OpenFails(p, count, tty_set) /\ UNCHANGED <<blocked_open, woken>>
  /\ Return("tty")

\* A sleeping open is woken, or gets a signal, and takes another turn.
BlockCheck(p, signal) ==
  /\ pc[p] = "blocked" /\ LockFree
  /\ woken[p] \/ signal
  /\ UNCHANGED <<initialized, closing, res, jobs, ttyv, netv, dcd, bounds>>
  /\ Look(p, count, blocked_open - 1, tty_set, signal)

-----------------------------------------------------------------------------
(* r56_close and r56_hangup.                                               *)

\* The count tty_port_close_start (external) makes of the port's.
CloseCount == LET c == IF tty_count = 1 THEN 1 ELSE count
              IN IF c > 0 THEN c - 1 ELSE 0

\* The tty layer (external) releases p's file; with the last one the tty goes.
FileReleased(p) ==
  /\ pc' = [pc EXCEPT ![p] = "out"]
  /\ tty_count' = tty_count - 1
  /\ io_error' = (io_error /\ tty_count # 1)
  /\ UNCHANGED <<hung, hup>>

\* r56_close that is not the last: the file was hung up, or others remain.
CloseOthers(p) ==
  /\ pc[p] \in {"in", "failed"} /\ LockFree
  /\ \/ p \in hung /\ UNCHANGED count
     \/ p \notin hung /\ CloseCount > 0 /\ count' = CloseCount
  /\ FileReleased(p)
  /\ UNCHANGED <<blocked_open, flags, res, jobs, netv, dcd, woken, failed, bounds>>

\* r56_close of the last file: the port is closing, output drains without the lock.
CloseLast(p) ==
  /\ pc[p] \in {"in", "failed"} /\ LockFree
  /\ p \notin hung /\ CloseCount = 0
  /\ count' = 0
  /\ closing' = TRUE
  /\ pc' = [pc EXCEPT ![p] = "draining"]
  /\ UNCHANGED <<blocked_open, initialized, tty_set, res, jobs, ttyv, netv, dcd, woken, failed, bounds>>

\* Output has drained, the lock is taken again: shutdown ...
CloseShutdown(p) ==
  /\ pc[p] = "draining" /\ LockFree
  /\ pc' = [pc EXCEPT ![p] = "closing"]
  /\ Shutdown("tty")
  /\ UNCHANGED <<count, blocked_open, flags, res, ttyv, netv, dcd, woken, failed, bounds>>

\* ... and the rest of r56_close: waiting opens are woken.
CloseEnd(p) ==
  /\ pc[p] = "closing" /\ job["tty"] = "ok"
  /\ Return("tty")
  /\ closing' = FALSE
  /\ woken' = [q \in Procs |-> woken[q] \/ pc[q] = "blocked"]
  /\ tty_set' = FALSE
  /\ FileReleased(p)
  /\ UNCHANGED <<count, blocked_open, initialized, res, netv, dcd, failed, bounds>>

\* tty_hangup (external) marks the open files and calls r56_hangup: shutdown ...
Hangup ==
  /\ hangups < MaxHangups /\ tty_count > 0 /\ LockFree
  /\ hangups' = hangups + 1
  /\ hung' = {p \in Procs : pc[p] # "out"}
  /\ hup' = TRUE
  /\ Shutdown("tty")
  /\ contended' = (contended \/ net # "down")
  /\ UNCHANGED <<count, blocked_open, flags, res, tty_count, io_error, net, dcd, procv, failed,
                 opens, faults, changes>>

\* Slip: the open count survives the hangup.
HangupEndKeepsCount ==
  /\ hup /\ job["tty"] = "ok"
  /\ Return("tty")
  /\ hup' = FALSE
  /\ tty_set' = FALSE
  /\ woken' = [q \in Procs |-> woken[q] \/ pc[q] = "blocked"]
  /\ UNCHANGED <<count, blocked_open, initialized, closing, res, tty_count, hung, io_error, netv, dcd,
                 pc, failed, bounds>>

\* ... and the rest of r56_hangup.
HangupEnd ==
  /\ hup /\ job["tty"] = "ok"
  /\ Return("tty")
  /\ hup' = FALSE
  /\ count' = 0
  /\ tty_set' = FALSE
  /\ woken' = [q \in Procs |-> woken[q] \/ pc[q] = "blocked"]
  /\ UNCHANGED <<blocked_open, initialized, closing, res, tty_count, hung, io_error, netv, dcd, pc,
                 failed, bounds>>

-----------------------------------------------------------------------------
(* The network interface.                                                  *)

\* hdlcdev_open "arbitrates between network and tty opens" by the count alone,
\* which is zero also while an open waits for carrier and while a close drains;
\* then it calls startup.
NetClaim ==
  /\ net = "down" /\ opens < MaxOpens
  /\ count = 0
  /\ opens' = opens + 1
  /\ net' = "claimed"
  /\ Startup("net")
  /\ contended' = (contended \/ blocked_open > 0 \/ closing)
  /\ UNCHANGED <<count, blocked_open, flags, res, ttyv, dcd, procv, failed, faults, hangups, changes>>

\* The rest of hdlcdev_open.
NetStarted ==
  /\ net = "claimed" /\ job["net"] \in {"ok", "error"}
  /\ net' = IF job["net"] = "ok" THEN "up" ELSE "down"
  /\ Return("net")
  /\ UNCHANGED <<count, blocked_open, flags, res, ttyv, contended, dcd, procv, failed, bounds>>

\* hdlcdev_close calls shutdown ...
NetShutdown ==
  /\ net = "up"
  /\ net' = "closing"
  /\ Shutdown("net")
  /\ UNCHANGED <<count, blocked_open, flags, res, ttyv, contended, dcd, procv, failed, bounds>>

\* ... and clears netcount.
NetRelease ==
  /\ net = "closing" /\ job["net"] = "ok"
  /\ net' = "down"
  /\ Return("net")
  /\ UNCHANGED <<count, blocked_open, flags, res, ttyv, contended, dcd, procv, failed, bounds>>

-----------------------------------------------------------------------------
\* Slip: carrier does not wake the waiting opens.
CarrierChangeSilent ==
  /\ changes < MaxDcd
  /\ changes' = changes + 1
  /\ dcd' = ~dcd
  /\ UNCHANGED <<count, blocked_open, flags, res, jobs, ttyv, netv, procv, failed, opens, faults, hangups>>

\* r56_isr_io_pin for carrier, with ASYNC_CHECK_CD unless CLOCAL is set: waiting
\* opens are woken.  (That the loss of carrier hangs the port up is Hangup.)
CarrierChange ==
  /\ changes < MaxDcd
  /\ changes' = changes + 1
  /\ dcd' = ~dcd
  /\ woken' = [q \in Procs |-> \/ woken[q]
                               \/ pc[q] = "blocked" /\ dcd' /\ initialized /\ ~Clocal]
  /\ UNCHANGED <<count, blocked_open, flags, res, jobs, ttyv, netv, pc, failed, opens, faults, hangups>>

Init ==
  /\ count = 0 /\ blocked_open = 0
  /\ initialized = FALSE /\ closing = FALSE /\ tty_set = FALSE
  /\ held = {} /\ claimed = {}
  /\ job = [s \in Sides |-> "none"] /\ claim = [s \in Sides |-> 1]
  /\ tty_count = 0 /\ hung = {} /\ io_error = FALSE /\ hup = FALSE
  /\ net = "down" /\ contended = FALSE /\ crossed = FALSE
  /\ dcd = FALSE
  /\ pc = [p \in Procs |-> "out"] /\ woken = [p \in Procs |-> FALSE]
  /\ failed = FALSE
  /\ opens = 0 /\ faults = 0 /\ hangups = 0 /\ changes = 0

Opening(p) == \/ OpenClosing(p) \/ OpenInterrupted(p) \/ OpenBusy(p) \/ Open(p)
              \/ \E b, s \in BOOLEAN : OpenStarted(p, b, s)
Waiting(p) == \E s \in BOOLEAN : BlockCheck(p, s)
Closing(p) == CloseOthers(p) \/ CloseLast(p) \/ CloseShutdown(p) \/ CloseEnd(p)
Network    == NetClaim \/ NetStarted \/ NetShutdown \/ NetRelease

Next == \/ \E p \in Procs : Opening(p) \/ Waiting(p) \/ Closing(p)
        \/ \E s \in Sides : Working(s)
        \/ Network \/ Hangup \/ HangupEnd \/ CarrierChange

\* A woken open takes its turn and a close goes on to its end, the tty lock
\* being free; startup, shutdown and their callers go on; nobody has to open,
\* close, hang up or send a signal.
Fairness ==
  /\ \A p \in Procs : /\ WF_vars(BlockCheck(p, FALSE))
                      /\ WF_vars(CloseShutdown(p) \/ CloseEnd(p))
                      /\ WF_vars(OpenStarted(p, FALSE, FALSE))
  /\ \A s \in Sides : WF_vars(Working(s))
  /\ WF_vars(HangupEnd)

Spec == Init /\ [][Next]_vars /\ Fairness

-----------------------------------------------------------------------------
\* "While we are in this loop, port->count is dropped by one, so that
\* r56_close() knows when to free things" (block_til_ready): the count is that
\* of the files open or being opened, and not hung up, whatever waits, hangs up
\* or closes meanwhile, as long as no open has failed.
CountExact == ~failed /\ ~hup => count = Cardinality((At("in") \ hung) \cup At("startup"))

\* Whoever has the port has it running, with every resource, and the network
\* interface and processes never both have it: no close of another process, no
\* wait for carrier and no hangup takes it down.  Excepted are a failed open,
\* which r56_open counts down and the close the tty layer makes of it counts
\* down again, and a network interface brought up while an open waits for
\* carrier or a close drains (r56_open, r56_close, hdlcdev_open).
PortStaysUp ==
  ~failed /\ ~contended =>
    /\ (At("in") \ hung # {} \/ net = "up") => initialized /\ held = Resources
    /\ At("in") \ hung = {} \/ net = "down"

\* A startup that fails, at any of its claims, and a shutdown give back everything,
\* and a port that runs has everything, however startups and shutdowns of the two
\* sides follow each other (startup, r56_claim_resources, r56_release_resources,
\* shutdown).  What stays behind is the transmit buffer of a failed startup and, on
\* PCI, the mapping whose address the second ioremap overwrites.  The flag that is
\* to keep startup and shutdown apart is cleared last: two shutdowns at once, of
\* the tty side and of the network interface, need a failed open or a contended port.
ResourcesMatch ==
  /\ crossed => failed \/ contended
  /\ ~crossed /\ (\A s \in Sides : job[s] \notin Starting \cup Stopping) =>
       IF initialized THEN held = Resources /\ Resources \subseteq claimed
       ELSE claimed \subseteq {"xmit_buf"} \cup IF Pci THEN {"lost"} ELSE {}

\* No open waits for ever for the carrier it has, nor on a port that has been
\* shut down: the wakeups of open_wait reach it (r56_isr_io_pin, r56_close,
\* r56_hangup).  Excepted are an open asleep on close_wait, which keeps the tty
\* lock, and a network interface that takes the port down under a waiting open.
NoLostCarrier ==
  [](~contended) =>
    \A p \in Procs :
      <>[](LockFree /\ (Clocal \/ dcd \/ ~initialized)) => []<>(pc[p] # "blocked")
=============================================================================
