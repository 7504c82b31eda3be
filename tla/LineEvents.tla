----------------------------- MODULE LineEvents -----------------------------
(***************************************************************************)
(* Waiting for changes of the modem signals and for receiver events:       *)
(* R56_IOCWAITEVENT (r56_wait_event) and TIOCMIWAIT (modem_input_wait)     *)
(* against the interrupt routines that count the events, R56_IOCGSTATS     *)
(* that resets the counters, and shutdown.                                 *)
(*                                                                         *)
(* The port is open with CLOCAL and without CRTSCTS, so that signals       *)
(* neither hang it up nor stop output; it is shut down at most once.       *)
(* What is done under irq_spinlock is one step; r56_get_stats takes no     *)
(* lock, so it clears the counters in any number of steps.                 *)
(***************************************************************************)
EXTENDS Integers, FiniteSets

CONSTANTS
  Procs,        \* processes that wait
  Signals,      \* modem signals (DCD, CTS, DSR, RI)
  Masks,        \* sets of events asked for
  Limit,        \* IO_PIN_SHUTDOWN_LIMIT
  MaxWaits,     \* bound: calls that wait
  MaxClears,    \* bound: resets of the statistics
  MaxChanges    \* bound: changes of signals and receiver events

\* A signal going active or inactive, the receiver leaving hunt mode, and the
\* receiver seeing an idle line.
SignalEvents   == [src : Signals, up : BOOLEAN]
Hunt           == [src |-> "hunt", up |-> TRUE]
Idle           == [src |-> "idle", up |-> TRUE]
Events         == SignalEvents \cup {Hunt, Idle}

\* The counters of icount: both directions of a signal share one.
Counters == Signals \cup {"hunt", "idle"}
NoCounts == [c \in Counters |-> 0]

ASSUME LineAssumption ==
  /\ IsFiniteSet(Procs)
  /\ Signals \cap {"hunt", "idle"} = {}
  /\ Masks \subseteq SUBSET Events
  /\ {Limit, MaxWaits, MaxClears, MaxChanges} \subseteq Nat

VARIABLES
  \* r56_struct
  chkcount,    \* dcd_chkcount and the others
  pending,     \* BH_STATUS is raised
  icount,      \* events counted
  up,          \* "up", then the progress of shutdown: "waking", "down"
  \* the 16C32
  level,       \* signals that are active
  latched,     \* signals that changed since they were last looked at
  status_irqs, \* signals whose interrupt is enabled in SICR
  ricr,        \* interrupt arm bits of RICR: 1 idle, 2 hunt, above: the FIFO level
  rxevents,    \* receiver events not serviced yet
  \* the processes
  pc,          \* control point
  miwait,      \* the call is TIOCMIWAIT
  mask,        \* events asked for
  news,        \* what input_signal_events has counted since it last looked
  saved,       \* icount when it last looked
  woken,       \* taken out of its sleep by a wake_up
  result,      \* what the call returned: events, or {} for an error
  \* history and bounds
  happened,    \* events counted, or levels seen, since the call began
  eio,         \* the last call returned -EIO
  carried,     \* an arm bit was added to RICR when it was set
  cleared,     \* a counter was cleared while it slept, since it last looked
  waits, clears, changes

line  == <<level, latched, status_irqs>>
rx    == <<ricr, rxevents>>
call  == <<miwait, mask>>
hist  == <<happened, eio, carried, cleared, waits, clears, changes>>
vars  == <<chkcount, pending, up, line, rx, icount, pc, call, news, saved, woken, result, hist>>

TypeOK ==
  /\ chkcount \in [Signals -> 0 .. Limit + 1]
  /\ {pending, carried} \subseteq BOOLEAN
  /\ up \in {"up", "waking", "down"}
  /\ level \subseteq Signals /\ latched \subseteq Signals /\ status_irqs \subseteq Signals
  /\ ricr \in Nat /\ rxevents \subseteq {Hunt, Idle}
  /\ pc \in [Procs -> {"out", "begin", "sleep", "leaving", "off", "return"}]
  /\ miwait \in [Procs -> BOOLEAN] /\ mask \in [Procs -> SUBSET Events]
  /\ icount \in [Counters -> Nat]
  /\ news \in [Procs -> SUBSET SignalEvents] /\ saved \in [Procs -> [Counters -> Nat]]
  /\ {woken, eio, cleared} \subseteq [Procs -> BOOLEAN]
  /\ result \in [Procs -> SUBSET Events] /\ happened \in [Procs -> SUBSET Events]
  /\ waits \in 0 .. MaxWaits /\ clears \in 0 .. MaxClears /\ changes \in 0 .. MaxChanges

Sleeping == {p \in Procs : pc[p] = "sleep"}

\* The event the present state of the signals amounts to.
Levels == {[src |-> s, up |-> s \in level] : s \in Signals}

-----------------------------------------------------------------------------
(* The interrupt routines.                                                 *)

\* Events E are counted, and the processes of Q woken.
Count(E, Q) ==
  /\ icount' = [c \in Counters |-> IF \E e \in E : e.src = c THEN icount[c] + 1 ELSE icount[c]]
  /\ news' = [p \in Procs |-> IF p \in Sleeping THEN news[p] \cup (E \cap SignalEvents) ELSE news[p]]
  /\ woken' = [p \in Procs |-> woken[p] \/ p \in Q]
  /\ happened' = [p \in Procs |-> IF pc[p] \in {"begin", "sleep"}
                                  THEN happened[p] \cup (E \cap mask[p]) ELSE happened[p]]

\* The count of interrupts of a signal; past the limit it makes no difference.
OneMore(s) == IF chkcount[s] > Limit THEN chkcount[s] ELSE chkcount[s] + 1

\* Slip: only event_wait_q is woken.
IsrIoPinOneQueue ==
  /\ up \in {"up", "waking"} /\ latched \cap status_irqs # {}
  /\ latched' = {}
  /\ chkcount' = [s \in Signals |-> IF s \in latched THEN OneMore(s) ELSE chkcount[s]]
  /\ status_irqs' = status_irqs \ {s \in latched : chkcount[s] >= Limit}
  /\ Count({e \in Levels : e.src \in latched}, {p \in Sleeping : ~miwait[p]})
  /\ pending' = TRUE
  /\ UNCHANGED <<up, level, rx, pc, call, saved, result, eio, carried, cleared, waits, clears, changes>>

\* r56_isr_io_pin: every latched signal is counted, as what it is now.
IsrIoPin ==
  /\ up \in {"up", "waking"} /\ latched \cap status_irqs # {}
  /\ latched' = {}
  /\ chkcount' = [s \in Signals |-> IF s \in latched THEN OneMore(s) ELSE chkcount[s]]
  /\ status_irqs' = status_irqs \ {s \in latched : chkcount[s] >= Limit}
  /\ Count({e \in Levels : e.src \in latched}, Sleeping)
  /\ pending' = TRUE
  /\ UNCHANGED <<up, level, rx, pc, call, saved, result, eio, carried, cleared, waits, clears, changes>>

\* r56_isr_receive_status for hunt and idle
IsrReceiveStatus ==
  /\ up \in {"up", "waking"} /\ rxevents # {}
  /\ rxevents' = {}
  /\ Count(rxevents, {p \in Sleeping : ~miwait[p]})
  /\ UNCHANGED <<chkcount, pending, up, line, ricr, pc, call, saved, result, eio, carried, cleared, waits,
                 clears, changes>>

\* r56_bh_status
BhStatus ==
  /\ pending
  /\ pending' = FALSE
  /\ chkcount' = [s \in Signals |-> 0]
  /\ UNCHANGED <<up, line, rx, icount, pc, call, news, saved, woken, result, hist>>

\* A signal changes (external).
LineChange(s) ==
  /\ changes < MaxChanges /\ changes' = changes + 1
  /\ level' = IF s \in level THEN level \ {s} ELSE level \cup {s}
  /\ latched' = latched \cup {s}
  /\ UNCHANGED <<chkcount, pending, up, status_irqs, rx, icount, pc, call, news, saved, woken, result,
                 happened, eio, carried, cleared, waits, clears>>

\* The arm bit of a receiver event, and whether it is set.
Arm(e) == IF e = Idle THEN 1 ELSE 2
Armed(e) == (ricr \div Arm(e)) % 2 = 1

\* The receiver leaves hunt mode or sees an idle line (external).
RxEvent(e) ==
  /\ changes < MaxChanges /\ changes' = changes + 1
  /\ Armed(e)
  /\ rxevents' = rxevents \cup {e}
  /\ UNCHANGED <<chkcount, pending, up, line, ricr, icount, pc, call, news, saved, woken, result,
                 happened, eio, carried, cleared, waits, clears>>

-----------------------------------------------------------------------------
(* r56_wait_event and modem_input_wait.                                    *)

\* TIOCMIWAIT waits for signals, in either direction.
TiocmiwaitMask(m) == {e \in SignalEvents : \E f \in m : f.src = e.src}

\* r56_ioctl: only R56_IOCWAITEVENT looks at TTY_IO_ERROR.
Ioctl(p, m, mi) ==
  /\ pc[p] = "out" /\ waits < MaxWaits /\ waits' = waits + 1
  /\ m # {} /\ (~mi => up # "down")
  /\ pc' = [pc EXCEPT ![p] = "begin"]
  /\ miwait' = [miwait EXCEPT ![p] = mi]
  /\ mask' = [mask EXCEPT ![p] = IF mi THEN TiocmiwaitMask(m) ELSE m]
  /\ mask'[p] # {}
  /\ UNCHANGED <<chkcount, pending, up, line, rx, icount, news, saved, woken, result, happened, eio,
                 carried, cleared, clears, changes>>

RxAsked(p) == mask[p] \cap {Hunt, Idle}

\* The arm bits p adds to RICR.
ArmBits(p) == (IF Hunt \in mask[p] THEN 2 ELSE 0) + (IF Idle \in mask[p] THEN 1 ELSE 0)

\* Slip: how the signals are is not looked at.
WaitBeginBlind(p) ==
  /\ pc[p] = "begin"
  /\ pc' = [pc EXCEPT ![p] = "sleep"]
  /\ news' = [news EXCEPT ![p] = {}] /\ saved' = [saved EXCEPT ![p] = icount]
  /\ woken' = [woken EXCEPT ![p] = FALSE]
  /\ ricr' = IF miwait[p] THEN ricr ELSE ricr + ArmBits(p)
  /\ carried' = (carried \/ (~miwait[p] /\ \E e \in RxAsked(p) : Armed(e)))
  /\ UNCHANGED <<chkcount, pending, up, line, rxevents, icount, call, result, happened, eio, cleared, waits, clears,
                 changes>>

\* The first locked part: a signal that is as asked for ends the call (not
\* TIOCMIWAIT), else p is put on the queue.
WaitBegin(p) ==
  /\ pc[p] = "begin"
  /\ IF ~miwait[p] /\ mask[p] \cap Levels # {}
     THEN /\ pc' = [pc EXCEPT ![p] = "return"]
          /\ result' = [result EXCEPT ![p] = mask[p] \cap Levels]
          /\ happened' = [happened EXCEPT ![p] = @ \cup Levels]
          /\ UNCHANGED <<news, saved, woken, ricr, carried>>
     ELSE /\ pc' = [pc EXCEPT ![p] = "sleep"]
          /\ news' = [news EXCEPT ![p] = {}] /\ saved' = [saved EXCEPT ![p] = icount]
          /\ woken' = [woken EXCEPT ![p] = FALSE]
          /\ ricr' = IF miwait[p] THEN ricr ELSE ricr + ArmBits(p)
          /\ carried' = (carried \/ (~miwait[p] /\ \E e \in RxAsked(p) : Armed(e)))
          /\ UNCHANGED <<result, happened>>
  /\ UNCHANGED <<chkcount, pending, up, line, rxevents, icount, call, eio, cleared, waits, clears, changes>>

\* What p finds to have changed: modem_input_wait looks at the signals' counters,
\* r56_wait_event at input_signal_events and the receiver's counters.
Moved(p, E) == {e \in E : icount[e.src] # saved[p][e.src]}
Seen(p) == IF miwait[p] THEN Moved(p, SignalEvents) ELSE news[p] \cup Moved(p, {Hunt, Idle})

\* Slip: what has happened meanwhile is forgotten.
WaitLookLate(p) ==
  /\ pc[p] = "sleep" /\ woken[p]
  /\ woken' = [woken EXCEPT ![p] = FALSE] /\ news' = [news EXCEPT ![p] = {}]
  /\ IF Seen(p) = {} \/ Seen(p) \cap mask[p] # {}
     THEN /\ pc' = [pc EXCEPT ![p] = "leaving"]
          /\ result' = [result EXCEPT ![p] = Levels]
          /\ eio' = [eio EXCEPT ![p] = Seen(p) = {}]
          /\ saved' = [saved EXCEPT ![p] = NoCounts] /\ UNCHANGED cleared
     ELSE /\ saved' = [saved EXCEPT ![p] = icount] /\ cleared' = [cleared EXCEPT ![p] = FALSE]
          /\ UNCHANGED <<pc, result, eio>>
  /\ UNCHANGED <<chkcount, pending, up, line, rx, icount, call, happened, carried, waits, clears, changes>>

\* A turn of the loop: p is awake, reads the counts, and returns or sleeps on.
WaitLook(p) ==
  /\ pc[p] = "sleep" /\ woken[p]
  /\ woken' = [woken EXCEPT ![p] = FALSE] /\ news' = [news EXCEPT ![p] = {}]
  /\ IF Seen(p) = {} \/ Seen(p) \cap mask[p] # {}
     THEN /\ pc' = [pc EXCEPT ![p] = "leaving"]
          /\ result' = [result EXCEPT ![p] = Seen(p) \cap mask[p]]
          /\ eio' = [eio EXCEPT ![p] = Seen(p) = {}]
          /\ saved' = [saved EXCEPT ![p] = NoCounts] /\ UNCHANGED cleared
     ELSE /\ saved' = [saved EXCEPT ![p] = icount] /\ cleared' = [cleared EXCEPT ![p] = FALSE]
          /\ UNCHANGED <<pc, result, eio>>
  /\ UNCHANGED <<chkcount, pending, up, line, rx, icount, call, happened, carried, waits, clears, changes>>

\* A signal to the process ends the wait.
WaitSignal(p) ==
  /\ pc[p] = "sleep"
  /\ pc' = [pc EXCEPT ![p] = "leaving"]
  /\ woken' = [woken EXCEPT ![p] = FALSE]
  /\ news' = [news EXCEPT ![p] = {}] /\ saved' = [saved EXCEPT ![p] = NoCounts]
  /\ happened' = [happened EXCEPT ![p] = {}] /\ cleared' = [cleared EXCEPT ![p] = FALSE]
  /\ UNCHANGED <<chkcount, pending, up, line, rx, icount, call, result, eio, carried, waits, clears, changes>>

\* What p found is settled; nothing the driver does from here on depends on it.
Forget(p) ==
  /\ miwait' = [miwait EXCEPT ![p] = FALSE] /\ mask' = [mask EXCEPT ![p] = {}]
  /\ news' = [news EXCEPT ![p] = {}] /\ saved' = [saved EXCEPT ![p] = NoCounts]
  /\ woken' = [woken EXCEPT ![p] = FALSE]
  /\ result' = [result EXCEPT ![p] = {}] /\ happened' = [happened EXCEPT ![p] = {}]
  /\ eio' = [eio EXCEPT ![p] = FALSE] /\ cleared' = [cleared EXCEPT ![p] = FALSE]
  /\ UNCHANGED <<carried, waits, clears, changes>>

\* p leaves the queue, and returns unless it may have to disarm receiver events.
WaitDequeue(p) ==
  /\ pc[p] = "leaving"
  /\ pc' = [pc EXCEPT ![p] = IF miwait[p] \/ RxAsked(p) = {} THEN "out" ELSE "off"]
  /\ Forget(p)
  /\ UNCHANGED <<chkcount, pending, up, line, rx, icount>>

\* waitqueue_active of event_wait_q
QueueActive == \E q \in Procs : pc[q] \in {"sleep", "leaving"} /\ ~miwait[q]

\* Slip: the receiver events are disarmed whoever else waits.
WaitDisarmAlways(p) ==
  /\ pc[p] = "off"
  /\ pc' = [pc EXCEPT ![p] = "out"]
  /\ ricr' = ricr - (ricr % 4)
  /\ UNCHANGED <<chkcount, pending, up, line, rxevents, icount, call, news, saved, woken, result, hist>>

\* If the queue is empty, p disarms the receiver events.
WaitDisarm(p) ==
  /\ pc[p] = "off"
  /\ pc' = [pc EXCEPT ![p] = "out"]
  /\ ricr' = IF QueueActive THEN ricr ELSE ricr - (ricr % 4)
  /\ UNCHANGED <<chkcount, pending, up, line, rxevents, icount, call, news, saved, woken, result, hist>>

\* The call returns without having waited.
WaitReturn(p) ==
  /\ pc[p] = "return"
  /\ pc' = [pc EXCEPT ![p] = "out"]
  /\ Forget(p)
  /\ UNCHANGED <<chkcount, pending, up, line, rx, icount>>

-----------------------------------------------------------------------------
(* R56_IOCGSTATS without a buffer: the memset of r56_get_stats clears      *)
(* icount without irq_spinlock, and without a word to those who compare it *)
(* or count in it.  A step clears what it does between two steps of        *)
(* others; a counter is not in C when the interrupt routine had read it    *)
(* before and stores its sum over the zero.                                *)
StatsClear(C) ==
  /\ clears < MaxClears /\ clears' = clears + 1
  /\ C # {} /\ \A c \in C : icount[c] > 0
  /\ icount' = [c \in Counters |-> IF c \in C THEN 0 ELSE icount[c]]
  /\ cleared' = [p \in Procs |-> cleared[p] \/ p \in Sleeping]
  /\ UNCHANGED <<chkcount, pending, up, line, rx, pc, call, news, saved, woken, result, happened, eio, carried,
                 waits, changes>>

-----------------------------------------------------------------------------
(* shutdown: the waiting processes are woken, then the interrupts disabled *)
(* under the lock and TTY_IO_ERROR set.                                    *)
ShutdownWake ==
  /\ up = "up"
  /\ up' = "waking"
  /\ woken' = [p \in Procs |-> woken[p] \/ p \in Sleeping]
  /\ UNCHANGED <<chkcount, pending, line, rx, icount, pc, call, news, saved, result, hist>>

ShutdownOff ==
  /\ up = "waking"
  /\ up' = "down"
  /\ UNCHANGED <<chkcount, pending, line, rx, icount, pc, call, news, saved, woken, result, hist>>

-----------------------------------------------------------------------------
Init ==
  /\ chkcount = [s \in Signals |-> 0]
  /\ pending = FALSE /\ up = "up"
  /\ level = {} /\ latched = {} /\ status_irqs = Signals
  /\ ricr = 0 /\ rxevents = {}
  /\ pc = [p \in Procs |-> "out"]
  /\ miwait = [p \in Procs |-> FALSE] /\ mask = [p \in Procs |-> {}]
  /\ icount = NoCounts
  /\ news = [p \in Procs |-> {}] /\ saved = [p \in Procs |-> NoCounts]
  /\ woken = [p \in Procs |-> FALSE] /\ result = [p \in Procs |-> {}]
  /\ happened = [p \in Procs |-> {}] /\ eio = [p \in Procs |-> FALSE]
  /\ carried = FALSE /\ cleared = [p \in Procs |-> FALSE]
  /\ waits = 0 /\ clears = 0 /\ changes = 0

Awake(p) == WaitBegin(p) \/ WaitLook(p) \/ WaitDequeue(p) \/ WaitDisarm(p) \/ WaitReturn(p)

Next ==
  \/ \E p \in Procs : Awake(p) \/ WaitSignal(p) \/ \E m \in Masks, mi \in BOOLEAN : Ioctl(p, m, mi)
  \/ \E s \in Signals : LineChange(s)
  \/ \E e \in {Hunt, Idle} : RxEvent(e)
  \/ IsrIoPin \/ IsrReceiveStatus \/ BhStatus
  \/ \E C \in SUBSET Counters : StatsClear(C)
  \/ ShutdownWake \/ ShutdownOff

\* Interrupts are serviced and processes that can run do; nobody has to call,
\* and neither the line nor the receiver has to do anything.
Fairness ==
  /\ WF_vars(IsrIoPin) /\ WF_vars(IsrReceiveStatus) /\ WF_vars(BhStatus)
  /\ \A p \in Procs : WF_vars(Awake(p))

Spec == Init /\ [][Next]_vars /\ Fairness

-----------------------------------------------------------------------------
\* No wakeup is lost: a process that sleeps, with nobody to wake it, knows of
\* every event counted so far that it could have been told of (the locked reads
\* of the counts and the order of set_current_state in r56_wait_event and
\* modem_input_wait).  Excepted is one under which R56_IOCGSTATS has cleared a
\* counter since it last looked: its counters have moved, and nobody wakes it.
NoLostWakeup == \A p \in Sleeping : ~woken[p] /\ ~cleared[p] => Seen(p) = {}

\* e, or for TIOCMIWAIT a change of e's signal, happened after p's call was made.
Happened(p, e) == \E f \in happened[p] : f.src = e.src /\ (miwait[p] \/ f = e)

\* A call that returns events returns events that it asked for and that happened,
\* or signals that were as asked for, after it was made; TIOCMIWAIT returns for
\* changes of its signals after it was made; and -EIO, "wait aborted for some
\* reason", is returned only to those whom shutdown woke.  Excepted is what rests
\* on icount when R56_IOCGSTATS cleared it since the call last looked: TIOCMIWAIT
\* and the receiver's events take the reset for an event, or miss one for it
\* (r56_get_stats, r56_wait_event, modem_input_wait).
TrueReturns ==
  \A p \in Procs :
    /\ result[p] \subseteq mask[p]
    /\ \A e \in result[p] : Happened(p, e) \/ (cleared[p] /\ (miwait[p] \/ e \in {Hunt, Idle}))
    /\ eio[p] => up # "up" \/ cleared[p]

\* A process that sleeps for a receiver event has it armed in RICR, whoever else
\* waits and leaves; as long as no two armed the same event at a time.
EventArmed ==
  ~carried => \A p \in Sleeping : ~miwait[p] => \A e \in RxAsked(p) : Armed(e)

\* A wait for a signal to be as it now stays comes to an end, while the port is
\* up and the interrupt not disabled for coming too often: the check of the
\* level and the count of changes leave no gap between them.
LevelReported ==
  \A p \in Procs, e \in SignalEvents :
    <>[](e \in Levels /\ up = "up" /\ e.src \in status_irqs)
      => []<>~(p \in Sleeping /\ ~miwait[p] /\ e \in mask[p])
=============================================================================
