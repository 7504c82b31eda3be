-------------------------- MODULE InterruptProofs --------------------------
(***************************************************************************)
(* What follows an interrupt.  LineEvents.tla for any processes, signals,  *)
(* masks and bounds: no wakeup is lost, calls return what happened, and    *)
(* sleepers keep their receiver events armed.  BottomHalf.tla: its flags   *)
(* always say where the handler is, no raised work is stranded, and every  *)
(* step is a step of the queue of work codes that BhQueue.tla promises.    *)
(***************************************************************************)
EXTENDS BottomHalf, LineEvents, TLAPS

-----------------------------------------------------------------------------
(* BottomHalf *)

HInv == BhTypeOK /\ Handshake

\* The flags, the work queue entry and the handler's position agree in every
\* state.  Interrupts and r56_bh_action test and change the flags under
\* irq_spinlock; the handler's unlocked store to bh_running is harmless
\* because bh_requested is already set.
THEOREM HandshakeInvariant == BhSpec => []HInv
<1> USE DEF Work, Promise!Work, Promise!Receive, Promise!Transmit, Promise!Status, Active
<1>1. BhInit => HInv
  BY DEF BhInit, HInv, BhTypeOK, Handshake, OneActivation, NoStrandedWork
<1>2. HInv /\ [BhNext]_(bhVars) => HInv'
  <2> SUFFICES ASSUME HInv, [BhNext]_(bhVars) PROVE HInv'
    OBVIOUS
  <2> USE DEF HInv, BhTypeOK, Handshake, OneActivation, NoStrandedWork
  <2>1. CASE Interrupt
    <3>1. PICK isr \in DOMAIN IsrWork : \E w \in IsrWork[isr] : RequestBh(w)
      BY <2>1 DEF Interrupt
    <3>2. PICK w \in IsrWork[isr] : RequestBh(w)
      BY <3>1
    <3>3. w \subseteq Work
      BY <3>2 DEF IsrWork
    <3>4. QED
      BY <2>1, <3>2, <3>3 DEF Interrupt, RequestBh
  <2>2. CASE WorkerStart
    BY <2>2 DEF WorkerStart
  <2>3. CASE BhEnter
    BY <2>3 DEF BhEnter
  <2>4. CASE BhTake
    BY <2>4 DEF BhTake
  <2>5. CASE BhComplete
    BY <2>5 DEF BhComplete
  <2>6. CASE BhWorkDone
    BY <2>6 DEF BhWorkDone
  <2>7. CASE BhLeave
    BY <2>7 DEF BhLeave
  <2>8. CASE Startup
    BY <2>8 DEF Startup
  <2>9. CASE ClaimIrq
    BY <2>9 DEF ClaimIrq
  <2>10. CASE ReleaseIrq
    BY <2>10 DEF ReleaseIrq
  <2>11. CASE UNCHANGED bhVars
    BY <2>11 DEF bhVars
  <2> QED
    BY <2>1, <2>2, <2>3, <2>4, <2>5, <2>6, <2>7, <2>8, <2>9, <2>10, <2>11 DEF BhNext, Handler
<1> QED
  BY <1>1, <1>2, PTL DEF BhSpec

\* Every variable keeps its type: in particular no routine raises a code the
\* handler does not know.
THEOREM BottomHalfTypes == BhSpec => []BhTypeOK
<1>1. HInv => BhTypeOK
  BY DEF HInv
<1> QED
  BY <1>1, HandshakeInvariant, PTL

\* A code raised by an interrupt always has an activation of the handler
\* ahead of it.
THEOREM WorkNeverStranded == BhSpec => []NoStrandedWork
<1>1. HInv => NoStrandedWork
  BY DEF HInv, Handshake
<1> QED
  BY <1>1, HandshakeInvariant, PTL

\* The handler is activated once per request and never twice at a time.
THEOREM ActivatedOnce == BhSpec => []OneActivation
<1>1. HInv => OneActivation
  BY DEF HInv, Handshake
<1> QED
  BY <1>1, HandshakeInvariant, PTL

\* The safety half of ImplementsPromise: the flags, the work queue and the
\* handler's loop together behave as the priority queue of BhQueue.
THEOREM RefinesBhQueue == BhSpec => Promise!Init /\ [][Promise!Next]_(Promise!absVars)
<1> USE DEF Work, Promise!Work, Promise!Receive, Promise!Transmit, Promise!Status, Promise!None, Active
<1>1. BhInit => Promise!Init
  BY DEF BhInit, Promise!Init
<1>2. HInv /\ [BhNext]_(bhVars) => [Promise!Next]_(Promise!absVars)
  <2> SUFFICES ASSUME HInv, [BhNext]_(bhVars) PROVE [Promise!Next]_(Promise!absVars)
    OBVIOUS
  <2> USE DEF Promise!absVars, HInv, BhTypeOK
  <2>1. CASE Interrupt
    <3>1. PICK isr \in DOMAIN IsrWork : \E w \in IsrWork[isr] : RequestBh(w)
      BY <2>1 DEF Interrupt
    <3>2. PICK w \in IsrWork[isr] : RequestBh(w)
      BY <3>1
    <3>3. w = {} \/ \E c \in Work : w = {c}
      BY <3>2 DEF IsrWork
    <3>4. CASE w = {}
      BY <2>1, <3>2, <3>4 DEF Interrupt, RequestBh
    <3>5. CASE \E c \in Work : w = {c}
      BY <2>1, <3>2, <3>5 DEF Interrupt, RequestBh, Promise!Next, Promise!Raise
    <3> QED
      BY <3>3, <3>4, <3>5
  <2>2. CASE WorkerStart
    BY <2>2 DEF WorkerStart
  <2>3. CASE BhEnter
    BY <2>3 DEF BhEnter
  <2>4. CASE BhTake
    BY <2>4 DEF BhTake, Promise!Next, Promise!Take
  <2>5. CASE BhComplete
    BY <2>5 DEF BhComplete
  <2>6. CASE BhWorkDone
    BY <2>6 DEF BhWorkDone, Promise!Next, Promise!Done
  <2>7. CASE BhLeave
    BY <2>7 DEF BhLeave
  <2>8. CASE Startup
    BY <2>8 DEF Startup, Promise!Next, Promise!Forget
  <2>9. CASE ClaimIrq \/ ReleaseIrq
    BY <2>9 DEF ClaimIrq, ReleaseIrq
  <2>10. CASE UNCHANGED bhVars
    BY <2>10 DEF bhVars
  <2> QED
    BY <2>1, <2>2, <2>3, <2>4, <2>5, <2>6, <2>7, <2>8, <2>9, <2>10 DEF BhNext, Handler
<1> QED
  BY <1>1, <1>2, HandshakeInvariant, PTL DEF BhSpec

-----------------------------------------------------------------------------
(* LineEvents *)

\* TypeOK in three parts.
Flags ==
  /\ pending \in BOOLEAN /\ carried \in BOOLEAN
  /\ miwait \in [Procs -> BOOLEAN] /\ woken \in [Procs -> BOOLEAN] /\ eio \in [Procs -> BOOLEAN]
  /\ cleared \in [Procs -> BOOLEAN]

Values ==
  /\ chkcount \in [Signals -> 0 .. Limit + 1]
  /\ up \in {"up", "waking", "down"}
  /\ level \subseteq Signals /\ latched \subseteq Signals /\ status_irqs \subseteq Signals
  /\ ricr \in Nat /\ rxevents \subseteq {Hunt, Idle}
  /\ pc \in [Procs -> {"out", "begin", "sleep", "leaving", "off", "return"}]
  /\ mask \in [Procs -> SUBSET Events] /\ news \in [Procs -> SUBSET SignalEvents]
  /\ result \in [Procs -> SUBSET Events] /\ happened \in [Procs -> SUBSET Events]
  /\ waits \in 0 .. MaxWaits /\ clears \in 0 .. MaxClears /\ changes \in 0 .. MaxChanges

Counted == icount \in [Counters -> Nat] /\ saved \in [Procs -> [Counters -> Nat]]

\* A result is kept from where it is found to the end of the call.
NoResult ==
  \A p \in Procs : pc[p] \in {"out", "begin", "sleep", "off"} => result[p] = {} /\ ~eio[p]

\* TIOCMIWAIT asks for either direction of a signal.
EitherWay ==
  \A p \in Procs : miwait[p] => \A e \in mask[p], f \in SignalEvents : f.src = e.src => f \in mask[p]

\* What a sleeping process will find was counted after it called, and its
\* counters are not behind, unless they were cleared.
NewsHappened ==
  \A p \in Sleeping :
    /\ news[p] \cap mask[p] \subseteq happened[p]
    /\ ~cleared[p] =>
         /\ \A c \in Counters : saved[p][c] <= icount[c]
         /\ \A e \in Seen(p) \cap mask[p] : Happened(p, e)

\* Who is awake with nothing to be seen was woken by shutdown.
IdleWakeup == \A p \in Sleeping : woken[p] /\ ~cleared[p] /\ Seen(p) = {} => up # "up"

WaitInv == NoResult /\ EitherWay /\ NewsHappened /\ IdleWakeup /\ NoLostWakeup /\ TrueReturns

IInv == Flags /\ Values /\ Counted /\ WaitInv /\ EventArmed

-----------------------------------------------------------------------------
\* The receiver's events are not those of a signal.
LEMMA RxEventsApart == Hunt \notin SignalEvents /\ Idle \notin SignalEvents
  BY LineAssumption DEF Hunt, Idle, SignalEvents

\* The levels of the signals are events of signals, one for each.
LEMMA LevelsAreEvents ==
  /\ Levels \subseteq SignalEvents
  /\ \A s \in Signals : \E e \in Levels : e.src = s
<1>1. \A s \in Signals : [src |-> s, up |-> s \in level] \in SignalEvents
  BY DEF SignalEvents
<1>2. Levels \subseteq SignalEvents
  BY <1>1 DEF Levels
<1>3. \A s \in Signals : \E e \in Levels : e.src = s
  <2> TAKE s \in Signals
  <2>1. [src |-> s, up |-> s \in level] \in Levels
    BY Zenon DEF Levels
  <2> QED
    BY <2>1
<1> QED
  BY <1>2, <1>3

\* What r56_isr_io_pin counts: at least one event, each of a signal.
LEMMA LatchedAreEvents ==
  ASSUME Values, latched \cap status_irqs # {}
  PROVE  LET E == {e \in Levels : e.src \in latched} IN E # {} /\ E \subseteq SignalEvents
  BY LevelsAreEvents DEF Values

\* Flags stay flags.
LEMMA FlagsStep ==
  ASSUME Flags, [Next]_vars
  PROVE  Flags'
<1>1. ASSUME NEW p \in Procs, WaitBegin(p) \/ WaitLook(p)
      PROVE  Flags'
  BY <1>1, Zenon DEF WaitBegin, WaitLook, call, Flags
<1>2. ASSUME NEW p \in Procs, WaitDequeue(p) \/ WaitReturn(p)
      PROVE  Flags'
  BY <1>2, Zenon DEF WaitDequeue, WaitReturn, Forget, Flags
<1>3. ASSUME NEW p \in Procs, WaitDisarm(p) \/ WaitSignal(p)
      PROVE  Flags'
  BY <1>3, Zenon DEF WaitDisarm, WaitSignal, call, hist, Flags
<1>4. ASSUME NEW p \in Procs, NEW m \in Masks, NEW mi \in BOOLEAN, Ioctl(p, m, mi)
      PROVE  Flags'
  BY <1>4, Zenon DEF Ioctl, Flags
<1>5. CASE (\E s \in Signals : LineChange(s)) \/ (\E e \in {Hunt, Idle} : RxEvent(e))
  BY <1>5, Zenon DEF LineChange, RxEvent, call, Flags
<1>6. CASE IsrIoPin \/ IsrReceiveStatus
  BY <1>6, Zenon DEF IsrIoPin, IsrReceiveStatus, Count, call, Flags
<1>7. CASE BhStatus \/ ShutdownWake \/ ShutdownOff
  BY <1>7, Zenon DEF BhStatus, ShutdownWake, ShutdownOff, call, hist, Flags
<1>9. CASE \E C \in SUBSET Counters : StatsClear(C)
  BY <1>9, Zenon DEF StatsClear, call, Flags
<1>8. CASE UNCHANGED vars
  BY <1>8, Zenon DEF vars, call, hist, Flags
<1> QED
  BY <1>1, <1>2, <1>3, <1>4, <1>5, <1>6, <1>7, <1>8, <1>9 DEF Next, Awake

\* The other variables keep their types.
LEMMA ValuesStep ==
  ASSUME Values, [Next]_vars
  PROVE  Values'
<1>0. MaxWaits \in Nat /\ MaxClears \in Nat /\ MaxChanges \in Nat /\ Limit \in Nat
  BY LineAssumption
<1> USE <1>0 DEF Values
<1>1. ASSUME NEW p \in Procs, WaitBegin(p)
      PROVE  Values'
  <2>1. Levels \subseteq Events
    BY LevelsAreEvents DEF Events
  <2>2. ArmBits(p) \in Nat
    BY DEF ArmBits
  <2> QED
    BY <1>1, <2>1, <2>2 DEF WaitBegin, line, call
<1>2. ASSUME NEW p \in Procs, WaitLook(p)
      PROVE  Values'
  <2>1. Seen(p) \subseteq Events
    BY DEF Seen, Moved, Events
  <2> QED
    BY <1>2, <2>1 DEF WaitLook, line, rx, call
<1>3. ASSUME NEW p \in Procs, WaitDequeue(p) \/ WaitReturn(p)
      PROVE  Values'
  BY <1>3 DEF WaitDequeue, WaitReturn, Forget, line, rx
<1>4. ASSUME NEW p \in Procs, WaitDisarm(p) \/ WaitSignal(p)
      PROVE  Values'
  <2>1. ricr - (ricr % 4) \in Nat
    OBVIOUS
  <2> QED
    BY <1>4, <2>1 DEF WaitDisarm, WaitSignal, line, rx, call, hist
<1>5. ASSUME NEW p \in Procs, NEW m \in Masks, NEW mi \in BOOLEAN, Ioctl(p, m, mi)
      PROVE  Values'
  <2>1. m \subseteq Events /\ TiocmiwaitMask(m) \subseteq Events
    BY LineAssumption DEF TiocmiwaitMask, Events
  <2> QED
    BY <1>5, <2>1 DEF Ioctl, line, rx
<1>6. CASE (\E s \in Signals : LineChange(s)) \/ (\E e \in {Hunt, Idle} : RxEvent(e))
  BY <1>6 DEF LineChange, RxEvent, line, rx, call
<1>7. ASSUME NEW E \in SUBSET Events, NEW Q, Count(E, Q)
      PROVE  news' \in [Procs -> SUBSET SignalEvents] /\ happened' \in [Procs -> SUBSET Events]
  BY <1>7 DEF Count
<1>8. CASE IsrIoPin
  <2>1. {e \in Levels : e.src \in latched} \in SUBSET Events
    BY LevelsAreEvents DEF Events
  <2>2. news' \in [Procs -> SUBSET SignalEvents] /\ happened' \in [Procs -> SUBSET Events]
    BY <1>7, <1>8, <2>1 DEF IsrIoPin
  <2>3. chkcount' \in [Signals -> 0 .. Limit + 1]
    BY <1>8 DEF IsrIoPin, OneMore
  <2> QED
    BY <1>8, <2>2, <2>3 DEF IsrIoPin, rx, call
<1>9. CASE IsrReceiveStatus
  <2>1. rxevents \in SUBSET Events
    BY DEF Events
  <2>2. news' \in [Procs -> SUBSET SignalEvents] /\ happened' \in [Procs -> SUBSET Events]
    BY <1>7, <1>9, <2>1 DEF IsrReceiveStatus
  <2> QED
    BY <1>9, <2>2 DEF IsrReceiveStatus, line, call
<1>10. CASE BhStatus \/ ShutdownWake \/ ShutdownOff
  BY <1>10 DEF BhStatus, ShutdownWake, ShutdownOff, line, rx, call, hist
<1>11. CASE UNCHANGED vars
  BY <1>11 DEF vars, line, rx, call, hist
<1>12. CASE \E C \in SUBSET Counters : StatsClear(C)
  BY <1>12 DEF StatsClear, line, rx, call
<1> QED
  BY <1>1, <1>2, <1>3, <1>4, <1>5, <1>6, <1>8, <1>9, <1>10, <1>11, <1>12 DEF Next, Awake

\* So do the counters.
LEMMA CountedStep ==
  ASSUME Counted, [Next]_vars
  PROVE  Counted'
<1>1. NoCounts \in [Counters -> Nat]
  BY DEF NoCounts
<1>2. ASSUME NEW p \in Procs, WaitBegin(p) \/ WaitLook(p)
      PROVE  Counted'
  BY <1>1, <1>2, Zenon DEF WaitBegin, WaitLook, Counted
<1>3. ASSUME NEW p \in Procs, WaitDequeue(p) \/ WaitReturn(p) \/ WaitDisarm(p) \/ WaitSignal(p)
      PROVE  Counted'
  BY <1>1, <1>3, Zenon DEF WaitDequeue, WaitReturn, WaitDisarm, WaitSignal, Forget, Counted
<1>4. ASSUME NEW p \in Procs, NEW m \in Masks, NEW mi \in BOOLEAN, Ioctl(p, m, mi)
      PROVE  Counted'
  BY <1>4, Zenon DEF Ioctl, Counted
<1>5. CASE IsrIoPin \/ IsrReceiveStatus
  <2>1. saved' = saved
    BY <1>5 DEF IsrIoPin, IsrReceiveStatus
  <2>2. PICK E : icount' = [c \in Counters |-> IF \E e \in E : e.src = c THEN icount[c] + 1 ELSE icount[c]]
    BY <1>5, Zenon DEF IsrIoPin, IsrReceiveStatus, Count
  <2>3. icount' \in [Counters -> Nat]
    BY <2>2 DEF Counted
  <2> QED
    BY <2>1, <2>3, Zenon DEF Counted
<1>6. CASE \E C \in SUBSET Counters : StatsClear(C)
  <2>1. saved' = saved
    BY <1>6 DEF StatsClear
  <2>2. PICK C : icount' = [c \in Counters |-> IF c \in C THEN 0 ELSE icount[c]]
    BY <1>6, Zenon DEF StatsClear
  <2>3. icount' \in [Counters -> Nat]
    BY <2>2 DEF Counted
  <2> QED
    BY <2>1, <2>3, Zenon DEF Counted
<1>7. CASE \/ BhStatus \/ ShutdownWake \/ ShutdownOff \/ UNCHANGED vars
           \/ (\E s \in Signals : LineChange(s)) \/ (\E e \in {Hunt, Idle} : RxEvent(e))
  <2>1. UNCHANGED <<icount, saved>>
    BY <1>7 DEF BhStatus, ShutdownWake, ShutdownOff, LineChange, RxEvent, vars
  <2> QED
    BY <2>1, Zenon DEF Counted
<1> QED
  BY <1>2, <1>3, <1>4, <1>5, <1>6, <1>7 DEF Next, Awake

-----------------------------------------------------------------------------
\* A receiver event has a counter of its own, a signal's events share theirs.
LEMMA OneCounter ==
  /\ \A e \in Events : e.src \in Counters
  /\ \A e \in {Hunt, Idle}, f \in Events : f.src = e.src => f = e
  /\ \A e \in SignalEvents, f \in Events : f.src = e.src => f \in SignalEvents
  BY LineAssumption DEF Events, SignalEvents, Hunt, Idle, Counters

\* Counting events E shows those that p looks for, and no others, and hides
\* nothing.
LEMMA CountSeen ==
  ASSUME Counted, NEW E \in SUBSET Events, NEW Q, Count(E, Q), UNCHANGED <<miwait, saved>>,
         NEW p \in Sleeping
  PROVE  LET V == IF miwait[p] THEN E \cap SignalEvents ELSE E
         IN  /\ \A e \in Seen(p)' \ Seen(p) : \E f \in V : f.src = e.src /\ (miwait[p] \/ f = e)
             /\ (\A c \in Counters : saved[p][c] <= icount[c])
                  => Seen(p) \subseteq Seen(p)' /\ V \subseteq Seen(p)'
<1> DEFINE V == IF miwait[p] THEN E \cap SignalEvents ELSE E
<1>1. p \in Procs
  BY DEF Sleeping
<1>2. news'[p] = news[p] \cup (E \cap SignalEvents)
  BY <1>1 DEF Count
<1>3. \A c \in Counters : icount'[c] = IF \E e \in E : e.src = c THEN icount[c] + 1 ELSE icount[c]
  BY DEF Count
<1>4. \A c \in Counters : icount[c] \in Nat /\ saved[p][c] \in Nat
  BY <1>1 DEF Counted
<1>5. /\ miwait[p] => Seen(p) = Moved(p, SignalEvents) /\ Seen(p)' = Moved(p, SignalEvents)'
      /\ ~miwait[p] => /\ Seen(p) = news[p] \cup Moved(p, {Hunt, Idle})
                       /\ Seen(p)' = news'[p] \cup Moved(p, {Hunt, Idle})'
  BY DEF Seen
<1>6. SignalEvents \subseteq Events /\ {Hunt, Idle} \subseteq Events /\ Events = SignalEvents \cup {Hunt, Idle}
  BY DEF Events
<1>7. ASSUME NEW e \in Events, icount'[e.src] # saved[p][e.src], ~(icount[e.src] # saved[p][e.src])
      PROVE  \E f \in E : f.src = e.src
  BY <1>3, <1>7, OneCounter
<1>8. \A e \in Seen(p)' \ Seen(p) : \E f \in V : f.src = e.src /\ (miwait[p] \/ f = e)
  <2>1. CASE miwait[p]
    <3> SUFFICES ASSUME NEW e \in Seen(p)' \ Seen(p)
                 PROVE  \E f \in E \cap SignalEvents : f.src = e.src
      BY <2>1
    <3>1. e \in SignalEvents /\ icount'[e.src] # saved[p][e.src] /\ ~(icount[e.src] # saved[p][e.src])
      BY <1>5, <2>1 DEF Moved
    <3> QED
      BY <1>6, <1>7, <3>1, OneCounter
  <2>2. CASE ~miwait[p]
    <3> SUFFICES ASSUME NEW e \in Seen(p)' \ Seen(p)
                 PROVE  e \in E
      BY <2>2
    <3>1. CASE e \in {Hunt, Idle} /\ icount'[e.src] # saved[p][e.src]
      <4>1. ~(icount[e.src] # saved[p][e.src])
        BY <1>5, <2>2, <3>1 DEF Moved
      <4> QED
        BY <1>6, <1>7, <3>1, <4>1, OneCounter
    <3> QED
      BY <1>2, <1>5, <2>2, <3>1 DEF Moved
  <2> QED
    BY <2>1, <2>2
<1>9. ASSUME \A c \in Counters : saved[p][c] <= icount[c]
      PROVE  Seen(p) \subseteq Seen(p)' /\ V \subseteq Seen(p)'
  <2>1. \A e \in Events : icount[e.src] # saved[p][e.src] => icount'[e.src] # saved[p][e.src]
    BY <1>3, <1>4, <1>9, OneCounter
  <2>2. \A e \in E : icount'[e.src] # saved[p][e.src]
    BY <1>3, <1>4, <1>9, OneCounter
  <2>3. CASE miwait[p]
    BY <1>5, <1>6, <2>1, <2>2, <2>3 DEF Moved
  <2>4. CASE ~miwait[p]
    BY <1>2, <1>5, <1>6, <2>1, <2>2, <2>4 DEF Moved
  <2> QED
    BY <2>3, <2>4
<1> QED
  BY <1>8, <1>9

\* Counting events E, of which a process that sleeps and is not woken looks for
\* none, and one that is woken for some.
LEMMA CountStep ==
  ASSUME Flags, Values, Counted, WaitInv, NEW E \in SUBSET Events, NEW Q, Count(E, Q),
         \A p \in Sleeping : IF p \in Q THEN (IF miwait[p] THEN E \cap SignalEvents ELSE E) # {}
                                        ELSE (IF miwait[p] THEN E \cap SignalEvents ELSE E) = {},
         UNCHANGED <<up, pc, miwait, mask, saved, result, eio, cleared>>
  PROVE  WaitInv'
<1> DEFINE V(p) == IF miwait[p] THEN E \cap SignalEvents ELSE E
<1>1. \A p \in Procs : happened[p] \subseteq happened'[p]
  BY DEF Count
<1>2. \A p \in Sleeping : /\ news'[p] = news[p] \cup (E \cap SignalEvents)
                          /\ happened'[p] = happened[p] \cup (E \cap mask[p])
  BY DEF Count, Sleeping
<1>3. \A p \in Procs : woken'[p] <=> woken[p] \/ p \in Q
  BY Zenon DEF Count
<1>4. Sleeping' = Sleeping
  BY DEF Sleeping
<1>5. \A p \in Sleeping : \A e \in Seen(p)' \ Seen(p) : \E f \in V(p) : f.src = e.src /\ (miwait[p] \/ f = e)
  BY CountSeen
<1>6. \A p \in Sleeping : ~cleared[p] => Seen(p) \subseteq Seen(p)' /\ V(p) \subseteq Seen(p)'
  BY CountSeen DEF WaitInv, NewsHappened
<1>7. \A p \in Sleeping : IF p \in Q THEN V(p) # {} ELSE V(p) = {}
  OBVIOUS
<1>8. \A p \in Sleeping : V(p) \subseteq E /\ (miwait[p] => V(p) \subseteq SignalEvents)
  OBVIOUS
<1> HIDE DEF V
<1>9. NoResult' /\ EitherWay'
  BY DEF WaitInv, NoResult, EitherWay
<1>10. TrueReturns'
  BY <1>1 DEF WaitInv, TrueReturns, Happened
<1>11. NewsHappened'
  <2> SUFFICES ASSUME NEW p \in Sleeping
               PROVE  /\ news'[p] \cap mask[p] \subseteq happened'[p]
                      /\ ~cleared[p] => /\ \A c \in Counters : saved[p][c] <= icount'[c]
                                        /\ \A e \in Seen(p)' \cap mask[p] : Happened(p, e)'
    BY <1>4 DEF NewsHappened
  <2>1. news'[p] \cap mask[p] \subseteq happened'[p]
    BY <1>2 DEF WaitInv, NewsHappened
  <2>2. ASSUME ~cleared[p]
        PROVE  \A c \in Counters : saved[p][c] <= icount'[c]
    <3>1. \A c \in Counters : saved[p][c] <= icount[c] /\ icount[c] \in Nat /\ saved[p][c] \in Nat
      BY <2>2 DEF WaitInv, NewsHappened, Counted, Sleeping
    <3> QED
      BY <3>1 DEF Count
  <2>3. ASSUME ~cleared[p], NEW e \in Seen(p)' \cap mask[p]
        PROVE  Happened(p, e)'
    <3>1. CASE e \in Seen(p)
      BY <1>2, <2>3, <3>1 DEF WaitInv, NewsHappened, Happened
    <3>2. CASE e \notin Seen(p)
      <4>1. PICK f \in V(p) : f.src = e.src /\ (miwait[p] \/ f = e)
        BY <1>5, <2>3, <3>2
      <4>2. f \in E /\ f \in mask[p]
        BY <1>8, <2>3, <4>1 DEF WaitInv, EitherWay, Sleeping
      <4> QED
        BY <1>2, <4>1, <4>2 DEF Happened
    <3> QED
      BY <3>1, <3>2
  <2> QED
    BY <2>1, <2>2, <2>3
<1>12. IdleWakeup'
  BY <1>3, <1>4, <1>6, <1>7 DEF WaitInv, IdleWakeup, Sleeping
<1>13. NoLostWakeup'
  BY <1>3, <1>4, <1>5, <1>7 DEF WaitInv, NoLostWakeup, Sleeping
<1> QED
  BY <1>9, <1>10, <1>11, <1>12, <1>13 DEF WaitInv

\* The step of a process in its own call leaves the others as they are.
LEMMA CallStep ==
  ASSUME Flags, Values, Counted, WaitInv, NEW p \in Procs,
         WaitBegin(p) \/ WaitLook(p) \/ WaitDequeue(p) \/ WaitReturn(p) \/ WaitDisarm(p)
           \/ WaitSignal(p) \/ \E m \in Masks, mi \in BOOLEAN : Ioctl(p, m, mi)
  PROVE  WaitInv'
<1> USE DEF Flags, Values, Counted
<1>1. up' = up
  BY DEF WaitBegin, WaitLook, WaitDequeue, WaitReturn, WaitDisarm, WaitSignal, Ioctl
<1>2. \A q \in Procs \ {p} :
        /\ pc'[q] = pc[q] /\ miwait'[q] = miwait[q] /\ mask'[q] = mask[q] /\ news'[q] = news[q]
        /\ woken'[q] = woken[q] /\ result'[q] = result[q] /\ happened'[q] = happened[q]
        /\ eio'[q] = eio[q] /\ saved'[q] = saved[q] /\ cleared'[q] = cleared[q]
  BY DEF WaitBegin, WaitLook, WaitDequeue, WaitReturn, WaitDisarm, WaitSignal, Ioctl, Forget,
         call, hist
<1>3. icount' = icount
  BY DEF WaitBegin, WaitLook, WaitDequeue, WaitReturn, WaitDisarm, WaitSignal, Ioctl
<1>4. \A q \in Procs \ {p} : /\ Seen(q)' = Seen(q) /\ (q \in Sleeping' <=> q \in Sleeping)
                             /\ \A e : Happened(q, e)' <=> Happened(q, e)
  <2> TAKE q \in Procs \ {p}
  <2>1. /\ miwait'[q] = miwait[q] /\ news'[q] = news[q] /\ saved'[q] = saved[q] /\ happened'[q] = happened[q]
        /\ pc'[q] = pc[q]
    BY <1>2
  <2>2. Moved(q, SignalEvents)' = Moved(q, SignalEvents) /\ Moved(q, {Hunt, Idle})' = Moved(q, {Hunt, Idle})
    BY <1>3, <2>1 DEF Moved
  <2>3. Seen(q)' = Seen(q)
    BY <2>1, <2>2 DEF Seen
  <2>4. \A e : Happened(q, e)' <=> Happened(q, e)
    BY <2>1 DEF Happened
  <2>5. q \in Sleeping' <=> q \in Sleeping
    BY <2>1 DEF Sleeping
  <2> QED
    BY <2>3, <2>4, <2>5
<1> DEFINE Mine ==
      /\ pc[p] \in {"out", "begin", "sleep", "off"} => result[p] = {} /\ ~eio[p]
      /\ miwait[p] => \A e \in mask[p], f \in SignalEvents : f.src = e.src => f \in mask[p]
      /\ pc[p] = "sleep" =>
           /\ news[p] \cap mask[p] \subseteq happened[p]
           /\ ~cleared[p] =>
                /\ \A c \in Counters : saved[p][c] <= icount[c]
                /\ \A e \in Seen(p) \cap mask[p] : Happened(p, e)
                /\ woken[p] /\ Seen(p) = {} => up # "up"
                /\ ~woken[p] => Seen(p) = {}
      /\ result[p] \subseteq mask[p]
      /\ \A e \in result[p] : Happened(p, e) \/ (cleared[p] /\ (miwait[p] \/ e \in {Hunt, Idle}))
      /\ eio[p] => up # "up" \/ cleared[p]
<1>5. Mine
  BY DEF WaitInv, NoResult, EitherWay, NewsHappened, IdleWakeup, NoLostWakeup, TrueReturns, Sleeping
<1>6. Mine'
  <2>1. CASE WaitBegin(p)
    <3>1. pc[p] = "begin" /\ UNCHANGED <<miwait, mask, eio, cleared>>
      BY <2>1 DEF WaitBegin, call
    <3>2. CASE ~miwait[p] /\ mask[p] \cap Levels # {}
      <4>1. pc'[p] = "return" /\ result'[p] = mask[p] \cap Levels /\ happened'[p] = happened[p] \cup Levels
        BY <2>1, <3>2 DEF WaitBegin
      <4>2. \A e \in result'[p] : Happened(p, e)'
        BY <4>1 DEF Happened
      <4> QED
        BY <1>5, <3>1, <3>2, <4>1, <4>2
    <3>3. CASE ~(~miwait[p] /\ mask[p] \cap Levels # {})
      <4>1. /\ pc'[p] = "sleep" /\ news'[p] = {} /\ woken'[p] = FALSE /\ saved'[p] = icount
            /\ UNCHANGED <<result, happened>>
        BY <2>1, <3>3 DEF WaitBegin
      <4>2. Seen(p)' = {}
        BY <1>3, <4>1 DEF Seen, Moved
      <4>3. \A c \in Counters : saved'[p][c] <= icount'[c]
        BY <1>3, <4>1
      <4> QED
        BY <1>1, <1>5, <3>1, <4>1, <4>2, <4>3
    <3> QED
      BY <3>2, <3>3
  <2>2. CASE WaitLook(p)
    <3>1. pc[p] = "sleep" /\ woken[p] /\ UNCHANGED <<miwait, mask, happened>>
      BY <2>2 DEF WaitLook, call
    <3>2. CASE Seen(p) = {} \/ Seen(p) \cap mask[p] # {}
      <4>1. /\ pc'[p] = "leaving" /\ result'[p] = Seen(p) \cap mask[p]
            /\ UNCHANGED cleared
        BY <2>2, <3>2 DEF WaitLook
      <4>2. eio'[p] <=> Seen(p) = {}
        BY <2>2, <3>2, Zenon DEF WaitLook
      <4>3. \A e \in Seen(p) \cap mask[p] : Happened(p, e) \/ (cleared[p] /\ (miwait[p] \/ e \in {Hunt, Idle}))
        <5>1. CASE cleared[p] /\ ~miwait[p]
          <6>1. Seen(p) \subseteq news[p] \cup {Hunt, Idle}
            BY <5>1 DEF Seen, Moved
          <6>2. \A e \in news[p] \cap mask[p] : Happened(p, e)
            BY <1>5, <3>1 DEF Happened
          <6> QED
            BY <5>1, <6>1, <6>2
        <5> QED
          BY <1>5, <3>1, <5>1
      <4>4. \A e : Happened(p, e)' <=> Happened(p, e)
        BY <3>1 DEF Happened
      <4>5. eio'[p] => up' # "up" \/ cleared'[p]
        BY <1>1, <1>5, <3>1, <4>1, <4>2
      <4> QED
        BY <1>5, <3>1, <4>1, <4>3, <4>4, <4>5
    <3>3. CASE ~(Seen(p) = {} \/ Seen(p) \cap mask[p] # {})
      <4>1. /\ news'[p] = {} /\ woken'[p] = FALSE /\ saved'[p] = icount
            /\ UNCHANGED <<pc, result, eio>>
        BY <2>2, <3>3 DEF WaitLook
      <4>2. Seen(p)' = {}
        BY <1>3, <4>1 DEF Seen, Moved
      <4>3. \A c \in Counters : saved'[p][c] <= icount'[c]
        BY <1>3, <4>1
      <4> QED
        BY <1>1, <1>5, <3>1, <4>1, <4>2, <4>3
    <3> QED
      BY <3>2, <3>3
  <2>3. CASE WaitDequeue(p) \/ WaitReturn(p)
    <3>1. result'[p] = {} /\ eio'[p] = FALSE /\ miwait'[p] = FALSE /\ pc'[p] # "sleep"
      BY <2>3 DEF WaitDequeue, WaitReturn, Forget
    <3> QED
      BY <3>1
  <2>4. CASE WaitDisarm(p) \/ WaitSignal(p)
    <3>1. /\ pc[p] \in {"off", "sleep"} /\ pc'[p] \in {"out", "leaving"}
          /\ UNCHANGED <<result, eio, miwait, mask>>
      BY <2>4 DEF WaitDisarm, WaitSignal, call, hist
    <3> QED
      BY <1>5, <3>1
  <2>5. CASE \E m \in Masks, mi \in BOOLEAN : Ioctl(p, m, mi)
    <3>1. pc[p] = "out" /\ pc'[p] = "begin" /\ UNCHANGED <<result, eio>>
      BY <2>5 DEF Ioctl
    <3>2. PICK m \in Masks, mi \in BOOLEAN : Ioctl(p, m, mi)
      BY <2>5
    <3>3. (miwait'[p] <=> mi) /\ mask'[p] = IF mi THEN TiocmiwaitMask(m) ELSE m
      BY <3>2 DEF Ioctl
    <3>4. \A e \in TiocmiwaitMask(m), f \in SignalEvents : f.src = e.src => f \in TiocmiwaitMask(m)
      BY DEF TiocmiwaitMask
    <3>5. miwait'[p] => \A e \in mask'[p], f \in SignalEvents : f.src = e.src => f \in mask'[p]
      BY <3>3, <3>4
    <3> QED
      BY <1>5, <3>1, <3>5
  <2> QED
    BY <2>1, <2>2, <2>3, <2>4, <2>5
<1> HIDE DEF Flags, Values, Counted
<1>7. NoResult' /\ EitherWay'
  BY <1>2, <1>6 DEF WaitInv, NoResult, EitherWay
<1>8. TrueReturns'
  BY <1>1, <1>2, <1>4, <1>6 DEF WaitInv, TrueReturns
<1>9. NewsHappened'
  BY <1>2, <1>3, <1>4, <1>6 DEF WaitInv, NewsHappened, Sleeping
<1>10. IdleWakeup' /\ NoLostWakeup'
  BY <1>1, <1>2, <1>4, <1>6 DEF WaitInv, IdleWakeup, NoLostWakeup, Sleeping
<1> QED
  BY <1>7, <1>8, <1>9, <1>10 DEF WaitInv

\* No step loses a wakeup or makes a result untrue.
LEMMA WaitStep ==
  ASSUME Flags, Values, Counted, WaitInv, [Next]_vars
  PROVE  WaitInv'
<1>1. ASSUME NEW p \in Procs,
             Awake(p) \/ WaitSignal(p) \/ \E m \in Masks, mi \in BOOLEAN : Ioctl(p, m, mi)
      PROVE  WaitInv'
  BY <1>1, CallStep DEF Awake
<1>2. CASE IsrIoPin
  <2> DEFINE E == {e \in Levels : e.src \in latched}
  <2>1. Count(E, Sleeping) /\ UNCHANGED <<up, pc, miwait, mask, saved, result, eio, cleared>>
    BY <1>2 DEF IsrIoPin, call
  <2>2. E # {} /\ E \subseteq SignalEvents /\ E \subseteq Events
    BY <1>2, LatchedAreEvents DEF IsrIoPin, Events
  <2> HIDE DEF E
  <2> QED
    BY <2>1, <2>2, CountStep
<1>3. CASE IsrReceiveStatus
  <2> DEFINE Q == {p \in Sleeping : ~miwait[p]}
  <2>1. /\ Count(rxevents, Q) /\ rxevents # {}
        /\ UNCHANGED <<up, pc, miwait, mask, saved, result, eio, cleared>>
    BY <1>3 DEF IsrReceiveStatus, call
  <2>2. rxevents \cap SignalEvents = {} /\ rxevents \subseteq Events
    BY RxEventsApart DEF Values, Events
  <2>3. \A p \in Sleeping : p \in Q <=> ~miwait[p]
    BY Zenon
  <2> HIDE DEF Q
  <2> QED
    BY <2>1, <2>2, <2>3, CountStep
<1>4. CASE ShutdownWake
  <2>1. /\ UNCHANGED <<pc, miwait, mask, icount, news, saved, result, happened, eio, cleared>>
        /\ up' # "up" /\ up = "up"
    BY <1>4 DEF ShutdownWake, call, hist
  <2>2. \A p \in Sleeping : woken'[p]
    BY <1>4, Zenon DEF ShutdownWake, Sleeping
  <2> QED
    BY <2>1, <2>2 DEF WaitInv, NoResult, EitherWay, NewsHappened, IdleWakeup, NoLostWakeup, TrueReturns,
                      Sleeping, Seen, Moved, Happened
<1>5. CASE \/ BhStatus \/ ShutdownOff \/ UNCHANGED vars
           \/ (\E s \in Signals : LineChange(s)) \/ (\E e \in {Hunt, Idle} : RxEvent(e))
  <2>1. /\ UNCHANGED <<pc, miwait, mask, icount, news, saved, woken, result, happened, eio, cleared>>
        /\ up' = up \/ up' # "up"
    BY <1>5 DEF BhStatus, ShutdownOff, LineChange, RxEvent, vars, call, hist
  <2> QED
    BY <2>1 DEF WaitInv, NoResult, EitherWay, NewsHappened, IdleWakeup, NoLostWakeup, TrueReturns,
                Sleeping, Seen, Moved, Happened
<1>6. CASE \E C \in SUBSET Counters : StatsClear(C)
  <2>1. UNCHANGED <<up, pc, miwait, mask, news, saved, woken, result, happened, eio>>
    BY <1>6 DEF StatsClear, call
  <2>2. /\ \A p \in Procs : cleared[p] => cleared'[p]
        /\ \A p \in Sleeping : cleared'[p]
    BY <1>6, Zenon DEF StatsClear, Sleeping
  <2>3. Sleeping' = Sleeping /\ \A p, e : Happened(p, e)' <=> Happened(p, e)
    BY <2>1 DEF Sleeping, Happened
  <2>4. NoResult' /\ EitherWay'
    BY <2>1 DEF WaitInv, NoResult, EitherWay
  <2>5. TrueReturns'
    BY <2>1, <2>2, <2>3 DEF WaitInv, TrueReturns
  <2>6. NewsHappened'
    BY <2>1, <2>2, <2>3 DEF WaitInv, NewsHappened
  <2>7. IdleWakeup' /\ NoLostWakeup'
    BY <2>2, <2>3 DEF IdleWakeup, NoLostWakeup
  <2> QED
    BY <2>4, <2>5, <2>6, <2>7 DEF WaitInv
<1> QED
  BY <1>1, <1>2, <1>3, <1>4, <1>5, <1>6 DEF Next

-----------------------------------------------------------------------------
\* Adding arm bits that are clear sets them and disturbs no other.
LEMMA AddBits ==
  ASSUME NEW r \in Nat, NEW h \in {0, 2}, NEW i \in {0, 1},
         h = 2 => (r \div 2) % 2 # 1, i = 1 => (r \div 1) % 2 # 1
  PROVE  /\ ((r + (h + i)) \div 2) % 2 = 1 <=> h = 2 \/ (r \div 2) % 2 = 1
         /\ ((r + (h + i)) \div 1) % 2 = 1 <=> i = 1 \/ (r \div 1) % 2 = 1
<1> DEFINE q == r \div 4
           k == r % 4
<1>1. q \in Nat /\ k \in 0 .. 3 /\ r = 4 * q + k
  OBVIOUS
<1> HIDE DEF q, k
<1>2. /\ (r \div 2) % 2 = k \div 2 /\ (r \div 1) % 2 = k % 2
  BY <1>1
<1>3. k + (h + i) \in 0 .. 3
  BY <1>1, <1>2
<1>4. /\ ((r + (h + i)) \div 2) % 2 = (k + (h + i)) \div 2
      /\ ((r + (h + i)) \div 1) % 2 = (k + (h + i)) % 2
  BY <1>1, <1>3
<1> QED
  BY <1>1, <1>2, <1>4

\* Until an arm bit is carried, what a process asks for stays armed while it
\* sleeps: others add other bits, and disarm only when nobody waits.
LEMMA ArmedStep ==
  ASSUME Flags, Values, EventArmed, [Next]_vars
  PROVE  EventArmed'
<1>1. Hunt # Idle
  BY DEF Hunt, Idle
<1>2. ASSUME NEW p \in Procs, WaitBegin(p), pc' = [pc EXCEPT ![p] = "sleep"], ~miwait[p]
      PROVE  EventArmed'
  <2> SUFFICES ASSUME ~carried' PROVE EventArmed'
    BY DEF EventArmed
  <2>1. UNCHANGED <<miwait, mask>>
    BY <1>2 DEF WaitBegin, call
  <2>2. \/ ricr' = ricr + ArmBits(p) /\ carried' = (carried \/ (~miwait[p] /\ \E e \in RxAsked(p) : Armed(e)))
        \/ pc' = [pc EXCEPT ![p] = "return"]
    BY <1>2, Zenon DEF WaitBegin
  <2>3. pc'[p] = "sleep"
    BY <1>2 DEF Values
  <2>4. ricr' = ricr + ArmBits(p) /\ ~carried /\ \A e \in RxAsked(p) : ~Armed(e)
    <3>1. pc' # [pc EXCEPT ![p] = "return"]
      BY <2>3 DEF Values
    <3> QED
      BY <1>2, <2>2, <3>1, Zenon
  <2>5. \A e \in {Hunt, Idle} : Armed(e)' <=> Armed(e) \/ e \in mask[p]
    <3> DEFINE h == IF Hunt \in mask[p] THEN 2 ELSE 0
               i == IF Idle \in mask[p] THEN 1 ELSE 0
    <3>1. ricr' = ricr + (h + i)
      BY <2>4 DEF ArmBits
    <3>2. h \in {0, 2} /\ i \in {0, 1} /\ (h = 2 <=> Hunt \in mask[p]) /\ (i = 1 <=> Idle \in mask[p])
      OBVIOUS
    <3> HIDE DEF h, i
    <3>3. h = 2 => (ricr \div 2) % 2 # 1
      BY <1>1, <2>4, <3>2 DEF RxAsked, Armed, Arm
    <3>4. i = 1 => (ricr \div 1) % 2 # 1
      BY <2>4, <3>2 DEF RxAsked, Armed, Arm
    <3>5. /\ (ricr' \div 2) % 2 = 1 <=> h = 2 \/ (ricr \div 2) % 2 = 1
          /\ (ricr' \div 1) % 2 = 1 <=> i = 1 \/ (ricr \div 1) % 2 = 1
      BY <3>1, <3>2, <3>3, <3>4, AddBits DEF Values
    <3> QED
      BY <1>1, <3>2, <3>5 DEF Armed, Arm
  <2>6. \A q \in Procs \ {p} : pc'[q] = pc[q]
    BY <1>2 DEF Values
  <2> QED
    BY <1>2, <2>1, <2>4, <2>5, <2>6 DEF EventArmed, Sleeping, RxAsked
<1>3. ASSUME NEW p \in Procs,
             UNCHANGED ricr, carried' = carried,
             \A q \in Procs : q \in Sleeping' /\ ~miwait'[q] =>
                                q \in Sleeping /\ ~miwait[q] /\ mask'[q] = mask[q]
      PROVE  EventArmed'
  BY <1>3 DEF EventArmed, RxAsked, Armed, Sleeping
<1>4. ASSUME NEW p \in Procs, WaitBegin(p)
      PROVE  EventArmed'
  <2>1. UNCHANGED <<miwait, mask>>
    BY <1>4 DEF WaitBegin, call
  <2>2. CASE pc' = [pc EXCEPT ![p] = "return"] /\ UNCHANGED <<ricr, carried>>
    BY <1>3, <2>1, <2>2 DEF Sleeping, Values
  <2>3. CASE miwait[p] /\ pc' = [pc EXCEPT ![p] = "sleep"] /\ UNCHANGED ricr
             /\ carried' = (carried \/ (~miwait[p] /\ \E e \in RxAsked(p) : Armed(e)))
    <3>1. carried' = carried
      BY <2>3, Zenon DEF Flags
    <3> QED
      BY <1>3, <2>1, <2>3, <3>1 DEF Sleeping, Values
  <2> QED
    BY <1>2, <1>4, <2>2, <2>3, Zenon DEF WaitBegin
<1>5. ASSUME NEW p \in Procs, WaitDisarm(p)
      PROVE  EventArmed'
  <2>1. UNCHANGED <<miwait, mask, carried>> /\ pc' = [pc EXCEPT ![p] = "out"]
        /\ ricr' = IF QueueActive THEN ricr ELSE ricr - (ricr % 4)
    BY <1>5 DEF WaitDisarm, call, hist
  <2>2. CASE QueueActive
    BY <1>3, <2>1, <2>2 DEF Sleeping, Values
  <2>3. CASE ~QueueActive
    <3>1. \A q \in Sleeping' : miwait'[q]
      BY <2>1, <2>3 DEF QueueActive, Sleeping, Values
    <3> QED
      BY <3>1 DEF EventArmed
  <2> QED
    BY <2>2, <2>3
<1>6. ASSUME NEW p \in Procs, WaitLook(p) \/ WaitDequeue(p) \/ WaitReturn(p) \/ WaitSignal(p)
      PROVE  EventArmed'
  <2>1. UNCHANGED <<ricr, carried>>
    BY <1>6 DEF WaitLook, WaitDequeue, WaitReturn, WaitSignal, Forget, rx, hist
  <2>2. /\ \A q \in Procs \ {p} : pc'[q] = pc[q] /\ miwait'[q] = miwait[q] /\ mask'[q] = mask[q]
        /\ pc'[p] = "sleep" => UNCHANGED <<pc, miwait, mask>>
    BY <1>6 DEF WaitLook, WaitDequeue, WaitReturn, WaitSignal, Forget, call, Values, Flags
  <2> QED
    BY <1>3, <2>1, <2>2 DEF Sleeping, Values
<1>7. ASSUME NEW p \in Procs, NEW m \in Masks, NEW mi \in BOOLEAN, Ioctl(p, m, mi)
      PROVE  EventArmed'
  <2>1. UNCHANGED <<ricr, carried>> /\ pc'[p] = "begin"
        /\ \A q \in Procs \ {p} : pc'[q] = pc[q] /\ miwait'[q] = miwait[q] /\ mask'[q] = mask[q]
    BY <1>7 DEF Ioctl, rx, Values, Flags
  <2> QED
    BY <1>3, <2>1 DEF Sleeping, Values
<1>8. CASE \/ IsrIoPin \/ IsrReceiveStatus \/ BhStatus \/ ShutdownWake \/ ShutdownOff
           \/ (\E s \in Signals : LineChange(s)) \/ (\E e \in {Hunt, Idle} : RxEvent(e))
           \/ (\E C \in SUBSET Counters : StatsClear(C)) \/ UNCHANGED vars
  <2>1. UNCHANGED <<ricr, carried, pc, miwait, mask>>
    BY <1>8 DEF IsrIoPin, IsrReceiveStatus, BhStatus, ShutdownWake, ShutdownOff, LineChange,
                RxEvent, StatsClear, rx, call, hist, vars
  <2> QED
    BY <2>1 DEF EventArmed, RxAsked, Armed, Sleeping
<1> QED
  BY <1>4, <1>5, <1>6, <1>7, <1>8 DEF Next, Awake

-----------------------------------------------------------------------------
\* The inductive invariant: the calls, what they have found and the arm bits
\* agree in every state.
THEOREM WaitInvariant == Spec => []IInv
<1>1. Init => IInv
  <2>1. Init => Flags
    BY Zenon DEF Init, Flags
  <2>2. Init => Values
    BY LineAssumption DEF Init, Values
  <2>5. Init => Counted
    <3>1. NoCounts \in [Counters -> Nat]
      BY DEF NoCounts
    <3> QED
      BY <3>1, Zenon DEF Init, Counted
  <2>3. Init => WaitInv
    BY DEF Init, WaitInv, NoResult, EitherWay, NewsHappened, IdleWakeup, NoLostWakeup, TrueReturns, Sleeping
  <2>4. Init => EventArmed
    BY DEF Init, EventArmed, Sleeping
  <2> QED
    BY <2>1, <2>2, <2>3, <2>4, <2>5 DEF IInv
<1>2. IInv /\ [Next]_vars => IInv'
  BY FlagsStep, ValuesStep, CountedStep, WaitStep, ArmedStep DEF IInv
<1> QED
  BY <1>1, <1>2, PTL DEF Spec

\* Type correctness.
THEOREM LineEventsTypes == Spec => []TypeOK
<1>1. IInv => TypeOK
  BY Zenon DEF IInv, Flags, Values, Counted, TypeOK
<1> QED
  BY <1>1, WaitInvariant, PTL

\* A process asleep that nobody has woken has nothing to be told of, unless
\* R56_IOCGSTATS has cleared its counters.
THEOREM WakeupsNeverLost == Spec => []NoLostWakeup
<1>1. IInv => NoLostWakeup
  BY DEF IInv, WaitInv
<1> QED
  BY <1>1, WaitInvariant, PTL

\* What a call returns happened after it was made and was asked for, and -EIO is
\* returned only after shutdown has begun; for what rests on icount, unless
\* R56_IOCGSTATS has cleared it since the call last looked.
THEOREM ReturnsAlwaysTrue == Spec => []TrueReturns
<1>1. IInv => TrueReturns
  BY DEF IInv, WaitInv
<1> QED
  BY <1>1, WaitInvariant, PTL

\* As long as no two processes armed the same receiver event at a time, it stays
\* armed for whoever sleeps for it.
THEOREM EventsStayArmed == Spec => []EventArmed
<1>1. IInv => EventArmed
  BY DEF IInv
<1> QED
  BY <1>1, WaitInvariant, PTL
=============================================================================
