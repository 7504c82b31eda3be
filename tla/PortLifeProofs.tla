--------------------------- MODULE PortLifeProofs ---------------------------
(***************************************************************************)
(* PortLife.tla for any number of processes and any bounds: the open count *)
(* is exact, startup and shutdown give back what was claimed however those *)
(* of the tty side and of the network interface follow each other, and     *)
(* whoever has the port has it running.                                    *)
(***************************************************************************)
EXTENDS PortLife, FiniteSetTheorems, TLAPS

\* The processes with a file open and not hung up, those the count counts, and
\* those in the last close.
Users == At("in") \ hung
Counted == Users \cup At("startup")
Closers == At("draining") \cup At("closing")

\* A side that is in neither startup nor shutdown.
Idle(s) == job[s] \notin Starting \cup Stopping

\* Who holds the tty lock, but for a hangup.
Lockers == {p \in Procs : pc[p] \in {"close_wait", "startup", "closing"}}

Points == {"out", "close_wait", "startup", "blocked", "in", "failed", "draining", "closing"}

Flags ==
  /\ initialized \in BOOLEAN /\ closing \in BOOLEAN /\ tty_set \in BOOLEAN /\ hup \in BOOLEAN
  /\ io_error \in BOOLEAN /\ dcd \in BOOLEAN /\ failed \in BOOLEAN /\ contended \in BOOLEAN
  /\ crossed \in BOOLEAN
  /\ woken \in [Procs -> BOOLEAN]

Values ==
  /\ count \in Nat /\ blocked_open \in Int /\ tty_count \in Int
  /\ net \in {"down", "claimed", "up", "closing"}
  /\ hung \subseteq Procs
  /\ pc \in [Procs -> Points]

\* The step of each side, and its next claim.
Jobs ==
  /\ job \in [Sides -> {"none", "ok", "error"} \cup Starting \cup Stopping]
  /\ claim \in [Sides -> 1 .. Len(Claims)]

Typed == Flags /\ Values /\ Jobs

\* What each count counts.  count is exact only until an open fails, and then
\* too small; a hangup sets it last.
Counts ==
  /\ tty_count = Cardinality(Procs \ At("out"))
  /\ blocked_open = Cardinality(At("blocked"))
  /\ count <= Cardinality(Procs)
  /\ ~hup => count <= Cardinality(Counted)
  /\ ~hup /\ ~failed => count = Cardinality(Counted)

\* Where the processes can be that have no file or whose file is hung up.
\* Until an open fails only one process is in the last close, ASYNC_CLOSING says
\* so, and nobody uses the port meanwhile.
Places ==
  /\ (At("close_wait") \cup At("startup")) \cap hung = {}
  /\ hup => Procs \ At("out") \subseteq hung
  /\ ~failed => /\ At("failed") \subseteq hung
                /\ closing <=> Closers # {}
                /\ closing => Counted = {}
                /\ \A p, q \in Closers : p = q

\* One process at a time has the tty lock, or a hangup; a job is one of startup
\* or shutdown according to who has called it, and the network interface stays
\* away during the startup of an open.
Callers ==
  /\ \A p, q \in Lockers : p = q
  /\ hup => Lockers = {}
  /\ At("startup") # {} => /\ job["tty"] \in Starting \cup {"ok", "error"}
                           /\ count > 0 /\ net = "down"
  /\ hup \/ At("closing") # {} => job["tty"] \in Stopping \cup {"ok"}
  /\ ~hup /\ At("startup") = {} /\ At("closing") = {} => job["tty"] = "none"
  /\ net = "claimed" => job["net"] \in Starting \cup {"ok", "error"}
  /\ net = "closing" => job["net"] \in Stopping \cup {"ok"}
  /\ net \in {"down", "up"} => job["net"] = "none"

\* How far startup and shutdown have come, unless two shutdowns crossed.
Stages ==
  ~crossed =>
    /\ Idle("tty") \/ Idle("net")
    /\ \A s \in Sides :
         /\ job[s] # "claim" => claim[s] = 1
         /\ job[s] \in Starting => ~initialized
         /\ job[s] \in Stopping => initialized
         /\ job[s] = "claim" => held = Held(claim[s] - 1) \/ (claim[s] = 1 /\ held = {"xmit_buf"})
         /\ job[s] \in {"run", "free"} => held = Resources
         /\ job[s] = "release" => held = Resources \ {"xmit_buf"}
         /\ job[s] = "clear" => held = {}
    /\ Idle("tty") /\ Idle("net") => IF initialized THEN held = Resources ELSE held \subseteq {"xmit_buf"}

\* The kernel's view: the driver knows of everything but the lost mapping.
Kernel ==
  /\ held \subseteq Resources \cup {"lcr256"}
  /\ claimed = held \/ (Pci /\ claimed = held \cup {"lost"})

\* Without a failed open or a contended port: the network interface found nobody
\* waiting or closing, nor a shutdown; a port runs for somebody, and for whoever
\* has it; and startup and shutdown did what they are for.
Arbitrated ==
  ~failed /\ ~contended =>
    /\ ~crossed
    /\ net # "down" => At("blocked") = {} /\ Closers = {} /\ Users = {}
    /\ hup /\ job["tty"] \in Stopping => net = "down" /\ (count > 0 \/ blocked_open > 0 \/ closing)
    /\ initialized => \/ Counted # {} \/ At("blocked") \ hung # {} \/ Closers # {}
                      \/ net # "down" \/ hup
    /\ (hup \/ At("closing") # {}) /\ job["tty"] = "ok" => ~initialized \/ net # "down"
    /\ At("startup") # {} /\ job["tty"] = "ok" => initialized
    /\ net = "claimed" /\ job["net"] = "ok" => initialized
    /\ net = "claimed" /\ job["net"] = "error" => ~initialized
    /\ net = "closing" /\ job["net"] = "ok" => ~initialized
    /\ Users # {} \/ net = "up" => initialized

Main == Typed /\ Counts /\ Places /\ Callers
IInv == Main /\ Stages /\ Kernel /\ Arbitrated

-----------------------------------------------------------------------------
\* The flags stay flags, whatever startup, shutdown and the tty layer do.
LEMMA FlagsStep ==
  ASSUME Flags, [Next]_vars
  PROVE  Flags'
<1>1. ASSUME NEW p \in Procs, OpenClosing(p) \/ OpenInterrupted(p) \/ OpenBusy(p)
      PROVE  Flags'
  BY <1>1, Zenon DEF OpenClosing, OpenInterrupted, OpenBusy, OpenFails, jobs, netv, ttyv, Flags
<1>2. ASSUME NEW p \in Procs, Open(p)
      PROVE  Flags'
  BY <1>2, Zenon DEF Open, Startup, netv, Flags
<1>3. ASSUME NEW p \in Procs, NEW b \in BOOLEAN, NEW s \in BOOLEAN, OpenStarted(p, b, s)
      PROVE  Flags'
  <2>1. UNCHANGED <<initialized, closing, hup, io_error, dcd, contended, crossed>>
    BY <1>3, Zenon DEF OpenStarted, Return, ttyv, netv
  <2>2. BlockTilReady(p, b, s) \/ (OpenFails(p, count, tty_set) /\ UNCHANGED woken)
    BY <1>3, Zenon DEF OpenStarted
  <2>3. tty_set' \in BOOLEAN /\ failed' \in BOOLEAN /\ woken' \in [Procs -> BOOLEAN]
    BY <2>2, Zenon DEF BlockTilReady, Look, OpenFails, Flags
  <2> QED
    BY <2>1, <2>3, Zenon DEF Flags
<1>4. ASSUME NEW p \in Procs, NEW s \in BOOLEAN, BlockCheck(p, s)
      PROVE  Flags'
  BY <1>4, Zenon DEF BlockCheck, Look, OpenFails, jobs, ttyv, netv, Flags
<1>5. ASSUME NEW p \in Procs, CloseOthers(p) \/ CloseLast(p)
      PROVE  Flags'
  BY <1>5, Zenon DEF CloseOthers, CloseLast, FileReleased, flags, jobs, ttyv, netv, Flags
<1>6. ASSUME NEW p \in Procs, CloseShutdown(p) \/ CloseEnd(p)
      PROVE  Flags'
  BY <1>6, Zenon DEF CloseShutdown, CloseEnd, FileReleased, Shutdown, Return, flags, ttyv, netv, Flags
<1>7. ASSUME NEW s \in Sides, Working(s)
      PROVE  Flags'
  <2>1. UNCHANGED <<closing, tty_set, hup, dcd, failed, contended, crossed, woken>>
    BY <1>7, Zenon DEF Working, ClaimMade, ClaimFailed, Undo, Run, Free, Release, Clear, RestUnchanged,
                       netv, procv
  <2>2. initialized' \in BOOLEAN /\ io_error' \in BOOLEAN
    BY <1>7, Zenon DEF Working, ClaimMade, ClaimFailed, Undo, Run, Free, Release, Clear, Flags
  <2> QED
    BY <2>1, <2>2, Zenon DEF Flags
<1>8. CASE Network
  BY <1>8, Zenon DEF Network, NetClaim, NetStarted, NetShutdown, NetRelease, Startup, Shutdown, Return,
                     flags, ttyv, procv, Flags
<1>9. CASE Hangup \/ HangupEnd \/ CarrierChange
  BY <1>9, Zenon DEF Hangup, HangupEnd, CarrierChange, Shutdown, Return, flags, jobs, ttyv, netv, procv, Flags
<1>10. CASE UNCHANGED vars
  BY <1>10, Zenon DEF vars, flags, jobs, ttyv, netv, procv, Flags
<1> QED
  BY <1>1, <1>2, <1>3, <1>4, <1>5, <1>6, <1>7, <1>8, <1>9, <1>10 DEF Next, Opening, Waiting, Closing

\* The counts stay numbers and the processes where they can be: an open that
\* drops the count has raised it.
LEMMA ValuesStep ==
  ASSUME Values, Callers, [Next]_vars
  PROVE  Values'
<1> USE DEF Values, Points
<1>1. ASSUME NEW p \in Procs, OpenClosing(p) \/ OpenInterrupted(p) \/ OpenBusy(p) \/ Open(p)
      PROVE  Values'
  BY <1>1 DEF OpenClosing, OpenInterrupted, OpenBusy, Open, FileOpened, OpenFails, netv, ttyv, bounds
<1>2. ASSUME NEW p \in Procs, NEW b \in BOOLEAN, NEW s \in BOOLEAN, OpenStarted(p, b, s)
      PROVE  Values'
  <2>1. BlockTilReady(p, b, s) \/ (OpenFails(p, count, tty_set) /\ UNCHANGED blocked_open)
    BY <1>2 DEF OpenStarted
  <2>2. UNCHANGED <<tty_count, hung, net>>
    BY <1>2 DEF OpenStarted, ttyv, netv
  <2>3. count > 0
    BY <1>2 DEF OpenStarted, Callers, At
  <2> QED
    BY <2>1, <2>2, <2>3 DEF BlockTilReady, Look, OpenFails
<1>3. ASSUME NEW p \in Procs, NEW s \in BOOLEAN, BlockCheck(p, s)
      PROVE  Values'
  BY <1>3 DEF BlockCheck, Look, OpenFails, ttyv, netv, bounds
<1>4. ASSUME NEW p \in Procs, Closing(p)
      PROVE  Values'
  <2>1. CloseCount \in Nat
    BY DEF CloseCount
  <2> QED
    BY <1>4, <2>1 DEF Closing, CloseOthers, CloseLast, CloseShutdown, CloseEnd, FileReleased, ttyv, netv
<1>5. ASSUME NEW s \in Sides, Working(s)
      PROVE  Values'
  <2>1. RestUnchanged
    BY <1>5 DEF Working, ClaimMade, ClaimFailed, Undo, Run, Free, Release, Clear
  <2> QED
    BY <2>1 DEF RestUnchanged, netv, procv
<1>6. CASE Network
  BY <1>6 DEF Network, NetClaim, NetStarted, NetShutdown, NetRelease, ttyv, procv
<1>7. CASE Hangup \/ HangupEnd \/ CarrierChange
  BY <1>7 DEF Hangup, HangupEnd, CarrierChange, ttyv, netv, procv
<1>8. CASE UNCHANGED vars
  BY <1>8 DEF vars, ttyv, netv, procv
<1> QED
  BY <1>1, <1>2, <1>3, <1>4, <1>5, <1>6, <1>7, <1>8 DEF Next, Opening, Waiting

\* Each side goes from step to step and from claim to claim.
LEMMA JobsStep ==
  ASSUME Jobs, [Next]_vars
  PROVE  Jobs'
<1>0. Len(Claims) \in Nat /\ Len(Claims) >= 1
  BY DEF Claims
<1> USE DEF Jobs, Sides
<1>1. ASSUME NEW s \in Sides, NEW x \in {"none", "ok", "error"} \cup Starting \cup Stopping,
             Goto(s, x), UNCHANGED claim
      PROVE  Jobs'
  BY <1>1 DEF Goto
<1>2. ASSUME NEW p \in Procs, Open(p)
      PROVE  Jobs'
  <2>1. (Goto("tty", "ok") \/ Goto("tty", "claim")) /\ UNCHANGED claim
    BY <1>2, Zenon DEF Open, Startup
  <2> QED
    BY <1>1, <2>1 DEF Starting
<1>3. ASSUME NEW s \in Sides, Return(s)
      PROVE  Jobs'
  BY <1>1, <1>3 DEF Return
<1>4. ASSUME NEW s \in Sides, Startup(s) \/ Shutdown(s)
      PROVE  Jobs'
  <2>1. (Goto(s, "ok") \/ Goto(s, "claim") \/ Goto(s, "free")) /\ UNCHANGED claim
    BY <1>4, Zenon DEF Startup, Shutdown
  <2> QED
    BY <1>1, <2>1 DEF Starting, Stopping
<1>5. ASSUME NEW s \in Sides, Undo(s) \/ Run(s) \/ Free(s) \/ Release(s) \/ Clear(s)
      PROVE  Jobs'
  <2>1. (Goto(s, "error") \/ Goto(s, "ok") \/ Goto(s, "release") \/ Goto(s, "clear")) /\ UNCHANGED claim
    BY <1>5 DEF Undo, Run, Free, Release, Clear
  <2> QED
    BY <1>1, <2>1 DEF Stopping
<1>6. ASSUME NEW s \in Sides, ClaimMade(s)
      PROVE  Jobs'
  <2>1. \/ Goto(s, "run") /\ claim' = [claim EXCEPT ![s] = 1]
        \/ /\ claim[s] # Len(Claims)
           /\ claim' = [claim EXCEPT ![s] = claim[s] + 1] /\ UNCHANGED job
    BY <1>6, Zenon DEF ClaimMade
  <2>2. claim' \in [Sides -> 1 .. Len(Claims)]
    BY <1>0, <2>1
  <2>3. job' \in [Sides -> {"none", "ok", "error"} \cup Starting \cup Stopping]
    BY <2>1 DEF Goto, Starting
  <2> QED
    BY <2>2, <2>3
<1>7. ASSUME NEW s \in Sides, ClaimFailed(s)
      PROVE  Jobs'
  <2>1. (Goto(s, "error") \/ Goto(s, "undo")) /\ claim' = [claim EXCEPT ![s] = 1]
    BY <1>7, Zenon DEF ClaimFailed
  <2>2. claim' \in [Sides -> 1 .. Len(Claims)]
    BY <1>0, <2>1
  <2>3. job' \in [Sides -> {"none", "ok", "error"} \cup Starting \cup Stopping]
    BY <2>1 DEF Goto, Starting
  <2> QED
    BY <2>2, <2>3
<1>8. \/ UNCHANGED <<job, claim>>
      \/ \E p \in Procs : Open(p)
      \/ \E s \in Sides : Return(s) \/ Startup(s) \/ Shutdown(s)
      \/ \E s \in Sides : Working(s)
  <2>1. ASSUME NEW p \in Procs, OpenClosing(p) \/ OpenInterrupted(p) \/ OpenBusy(p)
        PROVE  UNCHANGED <<job, claim>>
    BY <2>1, Zenon DEF OpenClosing, OpenInterrupted, OpenBusy, jobs
  <2>2. ASSUME NEW p \in Procs, NEW b \in BOOLEAN, NEW s \in BOOLEAN, OpenStarted(p, b, s)
        PROVE  Return("tty")
    BY <2>2, Zenon DEF OpenStarted
  <2>3. ASSUME NEW p \in Procs, Waiting(p) \/ CloseOthers(p) \/ CloseLast(p)
        PROVE  UNCHANGED <<job, claim>>
    BY <2>3, Zenon DEF Waiting, BlockCheck, CloseOthers, CloseLast, jobs
  <2>4. ASSUME NEW p \in Procs, CloseShutdown(p) \/ CloseEnd(p)
        PROVE  Return("tty") \/ Shutdown("tty")
    BY <2>4, Zenon DEF CloseShutdown, CloseEnd
  <2>5. CASE Network
    BY <2>5, Zenon DEF Network, NetClaim, NetStarted, NetShutdown, NetRelease
  <2>6. CASE Hangup \/ HangupEnd
    BY <2>6, Zenon DEF Hangup, HangupEnd
  <2>7. CASE CarrierChange \/ UNCHANGED vars
    BY <2>7, Zenon DEF CarrierChange, vars, jobs
  <2> QED
    BY <2>1, <2>2, <2>3, <2>4, <2>5, <2>6, <2>7, Zenon DEF Next, Opening, Closing
<1> QED
  BY <1>2, <1>3, <1>4, <1>5, <1>6, <1>7, <1>8, Zenon DEF Working

-----------------------------------------------------------------------------
\* The claims: only on PCI are there two mappings of the configuration registers,
\* and only the seventh claim makes the second.
LEMMA ClaimsFacts ==
  /\ Len(Claims) \in Nat /\ Len(Claims) >= 9
  /\ \A n \in 1 .. Len(Claims) : (Claims[n] = "lcr" <=> Pci /\ n = 7)
                                 /\ (Claims[n] = "lcr256" <=> Pci /\ n = 4)
                                 /\ (Claims[n] = "xmit_buf" <=> n = 1)
                                 /\ Claims[n] # "lost"
<1>1. CASE Pci
  <2>1. /\ Len(Claims) = 10 /\ Claims[1] = "xmit_buf" /\ Claims[2] = "io"
        /\ Claims[3] = "irq" /\ Claims[4] = "lcr256" /\ Claims[5] = "memory_base"
        /\ Claims[6] = "memory test" /\ Claims[7] = "lcr" /\ Claims[8] = "rxbuffer"
        /\ Claims[9] = "txbuffers" /\ Claims[10] = "adapter test"
    BY <1>1 DEF Claims
  <2>2. ASSUME NEW n \in 1 .. 10
        PROVE  n = 1 \/ n = 2 \/ n = 3 \/ n = 4 \/ n = 5 \/ n = 6 \/ n = 7 \/ n = 8 \/ n = 9 \/ n = 10
    OBVIOUS
  <2>3. ASSUME NEW n \in 1 .. 10
        PROVE  /\ Claims[n] = "lcr" <=> Pci /\ n = 7
               /\ Claims[n] = "lcr256" <=> Pci /\ n = 4
               /\ Claims[n] = "xmit_buf" <=> n = 1
               /\ Claims[n] # "lost"
    BY <1>1, <2>1, <2>2
  <2>4. Len(Claims) = 10
    BY <2>1
  <2> QED
    BY <2>3, <2>4
<1>2. CASE ~Pci
  <2>1. /\ Len(Claims) = 9 /\ Claims[1] = "xmit_buf" /\ Claims[2] = "io"
        /\ Claims[3] = "irq" /\ Claims[4] = "dma" /\ Claims[5] = "buffer_list"
        /\ Claims[6] = "frames" /\ Claims[7] = "rxbuffer" /\ Claims[8] = "txbuffers"
        /\ Claims[9] = "adapter test"
    BY <1>2 DEF Claims
  <2>2. ASSUME NEW n \in 1 .. 9
        PROVE  n = 1 \/ n = 2 \/ n = 3 \/ n = 4 \/ n = 5 \/ n = 6 \/ n = 7 \/ n = 8 \/ n = 9
    OBVIOUS
  <2>3. ASSUME NEW n \in 1 .. 9
        PROVE  /\ Claims[n] = "lcr" <=> Pci /\ n = 7
               /\ Claims[n] = "lcr256" <=> Pci /\ n = 4
               /\ Claims[n] = "xmit_buf" <=> n = 1
               /\ Claims[n] # "lost"
    BY <1>2, <2>1, <2>2
  <2>4. Len(Claims) = 9
    BY <2>1
  <2> QED
    BY <2>3, <2>4
<1> QED
  BY <1>1, <1>2

\* One more claim, where startup has made those before it.
LEMMA NextHeld ==
  ASSUME NEW n \in 1 .. Len(Claims)
  PROVE  Forget(Held(n - 1), Claims[n]) \cup ({Claims[n]} \ Tests) = Held(n)
<1> DEFINE C(k) == {Claims[i] : i \in 1 .. k}
<1>1. C(n) = C(n - 1) \cup {Claims[n]}
  BY ClaimsFacts
<1>2. \A i \in 1 .. Len(Claims) : (Claims[i] = "lcr" <=> Pci /\ i = 7)
                                  /\ (Claims[i] = "lcr256" <=> Pci /\ i = 4)
  BY ClaimsFacts
<1>3. Held(n) = C(n) \ (Tests \cup IF Pci /\ n >= 7 THEN {"lcr256"} ELSE {})
  BY DEF Held
<1>4. Held(n - 1) = C(n - 1) \ (Tests \cup IF Pci /\ n - 1 >= 7 THEN {"lcr256"} ELSE {})
  BY DEF Held
<1> HIDE DEF C
<1>5. n \in Int /\ (n >= 7 <=> n = 7 \/ n - 1 >= 7)
  BY ClaimsFacts
<1>6. CASE Pci /\ n = 7
  <2>1. Claims[n] = "lcr" /\ Claims[n] \notin Tests /\ "lcr" # "lcr256"
    BY <1>2, <1>6 DEF Tests
  <2>2. Held(n) = C(n) \ (Tests \cup {"lcr256"})
    BY <1>3, <1>6
  <2>3. Held(n - 1) = C(n - 1) \ Tests
    BY <1>4, <1>6
  <2>4. Forget(Held(n - 1), Claims[n]) = Held(n - 1) \ {"lcr256"}
    BY <2>1 DEF Forget
  <2> QED
    BY <1>1, <2>1, <2>2, <2>3, <2>4
<1>7. CASE ~(Pci /\ n = 7)
  <2>1. Claims[n] # "lcr"
    BY <1>2, <1>7
  <2>2. Forget(Held(n - 1), Claims[n]) = Held(n - 1)
    BY <2>1 DEF Forget
  <2>3. CASE Pci /\ n >= 7
    <3>1. Claims[n] # "lcr256"
      BY <1>2, <1>5, <2>3
    <3>2. Held(n) = C(n) \ (Tests \cup {"lcr256"})
      BY <1>3, <2>3
    <3>3. Held(n - 1) = C(n - 1) \ (Tests \cup {"lcr256"})
      BY <1>4, <1>5, <1>7, <2>3
    <3> QED
      BY <1>1, <2>2, <3>1, <3>2, <3>3
  <2>4. CASE ~(Pci /\ n >= 7)
    <3>1. Held(n) = C(n) \ Tests
      BY <1>3, <2>4
    <3>2. Held(n - 1) = C(n - 1) \ Tests
      BY <1>4, <1>5, <2>4
    <3> QED
      BY <1>1, <2>2, <3>1, <3>2
  <2> QED
    BY <2>3, <2>4
<1> QED
  BY <1>6, <1>7

\* What startup may hold before its first claim, and after it.
LEMMA FirstHeld ==
  /\ Held(0) = {}
  /\ Forget({"xmit_buf"}, Claims[1]) \cup ({Claims[1]} \ Tests) = Held(1)
  /\ "xmit_buf" \in Resources /\ "lost" \notin Resources
<1>1. Claims[1] = "xmit_buf" /\ 1 \in 1 .. Len(Claims)
  BY ClaimsFacts
<1>2. Held(0) = {}
  BY DEF Held
<1>3. "xmit_buf" \notin Tests
  BY DEF Tests
<1>4. Held(1) = {"xmit_buf"}
  <2>1. {Claims[i] : i \in 1 .. 1} = {"xmit_buf"}
    BY <1>1
  <2> QED
    BY <2>1 DEF Held, Tests
<1>5. Forget({"xmit_buf"}, Claims[1]) \cup ({Claims[1]} \ Tests) = {"xmit_buf"}
  BY <1>1, <1>3 DEF Forget
<1>6. "xmit_buf" \in Resources
  <2>1. Claims[1] \in {Claims[i] : i \in 1 .. Len(Claims)}
    BY <1>1
  <2> QED
    BY <1>1, <2>1 DEF Resources, Held, Tests
<1>7. "lost" \notin Resources
  BY ClaimsFacts DEF Resources, Held
<1> QED
  BY <1>2, <1>4, <1>5, <1>6, <1>7

\* What is claimed is among the resources, but for the mapping that is overwritten.
LEMMA ClaimIsResource ==
  ASSUME NEW n \in 1 .. Len(Claims)
  PROVE  {Claims[n]} \ Tests \subseteq Resources \cup {"lcr256"}
  BY DEF Resources, Held

\* The driver keeps track of everything it has claimed, except the mapping of the
\* configuration registers that the second ioremap overwrites.
LEMMA KernelStep ==
  ASSUME Typed, Kernel, [Next]_vars
  PROVE  Kernel'
<1>1. ASSUME NEW s \in Sides, ClaimMade(s) \/ ClaimFailed(s)
      PROVE  Kernel'
  <2> DEFINE c == Claims[claim[s]]
  <2>1. claim[s] \in 1 .. Len(Claims)
    BY DEF Typed, Jobs
  <2>2. {c} \ Tests \subseteq Resources \cup {"lcr256"} /\ c # "lost" /\ (c = "lcr" => Pci)
    BY <2>1, ClaimIsResource, ClaimsFacts
  <2>3. \/ held' = Forget(held, c) \cup ({c} \ Tests) /\ claimed' = Keep(claimed, c) \cup ({c} \ Tests)
        \/ held' = Forget(held, c) /\ claimed' = Keep(claimed, c)
    BY <1>1 DEF ClaimMade, ClaimFailed
  <2> HIDE DEF c
  <2>4. CASE c = "lcr"
    BY <2>2, <2>3, <2>4, FirstHeld DEF Kernel, Forget, Keep
  <2>5. CASE c # "lcr"
    BY <2>2, <2>3, <2>5 DEF Kernel, Forget, Keep
  <2> QED
    BY <2>4, <2>5
<1>2. ASSUME NEW S, S \subseteq held, held' = held \ S, claimed' = claimed \ S
      PROVE  Kernel'
  BY <1>2, FirstHeld DEF Kernel
<1>3. ASSUME NEW s \in Sides, Undo(s) \/ Release(s)
      PROVE  Kernel'
  BY <1>2, <1>3 DEF Undo, Release, GiveBack
<1>4. ASSUME NEW s \in Sides, Free(s)
      PROVE  Kernel'
  BY <1>4, FirstHeld DEF Free, Kernel
<1>5. CASE UNCHANGED <<held, claimed>>
  BY <1>5 DEF Kernel
<1>6. \/ UNCHANGED <<held, claimed>>
      \/ \E s \in Sides : ClaimMade(s) \/ ClaimFailed(s) \/ Undo(s) \/ Free(s) \/ Release(s)
  <2>1. ASSUME NEW p \in Procs, Opening(p) \/ Waiting(p) \/ Closing(p)
        PROVE  UNCHANGED <<held, claimed>>
    BY <2>1, Zenon DEF Opening, Waiting, Closing, OpenClosing, OpenInterrupted, OpenBusy, Open, OpenStarted,
                       BlockCheck, CloseOthers, CloseLast, CloseShutdown, CloseEnd, res
  <2>2. CASE Network
    BY <2>2, Zenon DEF Network, NetClaim, NetStarted, NetShutdown, NetRelease, res
  <2>3. ASSUME NEW s \in Sides, Run(s) \/ Clear(s)
        PROVE  UNCHANGED <<held, claimed>>
    BY <2>3, Zenon DEF Run, Clear, res
  <2>4. CASE Hangup \/ HangupEnd \/ CarrierChange \/ UNCHANGED vars
    BY <2>4, Zenon DEF Hangup, HangupEnd, CarrierChange, vars, res
  <2> QED
    BY <2>1, <2>2, <2>3, <2>4, Zenon DEF Next, Working
<1> QED
  BY <1>1, <1>3, <1>4, <1>5, <1>6, Zenon

-----------------------------------------------------------------------------
\* A side that is in neither startup nor shutdown may return or find nothing to do.
LEMMA StagesIdle ==
  ASSUME Typed, Stages, NEW s \in Sides, NEW x \in {"none", "ok", "error"}, Idle(s), Goto(s, x),
         UNCHANGED <<claim, initialized, held>>, crossed' = crossed
  PROVE  Stages'
<1>1. \A t \in Sides : job'[t] = IF t = s THEN x ELSE job[t]
  BY DEF Goto, Typed, Jobs
<1>2. x \notin Starting \cup Stopping /\ x # "claim"
  BY DEF Starting, Stopping
<1>3. \A t \in Sides : Idle(t)' <=> Idle(t)
  BY <1>1, <1>2 DEF Idle
<1>4. job[s] # "claim"
  BY DEF Idle, Starting
<1>5. {"tty", "net"} = Sides
  BY DEF Sides
<1>6. SUFFICES ASSUME ~crossed' PROVE Stages'
  BY DEF Stages
<1>7. \A t \in Sides : /\ job'[t] # "claim" => claim'[t] = 1
                       /\ job'[t] \in Starting => job'[t] = job[t]
                       /\ job'[t] \in Stopping => job'[t] = job[t]
  BY <1>1, <1>2, <1>4, <1>6 DEF Stages
<1> QED
  BY <1>3, <1>5, <1>6, <1>7 DEF Stages, Starting, Stopping

\* startup begins to claim on a port that is not initialized, the other side idle.
LEMMA StagesStart ==
  ASSUME Typed, Stages, NEW s \in Sides, NEW t \in Sides, Sides = {s, t}, s # t, Idle(s), Idle(t),
         ~initialized, Goto(s, "claim"), UNCHANGED <<claim, initialized, held>>, crossed' = crossed
  PROVE  Stages'
<1>1. job'[s] = "claim" /\ job'[t] = job[t]
  BY DEF Goto, Typed, Jobs
<1>2. SUFFICES ASSUME ~crossed PROVE Stages'
  BY DEF Stages
<1>3. Idle("tty") /\ Idle("net")
  BY DEF Sides
<1>4. held \subseteq {"xmit_buf"} /\ claim[s] = 1
  BY <1>2, <1>3 DEF Stages, Idle, Starting
<1>5. held' = Held(claim'[s] - 1) \/ (claim'[s] = 1 /\ held' = {"xmit_buf"})
  <2>0. \A S : S \subseteq {"xmit_buf"} => S = {} \/ S = {"xmit_buf"}
    OBVIOUS
  <2>1. claim'[s] = 1 /\ claim'[s] - 1 = 0
    BY <1>4
  <2>3. held' = {} \/ held' = {"xmit_buf"}
    BY <1>4, <2>0, Zenon
  <2>2. Held(claim'[s] - 1) = {}
    BY <2>1, FirstHeld, Zenon
  <2> QED
    BY <2>1, <2>2, <2>3, Zenon
<1>6. Idle(t)' /\ ~Idle(s)'
  BY <1>1 DEF Idle, Starting
<1>7. /\ Idle("tty")' \/ Idle("net")'
      /\ ~(Idle("tty")' /\ Idle("net")')
  BY <1>6 DEF Sides
<1>8. /\ job'[s] \notin Stopping /\ job'[s] \notin {"run", "free", "release", "clear"}
      /\ job'[t] \notin Starting \cup Stopping
      /\ job'[t] # "claim" /\ claim'[t] = 1
  BY <1>1, <1>2 DEF Idle, Stages, Starting, Stopping
<1> QED
  BY <1>1, <1>5, <1>7, <1>8 DEF Stages, Starting, Stopping

\* shutdown begins on a port that is initialized; unless the other side is in its
\* own, nobody is in startup or shutdown.
LEMMA StagesStop ==
  ASSUME Typed, Stages, NEW s \in Sides, NEW t \in Sides, Sides = {s, t}, s # t, Idle(s),
         initialized, Goto(s, "free"), UNCHANGED <<claim, initialized, held>>,
         ~crossed' => ~crossed /\ job[t] \notin Stopping
  PROVE  Stages'
<1>1. job'[s] = "free" /\ job'[t] = job[t]
  BY DEF Goto, Typed, Jobs
<1>2. SUFFICES ASSUME ~crossed', ~crossed, job[t] \notin Stopping PROVE Stages'
  BY DEF Stages
<1>3. job[t] \notin Starting
  BY <1>2 DEF Stages
<1>4. Idle("tty") /\ Idle("net")
  BY <1>2, <1>3 DEF Sides, Idle
<1>5. held = Resources /\ claim[s] = 1 /\ claim[t] = 1
  BY <1>2, <1>4 DEF Stages, Idle, Starting
<1>6. Idle(t)' /\ ~Idle(s)'
  BY <1>1, <1>2, <1>3 DEF Idle, Stopping
<1>7. /\ Idle("tty")' \/ Idle("net")'
      /\ ~(Idle("tty")' /\ Idle("net")')
  BY <1>6 DEF Sides
<1>8. /\ job'[s] \notin Starting /\ job'[s] \notin {"claim", "run", "release", "clear"}
      /\ job'[t] \notin Starting \cup Stopping
      /\ job'[t] # "claim"
  BY <1>1, <1>2, <1>3 DEF Starting
<1> QED
  BY <1>1, <1>5, <1>7, <1>8 DEF Stages, Starting, Stopping

\* A side s works, the other is idle and stays so: it is enough to look at s.
LEMMA StagesWork ==
  ASSUME Typed, Stages, NEW s \in Sides, NEW t \in Sides, Sides = {s, t}, s # t,
         ~Idle(s), ~crossed, job'[t] = job[t], claim'[t] = claim[t],
         /\ job'[s] # "claim" => claim'[s] = 1
         /\ job'[s] \in Starting => ~initialized'
         /\ job'[s] \in Stopping => initialized'
         /\ job'[s] = "claim" => held' = Held(claim'[s] - 1) \/ (claim'[s] = 1 /\ held' = {"xmit_buf"})
         /\ job'[s] \in {"run", "free"} => held' = Resources
         /\ job'[s] = "release" => held' = Resources \ {"xmit_buf"}
         /\ job'[s] = "clear" => held' = {}
         /\ Idle(s)' => IF initialized' THEN held' = Resources ELSE held' \subseteq {"xmit_buf"}
  PROVE  Stages'
<1>1. Idle(t)
  BY DEF Stages, Sides
<1>2. job'[t] \notin Starting \cup Stopping /\ Idle(t)'
  BY <1>1 DEF Idle
<1>3. job'[t] # "claim" /\ claim'[t] = 1
  BY <1>1 DEF Idle, Starting, Stages
<1>4. \A r \in Sides :
         /\ job'[r] # "claim" => claim'[r] = 1
         /\ job'[r] \in Starting => ~initialized'
         /\ job'[r] \in Stopping => initialized'
         /\ job'[r] = "claim" => held' = Held(claim'[r] - 1) \/ (claim'[r] = 1 /\ held' = {"xmit_buf"})
         /\ job'[r] \in {"run", "free"} => held' = Resources
         /\ job'[r] = "release" => held' = Resources \ {"xmit_buf"}
         /\ job'[r] = "clear" => held' = {}
  <2>1. job'[t] \notin {"claim", "run", "free", "release", "clear"}
    BY <1>2 DEF Starting, Stopping
  <2> QED
    BY <1>2, <1>3, <2>1
<1>5. Idle("tty")' \/ Idle("net")'
  BY <1>2 DEF Sides
<1>6. Idle("tty")' /\ Idle("net")' => IF initialized' THEN held' = Resources ELSE held' \subseteq {"xmit_buf"}
  BY <1>2 DEF Sides
<1> QED
  BY <1>4, <1>5, <1>6 DEF Stages

\* Startup claims everything in order, or gives back what it claimed; shutdown
\* gives back everything.
LEMMA StagesWorking ==
  ASSUME Typed, Stages, NEW s \in Sides, Working(s)
  PROVE  Stages'
<1>0. SUFFICES ASSUME ~crossed PROVE Stages'
  <2>1. crossed' = crossed
    BY DEF Working, ClaimMade, ClaimFailed, Undo, Run, Free, Release, Clear, RestUnchanged
  <2> QED
    BY <2>1 DEF Stages
<1>1. PICK t \in Sides : Sides = {s, t} /\ s # t
  BY DEF Sides
<1>2. claim[s] \in 1 .. Len(Claims) /\ Len(Claims) \in Nat
  BY ClaimsFacts DEF Typed, Jobs
<1>3. /\ job[s] # "claim" => claim[s] = 1
      /\ job[s] \in Starting => ~initialized
      /\ job[s] \in Stopping => initialized
      /\ job[s] = "claim" => held = Held(claim[s] - 1) \/ (claim[s] = 1 /\ held = {"xmit_buf"})
      /\ job[s] \in {"run", "free"} => held = Resources
      /\ job[s] = "release" => held = Resources \ {"xmit_buf"}
      /\ job[s] = "clear" => held = {}
  BY <1>0 DEF Stages
<1>4. ASSUME NEW x, Goto(s, x)
      PROVE  job'[s] = x /\ job'[t] = job[t]
  BY <1>1, <1>4 DEF Goto, Typed, Jobs
<1>5. ASSUME NEW n, claim' = [claim EXCEPT ![s] = n]
      PROVE  claim'[s] = n /\ claim'[t] = claim[t]
  BY <1>1, <1>5 DEF Typed, Jobs
<1>6. CASE ClaimMade(s)
  <2>1. /\ job[s] = "claim" /\ UNCHANGED initialized
        /\ held' = Forget(held, Claims[claim[s]]) \cup ({Claims[claim[s]]} \ Tests)
    BY <1>6 DEF ClaimMade
  <2>2. held' = Held(claim[s])
    <3>1. CASE held = Held(claim[s] - 1)
      BY <1>2, <2>1, <3>1, NextHeld
    <3>2. CASE claim[s] = 1 /\ held = {"xmit_buf"}
      BY <2>1, <3>2, FirstHeld
    <3> QED
      BY <1>3, <2>1, <3>1, <3>2
  <2>3. \/ claim[s] = Len(Claims) /\ Goto(s, "run") /\ claim' = [claim EXCEPT ![s] = 1]
        \/ claim' = [claim EXCEPT ![s] = claim[s] + 1] /\ UNCHANGED job
    BY <1>6 DEF ClaimMade
  <2>4. CASE claim[s] = Len(Claims) /\ Goto(s, "run") /\ claim' = [claim EXCEPT ![s] = 1]
    <3>1. /\ job'[s] = "run" /\ job'[t] = job[t] /\ claim'[s] = 1 /\ claim'[t] = claim[t]
          /\ held' = Resources /\ ~initialized' /\ ~Idle(s) /\ ~Idle(s)'
      BY <1>3, <1>4, <1>5, <2>1, <2>2, <2>4 DEF Resources, Idle, Starting
    <3> QED
      BY <1>0, <1>1, <3>1, StagesWork DEF Starting, Stopping
  <2>5. CASE claim' = [claim EXCEPT ![s] = claim[s] + 1] /\ UNCHANGED job
    <3>1. /\ job'[s] = "claim" /\ job'[t] = job[t] /\ claim'[s] = claim[s] + 1 /\ claim'[t] = claim[t]
          /\ ~initialized' /\ ~Idle(s) /\ ~Idle(s)'
      BY <1>3, <1>5, <2>1, <2>5 DEF Idle, Starting
    <3>2. claim'[s] - 1 = claim[s]
      BY <1>2, <3>1
    <3>3. held' = Held(claim'[s] - 1)
      BY <2>2, <3>2
    <3> QED
      BY <1>0, <1>1, <3>1, <3>3, StagesWork DEF Starting, Stopping
  <2> QED
    BY <2>3, <2>4, <2>5
<1>7. CASE ClaimFailed(s)
  <2>1. job[s] = "claim" /\ UNCHANGED initialized /\ claim' = [claim EXCEPT ![s] = 1]
    BY <1>7 DEF ClaimFailed
  <2>2. \/ Goto(s, "undo")
        \/ Claims[claim[s]] = "xmit_buf" /\ Goto(s, "error") /\ "xmit_buf" \notin held
    BY <1>7 DEF ClaimFailed
  <2>3. claim'[s] = 1 /\ claim'[t] = claim[t] /\ ~initialized' /\ ~Idle(s)
    BY <1>3, <1>5, <2>1 DEF Idle, Starting
  <2>4. CASE Goto(s, "undo")
    <3>1. job'[s] = "undo" /\ job'[t] = job[t] /\ ~Idle(s)'
      BY <1>4, <2>4 DEF Idle, Starting
    <3> QED
      BY <1>0, <1>1, <2>3, <3>1, StagesWork DEF Starting, Stopping
  <2>5. CASE Claims[claim[s]] = "xmit_buf" /\ Goto(s, "error") /\ "xmit_buf" \notin held
    <3>1. job'[s] = "error" /\ job'[t] = job[t]
      BY <1>4, <2>5
    <3>2. claim[s] = 1 /\ claim[s] - 1 = 0
      BY <1>2, <2>5, ClaimsFacts
    <3>3. held = {}
      <4>1. Held(claim[s] - 1) = {}
        BY <3>2, FirstHeld
      <4> QED
        BY <1>3, <2>1, <2>5, <4>1
    <3>4. held' = held
      BY <1>7, <2>5 DEF ClaimFailed, Forget
    <3> QED
      BY <1>0, <1>1, <2>3, <3>1, <3>3, <3>4, StagesWork DEF Starting, Stopping
  <2> QED
    BY <2>2, <2>4, <2>5
<1>8. CASE Undo(s)
  <2>1. /\ job'[s] = "error" /\ job'[t] = job[t] /\ ~Idle(s) /\ ~initialized' /\ UNCHANGED claim
        /\ claim[s] = 1
    BY <1>3, <1>4, <1>8 DEF Undo, Idle, Starting
  <2>2. held' \subseteq {"xmit_buf"}
    BY <1>8 DEF Undo, GiveBack
  <2> QED
    BY <1>0, <1>1, <2>1, <2>2, StagesWork DEF Starting, Stopping
<1>9. CASE Run(s)
  <2>1. /\ job'[s] = "ok" /\ job'[t] = job[t] /\ ~Idle(s) /\ initialized' /\ UNCHANGED claim
        /\ claim[s] = 1 /\ held' = Resources
    BY <1>3, <1>4, <1>9 DEF Run, Idle, Starting, res
  <2> QED
    BY <1>0, <1>1, <2>1, StagesWork DEF Starting, Stopping
<1>10. CASE Free(s)
  <2>1. /\ job'[s] = "release" /\ job'[t] = job[t] /\ ~Idle(s) /\ initialized' /\ UNCHANGED claim
        /\ claim[s] = 1 /\ held' = Resources \ {"xmit_buf"} /\ ~Idle(s)'
    BY <1>3, <1>4, <1>10 DEF Free, Idle, Stopping
  <2> QED
    BY <1>0, <1>1, <2>1, StagesWork DEF Starting, Stopping
<1>11. CASE Release(s)
  <2>1. /\ job'[s] = "clear" /\ job'[t] = job[t] /\ ~Idle(s) /\ initialized' /\ UNCHANGED claim
        /\ claim[s] = 1 /\ ~Idle(s)'
    BY <1>3, <1>4, <1>11 DEF Release, Idle, Stopping
  <2>2. held' = {}
    BY <1>3, <1>11 DEF Release, GiveBack
  <2> QED
    BY <1>0, <1>1, <2>1, <2>2, StagesWork DEF Starting, Stopping
<1>12. CASE Clear(s)
  <2>1. /\ job'[s] = "ok" /\ job'[t] = job[t] /\ ~Idle(s) /\ ~initialized' /\ UNCHANGED claim
        /\ claim[s] = 1 /\ held' = {}
    BY <1>3, <1>4, <1>12 DEF Clear, Idle, Stopping, res
  <2> QED
    BY <1>0, <1>1, <2>1, StagesWork DEF Starting, Stopping
<1> QED
  BY <1>6, <1>7, <1>8, <1>9, <1>10, <1>11, <1>12 DEF Working

\* startup is called where the other side is not in its own: it claims, or has
\* nothing to do.
LEMMA StagesCallStartup ==
  ASSUME Typed, Stages, NEW s \in Sides, NEW t \in Sides, Sides = {s, t}, s # t, Startup(s),
         job[s] = "none", job[t] \notin Starting, UNCHANGED <<initialized, held>>
  PROVE  Stages'
<1>1. Idle(s) /\ crossed' = crossed /\ claim' = claim
  BY DEF Startup, Idle, Starting, Stopping
<1>2. CASE initialized
  BY <1>1, <1>2, StagesIdle DEF Startup
<1>3. CASE ~initialized
  <2>1. ~crossed => Idle(t)
    BY <1>3 DEF Stages, Idle
  <2>2. Goto(s, "claim")
    BY <1>3 DEF Startup
  <2>3. CASE crossed
    BY <1>1, <2>3 DEF Stages
  <2> QED
    BY <1>1, <1>3, <2>1, <2>2, <2>3, StagesStart
<1> QED
  BY <1>2, <1>3

\* shutdown is called.
LEMMA StagesCallShutdown ==
  ASSUME Typed, Stages, NEW s \in Sides, Shutdown(s), job[s] = "none", UNCHANGED <<initialized, held>>
  PROVE  Stages'
<1>1. PICK t \in Sides : Sides = {s, t} /\ s # t
  BY DEF Sides
<1>2. Idle(s) /\ claim' = claim
  BY DEF Shutdown, Idle, Starting, Stopping
<1>3. CASE initialized
  <2>1. Goto(s, "free")
    BY <1>3 DEF Shutdown
  <2>2. crossed' = (crossed \/ \E r \in Sides \ {s} : job[r] \in Stopping)
    BY <1>3, Zenon DEF Shutdown
  <2>3. ~crossed' => ~crossed /\ job[t] \notin Stopping
    BY <1>1, <2>2
  <2> QED
    BY <1>1, <1>2, <1>3, <2>1, <2>3, StagesStop
<1>4. CASE ~initialized
  <2>1. Goto(s, "ok") /\ (crossed' => crossed) /\ (crossed => crossed')
    BY <1>4, Zenon DEF Shutdown
  <2>2. CASE crossed
    BY <2>1, <2>2 DEF Stages
  <2>3. CASE ~crossed
    <3>1. \A r \in Sides : job'[r] = IF r = s THEN "ok" ELSE job[r]
      BY <2>1 DEF Goto, Typed, Jobs
    <3>2. \A r \in Sides : Idle(r)' <=> Idle(r)
      BY <1>2, <3>1 DEF Idle, Starting, Stopping
    <3>3. {"tty", "net"} = Sides
      BY DEF Sides
    <3>4. \A r \in Sides : job'[r] \in Starting \cup Stopping => job'[r] = job[r]
      BY <3>1 DEF Starting, Stopping
    <3>5. \A r \in Sides : job'[r] # "claim" => claim'[r] = 1
      BY <1>2, <2>3, <3>1 DEF Stages, Idle, Starting
    <3> QED
      BY <1>2, <2>3, <3>2, <3>3, <3>4, <3>5 DEF Stages, Starting, Stopping
  <2> QED
    BY <2>2, <2>3
<1> QED
  BY <1>3, <1>4

\* Startup and shutdown of the two sides keep out of each other's way, by the
\* count and the flag that say who has the port, unless two shutdowns cross.
LEMMA StagesStep ==
  ASSUME Typed, Callers, Stages, [Next]_vars
  PROVE  Stages'
<1>0. "tty" \in Sides /\ "net" \in Sides /\ Sides = {"tty", "net"} /\ Sides = {"net", "tty"} /\ "tty" # "net"
  BY DEF Sides
<1>1. LockFree => job["tty"] = "none"
  BY DEF LockFree, Callers, At
<1>2. ASSUME NEW s \in Sides, NEW x \in {"ok", "error"}, job[s] = x, Return(s), UNCHANGED <<initialized, held>>
      PROVE  Stages'
  BY <1>2, StagesIdle DEF Return, Idle, Starting, Stopping
<1>3. CASE UNCHANGED <<initialized, held, job, claim, crossed>>
  BY <1>3 DEF Stages, Idle
<1>4. ASSUME NEW p \in Procs, Open(p)
      PROVE  Stages'
  <2>1. job["tty"] = "none" /\ job["net"] = "none" /\ UNCHANGED <<initialized, held>>
    BY <1>1, <1>4 DEF Open, FileOpened, Callers, res
  <2>2. CASE Startup("tty")
    BY <1>0, <2>1, <2>2, StagesCallStartup DEF Starting
  <2>3. CASE Goto("tty", "ok") /\ UNCHANGED <<claim, crossed>>
    BY <1>0, <2>1, <2>3, StagesIdle DEF Idle, Starting, Stopping
  <2> QED
    BY <1>4, <2>2, <2>3 DEF Open
<1>5. ASSUME NEW p \in Procs, NEW b \in BOOLEAN, NEW x \in BOOLEAN, OpenStarted(p, b, x)
      PROVE  Stages'
  <2>1. job["tty"] \in {"ok", "error"} /\ Return("tty") /\ UNCHANGED <<initialized, held>>
    BY <1>5 DEF OpenStarted, res
  <2> QED
    BY <1>0, <1>2, <2>1
<1>6. ASSUME NEW p \in Procs, CloseShutdown(p)
      PROVE  Stages'
  BY <1>0, <1>1, <1>6, StagesCallShutdown DEF CloseShutdown, res, flags
<1>7. ASSUME NEW p \in Procs, CloseEnd(p)
      PROVE  Stages'
  BY <1>0, <1>2, <1>7 DEF CloseEnd, res
<1>8. CASE Hangup
  BY <1>0, <1>1, <1>8, StagesCallShutdown DEF Hangup, res, flags
<1>9. CASE HangupEnd
  BY <1>0, <1>2, <1>9 DEF HangupEnd, res
<1>10. CASE NetClaim
  <2>1. Startup("net") /\ job["net"] = "none" /\ UNCHANGED <<initialized, held>> /\ count = 0
    BY <1>10 DEF NetClaim, Callers, flags, res
  <2>2. job["tty"] \notin Starting
    BY <2>1 DEF Callers, Starting, Stopping
  <2> QED
    BY <1>0, <2>1, <2>2, StagesCallStartup
<1>11. CASE NetStarted \/ NetRelease
  BY <1>0, <1>2, <1>11 DEF NetStarted, NetRelease, flags, res
<1>12. CASE NetShutdown
  BY <1>0, <1>12, StagesCallShutdown DEF NetShutdown, Callers, flags, res
<1>13. ASSUME NEW p \in Procs, OpenClosing(p) \/ OpenInterrupted(p) \/ OpenBusy(p) \/ Waiting(p)
                               \/ CloseOthers(p) \/ CloseLast(p)
       PROVE  UNCHANGED <<initialized, held, job, claim, crossed>>
  BY <1>13, Zenon DEF OpenClosing, OpenInterrupted, OpenBusy, Waiting, BlockCheck, CloseOthers, CloseLast,
                      flags, res, jobs
<1>14. CarrierChange \/ UNCHANGED vars => UNCHANGED <<initialized, held, job, claim, crossed>>
  BY Zenon DEF CarrierChange, vars, flags, res, jobs
<1> QED
  BY <1>3, <1>4, <1>5, <1>6, <1>7, <1>8, <1>9, <1>10, <1>11, <1>12, <1>13, <1>14, StagesWorking
     DEF Next, Opening, Closing, Network

-----------------------------------------------------------------------------
\* The size of a set of processes, and what one process more or less makes of it.
LEMMA Sizes ==
  ASSUME NEW S \in SUBSET Procs, NEW p \in Procs
  PROVE  /\ Cardinality(S) \in 0 .. Cardinality(Procs)
         /\ Cardinality(Procs) \in Nat
         /\ p \in S => Cardinality(S \ {p}) = Cardinality(S) - 1
         /\ p \notin S => Cardinality(S \cup {p}) = Cardinality(S) + 1
         /\ Cardinality(S) = 0 <=> S = {}
         /\ Cardinality(S) = 1 /\ p \in S => S = {p}
<1>1. IsFiniteSet(S) /\ Cardinality(S) <= Cardinality(Procs)
  BY FS_Subset, PortAssumption
<1>2. Cardinality(S) \in Nat /\ Cardinality(Procs) \in Nat
  BY <1>1, FS_CardinalityType, PortAssumption
<1>3. p \in S => Cardinality(S \ {p}) = Cardinality(S) - 1
  BY <1>1, FS_RemoveElement
<1>4. p \notin S => Cardinality(S \cup {p}) = Cardinality(S) + 1
  BY <1>1, FS_AddElement
<1>5. Cardinality(S) = 0 <=> S = {}
  BY <1>1, FS_EmptySet
<1>6. Cardinality(S) = 1 => \E x : S = {x}
  BY <1>1, FS_Singleton
<1> QED
  BY <1>1, <1>2, <1>3, <1>4, <1>5, <1>6

\* Two sets that differ at most in p.
LEMMA Resize ==
  ASSUME NEW S \in SUBSET Procs, NEW T \in SUBSET Procs, NEW p \in Procs, T \ {p} = S \ {p}
  PROVE  Cardinality(T) = Cardinality(S) + (IF p \in T THEN 1 ELSE 0) - (IF p \in S THEN 1 ELSE 0)
<1>1. CASE p \in T /\ p \notin S
  <2>1. T = S \cup {p}
    BY <1>1
  <2> QED
    BY <1>1, <2>1, Sizes
<1>2. CASE p \notin T /\ p \in S
  <2>1. T = S \ {p}
    BY <1>2
  <2> QED
    BY <1>2, <2>1, Sizes
<1>3. CASE p \in T <=> p \in S
  <2>1. T = S
    BY <1>3
  <2>2. Cardinality(S) \in Nat
    BY FS_Subset, FS_CardinalityType, PortAssumption
  <2> QED
    BY <2>1, <2>2
<1> QED
  BY <1>1, <1>2, <1>3

\* How the sizes of the sets that the counts count change when p moves from
\* where it is to s, and no other process is hung up or opens anew.
LEMMA Recount ==
  ASSUME Typed, Typed', NEW p \in Procs, NEW s \in Points,
         pc' = [pc EXCEPT ![p] = s], hung' \ {p} = hung \ {p}
  PROVE  /\ Cardinality(Counted) \in Nat
         /\ Cardinality(Counted') \in 0 .. Cardinality(Procs)
         /\ Cardinality(Procs) \in Nat
         /\ Cardinality(Procs \ At("out"))' = Cardinality(Procs \ At("out"))
               + (IF s # "out" THEN 1 ELSE 0) - (IF pc[p] # "out" THEN 1 ELSE 0)
         /\ Cardinality(At("blocked"))' = Cardinality(At("blocked"))
               + (IF s = "blocked" THEN 1 ELSE 0) - (IF pc[p] = "blocked" THEN 1 ELSE 0)
         /\ Cardinality(Counted)' = Cardinality(Counted)
               + (IF s = "startup" \/ (s = "in" /\ p \notin hung') THEN 1 ELSE 0)
               - (IF pc[p] = "startup" \/ (pc[p] = "in" /\ p \notin hung) THEN 1 ELSE 0)
<1> USE DEF At, Typed, Values
<1>1. Cardinality(Procs \ At("out"))' = Cardinality(Procs \ At("out"))
               + (IF s # "out" THEN 1 ELSE 0) - (IF pc[p] # "out" THEN 1 ELSE 0)
  <2> DEFINE S == Procs \ At("out")
  <2>1. S \in SUBSET Procs /\ S' \in SUBSET Procs /\ S' \ {p} = S \ {p}
    OBVIOUS
  <2>2. (p \in S <=> pc[p] # "out") /\ (p \in S' <=> s # "out")
    OBVIOUS
  <2> HIDE DEF S
  <2>3. Cardinality(S') = Cardinality(S) + (IF p \in S' THEN 1 ELSE 0) - (IF p \in S THEN 1 ELSE 0)
    BY <2>1, Resize
  <2> QED
    BY <2>2, <2>3 DEF S
<1>2. Cardinality(At("blocked"))' = Cardinality(At("blocked"))
               + (IF s = "blocked" THEN 1 ELSE 0) - (IF pc[p] = "blocked" THEN 1 ELSE 0)
  <2> DEFINE S == At("blocked")
  <2>1. S \in SUBSET Procs /\ S' \in SUBSET Procs /\ S' \ {p} = S \ {p}
    OBVIOUS
  <2>2. (p \in S <=> pc[p] = "blocked") /\ (p \in S' <=> s = "blocked")
    OBVIOUS
  <2> HIDE DEF S
  <2>3. Cardinality(S') = Cardinality(S) + (IF p \in S' THEN 1 ELSE 0) - (IF p \in S THEN 1 ELSE 0)
    BY <2>1, Resize
  <2> QED
    BY <2>2, <2>3 DEF S
<1>3. Counted \in SUBSET Procs /\ Counted' \in SUBSET Procs
  BY DEF Counted, Users
<1>4. Cardinality(Counted)' = Cardinality(Counted)
               + (IF s = "startup" \/ (s = "in" /\ p \notin hung') THEN 1 ELSE 0)
               - (IF pc[p] = "startup" \/ (pc[p] = "in" /\ p \notin hung) THEN 1 ELSE 0)
  <2>1. Counted' \ {p} = Counted \ {p}
    BY DEF Counted, Users
  <2>2. /\ p \in Counted <=> pc[p] = "startup" \/ (pc[p] = "in" /\ p \notin hung)
        /\ p \in Counted' <=> s = "startup" \/ (s = "in" /\ p \notin hung')
    BY DEF Counted, Users
  <2>3. Cardinality(Counted') = Cardinality(Counted)
               + (IF p \in Counted' THEN 1 ELSE 0) - (IF p \in Counted THEN 1 ELSE 0)
    BY <1>3, <2>1, Resize
  <2> QED
    BY <2>2, <2>3
<1>5. /\ Cardinality(Counted) \in Nat /\ Cardinality(Counted') \in 0 .. Cardinality(Procs)
      /\ Cardinality(Procs) \in Nat
  <2>1. Cardinality(Procs) \in Nat /\ \A S \in SUBSET Procs : Cardinality(S) \in 0 .. Cardinality(Procs)
    BY Sizes
  <2>2. Cardinality(Counted) \in 0 .. Cardinality(Procs) /\ Cardinality(Counted') \in 0 .. Cardinality(Procs)
    BY <1>3, <2>1, Zenon
  <2> QED
    BY <2>1, <2>2
<1> QED
  BY <1>1, <1>2, <1>4, <1>5

\* A turn of the loop in block_til_ready, with c the count without p.
LEMMA LookOutcome ==
  ASSUME NEW p \in Procs, NEW c \in Nat, NEW others, NEW set, NEW signal,
         Look(p, c, others, set, signal), UNCHANGED hung
  PROVE  \/ /\ pc' = [pc EXCEPT ![p] = "in"] /\ p \notin hung /\ initialized /\ ~closing
            /\ count' = c + 1 /\ blocked_open' = others /\ UNCHANGED failed
         \/ /\ pc' = [pc EXCEPT ![p] = "blocked"] /\ p \notin hung /\ initialized
            /\ count' = c /\ blocked_open' = others + 1 /\ UNCHANGED failed
         \/ /\ pc' = [pc EXCEPT ![p] = "failed"]
            /\ count' = c /\ blocked_open' = others
            /\ ~failed' => ~failed /\ p \in hung
<1>1. OpenFails(p, c + 1, set) => count' = c
  BY DEF OpenFails
<1>2. \/ OpenFails(p, c + 1, set) /\ blocked_open' = others
      \/ /\ pc' = [pc EXCEPT ![p] = "in"] /\ p \notin hung /\ initialized /\ ~closing
         /\ count' = c + 1 /\ blocked_open' = others /\ UNCHANGED failed
      \/ /\ pc' = [pc EXCEPT ![p] = "blocked"] /\ p \notin hung /\ initialized
         /\ count' = c /\ blocked_open' = others + 1 /\ UNCHANGED failed
  BY Zenon DEF Look
<1> QED
  BY <1>1, <1>2, Zenon DEF OpenFails

\* What r56_open comes to after startup.
LEMMA OpenOutcome ==
  ASSUME Typed, Places, Callers, NEW p \in Procs, NEW b \in BOOLEAN, NEW s \in BOOLEAN, OpenStarted(p, b, s)
  PROVE  /\ pc[p] = "startup" /\ p \notin hung /\ ~hup /\ count > 0 /\ net = "down"
         /\ job["tty"] \in {"ok", "error"}
         /\ Lockers = {p} /\ At("startup") = {p}
         /\ UNCHANGED <<initialized, closing, held, tty_count, hung, hup, net, contended, crossed>>
         /\ job' = [job EXCEPT !["tty"] = "none"]
         /\ \/ /\ pc' = [pc EXCEPT ![p] = "in"] /\ job["tty"] = "ok"
               /\ UNCHANGED <<count, blocked_open, failed>>
            \/ /\ pc' = [pc EXCEPT ![p] = "blocked"] /\ job["tty"] = "ok"
               /\ blocked_open' = blocked_open + 1 /\ count' = count - 1 /\ UNCHANGED failed
            \/ /\ pc' = [pc EXCEPT ![p] = "failed"]
               /\ count' = count - 1 /\ UNCHANGED blocked_open /\ failed'
<1>1. pc[p] = "startup" /\ p \notin hung /\ At("startup") # {}
  BY DEF OpenStarted, Places, At
<1>2. Lockers = {p} /\ At("startup") = {p}
  BY <1>1 DEF Callers, Lockers, At
<1>3. ~hup /\ count > 0 /\ net = "down"
  BY <1>1, <1>2 DEF Callers
<1>4. /\ UNCHANGED <<initialized, closing, held, tty_count, hung, hup, net, contended, crossed>>
      /\ job' = [job EXCEPT !["tty"] = "none"]
  BY DEF OpenStarted, Return, Goto, res, ttyv, netv
<1>5. count \in Nat /\ count - 1 \in Nat /\ count - 1 + 1 = count
  BY <1>3 DEF Typed, Values
<1>6. CASE job["tty"] = "ok" /\ BlockTilReady(p, b, s)
  <2>1. CASE Look(p, count - 1, blocked_open, tty_set, s)
    BY <1>1, <1>2, <1>3, <1>4, <1>5, <1>6, <2>1, LookOutcome, Zenon
  <2>2. CASE pc' = [pc EXCEPT ![p] = "in"] /\ UNCHANGED <<count, tty_set, blocked_open, woken, failed>>
    BY <1>1, <1>2, <1>3, <1>4, <1>6, <2>2, Zenon
  <2> QED
    BY <1>6, <2>1, <2>2, Zenon DEF BlockTilReady
<1>7. CASE job["tty"] = "error" /\ OpenFails(p, count, tty_set) /\ UNCHANGED <<blocked_open, woken>>
  <2>1. failed'
    BY <1>1, <1>4, <1>7, Zenon DEF OpenFails
  <2>2. pc' = [pc EXCEPT ![p] = "failed"] /\ count' = count - 1
    BY <1>3, <1>7 DEF OpenFails
  <2> QED
    BY <1>1, <1>2, <1>3, <1>4, <1>7, <2>1, <2>2, Zenon
<1> QED
  BY <1>6, <1>7, Zenon DEF OpenStarted

\* What becomes of a waiting open that takes another turn.
LEMMA BlockOutcome ==
  ASSUME Typed, NEW p \in Procs, NEW s \in BOOLEAN, BlockCheck(p, s)
  PROVE  /\ pc[p] = "blocked" /\ LockFree
         /\ UNCHANGED <<initialized, closing, held, tty_count, hung, hup, net, contended, crossed, job>>
         /\ \/ /\ pc' = [pc EXCEPT ![p] = "in"] /\ p \notin hung /\ initialized /\ ~closing
               /\ count' = count + 1 /\ blocked_open' = blocked_open - 1 /\ UNCHANGED failed
            \/ /\ pc' = [pc EXCEPT ![p] = "blocked"]
               /\ UNCHANGED <<count, blocked_open, failed>>
            \/ /\ pc' = [pc EXCEPT ![p] = "failed"]
               /\ blocked_open' = blocked_open - 1 /\ UNCHANGED count
               /\ ~failed' => ~failed /\ p \in hung
<1>1. /\ pc[p] = "blocked" /\ LockFree
      /\ UNCHANGED <<initialized, closing, held, tty_count, hung, hup, net, contended, crossed, job>>
  BY DEF BlockCheck, res, jobs, ttyv, netv
<1>2. Look(p, count, blocked_open - 1, tty_set, s)
  BY DEF BlockCheck
<1>3. count \in Nat /\ blocked_open - 1 + 1 = blocked_open
  BY DEF Typed, Values
<1> QED
  BY <1>1, <1>2, <1>3, LookOutcome, Zenon

-----------------------------------------------------------------------------
\* An open that sleeps on close_wait is not counted yet.
LEMMA OpenClosingMain ==
  ASSUME Main, Typed', NEW p \in Procs, OpenClosing(p)
  PROVE  Main'
<1>1. Typed /\ Counts /\ Places /\ Callers
  BY DEF Main
<1>2. /\ pc[p] = "out" /\ pc' = [pc EXCEPT ![p] = "close_wait"] /\ LockFree
      /\ tty_count' = tty_count + 1 /\ hung' = hung \ {p}
      /\ UNCHANGED <<count, blocked_open, closing, hup, net, failed, job>>
  BY DEF OpenClosing, FileOpened, jobs, netv
<1>3. hung' \ {p} = hung \ {p} /\ p \notin hung'
  BY <1>2
<1>4. Counts'
  <2>1. /\ Cardinality(Counted) \in Nat
        /\ Cardinality(Procs \ At("out"))' = Cardinality(Procs \ At("out")) + 1 - 0
        /\ Cardinality(At("blocked"))' = Cardinality(At("blocked")) + 0 - 0
        /\ Cardinality(Counted)' = Cardinality(Counted) + 0 - 0
    BY <1>1, <1>2, <1>3, Recount DEF Points
  <2> QED
    BY <1>1, <1>2, <2>1 DEF Counts, Typed, Values
<1>5. Places'
  BY <1>1, <1>2, <1>3 DEF Places, LockFree, Typed, Values, At, Users, Counted, Closers
<1>6. Callers'
  BY <1>1, <1>2 DEF Callers, LockFree, Typed, Values, At, Lockers
<1> QED
  BY <1>4, <1>5, <1>6 DEF Main

\* An open that fails without a hangup may leave the count too small.
LEMMA OpenFailsMain ==
  ASSUME Main, Typed', NEW p \in Procs, OpenInterrupted(p) \/ OpenBusy(p)
  PROVE  Main' /\ failed'
<1>1. Typed /\ Counts /\ Places /\ Callers
  BY DEF Main
<1>2. /\ pc' = [pc EXCEPT ![p] = "failed"]
      /\ \/ pc[p] = "close_wait" /\ UNCHANGED <<tty_count, hung>>
         \/ pc[p] = "out" /\ LockFree /\ tty_count' = tty_count + 1 /\ hung' = hung \ {p}
      /\ UNCHANGED <<blocked_open, hup, net, job>>
  BY DEF OpenInterrupted, OpenBusy, FileOpened, OpenFails, ttyv, netv, jobs
<1>3. hung' \ {p} = hung \ {p} /\ p \notin hung'
  BY <1>1, <1>2 DEF Places, At
<1>4. failed'
  BY <1>3, Zenon DEF OpenInterrupted, OpenBusy, OpenFails
<1>5. count' = IF count > 0 THEN count - 1 ELSE 0
  BY Zenon DEF OpenInterrupted, OpenBusy, OpenFails
<1>6. ~hup /\ Lockers \subseteq {p} /\ At("startup") = {} /\ At("closing") = {}
  <2>1. CASE LockFree
    BY <2>1 DEF LockFree, Lockers, At
  <2>2. CASE pc[p] = "close_wait"
    <3>1. p \in Lockers
      BY <2>2 DEF Lockers
    <3>2. Lockers = {p} /\ ~hup
      BY <1>1, <3>1 DEF Callers
    <3> QED
      BY <2>2, <3>2 DEF Lockers, At
  <2> QED
    BY <1>2, <2>1, <2>2
<1>7. Counts'
  <2>1. /\ Cardinality(Counted) \in Nat /\ Cardinality(Counted') \in 0 .. Cardinality(Procs)
        /\ Cardinality(Procs) \in Nat
        /\ Cardinality(Procs \ At("out"))'
             = Cardinality(Procs \ At("out")) + 1 - (IF pc[p] # "out" THEN 1 ELSE 0)
        /\ Cardinality(At("blocked"))' = Cardinality(At("blocked")) + 0 - 0
        /\ Cardinality(Counted)' = Cardinality(Counted) + 0 - 0
    BY <1>1, <1>2, <1>3, Recount DEF Points
  <2> QED
    BY <1>1, <1>2, <1>4, <1>5, <1>6, <2>1 DEF Counts, Typed, Values
<1>8. Places'
  BY <1>1, <1>2, <1>3, <1>4, <1>6 DEF Places, Typed, Values, At
<1>9. Callers'
  <2>1. Lockers' = {} /\ At("startup")' = {} /\ At("closing")' = {}
    BY <1>1, <1>2, <1>6 DEF Lockers, At, Typed, Values
  <2> QED
    BY <1>1, <1>2, <1>6, <2>1 DEF Callers
<1> QED
  BY <1>4, <1>7, <1>8, <1>9 DEF Main

\* An open counts itself before it calls startup.
LEMMA OpenMain ==
  ASSUME Main, Typed', NEW p \in Procs, Open(p)
  PROVE  Main'
<1>1. Typed /\ Counts /\ Places /\ Callers
  BY DEF Main
<1>2. /\ pc[p] = "out" /\ pc' = [pc EXCEPT ![p] = "startup"] /\ LockFree /\ ~closing /\ net = "down"
      /\ tty_count' = tty_count + 1 /\ hung' = hung \ {p} /\ count' = count + 1
      /\ UNCHANGED <<blocked_open, closing, hup, net, failed>>
  BY DEF Open, FileOpened, netv
<1>3. hung' \ {p} = hung \ {p} /\ p \notin hung'
  BY <1>2
<1>4. job'["tty"] \in Starting \cup {"ok"} /\ job'["net"] = job["net"]
  <2>1. Goto("tty", "ok") \/ Goto("tty", "claim")
    BY Zenon DEF Open, Startup
  <2> QED
    BY <1>1, <2>1 DEF Goto, Typed, Jobs, Sides, Starting
<1>5. Counts'
  <2>1. /\ Cardinality(Counted) \in Nat /\ Cardinality(Counted') \in 0 .. Cardinality(Procs)
        /\ Cardinality(Procs) \in Nat
        /\ Cardinality(Procs \ At("out"))' = Cardinality(Procs \ At("out")) + 1 - 0
        /\ Cardinality(At("blocked"))' = Cardinality(At("blocked")) + 0 - 0
        /\ Cardinality(Counted)' = Cardinality(Counted) + 1 - 0
    BY <1>1, <1>2, <1>3, Recount DEF Points
  <2> QED
    BY <1>1, <1>2, <2>1 DEF Counts, Typed, Values, LockFree
<1>6. Places'
  BY <1>1, <1>2, <1>3 DEF Places, LockFree, Typed, Values, At, Users, Counted, Closers
<1>7. Callers'
  <2>1. Lockers' = {p} /\ At("startup")' = {p} /\ At("closing")' = {} /\ ~hup
    BY <1>1, <1>2 DEF Lockers, At, LockFree, Typed, Values
  <2>2. count' > 0
    BY <1>1, <1>2 DEF Typed, Values
  <2> QED
    BY <1>1, <1>2, <1>4, <2>1, <2>2 DEF Callers
<1> QED
  BY <1>5, <1>6, <1>7 DEF Main

\* Then it gets in, waits uncounted, or fails and says so.
LEMMA OpenStartedMain ==
  ASSUME Main, Typed', NEW p \in Procs, NEW b \in BOOLEAN, NEW s \in BOOLEAN, OpenStarted(p, b, s)
  PROVE  Main'
<1>1. Typed /\ Counts /\ Places /\ Callers
  BY DEF Main
<1>2. /\ pc[p] = "startup" /\ p \notin hung /\ ~hup /\ count > 0 /\ net = "down"
      /\ Lockers = {p} /\ At("startup") = {p}
      /\ UNCHANGED <<closing, tty_count, hung, hup, net>>
      /\ job' = [job EXCEPT !["tty"] = "none"]
  BY <1>1, OpenOutcome
<1>3. PICK x \in {"in", "blocked", "failed"} :
        /\ pc' = [pc EXCEPT ![p] = x]
        /\ blocked_open' = blocked_open + (IF x = "blocked" THEN 1 ELSE 0)
        /\ count' = count - (IF x = "in" THEN 0 ELSE 1)
        /\ IF x = "failed" THEN failed' ELSE UNCHANGED failed
  <2>1. blocked_open + 0 = blocked_open /\ count - 0 = count
    BY <1>1 DEF Typed, Values
  <2> QED
    BY <1>1, <2>1, OpenOutcome
<1>4. Counts'
  <2>1. /\ Cardinality(Counted) \in Nat /\ Cardinality(Counted') \in 0 .. Cardinality(Procs)
        /\ Cardinality(Procs) \in Nat
        /\ Cardinality(Procs \ At("out"))' = Cardinality(Procs \ At("out")) + 1 - 1
        /\ Cardinality(At("blocked"))' = Cardinality(At("blocked")) + (IF x = "blocked" THEN 1 ELSE 0) - 0
        /\ Cardinality(Counted)' = Cardinality(Counted) + (IF x = "in" THEN 1 ELSE 0) - 1
    BY <1>1, <1>2, <1>3, Recount DEF Points
  <2> QED
    BY <1>1, <1>2, <1>3, <2>1 DEF Counts, Typed, Values
<1>5. ~failed => ~closing
  BY <1>1, <1>2 DEF Places, Counted
<1>6. Places'
  BY <1>1, <1>2, <1>3, <1>5 DEF Places, Typed, Values, At, Users, Counted, Closers
<1>7. Callers'
  <2>1. Lockers' = {} /\ At("startup")' = {} /\ At("closing")' = {}
    BY <1>1, <1>2, <1>3 DEF Lockers, At, Typed, Values
  <2>2. job'["tty"] = "none" /\ job'["net"] = job["net"]
    BY <1>1, <1>2 DEF Typed, Jobs, Sides
  <2> QED
    BY <1>1, <1>2, <2>1, <2>2 DEF Callers
<1> QED
  BY <1>4, <1>6, <1>7 DEF Main

\* A waiting open is counted when it gets in.
LEMMA BlockMain ==
  ASSUME Main, Typed', NEW p \in Procs, NEW s \in BOOLEAN, BlockCheck(p, s)
  PROVE  Main'
<1>1. Typed /\ Counts /\ Places /\ Callers
  BY DEF Main
<1>2. /\ pc[p] = "blocked" /\ LockFree
      /\ UNCHANGED <<closing, tty_count, hung, hup, net, job>>
  BY <1>1, BlockOutcome
<1>3. PICK x \in {"in", "blocked", "failed"} :
        /\ pc' = [pc EXCEPT ![p] = x]
        /\ blocked_open' = blocked_open - (IF x = "blocked" THEN 0 ELSE 1)
        /\ count' = count + (IF x = "in" THEN 1 ELSE 0)
        /\ x = "in" => p \notin hung /\ ~closing
        /\ IF x = "failed" THEN ~failed' => ~failed /\ p \in hung ELSE UNCHANGED failed
  <2>1. blocked_open - 0 = blocked_open /\ count + 0 = count
    BY <1>1 DEF Typed, Values
  <2> QED
    BY <1>1, <2>1, BlockOutcome
<1>4. Counts'
  <2>1. /\ Cardinality(Counted) \in Nat /\ Cardinality(Counted') \in 0 .. Cardinality(Procs)
        /\ Cardinality(Procs) \in Nat
        /\ Cardinality(Procs \ At("out"))' = Cardinality(Procs \ At("out")) + 1 - 1
        /\ Cardinality(At("blocked"))' = Cardinality(At("blocked")) + (IF x = "blocked" THEN 1 ELSE 0) - 1
        /\ Cardinality(Counted)' = Cardinality(Counted) + (IF x = "in" THEN 1 ELSE 0) - 0
    BY <1>1, <1>2, <1>3, Recount DEF Points
  <2> QED
    BY <1>1, <1>2, <1>3, <2>1 DEF Counts, Typed, Values, LockFree
<1>5. Places'
  BY <1>1, <1>2, <1>3 DEF Places, LockFree, Typed, Values, At, Users, Counted, Closers
<1>6. Callers'
  <2>1. Lockers' = {} /\ At("startup")' = {} /\ At("closing")' = {} /\ At("startup") = {}
        /\ At("closing") = {} /\ ~hup
    BY <1>1, <1>2, <1>3 DEF LockFree, Lockers, At, Typed, Values
  <2> QED
    BY <1>1, <1>2, <2>1 DEF Callers
<1> QED
  BY <1>4, <1>5, <1>6 DEF Main

\* A close that is not the last counts itself out, unless its file is hung up.
LEMMA CloseOthersMain ==
  ASSUME Main, Typed', NEW p \in Procs, CloseOthers(p)
  PROVE  Main'
<1>1. Typed /\ Counts /\ Places /\ Callers
  BY DEF Main
<1>2. /\ pc[p] \in {"in", "failed"} /\ pc' = [pc EXCEPT ![p] = "out"] /\ LockFree
      /\ tty_count' = tty_count - 1
      /\ UNCHANGED <<hung, hup, blocked_open, closing, net, failed, job>>
  BY DEF CloseOthers, FileReleased, flags, jobs, netv
<1>3. IF p \in hung THEN count' = count ELSE count' = count - 1 /\ count > 0
  BY <1>1 DEF CloseOthers, CloseCount, Typed, Values
<1>4. Counts'
  <2>1. /\ Cardinality(Counted) \in Nat /\ Cardinality(Counted') \in 0 .. Cardinality(Procs)
        /\ Cardinality(Procs) \in Nat
        /\ Cardinality(Procs \ At("out"))' = Cardinality(Procs \ At("out")) + 0 - 1
        /\ Cardinality(At("blocked"))' = Cardinality(At("blocked")) + 0 - 0
        /\ Cardinality(Counted)'
             = Cardinality(Counted) + 0 - (IF pc[p] = "in" /\ p \notin hung THEN 1 ELSE 0)
    BY <1>1, <1>2, Recount DEF Points
  <2>2. ~failed /\ p \notin hung => pc[p] = "in"
    BY <1>1, <1>2 DEF Places, At
  <2> QED
    BY <1>1, <1>2, <1>3, <2>1, <2>2 DEF Counts, Typed, Values, LockFree
<1>5. Places'
  BY <1>1, <1>2 DEF Places, LockFree, Typed, Values, At, Users, Counted, Closers
<1>6. Callers'
  <2>1. Lockers' = {} /\ At("startup")' = {} /\ At("closing")' = {} /\ At("startup") = {}
        /\ At("closing") = {} /\ ~hup
    BY <1>1, <1>2 DEF LockFree, Lockers, At, Typed, Values
  <2> QED
    BY <1>1, <1>2, <2>1 DEF Callers
<1> QED
  BY <1>4, <1>5, <1>6 DEF Main

\* Until an open fails, the last close finds nobody else who uses the port: the
\* count was its own.
LEMMA LastAlone ==
  ASSUME Main, NEW p \in Procs, CloseLast(p), ~failed
  PROVE  pc[p] = "in" /\ p \notin hung /\ Users = {p} /\ Counted = {p} /\ ~closing
<1>1. Typed /\ Counts /\ Places /\ Callers
  BY DEF Main
<1>2. pc[p] \in {"in", "failed"} /\ p \notin hung /\ LockFree
  BY DEF CloseLast
<1>3. tty_count = 1 \/ count <= 1
  BY <1>1 DEF CloseLast, CloseCount, Typed, Values
<1>4. p \in Users
  BY <1>1, <1>2 DEF Places, Users, At
<1>5. At("startup") = {} /\ Counted = Users /\ ~hup
  BY <1>2 DEF LockFree, Counted, At
<1>6. tty_count = 1 => Procs \ At("out") = {p}
  <2> DEFINE S == Procs \ At("out")
  <2>1. S \in SUBSET Procs /\ p \in S /\ tty_count = Cardinality(S)
    BY <1>1, <1>2 DEF Counts, At
  <2> HIDE DEF S
  <2>2. tty_count = 1 => S = {p}
    BY <2>1, Sizes
  <2> QED
    BY <2>2 DEF S
<1>7. p \in Users => Cardinality(Users) # 0
  BY Sizes DEF Users, At
<1>8. count <= 1 => Cardinality(Users) = 1
  BY <1>1, <1>4, <1>5, <1>7 DEF Counts, Typed, Values
<1>9. Cardinality(Users) = 1 /\ p \in Users => Users = {p}
  BY Sizes DEF Users, At
<1>10. Users \subseteq Procs \ At("out")
  BY DEF Users, At
<1>11. Users = {p}
  BY <1>3, <1>4, <1>6, <1>8, <1>9, <1>10
<1>12. ~closing
  BY <1>1, <1>5, <1>11 DEF Places
<1> QED
  BY <1>2, <1>4, <1>5, <1>11, <1>12 DEF Users, At

\* The last close leaves the port to nobody.
LEMMA CloseLastMain ==
  ASSUME Main, Typed', NEW p \in Procs, CloseLast(p)
  PROVE  Main'
<1>1. Typed /\ Counts /\ Places /\ Callers
  BY DEF Main
<1>2. /\ pc[p] \in {"in", "failed"} /\ p \notin hung /\ pc' = [pc EXCEPT ![p] = "draining"]
      /\ count' = 0 /\ closing' /\ LockFree
      /\ UNCHANGED <<tty_count, hung, hup, blocked_open, net, failed, job>>
  BY DEF CloseLast, ttyv, netv, jobs
<1>3. ~failed => Counted = {p} /\ ~closing
  BY LastAlone
<1>4. ~failed => Counted' = {}
  BY <1>1, <1>2, <1>3 DEF Counted, Users, At, Typed, Values
<1>5. Counts'
  <2>1. /\ Cardinality(Counted') \in 0 .. Cardinality(Procs)
        /\ Cardinality(Procs) \in Nat
        /\ Cardinality(Procs \ At("out"))' = Cardinality(Procs \ At("out")) + 1 - 1
        /\ Cardinality(At("blocked"))' = Cardinality(At("blocked")) + 0 - 0
    BY <1>1, <1>2, Recount DEF Points
  <2>2. ~failed => Cardinality(Counted') = 0
    BY <1>4, FS_EmptySet
  <2> QED
    BY <1>1, <1>2, <2>1, <2>2 DEF Counts, Typed, Values
<1>6. Places'
  <2>1. ~failed => Closers' = {p} /\ At("failed")' \subseteq hung
    BY <1>1, <1>2, <1>3 DEF Places, Closers, At, Typed, Values
  <2>2. /\ (At("close_wait")' \cup At("startup")') \cap hung' = {}
        /\ hup' => Procs \ At("out")' \subseteq hung'
    BY <1>1, <1>2 DEF Places, LockFree, At, Typed, Values
  <2> QED
    BY <1>2, <1>4, <2>1, <2>2 DEF Places
<1>7. Callers'
  <2>1. Lockers' = {} /\ At("startup")' = {} /\ At("closing")' = {} /\ At("startup") = {}
        /\ At("closing") = {} /\ ~hup
    BY <1>1, <1>2 DEF LockFree, Lockers, At, Typed, Values
  <2> QED
    BY <1>1, <1>2, <2>1 DEF Callers
<1> QED
  BY <1>5, <1>6, <1>7 DEF Main

\* What shutdown makes of the step of its side.
LEMMA ShutdownJob ==
  ASSUME Typed, NEW s \in Sides, NEW t \in Sides, s # t, Shutdown(s)
  PROVE  /\ IF initialized THEN job'[s] = "free" ELSE job'[s] = "ok"
         /\ job'[s] \in Stopping \cup {"ok"} /\ job'[t] = job[t]
<1>1. (initialized /\ Goto(s, "free")) \/ (~initialized /\ Goto(s, "ok"))
  BY Zenon DEF Shutdown
<1> QED
  BY <1>1 DEF Goto, Typed, Jobs, Stopping

\* The close goes on with the lock.
LEMMA CloseShutdownMain ==
  ASSUME Main, Typed', NEW p \in Procs, CloseShutdown(p)
  PROVE  Main'
<1>1. Typed /\ Counts /\ Places /\ Callers
  BY DEF Main
<1>2. /\ pc[p] = "draining" /\ pc' = [pc EXCEPT ![p] = "closing"] /\ LockFree
      /\ UNCHANGED <<count, closing, tty_count, hung, hup, blocked_open, net, failed>>
  BY DEF CloseShutdown, flags, ttyv, netv
<1>3. Counts'
  <2>1. /\ Cardinality(Counted) \in Nat
        /\ Cardinality(Procs \ At("out"))' = Cardinality(Procs \ At("out")) + 1 - 1
        /\ Cardinality(At("blocked"))' = Cardinality(At("blocked")) + 0 - 0
        /\ Cardinality(Counted)' = Cardinality(Counted) + 0 - 0
    BY <1>1, <1>2, Recount DEF Points
  <2> QED
    BY <1>1, <1>2, <2>1 DEF Counts, Typed, Values
<1>4. Places'
  <2>1. Closers' = Closers /\ Counted' = Counted
    BY <1>1, <1>2 DEF Closers, Counted, Users, At, Typed, Values
  <2>2. /\ At("close_wait")' = At("close_wait") /\ At("startup")' = At("startup")
        /\ At("failed")' = At("failed") /\ At("out")' = At("out")
    BY <1>1, <1>2 DEF At, Typed, Values
  <2> QED
    BY <1>1, <1>2, <2>1, <2>2 DEF Places
<1>5. Callers'
  <2>1. Lockers' = {p} /\ At("startup")' = {} /\ At("closing")' = {p} /\ ~hup
    BY <1>1, <1>2 DEF LockFree, Lockers, At, Typed, Values
  <2>2. job'["tty"] \in Stopping \cup {"ok"} /\ job'["net"] = job["net"]
    BY <1>1, ShutdownJob DEF CloseShutdown, Sides
  <2> QED
    BY <1>1, <1>2, <2>1, <2>2 DEF Callers
<1> QED
  BY <1>3, <1>4, <1>5 DEF Main

\* A close that ends takes nobody's place.
LEMMA CloseEndMain ==
  ASSUME Main, Typed', NEW p \in Procs, CloseEnd(p)
  PROVE  Main' /\ ~hup /\ At("startup") = {} /\ Users' = Users /\ p \in Closers
<1>1. Typed /\ Counts /\ Places /\ Callers
  BY DEF Main
<1>2. /\ pc[p] = "closing" /\ pc' = [pc EXCEPT ![p] = "out"]
      /\ tty_count' = tty_count - 1 /\ closing' = FALSE
      /\ UNCHANGED <<hung, hup, count, blocked_open, net, failed>>
      /\ job' = [job EXCEPT !["tty"] = "none"]
  BY DEF CloseEnd, FileReleased, Return, Goto, netv
<1>3. Lockers = {p} /\ ~hup /\ At("startup") = {} /\ At("closing") = {p}
  <2>1. p \in Lockers
    BY <1>2 DEF Lockers
  <2>2. Lockers = {p} /\ ~hup
    BY <1>1, <2>1 DEF Callers
  <2> QED
    BY <1>2, <2>2 DEF Lockers, At
<1>4. Counts'
  <2>1. /\ Cardinality(Counted) \in Nat
        /\ Cardinality(Procs \ At("out"))' = Cardinality(Procs \ At("out")) + 0 - 1
        /\ Cardinality(At("blocked"))' = Cardinality(At("blocked")) + 0 - 0
        /\ Cardinality(Counted)' = Cardinality(Counted) + 0 - 0
    BY <1>1, <1>2, Recount DEF Points
  <2> QED
    BY <1>1, <1>2, <2>1 DEF Counts, Typed, Values
<1>5. p \in Closers /\ Closers' = Closers \ {p} /\ Counted' = Counted /\ Users' = Users
  BY <1>1, <1>2 DEF Closers, Counted, Users, At, Typed, Values
<1>6. Places'
  <2>1. /\ At("close_wait")' = At("close_wait") /\ At("startup")' = At("startup")
        /\ At("failed")' = At("failed")
    BY <1>1, <1>2 DEF At, Typed, Values
  <2>2. ~failed => Closers' = {}
    BY <1>1, <1>5 DEF Places
  <2> QED
    BY <1>1, <1>2, <1>3, <1>5, <2>1, <2>2 DEF Places
<1>7. Callers'
  <2>1. Lockers' = {} /\ At("startup")' = {} /\ At("closing")' = {}
    BY <1>1, <1>2, <1>3 DEF Lockers, At, Typed, Values
  <2>2. job'["tty"] = "none" /\ job'["net"] = job["net"]
    BY <1>1, <1>2 DEF Typed, Jobs, Sides
  <2> QED
    BY <1>1, <1>2, <1>3, <2>1, <2>2 DEF Callers
<1> QED
  BY <1>3, <1>4, <1>5, <1>6, <1>7 DEF Main

\* A hangup marks every open file ...
LEMMA HangupMain ==
  ASSUME Main, Typed', Hangup
  PROVE  Main'
<1>1. Typed /\ Counts /\ Places /\ Callers
  BY DEF Main
<1>2. /\ LockFree /\ hung' = {p \in Procs : pc[p] # "out"} /\ hup'
      /\ UNCHANGED <<count, blocked_open, closing, tty_count, net, pc, failed>>
  BY DEF Hangup, flags, procv
<1>3. \A x : At(x)' = At(x)
  BY <1>2 DEF At
<1>4. At("startup") = {} /\ At("close_wait") = {} /\ At("closing") = {} /\ Lockers = {} /\ Lockers' = {}
  BY <1>2 DEF LockFree, At, Lockers
<1>5. Users' = {} /\ Counted' = {} /\ Closers' = Closers
  BY <1>2, <1>3, <1>4 DEF Users, Counted, Closers, At
<1>6. Counts'
  BY <1>1, <1>2, <1>3 DEF Counts
<1>7. Places'
  <2>1. At("failed")' \subseteq hung' /\ Procs \ At("out")' \subseteq hung'
    BY <1>2 DEF At
  <2> QED
    BY <1>1, <1>2, <1>3, <1>4, <1>5, <2>1 DEF Places
<1>8. Callers'
  <2>1. job'["tty"] \in Stopping \cup {"ok"} /\ job'["net"] = job["net"]
    BY <1>1, ShutdownJob DEF Hangup, Sides
  <2> QED
    BY <1>1, <1>2, <1>3, <1>4, <2>1 DEF Callers
<1> QED
  BY <1>6, <1>7, <1>8 DEF Main

\* ... and leaves the count at zero.
LEMMA HangupEndMain ==
  ASSUME Main, Typed', HangupEnd
  PROVE  Main' /\ Counted' = {}
<1>1. Typed /\ Counts /\ Places /\ Callers
  BY DEF Main
<1>2. /\ hup /\ ~hup' /\ count' = 0 /\ job' = [job EXCEPT !["tty"] = "none"]
      /\ UNCHANGED <<hung, blocked_open, closing, tty_count, net, pc, failed>>
  BY DEF HangupEnd, Return, Goto, netv
<1>3. (\A x : At(x)' = At(x)) /\ Lockers' = Lockers
  BY <1>2 DEF At, Lockers
<1>4. Lockers = {} /\ At("startup") = {} /\ At("closing") = {}
  BY <1>1, <1>2 DEF Callers, At, Lockers
<1>5. Counted' = {} /\ Closers' = Closers
  <2>1. At("in") \subseteq hung
    BY <1>1, <1>2 DEF Places, At
  <2> QED
    BY <1>2, <1>3, <1>4, <2>1 DEF Counted, Users, Closers
<1>6. Counts'
  <2>1. Cardinality(Counted') = 0 /\ Cardinality(Procs) \in Nat
    BY <1>5, FS_EmptySet, FS_CardinalityType, PortAssumption
  <2> QED
    BY <1>1, <1>2, <1>3, <2>1 DEF Counts
<1>7. Places'
  BY <1>1, <1>2, <1>3, <1>5 DEF Places
<1>8. Callers'
  <2>1. job'["tty"] = "none" /\ job'["net"] = job["net"]
    BY <1>1, <1>2 DEF Typed, Jobs, Sides
  <2> QED
    BY <1>1, <1>2, <1>3, <1>4, <2>1 DEF Callers
<1> QED
  BY <1>5, <1>6, <1>7, <1>8 DEF Main

\* A step of startup leads on in startup, or to its end; one of shutdown likewise.
LEMMA WorkingJob ==
  ASSUME Typed, NEW s \in Sides, NEW t \in Sides, s # t, Working(s)
  PROVE  /\ \/ job[s] \in Starting /\ job'[s] \in Starting \cup {"ok", "error"}
            \/ job[s] \in Stopping /\ job'[s] \in Stopping \cup {"ok"}
         /\ job'[t] = job[t]
         /\ job'[s] = "ok" => (initialized' <=> job[s] \in Starting)
         /\ job'[s] # "ok" => initialized' = initialized
         /\ UNCHANGED <<count, blocked_open, closing, tty_count, hung, hup, net, contended, crossed, pc, failed>>
<1>0. job \in [Sides -> {"none", "ok", "error"} \cup Starting \cup Stopping]
  BY DEF Typed, Jobs
<1>1. UNCHANGED <<count, blocked_open, closing, tty_count, hung, hup, net, contended, crossed, pc, failed>>
  <2>1. RestUnchanged
    BY DEF Working, ClaimMade, ClaimFailed, Undo, Run, Free, Release, Clear
  <2> QED
    BY <2>1 DEF RestUnchanged, netv, procv
<1>2. \/ job[s] = "claim" /\ (UNCHANGED job \/ Goto(s, "run") \/ Goto(s, "undo") \/ Goto(s, "error"))
         /\ UNCHANGED initialized
      \/ job[s] = "undo" /\ Goto(s, "error") /\ UNCHANGED initialized
      \/ job[s] = "run" /\ Goto(s, "ok") /\ initialized' = TRUE
      \/ job[s] = "free" /\ Goto(s, "release") /\ UNCHANGED initialized
      \/ job[s] = "release" /\ Goto(s, "clear") /\ UNCHANGED initialized
      \/ job[s] = "clear" /\ Goto(s, "ok") /\ initialized' = FALSE
  BY Zenon DEF Working, ClaimMade, ClaimFailed, Undo, Run, Free, Release, Clear
<1>3. ASSUME NEW x, Goto(s, x)
      PROVE  job'[s] = x /\ job'[t] = job[t]
  BY <1>0, <1>3 DEF Goto
<1>4. \/ job[s] = "claim" /\ job'[s] \in {"claim", "run", "undo", "error"} /\ initialized' = initialized
      \/ job[s] = "undo" /\ job'[s] = "error" /\ initialized' = initialized
      \/ job[s] = "run" /\ job'[s] = "ok" /\ initialized'
      \/ job[s] = "free" /\ job'[s] = "release" /\ initialized' = initialized
      \/ job[s] = "release" /\ job'[s] = "clear" /\ initialized' = initialized
      \/ job[s] = "clear" /\ job'[s] = "ok" /\ ~initialized'
  BY <1>2, <1>3
<1>5. job'[t] = job[t]
  BY <1>2, <1>3
<1> QED
  BY <1>1, <1>4, <1>5 DEF Starting, Stopping

\* Startup and shutdown leave the counts alone.
LEMMA WorkingMain ==
  ASSUME Main, Typed', NEW s \in Sides, Working(s)
  PROVE  Main'
<1>1. Typed /\ Counts /\ Places /\ Callers
  BY DEF Main
<1>2. PICK t \in Sides : s # t /\ Sides = {s, t}
  BY DEF Sides
<1>3. /\ \/ job[s] \in Starting /\ job'[s] \in Starting \cup {"ok", "error"}
         \/ job[s] \in Stopping /\ job'[s] \in Stopping \cup {"ok"}
      /\ job'[t] = job[t]
      /\ UNCHANGED <<count, blocked_open, closing, tty_count, hung, hup, net, pc, failed>>
  BY <1>1, <1>2, WorkingJob
<1>4. (\A x : At(x)' = At(x)) /\ Lockers' = Lockers /\ Users' = Users /\ Counted' = Counted /\ Closers' = Closers
  BY <1>3 DEF At, Lockers, Users, Counted, Closers
<1>5. Counts' /\ Places'
  BY <1>1, <1>3, <1>4 DEF Counts, Places
<1>6. Callers'
  <2>1. CASE s = "tty" /\ t = "net"
    BY <1>1, <1>3, <1>4, <2>1 DEF Callers, Starting, Stopping
  <2>2. CASE s = "net" /\ t = "tty"
    BY <1>1, <1>3, <1>4, <2>2 DEF Callers, Starting, Stopping
  <2> QED
    BY <1>2, <2>1, <2>2 DEF Sides
<1> QED
  BY <1>5, <1>6 DEF Main

\* What the network interface does, and what it leaves alone.
LEMMA NetworkOutcome ==
  ASSUME Typed, Callers, Network
  PROVE  /\ UNCHANGED <<count, blocked_open, initialized, closing, tty_count, hung, hup, pc, failed>>
         /\ job'["tty"] = job["tty"]
         /\ \/ /\ NetClaim /\ net = "down" /\ net' = "claimed" /\ count = 0 /\ crossed' = crossed
               /\ IF initialized THEN job'["net"] = "ok" ELSE job'["net"] = "claim"
               /\ ~contended' => ~contended /\ ~(blocked_open > 0) /\ ~closing
            \/ /\ NetStarted /\ net = "claimed" /\ job'["net"] = "none" /\ UNCHANGED <<contended, crossed>>
               /\ \/ job["net"] = "ok" /\ net' = "up"
                  \/ job["net"] = "error" /\ net' = "down"
            \/ /\ NetShutdown /\ net = "up" /\ net' = "closing" /\ contended' = contended
               /\ IF initialized THEN job'["net"] = "free" ELSE job'["net"] = "ok"
               /\ crossed' => crossed \/ job["tty"] \in Stopping
            \/ /\ NetRelease /\ net = "closing" /\ net' = "down" /\ job["net"] = "ok"
               /\ job'["net"] = "none" /\ UNCHANGED <<contended, crossed>>
<1>0. job \in [Sides -> {"none", "ok", "error"} \cup Starting \cup Stopping]
  BY DEF Typed, Jobs
<1>1. UNCHANGED <<count, blocked_open, initialized, closing, tty_count, hung, hup, pc, failed>>
  BY DEF Network, NetClaim, NetStarted, NetShutdown, NetRelease, flags, ttyv, procv
<1>2. ASSUME NEW x, Goto("net", x)
      PROVE  job'["net"] = x /\ job'["tty"] = job["tty"]
  BY <1>0, <1>2 DEF Goto, Sides
<1>3. CASE NetClaim
  <2>1. (initialized /\ Goto("net", "ok")) \/ (~initialized /\ Goto("net", "claim"))
    BY <1>3, Zenon DEF NetClaim, Startup
  <2>2. ~contended' => ~contended /\ ~(blocked_open > 0) /\ ~closing
    BY <1>3, Zenon DEF NetClaim
  <2>3. net = "down" /\ net' = "claimed" /\ count = 0 /\ crossed' = crossed
    BY <1>3 DEF NetClaim, Startup
  <2> QED
    BY <1>1, <1>2, <1>3, <2>1, <2>2, <2>3
<1>4. CASE NetStarted
  BY <1>1, <1>2, <1>4 DEF NetStarted, Return
<1>5. CASE NetShutdown
  <2>1. (initialized /\ Goto("net", "free")) \/ (~initialized /\ Goto("net", "ok"))
    BY <1>5, Zenon DEF NetShutdown, Shutdown
  <2>2. crossed' => crossed \/ \E t \in Sides \ {"net"} : job[t] \in Stopping
    BY <1>5, Zenon DEF NetShutdown, Shutdown
  <2>3. crossed' => crossed \/ job["tty"] \in Stopping
    BY <2>2 DEF Sides
  <2>4. net = "up" /\ net' = "closing" /\ contended' = contended
    BY <1>5 DEF NetShutdown
  <2> QED
    BY <1>1, <1>2, <1>5, <2>1, <2>3, <2>4
<1>6. CASE NetRelease
  BY <1>1, <1>2, <1>6 DEF NetRelease, Return
<1> QED
  BY <1>3, <1>4, <1>5, <1>6 DEF Network

\* The network interface leaves the counts alone, and stays away from a counted port.
LEMMA NetworkMain ==
  ASSUME Main, Typed', Network
  PROVE  Main'
<1>1. Typed /\ Counts /\ Places /\ Callers
  BY DEF Main
<1>2. UNCHANGED <<count, blocked_open, initialized, closing, tty_count, hung, hup, pc, failed>>
  BY <1>1, NetworkOutcome
<1>3. (\A x : At(x)' = At(x)) /\ Lockers' = Lockers /\ Users' = Users /\ Counted' = Counted /\ Closers' = Closers
  BY <1>2 DEF At, Lockers, Users, Counted, Closers
<1>4. Counts' /\ Places'
  BY <1>1, <1>2, <1>3 DEF Counts, Places
<1>5. /\ job'["tty"] = job["tty"]
      /\ \/ net' = "claimed" /\ job'["net"] \in {"ok", "claim"} /\ count = 0
         \/ net # "down" /\ net' \in {"up", "down"} /\ job'["net"] = "none"
         \/ net # "down" /\ net' = "closing" /\ job'["net"] \in {"free", "ok"}
  BY <1>1, NetworkOutcome
<1>6. At("startup") # {} => count > 0 /\ net = "down"
  BY <1>1 DEF Callers
<1>7. Callers'
  BY <1>1, <1>2, <1>3, <1>5, <1>6 DEF Callers, Starting, Stopping
<1> QED
  BY <1>4, <1>7 DEF Main

\* The counts, and who may be in startup and shutdown, hold in every state.
LEMMA MainStep ==
  ASSUME Main, [Next]_vars
  PROVE  Main'
<1>1. Typed'
  BY FlagsStep, ValuesStep, JobsStep DEF Main, Typed
<1>2. ASSUME NEW p \in Procs, Opening(p) \/ Waiting(p)
      PROVE  Main'
  BY <1>1, <1>2, OpenClosingMain, OpenFailsMain, OpenMain, OpenStartedMain, BlockMain DEF Opening, Waiting
<1>3. ASSUME NEW p \in Procs, Closing(p)
      PROVE  Main'
  BY <1>1, <1>3, CloseOthersMain, CloseLastMain, CloseShutdownMain, CloseEndMain DEF Closing
<1>4. CASE CarrierChange \/ UNCHANGED vars
  <2>1. UNCHANGED <<count, blocked_open, closing, tty_count, hung, hup, net, pc, failed, job>>
    BY <1>4, Zenon DEF CarrierChange, vars, flags, jobs, ttyv, netv, procv
  <2> QED
    BY <1>1, <2>1 DEF Main, Counts, Places, Callers, At, Lockers, Users, Counted, Closers
<1> QED
  BY <1>1, <1>2, <1>3, <1>4, WorkingMain, NetworkMain, HangupMain, HangupEndMain DEF Next

-----------------------------------------------------------------------------
\* Until an open fails or a contended port, a shutdown of the tty side finds no
\* network interface, and one of the network interface nobody else.
LEMMA TtyStopping ==
  ASSUME Main, Arbitrated, ~failed, ~contended, job["tty"] \in Stopping
  PROVE  net = "down" /\ Users = {} /\ At("startup") = {}
         /\ (hup \/ At("closing") # {}) /\ (~hup => closing)
<1>1. hup \/ At("closing") # {}
  BY DEF Main, Callers, Starting, Stopping
<1>2. At("startup") = {}
  BY <1>1 DEF Main, Callers, Starting, Stopping
<1>3. CASE hup
  <2>1. Users = {}
    BY <1>3 DEF Main, Places, Users, At
  <2> QED
    BY <1>1, <1>2, <1>3, <2>1 DEF Arbitrated
<1>4. CASE At("closing") # {}
  <2>1. Closers # {}
    BY <1>4 DEF Closers
  <2>2. closing /\ Counted = {}
    BY <2>1 DEF Main, Places
  <2> QED
    BY <1>1, <1>2, <2>1, <2>2 DEF Arbitrated, Counted
<1> QED
  BY <1>1, <1>3, <1>4

\* Startup and shutdown bring the port to where their callers expect it.
LEMMA WorkingArbitrated ==
  ASSUME Main, Stages, Arbitrated, NEW s \in Sides, Working(s)
  PROVE  Arbitrated'
<1>1. Typed /\ Callers
  BY DEF Main
<1>2. PICK t \in Sides : s # t /\ Sides = {s, t}
  BY DEF Sides
<1>3. /\ \/ job[s] \in Starting /\ job'[s] \in Starting \cup {"ok", "error"}
         \/ job[s] \in Stopping /\ job'[s] \in Stopping \cup {"ok"}
      /\ job'[t] = job[t]
      /\ job'[s] = "ok" => (initialized' <=> job[s] \in Starting)
      /\ job'[s] # "ok" => initialized' = initialized
      /\ UNCHANGED <<count, blocked_open, closing, tty_count, hung, hup, net, contended, crossed, pc, failed>>
  BY <1>1, <1>2, WorkingJob
<1>4. (\A x : At(x)' = At(x)) /\ Users' = Users /\ Counted' = Counted /\ Closers' = Closers
  BY <1>3 DEF At, Users, Counted, Closers
<1>5. SUFFICES ASSUME ~failed, ~contended PROVE Arbitrated'
  BY <1>3 DEF Arbitrated
<1>6. ~crossed /\ (job[s] \in Starting => ~initialized) /\ (job[s] \in Stopping => initialized)
  BY <1>5 DEF Stages, Arbitrated
<1>7. CASE s = "tty" /\ t = "net"
  <2>1. CASE job["tty"] \in Starting
    <3>1. /\ job'["tty"] \in Starting \cup {"ok", "error"} /\ job'["tty"] \notin Stopping
          /\ job'["tty"] = "ok" => initialized'
          /\ job'["tty"] # "ok" => ~initialized'
      BY <1>3, <1>6, <1>7, <2>1 DEF Starting, Stopping
    <3>2. At("startup") # {} /\ ~hup /\ At("closing") = {} /\ net = "down"
      BY <1>1, <2>1 DEF Callers, Starting, Stopping
    <3>3. Counted # {} /\ (Users # {} => initialized)
      BY <1>5, <3>2 DEF Counted, Arbitrated
    <3> QED
      BY <1>3, <1>4, <1>5, <1>6, <1>7, <2>1, <3>1, <3>2, <3>3 DEF Arbitrated
  <2>2. CASE job["tty"] \in Stopping
    <3>1. /\ job'["tty"] \in Stopping \cup {"ok"}
          /\ job'["tty"] = "ok" => ~initialized'
          /\ job'["tty"] # "ok" => initialized'
      BY <1>3, <1>6, <1>7, <2>2 DEF Starting, Stopping
    <3>2. net = "down" /\ Users = {} /\ At("startup") = {} /\ (hup \/ At("closing") # {}) /\ (~hup => closing)
      BY <1>5, <2>2, TtyStopping
    <3>3. /\ initialized
          /\ hup => count > 0 \/ blocked_open > 0 \/ closing
          /\ Closers # {} \/ hup
      BY <1>5, <1>6, <1>7, <2>2, <3>2 DEF Arbitrated, Closers
    <3> QED
      BY <1>3, <1>4, <1>5, <1>6, <3>1, <3>2, <3>3 DEF Arbitrated
  <2> QED
    BY <1>3, <1>7, <2>1, <2>2
<1>8. CASE s = "net" /\ t = "tty"
  <2>1. net = "claimed" \/ net = "closing"
    BY <1>1, <1>3, <1>8 DEF Callers, Starting, Stopping, Typed, Values
  <2>2. At("blocked") = {} /\ Closers = {} /\ Users = {} /\ At("startup") = {}
    BY <1>1, <1>5, <2>1 DEF Arbitrated, Callers
  <2>3. job["tty"] \notin Stopping
    BY <1>5, <2>1, TtyStopping
  <2>4. /\ net = "claimed" => job["net"] \in Starting
        /\ net = "closing" => job["net"] \in Stopping
    BY <1>1, <1>3, <1>8, <2>1 DEF Callers, Starting, Stopping
  <2>5. /\ net = "claimed" /\ job'["net"] = "ok" => initialized'
        /\ net = "claimed" /\ job'["net"] = "error" => ~initialized'
        /\ net = "closing" /\ job'["net"] = "ok" => ~initialized'
    BY <1>3, <1>6, <1>8, <2>4 DEF Starting, Stopping
  <2> QED
    BY <1>3, <1>4, <1>5, <1>6, <1>8, <2>1, <2>2, <2>3, <2>5 DEF Arbitrated
<1> QED
  BY <1>2, <1>7, <1>8 DEF Sides

\* The network interface claims a port that does not run: nobody has it, or its
\* shutdown is over.
LEMMA NetworkArbitrated ==
  ASSUME Main, Arbitrated, Network
  PROVE  Arbitrated'
<1>1. Typed /\ Counts /\ Places /\ Callers
  BY DEF Main
<1>2. /\ UNCHANGED <<count, blocked_open, initialized, closing, tty_count, hung, hup, pc, failed>>
      /\ job'["tty"] = job["tty"]
  BY <1>1, NetworkOutcome
<1>3. (\A x : At(x)' = At(x)) /\ Users' = Users /\ Counted' = Counted /\ Closers' = Closers
  BY <1>2 DEF At, Users, Counted, Closers
<1>4. CASE NetClaim
  <2>1. /\ net = "down" /\ net' = "claimed" /\ count = 0 /\ crossed' = crossed
        /\ IF initialized THEN job'["net"] = "ok" ELSE job'["net"] = "claim"
        /\ ~contended' => ~contended /\ ~(blocked_open > 0) /\ ~closing
    BY <1>1, <1>4, NetworkOutcome DEF NetStarted, NetShutdown, NetRelease, NetClaim
  <2>2. SUFFICES ASSUME ~failed, ~contended', ~contended, ~(blocked_open > 0), ~closing PROVE Arbitrated'
    BY <1>2, <2>1 DEF Arbitrated
  <2>3. At("blocked") = {}
    <3>1. At("blocked") \in SUBSET Procs
      BY DEF At
    <3>2. blocked_open \in Nat
      BY <1>1, <3>1, FS_Subset, FS_CardinalityType, PortAssumption DEF Counts
    <3> QED
      BY <1>1, <2>2, <3>1, <3>2, FS_Subset, FS_EmptySet, PortAssumption DEF Counts
  <2>4. Closers = {} /\ At("closing") = {}
    BY <1>1, <2>2 DEF Places, Closers
  <2>5. Counted = {}
    <3>1. CASE hup
      BY <1>1, <3>1 DEF Places, Callers, Counted, Users, At, Lockers
    <3>2. CASE ~hup
      <4>1. Counted \in SUBSET Procs
        BY DEF Counted, Users, At
      <4> QED
        BY <1>1, <2>1, <2>2, <3>2, <4>1, FS_Subset, FS_EmptySet, PortAssumption DEF Counts
    <3> QED
      BY <3>1, <3>2
  <2>6. ~(hup /\ job["tty"] \in Stopping)
    BY <2>1, <2>2 DEF Arbitrated
  <2>7. ~initialized
    <3>1. ~hup => ~initialized
      BY <2>1, <2>2, <2>3, <2>4, <2>5 DEF Arbitrated
    <3>2. hup => job["tty"] = "ok"
      BY <1>1, <2>6 DEF Callers
    <3> QED
      BY <2>1, <2>2, <3>1, <3>2 DEF Arbitrated
  <2>8. Users = {} /\ At("startup") = {}
    BY <2>5 DEF Counted
  <2>9. job'["net"] = "claim" /\ ~crossed
    BY <2>1, <2>2, <2>7 DEF Arbitrated
  <2> QED
    BY <1>2, <1>3, <2>1, <2>3, <2>4, <2>6, <2>7, <2>8, <2>9 DEF Arbitrated
<1>5. CASE ~NetClaim
  <2>1. /\ net # "down" /\ contended' = contended
        /\ \/ /\ net = "claimed" /\ job'["net"] = "none" /\ crossed' = crossed
              /\ \/ job["net"] = "ok" /\ net' = "up"
                 \/ job["net"] = "error" /\ net' = "down"
           \/ /\ net = "up" /\ net' = "closing"
              /\ IF initialized THEN job'["net"] = "free" ELSE job'["net"] = "ok"
              /\ crossed' => crossed \/ job["tty"] \in Stopping
           \/ /\ net = "closing" /\ net' = "down" /\ job["net"] = "ok"
              /\ job'["net"] = "none" /\ crossed' = crossed
    BY <1>1, <1>5, NetworkOutcome
  <2>2. SUFFICES ASSUME ~failed, ~contended PROVE Arbitrated'
    BY <1>2, <2>1 DEF Arbitrated
  <2>3. At("blocked") = {} /\ Closers = {} /\ Users = {} /\ At("startup") = {} /\ At("closing") = {}
    BY <1>1, <2>1, <2>2 DEF Arbitrated, Callers, Closers
  <2>4. job["tty"] \notin Stopping
    BY <2>1, <2>2, TtyStopping
  <2>5. ~crossed'
    BY <2>1, <2>2, <2>4 DEF Arbitrated
  <2>6. /\ net' = "down" => ~initialized
        /\ net' \in {"up", "closing"} => initialized
    BY <2>1, <2>2 DEF Arbitrated
  <2>7. /\ net' \in {"up", "down", "closing"}
        /\ net' = "closing" => job'["net"] = "free"
    BY <2>1, <2>6
  <2> QED
    BY <1>2, <1>3, <2>3, <2>4, <2>5, <2>6, <2>7 DEF Arbitrated
<1> QED
  BY <1>4, <1>5

\* r56_open: who comes to a port that others use finds it running.
LEMMA OpeningArbitrated ==
  ASSUME Main, Main', Arbitrated, NEW p \in Procs, Opening(p)
  PROVE  Arbitrated'
<1>1. Typed /\ Counts /\ Places /\ Callers /\ Typed'
  BY DEF Main
<1>2. CASE OpenClosing(p)
  <2>1. /\ pc[p] = "out" /\ pc' = [pc EXCEPT ![p] = "close_wait"]
        /\ hung' = hung \ {p}
        /\ UNCHANGED <<count, blocked_open, initialized, closing, hup, net, contended, crossed, failed, job>>
    BY <1>2 DEF OpenClosing, FileOpened, jobs, netv
  <2>2. /\ At("blocked")' = At("blocked") /\ At("startup")' = At("startup") /\ Closers' = Closers
        /\ At("closing")' = At("closing")
        /\ Users' = Users /\ Counted' = Counted /\ (At("blocked") \ hung)' = At("blocked") \ hung
    BY <1>1, <2>1 DEF At, Users, Counted, Closers, Typed, Values
  <2> QED
    BY <2>1, <2>2 DEF Arbitrated
<1>3. CASE OpenInterrupted(p) \/ OpenBusy(p)
  <2>1. failed'
    BY <1>1, <1>3, OpenFailsMain
  <2> QED
    BY <2>1 DEF Arbitrated
<1>4. CASE Open(p)
  <2>1. /\ pc[p] = "out" /\ pc' = [pc EXCEPT ![p] = "startup"] /\ LockFree /\ net = "down"
        /\ hung' = hung \ {p} /\ count' = count + 1
        /\ UNCHANGED <<blocked_open, initialized, closing, hup, net, contended, failed>>
    BY <1>4 DEF Open, FileOpened, netv
  <2>2. /\ crossed' = crossed /\ job'["net"] = job["net"]
        /\ \/ count = 0 /\ initialized /\ job'["tty"] = "ok"
           \/ count = 0 /\ ~initialized /\ job'["tty"] = "claim"
           \/ count # 0 /\ job'["tty"] = "ok"
    <3>1. /\ crossed' = crossed
          /\ \/ count = 0 /\ initialized /\ Goto("tty", "ok")
             \/ count = 0 /\ ~initialized /\ Goto("tty", "claim")
             \/ count # 0 /\ Goto("tty", "ok")
      BY <1>4, Zenon DEF Open, Startup
    <3> QED
      BY <1>1, <3>1 DEF Goto, Typed, Jobs, Sides
  <2>3. /\ At("startup")' = {p} /\ At("closing")' = {} /\ ~hup /\ At("startup") = {}
        /\ Users' = Users /\ Counted' = Counted \cup {p} /\ Counted = Users
    BY <1>1, <2>1 DEF LockFree, At, Users, Counted, Typed, Values
  <2>4. SUFFICES ASSUME ~failed, ~contended PROVE Arbitrated'
    BY <2>1 DEF Arbitrated
  <2>5. count # 0 => initialized
    <3>1. count # 0 => Users # {}
      BY <1>1, <2>3, <2>4, FS_EmptySet DEF Counts
    <3> QED
      BY <2>4, <3>1 DEF Arbitrated
  <2> QED
    BY <2>1, <2>2, <2>3, <2>4, <2>5 DEF Arbitrated
<1>5. ASSUME NEW b \in BOOLEAN, NEW s \in BOOLEAN, OpenStarted(p, b, s)
      PROVE  Arbitrated'
  <2>1. /\ pc[p] = "startup" /\ p \notin hung /\ ~hup /\ net = "down" /\ At("startup") = {p}
        /\ job["tty"] \in {"ok", "error"}
        /\ UNCHANGED <<initialized, closing, hung, hup, net, contended, crossed>>
        /\ job' = [job EXCEPT !["tty"] = "none"]
        /\ \/ /\ pc' = [pc EXCEPT ![p] = "in"] /\ job["tty"] = "ok" /\ UNCHANGED failed
           \/ /\ pc' = [pc EXCEPT ![p] = "blocked"] /\ job["tty"] = "ok" /\ UNCHANGED failed
           \/ failed'
    BY <1>1, <1>5, OpenOutcome
  <2>2. SUFFICES ASSUME ~failed', ~contended, ~failed, job["tty"] = "ok",
                        pc' = [pc EXCEPT ![p] = "in"] \/ pc' = [pc EXCEPT ![p] = "blocked"]
                 PROVE  Arbitrated'
    BY <2>1 DEF Arbitrated
  <2>3. initialized /\ ~crossed
    BY <2>1, <2>2 DEF Arbitrated
  <2>4. /\ p \in Counted' \/ p \in At("blocked")' \ hung'
        /\ At("startup")' = {} /\ At("closing")' = At("closing")
    BY <1>1, <2>1, <2>2 DEF Counted, Users, At, Typed, Values
  <2>5. job'["tty"] = "none"
    BY <1>1, <2>1 DEF Typed, Jobs, Sides
  <2> QED
    BY <2>1, <2>2, <2>3, <2>4, <2>5 DEF Arbitrated, Stopping
<1> QED
  BY <1>2, <1>3, <1>4, <1>5 DEF Opening

\* A waiting open gets in on a port that runs, and only there.
LEMMA WaitingArbitrated ==
  ASSUME Main, Main', Arbitrated, NEW p \in Procs, Waiting(p)
  PROVE  Arbitrated'
<1>1. Typed /\ Counts /\ Places /\ Callers /\ Typed'
  BY DEF Main
<1>2. PICK s \in BOOLEAN : BlockCheck(p, s)
  BY DEF Waiting
<1>3. /\ pc[p] = "blocked" /\ LockFree
      /\ UNCHANGED <<initialized, closing, held, tty_count, hung, hup, net, contended, crossed, job>>
      /\ \/ /\ pc' = [pc EXCEPT ![p] = "in"] /\ p \notin hung /\ initialized /\ UNCHANGED failed
         \/ pc' = [pc EXCEPT ![p] = "blocked"] /\ UNCHANGED failed
         \/ pc' = [pc EXCEPT ![p] = "failed"] /\ (~failed' => ~failed /\ p \in hung)
  BY <1>1, <1>2, BlockOutcome
<1>4. SUFFICES ASSUME ~failed', ~contended, ~failed PROVE Arbitrated'
  BY <1>3 DEF Arbitrated
<1>5. net = "down" /\ ~crossed
  BY <1>3, <1>4 DEF Arbitrated, At
<1>6. /\ At("startup")' = {} /\ At("closing")' = {} /\ ~hup /\ job'["tty"] = "none" /\ Closers' = Closers
      /\ At("startup") = {}
  BY <1>1, <1>3 DEF LockFree, Callers, Closers, At, Typed, Values
<1>7. CASE pc' = [pc EXCEPT ![p] = "in"] /\ p \notin hung /\ initialized
  <2>1. p \in Counted'
    BY <1>1, <1>3, <1>7 DEF Counted, Users, At, Typed, Values
  <2> QED
    BY <1>3, <1>4, <1>5, <1>6, <1>7, <2>1 DEF Arbitrated, Stopping
<1>8. CASE pc' = [pc EXCEPT ![p] = "blocked"] \/ (pc' = [pc EXCEPT ![p] = "failed"] /\ p \in hung)
  <2>1. Users' = Users /\ Counted' = Counted /\ (At("blocked") \ hung)' = At("blocked") \ hung
    BY <1>1, <1>3, <1>8 DEF Users, Counted, At, Typed, Values
  <2> QED
    BY <1>3, <1>4, <1>5, <1>6, <2>1 DEF Arbitrated, Stopping
<1> QED
  BY <1>3, <1>4, <1>7, <1>8

\* A close leaves the port running for those who remain, and to nobody if it is
\* the last.
LEMMA ClosingArbitrated ==
  ASSUME Main, Main', Arbitrated, NEW p \in Procs, Closing(p)
  PROVE  Arbitrated'
<1>1. Typed /\ Counts /\ Places /\ Callers /\ Typed' /\ Counts' /\ Places'
  BY DEF Main
<1>2. CASE CloseOthers(p)
  <2>1. /\ pc[p] \in {"in", "failed"} /\ pc' = [pc EXCEPT ![p] = "out"] /\ LockFree
        /\ p \in hung \/ count' > 0
        /\ UNCHANGED <<hung, hup, blocked_open, initialized, closing, net, contended, crossed, failed, job>>
    BY <1>2 DEF CloseOthers, FileReleased, flags, jobs, netv
  <2>2. SUFFICES ASSUME ~failed, ~contended PROVE Arbitrated'
    BY <2>1 DEF Arbitrated
  <2>3. /\ At("startup")' = {} /\ At("closing")' = {} /\ ~hup /\ job'["tty"] = "none" /\ Closers' = Closers
        /\ At("startup") = {} /\ At("blocked")' = At("blocked") /\ Users' \subseteq Users
    BY <1>1, <2>1 DEF LockFree, Callers, Closers, Users, At, Typed, Values
  <2>4. p \in hung => Counted' = Counted
    BY <1>1, <2>1 DEF Counted, Users, At, Typed, Values
  <2>5. count' > 0 => Counted' # {}
    BY <1>1, <2>1, <2>2, <2>3, FS_EmptySet DEF Counts
  <2> QED
    BY <2>1, <2>2, <2>3, <2>4, <2>5 DEF Arbitrated, Stopping
<1>3. CASE CloseLast(p)
  <2>1. /\ pc' = [pc EXCEPT ![p] = "draining"] /\ LockFree
        /\ UNCHANGED <<hung, hup, blocked_open, initialized, net, contended, crossed, failed, job>>
    BY <1>3 DEF CloseLast, ttyv, netv, jobs
  <2>2. SUFFICES ASSUME ~failed, ~contended PROVE Arbitrated'
    BY <2>1 DEF Arbitrated
  <2>3. Users = {p}
    BY <1>3, <2>2, LastAlone
  <2>4. net = "down" /\ ~crossed
    BY <2>2, <2>3 DEF Arbitrated
  <2>5. /\ Users' = {} /\ p \in Closers' /\ At("startup")' = {} /\ ~hup /\ job'["tty"] = "none"
        /\ At("closing")' = {}
    BY <1>1, <2>1, <2>3 DEF LockFree, Callers, Closers, Users, At, Typed, Values
  <2> QED
    BY <2>1, <2>4, <2>5 DEF Arbitrated, Stopping
<1>4. CASE CloseShutdown(p)
  <2>1. /\ pc[p] = "draining" /\ pc' = [pc EXCEPT ![p] = "closing"] /\ LockFree /\ Shutdown("tty")
        /\ UNCHANGED <<hung, hup, blocked_open, initialized, net, contended, failed>>
    BY <1>4 DEF CloseShutdown, flags, ttyv, netv
  <2>2. SUFFICES ASSUME ~failed, ~contended PROVE Arbitrated'
    BY <2>1 DEF Arbitrated
  <2>3. p \in Closers /\ closing /\ Counted = {}
    BY <1>1, <2>1, <2>2 DEF Closers, Places, At
  <2>4. net = "down" /\ job["net"] = "none" /\ ~crossed
    BY <1>1, <2>2, <2>3 DEF Arbitrated, Callers
  <2>5. /\ IF initialized THEN job'["tty"] = "free" ELSE job'["tty"] = "ok"
        /\ job'["net"] = job["net"]
    BY <1>1, <2>1, ShutdownJob DEF Sides
  <2>6. ~crossed'
    <3>1. crossed' => crossed \/ \E t \in Sides \ {"tty"} : job[t] \in Stopping
      BY <2>1, Zenon DEF Shutdown
    <3> QED
      BY <2>4, <3>1 DEF Sides, Stopping
  <2>7. Users' = {} /\ p \in Closers' /\ At("startup")' = {} /\ ~hup
    BY <1>1, <2>1, <2>3 DEF LockFree, Closers, Counted, Users, At, Typed, Values
  <2> QED
    BY <2>1, <2>4, <2>5, <2>6, <2>7 DEF Arbitrated
<1>5. CASE CloseEnd(p)
  <2>1. /\ pc[p] = "closing" /\ pc' = [pc EXCEPT ![p] = "out"] /\ job["tty"] = "ok"
        /\ UNCHANGED <<hung, hup, blocked_open, initialized, net, contended, crossed, failed>>
        /\ job' = [job EXCEPT !["tty"] = "none"]
    BY <1>5 DEF CloseEnd, FileReleased, Return, Goto, netv
  <2>2. ~hup /\ At("startup") = {} /\ Users' = Users /\ p \in Closers
    BY <1>1, <1>5, CloseEndMain
  <2>3. SUFFICES ASSUME ~failed, ~contended PROVE Arbitrated'
    BY <2>1 DEF Arbitrated
  <2>4. net = "down" /\ ~initialized /\ ~crossed
    BY <2>1, <2>2, <2>3 DEF Arbitrated, At
  <2>5. Users = {}
    BY <2>3, <2>4 DEF Arbitrated
  <2>6. At("startup")' = {} /\ job'["tty"] = "none"
    BY <1>1, <2>1, <2>2 DEF At, Typed, Values, Jobs, Sides
  <2> QED
    BY <2>1, <2>2, <2>4, <2>5, <2>6 DEF Arbitrated, Stopping
<1> QED
  BY <1>2, <1>3, <1>4, <1>5 DEF Closing

\* A hangup takes the port from those who had it; the network interface did not.
LEMMA HangupArbitrated ==
  ASSUME Main, Main', Arbitrated, Hangup \/ HangupEnd
  PROVE  Arbitrated'
<1>1. Typed /\ Counts /\ Places /\ Callers /\ Typed' /\ Counts' /\ Places'
  BY DEF Main
<1>2. CASE Hangup
  <2>1. /\ LockFree /\ hung' = {p \in Procs : pc[p] # "out"} /\ hup' /\ Shutdown("tty")
        /\ UNCHANGED <<count, blocked_open, initialized, closing, net, pc, failed>>
    BY <1>2 DEF Hangup, flags, procv
  <2>2. ~contended' => ~contended /\ net = "down"
    BY <1>2, Zenon DEF Hangup
  <2>3. SUFFICES ASSUME ~failed, ~contended', ~contended, net = "down" PROVE Arbitrated'
    BY <2>1, <2>2 DEF Arbitrated
  <2>4. job["net"] = "none" /\ ~crossed
    BY <1>1, <2>3 DEF Arbitrated, Callers
  <2>5. /\ IF initialized THEN job'["tty"] = "free" ELSE job'["tty"] = "ok"
        /\ job'["net"] = job["net"]
    BY <1>1, <2>1, ShutdownJob DEF Sides
  <2>6. ~crossed'
    <3>1. crossed' => crossed \/ \E t \in Sides \ {"tty"} : job[t] \in Stopping
      BY <2>1, Zenon DEF Shutdown
    <3> QED
      BY <2>4, <3>1 DEF Sides, Stopping
  <2>7. Users' = {} /\ At("startup")' = {} /\ ~hup
    BY <2>1 DEF LockFree, Users, At
  <2>8. initialized => count > 0 \/ blocked_open > 0 \/ closing
    <3>1. initialized => Counted # {} \/ At("blocked") # {} \/ Closers # {}
      BY <2>3, <2>7 DEF Arbitrated
    <3>2. Counted # {} => count > 0
      <4>1. Counted \in SUBSET Procs
        BY DEF Counted, Users, At
      <4>2. Counted # {} => Cardinality(Counted) # 0
        BY <4>1, FS_Subset, FS_EmptySet, PortAssumption
      <4> QED
        BY <1>1, <2>3, <2>7, <4>2 DEF Counts, Typed, Values
    <3>3. At("blocked") # {} => blocked_open > 0
      <4>1. At("blocked") \in SUBSET Procs
        BY DEF At
      <4>2. At("blocked") # {} => Cardinality(At("blocked")) # 0
        BY <4>1, FS_Subset, FS_EmptySet, PortAssumption
      <4>3. Cardinality(At("blocked")) \in Nat
        BY <4>1, FS_Subset, FS_CardinalityType, PortAssumption
      <4> QED
        BY <1>1, <4>2, <4>3 DEF Counts
    <3>4. Closers # {} => closing
      BY <1>1, <2>3 DEF Places
    <3> QED
      BY <3>1, <3>2, <3>3, <3>4
  <2> QED
    BY <2>1, <2>3, <2>5, <2>6, <2>7, <2>8 DEF Arbitrated, Stopping
<1>3. CASE HangupEnd
  <2>1. /\ hup /\ ~hup' /\ job["tty"] = "ok" /\ job' = [job EXCEPT !["tty"] = "none"]
        /\ UNCHANGED <<hung, blocked_open, initialized, closing, net, contended, crossed, pc, failed>>
    BY <1>3 DEF HangupEnd, Return, Goto, netv
  <2>2. Counted' = {} /\ Users' = {} /\ At("startup")' = {}
    BY <1>1, <1>3, HangupEndMain DEF Counted
  <2>3. SUFFICES ASSUME ~failed, ~contended PROVE Arbitrated'
    BY <2>1 DEF Arbitrated
  <2>4. job'["tty"] = "none" /\ job'["net"] = job["net"]
    BY <1>1, <2>1 DEF Typed, Jobs, Sides
  <2>5. \A x : At(x)' = At(x)
    BY <2>1 DEF At
  <2>6. Closers' = Closers /\ At("closing") = {}
    BY <1>1, <2>1, <2>5 DEF Closers, Callers, Lockers, At
  <2>7. ~crossed /\ (initialized => net # "down")
    BY <2>1, <2>3 DEF Arbitrated
  <2>8. /\ net # "down" => At("blocked") = {} /\ Closers = {}
        /\ net = "claimed" /\ job["net"] = "ok" => initialized
        /\ net = "claimed" /\ job["net"] = "error" => ~initialized
        /\ net = "closing" /\ job["net"] = "ok" => ~initialized
        /\ net = "up" => initialized
    BY <2>3 DEF Arbitrated
  <2> QED
    BY <2>1, <2>2, <2>4, <2>5, <2>6, <2>7, <2>8 DEF Arbitrated, Stopping
<1> QED
  BY <1>2, <1>3

-----------------------------------------------------------------------------
\* The counts, the places of the processes, the progress of startup and shutdown
\* and the owner of the port agree in every state: the inductive invariant from
\* which the theorems below follow.
THEOREM PortInvariant == Spec => []IInv
<1>1. Init => IInv
  <2> SUFFICES ASSUME Init PROVE IInv
    OBVIOUS
  <2>1. \A x : x # "out" => At(x) = {}
    BY DEF Init, At
  <2>2. /\ Users = {} /\ Counted = {} /\ Closers = {} /\ Lockers = {} /\ Procs \ At("out") = {}
        /\ At("blocked") = {} /\ At("startup") = {} /\ At("closing") = {}
    BY <2>1 DEF Init, Users, Counted, Closers, Lockers, At
  <2>3. Counts
    <3>1. /\ Cardinality(Counted) = 0 /\ Cardinality(At("blocked")) = 0
          /\ Cardinality(Procs \ At("out")) = 0
      BY <2>2, FS_EmptySet, Zenon
    <3>2. Cardinality(Procs) \in Nat
      BY FS_CardinalityType, PortAssumption
    <3> QED
      BY <3>1, <3>2 DEF Init, Counts
  <2>4. Places
    BY <2>1, <2>2 DEF Init, Places
  <2>5. \A s \in Sides : job[s] = "none" /\ claim[s] = 1
    BY DEF Init
  <2>6. Callers
    BY <2>2, <2>5 DEF Init, Callers, Sides
  <2>7. Flags
    BY Zenon DEF Init, Flags
  <2>8. Values
    BY DEF Init, Values, Points
  <2>9. Jobs
    <3>1. 1 \in 1 .. Len(Claims)
      BY ClaimsFacts
    <3> QED
      BY <3>1 DEF Init, Jobs
  <2>10. Stages
    <3>1. ~initialized /\ held = {} /\ "tty" \in Sides /\ "net" \in Sides
      BY DEF Init, Sides
    <3>2. Idle("tty") /\ Idle("net")
      BY <2>5, <3>1 DEF Idle, Starting, Stopping
    <3> QED
      BY <2>5, <3>1, <3>2 DEF Stages, Starting, Stopping
  <2>11. Kernel
    BY DEF Init, Kernel
  <2>12. Arbitrated
    BY <2>2 DEF Init, Arbitrated
  <2> QED
    BY <2>3, <2>4, <2>6, <2>7, <2>8, <2>9, <2>10, <2>11, <2>12 DEF IInv, Main, Typed
<1>2. IInv /\ [Next]_vars => IInv'
  <2> SUFFICES ASSUME IInv, [Next]_vars PROVE IInv'
    OBVIOUS
  <2>1. Main /\ Stages /\ Kernel /\ Arbitrated
    BY DEF IInv
  <2>2. Main' /\ Stages' /\ Kernel'
    BY <2>1, MainStep, StagesStep, KernelStep DEF Main
  <2>3. Arbitrated'
    <3>1. ASSUME NEW p \in Procs, Opening(p) \/ Waiting(p) \/ Closing(p)
          PROVE  Arbitrated'
      BY <2>1, <2>2, <3>1, OpeningArbitrated, WaitingArbitrated, ClosingArbitrated
    <3>2. CASE CarrierChange \/ UNCHANGED vars
      <4>1. UNCHANGED <<count, blocked_open, initialized, closing, hung, hup, net, contended, crossed, pc,
                        failed, job>>
        BY <3>2, Zenon DEF CarrierChange, vars, flags, jobs, ttyv, netv, procv
      <4> QED
        BY <2>1, <4>1 DEF Arbitrated, At, Users, Counted, Closers
    <3> QED
      BY <2>1, <2>2, <3>1, <3>2, WorkingArbitrated, NetworkArbitrated, HangupArbitrated DEF Next
  <2> QED
    BY <2>2, <2>3 DEF IInv
<1> QED
  BY <1>1, <1>2, PTL DEF Spec

\* As long as no open has failed, the open count is that of the files open or
\* being opened and not hung up, however many processes wait, close and hang up
\* meanwhile.
THEOREM CountAlwaysExact == Spec => []CountExact
<1>1. IInv => CountExact
  BY DEF IInv, Main, Counts, Counted, Users, CountExact
<1> QED
  BY <1>1, PortInvariant, PTL

\* Whoever has the port has it running with every resource, and the network
\* interface and processes never both have it, with the exceptions PortStaysUp
\* names.
THEOREM PortAlwaysUp == Spec => []PortStaysUp
<1>1. IInv => PortStaysUp
  <2> SUFFICES ASSUME IInv, ~failed, ~contended
               PROVE  /\ (Users # {} \/ net = "up") => initialized /\ held = Resources
                      /\ Users = {} \/ net = "down"
    BY DEF PortStaysUp, Users
  <2>1. Main /\ Callers /\ Stages /\ Arbitrated
    BY DEF IInv, Main
  <2>2. ASSUME Users # {} \/ net = "up"
        PROVE  initialized /\ held = Resources
    <3>1. initialized /\ ~crossed
      BY <2>1, <2>2 DEF Arbitrated
    <3>2. job["tty"] \notin Stopping
      BY <2>1, <2>2, TtyStopping
    <3>3. net # "closing"
      BY <2>1, <2>2 DEF Arbitrated
    <3>4. job["net"] \notin Stopping
      BY <2>1, <3>3 DEF Callers, Starting, Stopping, IInv, Main, Typed, Values
    <3>5. Idle("tty") /\ Idle("net")
      BY <2>1, <3>1, <3>2, <3>4 DEF Stages, Idle, Sides
    <3> QED
      BY <2>1, <3>1, <3>5 DEF Stages
  <2> QED
    BY <2>1, <2>2 DEF Arbitrated
<1> QED
  BY <1>1, PortInvariant, PTL

\* A startup that fails at any of its claims and a shutdown give back everything
\* but what ResourcesMatch names, a port that runs has everything, and shutdowns
\* of the two sides cross only where it says.
THEOREM ResourcesAlwaysMatch == Spec => []ResourcesMatch
<1>1. IInv => ResourcesMatch
  <2> SUFFICES ASSUME IInv PROVE ResourcesMatch
    OBVIOUS
  <2>1. crossed => failed \/ contended
    BY DEF IInv, Arbitrated
  <2>2. ASSUME ~crossed, \A s \in Sides : job[s] \notin Starting \cup Stopping
        PROVE  IF initialized THEN held = Resources /\ Resources \subseteq claimed
               ELSE claimed \subseteq {"xmit_buf"} \cup IF Pci THEN {"lost"} ELSE {}
    <3>1. Idle("tty") /\ Idle("net")
      BY <2>2 DEF Idle, Sides
    <3>2. IF initialized THEN held = Resources ELSE held \subseteq {"xmit_buf"}
      BY <2>2, <3>1 DEF IInv, Stages
    <3> QED
      BY <3>2 DEF IInv, Kernel
  <2> QED
    BY <2>1, <2>2 DEF ResourcesMatch
<1> QED
  BY <1>1, PortInvariant, PTL

-----------------------------------------------------------------------------
\* Each bound of the model is kept.
Bounded ==
  /\ opens \in Nat /\ faults \in Nat /\ hangups \in Nat /\ changes \in Nat
  /\ opens <= MaxOpens /\ faults <= MaxFaults /\ hangups <= MaxHangups /\ changes <= MaxDcd

\* One more is counted only below the bound.
LEMMA BoundedStep ==
  ASSUME Bounded, [Next]_vars
  PROVE  Bounded'
<1>0. MaxOpens \in Nat /\ MaxFaults \in Nat /\ MaxHangups \in Nat /\ MaxDcd \in Nat
  BY PortAssumption
<1> USE <1>0 DEF Bounded
<1>1. ASSUME NEW p \in Procs, Opening(p) \/ Waiting(p) \/ Closing(p)
      PROVE  Bounded'
  <2>1. \/ opens < MaxOpens /\ opens' = opens + 1
        \/ opens' = opens
    BY <1>1, Zenon DEF Opening, Waiting, Closing, OpenClosing, OpenInterrupted, OpenBusy, Open, OpenStarted,
                       BlockCheck, CloseOthers, CloseLast, CloseShutdown, CloseEnd, FileOpened, bounds
  <2>2. UNCHANGED <<faults, hangups, changes>>
    BY <1>1, Zenon DEF Opening, Waiting, Closing, OpenClosing, OpenInterrupted, OpenBusy, Open, OpenStarted,
                       BlockCheck, CloseOthers, CloseLast, CloseShutdown, CloseEnd, bounds
  <2> QED
    BY <2>1, <2>2
<1>2. ASSUME NEW s \in Sides, Working(s)
      PROVE  Bounded'
  <2>1. \/ faults < MaxFaults /\ faults' = faults + 1
        \/ faults' = faults
    BY <1>2, Zenon DEF Working, ClaimMade, ClaimFailed, Undo, Run, Free, Release, Clear
  <2>2. UNCHANGED <<opens, hangups, changes>>
    BY <1>2, Zenon DEF Working, ClaimMade, ClaimFailed, Undo, Run, Free, Release, Clear, RestUnchanged
  <2> QED
    BY <2>1, <2>2
<1>3. CASE Network
  BY <1>3 DEF Network, NetClaim, NetStarted, NetShutdown, NetRelease, bounds
<1>4. CASE Hangup \/ HangupEnd \/ CarrierChange
  BY <1>4 DEF Hangup, HangupEnd, CarrierChange, bounds
<1>5. CASE UNCHANGED vars
  BY <1>5 DEF vars, bounds
<1> QED
  BY <1>1, <1>2, <1>3, <1>4, <1>5 DEF Next

\* Type correctness; in particular no count goes below zero or above the number
\* of processes, and the driver holds nothing that the kernel has not given it.
THEOREM TypeCorrect == Spec => []TypeOK
<1>1. Init => Bounded
  BY PortAssumption DEF Init, Bounded
<1>2. Bounded /\ [Next]_vars => Bounded'
  BY BoundedStep
<1>3. IInv /\ Bounded => TypeOK
  <2> SUFFICES ASSUME IInv, Bounded PROVE TypeOK
    OBVIOUS
  <2>1. Cardinality(Procs) \in Nat
    BY FS_CardinalityType, PortAssumption
  <2>2. ASSUME NEW S \in SUBSET Procs
        PROVE  Cardinality(S) \in 0 .. Cardinality(Procs)
    BY <2>1, FS_Subset, FS_CardinalityType, PortAssumption
  <2>3. /\ Cardinality(At("blocked")) \in 0 .. Cardinality(Procs)
        /\ Cardinality(Procs \ At("out")) \in 0 .. Cardinality(Procs)
    BY <2>2 DEF At
  <2>4. /\ count \in 0 .. Cardinality(Procs) /\ blocked_open \in 0 .. Cardinality(Procs)
        /\ tty_count \in 0 .. Cardinality(Procs)
    BY <2>1, <2>3 DEF IInv, Main, Counts, Typed, Values
  <2>5. held \subseteq claimed /\ claimed \subseteq Resources \cup {"lcr256", "lost"}
    BY DEF IInv, Kernel
  <2>6. /\ {initialized, closing, tty_set, io_error, hup, dcd, failed, contended, crossed} \subseteq BOOLEAN
        /\ woken \in [Procs -> BOOLEAN]
    BY Zenon DEF IInv, Main, Typed, Flags
  <2>7. opens <= MaxOpens /\ faults <= MaxFaults /\ hangups <= MaxHangups /\ changes <= MaxDcd
    BY DEF Bounded
  <2>8. /\ net \in {"down", "claimed", "up", "closing"} /\ hung \subseteq Procs
        /\ pc \in [Procs -> {"out", "close_wait", "startup", "blocked", "in", "failed", "draining", "closing"}]
    BY DEF IInv, Main, Typed, Values, Points
  <2>9. /\ job \in [Sides -> {"none", "ok", "error"} \cup Starting \cup Stopping]
        /\ claim \in [Sides -> 1 .. Len(Claims)]
    BY DEF IInv, Main, Typed, Jobs
  <2> QED
    BY <2>4, <2>5, <2>6, <2>7, <2>8, <2>9, Zenon DEF TypeOK
<1> QED
  BY <1>1, <1>2, <1>3, PortInvariant, PTL DEF Spec
=============================================================================
