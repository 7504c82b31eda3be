----------------------------- MODULE BottomHalf -----------------------------
(***************************************************************************)
(* The handshake between r56_interrupt and r56_bh_handler.                 *)
(*                                                                         *)
(* Interrupt service routines leave work codes in pending_bh; on its way   *)
(* out r56_interrupt queues the bottom half on the kernel work queue       *)
(* unless it is queued or running already (bh_requested, bh_running).  The *)
(* handler takes one code at a time and marks itself complete, under       *)
(* irq_spinlock, when it finds none.  r56_interrupt and r56_bh_action run  *)
(* whole under irq_spinlock and are one step each; the handler's store to  *)
(* bh_running and startup's store to pending_bh are not under the lock and *)
(* are steps of their own.                                                 *)
(***************************************************************************)

VARIABLES
  pending_bh,     \* set of work codes raised and not taken
  bh_running,     \* set by the handler at entry
  bh_requested,   \* set by the interrupt that queues the handler
  queued,         \* external: the task is on the work queue
  bh,             \* where the handler is: a control point or a work code
  port            \* "closed", "starting" (no interrupt line yet) or "open"

bhVars == <<pending_bh, bh_running, bh_requested, queued, bh, port>>

\* What the handshake implements.
Promise == INSTANCE BhQueue
             WITH pending <- pending_bh,
                  serving <- IF bh \in {"receive", "transmit", "status"}
                             THEN bh ELSE "none"

Work == Promise!Work

\* Where the handler can be while it is active, its work items included.
Active == {"entered", "loop"} \cup Work

\* Slip: a routine raises a code that r56_bh_handler has no case for.
IsrWorkUnknownCode ==
  [ isr \in {"misc", "receive_dma"} |-> {{}, {"receive", isr}} ]

\* UscIsrTable and the two DMA routines: the codes each may leave.
IsrWork ==
  [ null            |-> {{}},
    misc            |-> {{}, {"receive"}},
    io_pin          |-> {{"status"}, {"transmit"}},
    transmit_data   |-> {{}, {"transmit"}},
    transmit_status |-> {{}, {"transmit"}},
    receive_data    |-> {{}},
    receive_status  |-> {{}},
    receive_dma     |-> {{"receive"}},
    transmit_dma    |-> {{}, {"transmit"}} ]

BhTypeOK ==
  /\ pending_bh \subseteq Work
  /\ bh_running \in BOOLEAN
  /\ bh_requested \in BOOLEAN
  /\ queued \in BOOLEAN
  /\ bh \in Active \cup {"off", "leaving"}
  /\ port \in {"closed", "starting", "open"}

-----------------------------------------------------------------------------
BhInit ==
  /\ pending_bh = {}
  /\ bh_running = FALSE
  /\ bh_requested = FALSE
  /\ queued = FALSE
  /\ bh = "off"
  /\ port = "closed"

\* Slip: bh_requested is not looked at, only bh_running is.
RequestBhIfNotRunning(w) ==
  LET request == pending_bh \cup w # {} /\ ~bh_running
  IN /\ pending_bh' = pending_bh \cup w
     /\ bh_requested' = (bh_requested \/ request)
     /\ queued' = (queued \/ request)

\* The end of r56_interrupt, for any code that raises w under irq_spinlock.
RequestBh(w) ==
  LET request == /\ pending_bh \cup w # {}
                 /\ ~bh_running
                 /\ ~bh_requested
  IN /\ pending_bh' = pending_bh \cup w
     /\ bh_requested' = (bh_requested \/ request)
     /\ queued' = (queued \/ request)

\* r56_interrupt: one vector is dispatched, then the bottom half requested.
Interrupt ==
  /\ port = "open"
  /\ \E isr \in DOMAIN IsrWork : \E w \in IsrWork[isr] : RequestBh(w)
  /\ UNCHANGED <<bh_running, bh, port>>

\* External: a kernel worker picks the task up; one runs it at a time.
WorkerStart ==
  /\ queued
  /\ bh = "off"
  /\ queued' = FALSE
  /\ bh' = "entered"
  /\ UNCHANGED <<pending_bh, bh_running, bh_requested, port>>

\* r56_bh_handler: bh_running is stored without the lock.
BhEnter ==
  /\ bh = "entered"
  /\ bh_running' = TRUE
  /\ bh' = "loop"
  /\ UNCHANGED <<pending_bh, bh_requested, queued, port>>

\* Slip: the codes are not tested in order of priority.
BhTakeAny ==
  /\ bh = "loop"
  /\ \E w \in pending_bh : pending_bh' = pending_bh \ {w} /\ bh' = w
  /\ UNCHANGED <<bh_running, bh_requested, queued, port>>

\* r56_bh_action finds a code: receive before transmit before status.
BhTake ==
  /\ bh = "loop"
  /\ \E w \in pending_bh :
       /\ Promise!Above(w) \cap pending_bh = {}
       /\ pending_bh' = pending_bh \ {w}
       /\ bh' = w
  /\ UNCHANGED <<bh_running, bh_requested, queued, port>>

\* Slip: the flags are cleared after the lock is dropped, when a code may
\* have been raised since the handler last looked.
BhCompleteUnlocked ==
  /\ bh = "loop"
  /\ bh_running' = FALSE
  /\ bh_requested' = FALSE
  /\ bh' = "leaving"
  /\ UNCHANGED <<pending_bh, queued, port>>

\* Slip: bh_requested is left set.
BhCompleteStillRequested ==
  /\ bh = "loop"
  /\ pending_bh = {}
  /\ bh_running' = FALSE
  /\ bh' = "leaving"
  /\ UNCHANGED <<pending_bh, bh_requested, queued, port>>

\* r56_bh_action finds none and marks the handler complete.
BhComplete ==
  /\ bh = "loop"
  /\ pending_bh = {}
  /\ bh_running' = FALSE
  /\ bh_requested' = FALSE
  /\ bh' = "leaving"
  /\ UNCHANGED <<pending_bh, queued, port>>

\* r56_bh_receive, r56_bh_transmit or r56_bh_status returns to the loop.
BhWorkDone ==
  /\ bh \in Work
  /\ bh' = "loop"
  /\ UNCHANGED <<pending_bh, bh_running, bh_requested, queued, port>>

\* r56_bh_handler returns to the worker.
BhLeave ==
  /\ bh = "leaving"
  /\ bh' = "off"
  /\ UNCHANGED <<pending_bh, bh_running, bh_requested, queued, port>>

\* startup forgets pending work; bh_running and bh_requested are left alone.
Startup ==
  /\ port = "closed"
  /\ port' = "starting"
  /\ pending_bh' = {}
  /\ UNCHANGED <<bh_running, bh_requested, queued, bh>>

\* startup claims the interrupt line.
ClaimIrq ==
  /\ port = "starting"
  /\ port' = "open"
  /\ UNCHANGED <<pending_bh, bh_running, bh_requested, queued, bh>>

\* shutdown, or a failed startup, frees the interrupt line.  The work item
\* is neither cancelled nor flushed.
ReleaseIrq ==
  /\ port # "closed"
  /\ port' = "closed"
  /\ UNCHANGED <<pending_bh, bh_running, bh_requested, queued, bh>>

Handler == WorkerStart \/ BhEnter \/ BhTake \/ BhComplete \/ BhWorkDone \/ BhLeave

BhNext == Interrupt \/ Handler \/ Startup \/ ClaimIrq \/ ReleaseIrq

\* The kernel runs a queued work item and lets it proceed.
BhFairness == WF_bhVars(Handler)

BhSpec == BhInit /\ [][BhNext]_bhVars /\ BhFairness

-----------------------------------------------------------------------------
\* Work raised by an interrupt is never stranded: whenever a code is pending
\* the handler has been requested and has not yet marked itself complete.
\* (r56_bh_action, r56_interrupt: a code raised between the handler's last
\* look and its exit must queue it again.)
NoStrandedWork ==
  pending_bh # {} => /\ bh_requested
                     /\ queued \/ bh \in Active

\* The handler is not queued again while it is still going round its loop
\* ("protection from multiple isr/bh entry" in r56_struct): bh_requested
\* stands for exactly one activation.
OneActivation ==
  /\ ~(queued /\ bh \in Active)
  /\ bh_requested <=> (queued \/ bh \in Active)

\* The inductive invariant: the two flags say where the handler is.
Handshake ==
  /\ OneActivation
  /\ bh_running <=> bh \in {"loop"} \cup Work
  /\ NoStrandedWork

\* The handshake implements the priority queue of codes of BhQueue, liveness
\* of the server included.
ImplementsPromise == Promise!Spec

\* Each code is served unless codes of higher priority keep coming: receive
\* work always is, status work waits for receive and transmit to pause.
EventuallyServed ==
  \A w \in Work :
    <>[](Promise!Above(w) \cap pending_bh = {}) =>
      (w \in pending_bh ~> w \notin pending_bh)
=============================================================================
