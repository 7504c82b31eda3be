------------------------------ MODULE BhQueue ------------------------------
(***************************************************************************)
(* What the interrupt side of the Route 56 driver promises to its bottom   *)
(* half: a set of work codes, raised by interrupt handlers and taken one   *)
(* at a time, highest priority first, by a single server.  A code raised   *)
(* twice before it is taken is served once; a code raised while it is      *)
(* being served is served again.  Opening the port forgets what is raised. *)
(*                                                                         *)
(* BottomHalf.tla, the driver's handshake over the kernel work queue, is   *)
(* shown to implement this specification.                                  *)
(***************************************************************************)

VARIABLES
  pending,   \* the codes raised and not taken yet
  serving    \* the code being served, or "none"

absVars == <<pending, serving>>

Receive  == "receive"
Transmit == "transmit"
Status   == "status"
None     == "none"

\* The work codes of the driver (BH_RECEIVE, BH_TRANSMIT, BH_STATUS).
Work == {Receive, Transmit, Status}

\* The codes that are served before w.
Above(w) == CASE w = Receive  -> {}
              [] w = Transmit -> {Receive}
              [] w = Status   -> {Receive, Transmit}

-----------------------------------------------------------------------------
Init == /\ pending = {}
        /\ serving = None

\* An interrupt handler raises a code.
Raise == /\ \E w \in Work : pending' = pending \cup {w}
         /\ UNCHANGED serving

\* The server takes the code of highest priority.
Take == /\ serving = None
        /\ \E w \in pending :
             /\ Above(w) \cap pending = {}
             /\ pending' = pending \ {w}
             /\ serving' = w

\* The server has done what the code asks for.
Done == /\ serving # None
        /\ serving' = None
        /\ UNCHANGED pending

\* The port is opened: nothing is pending any more.
Forget == /\ pending' = {}
          /\ UNCHANGED serving

Next == Raise \/ Take \/ Done \/ Forget

\* The server does not sleep on work that stays there to be done.
Spec == Init /\ [][Next]_absVars /\ WF_absVars(Take) /\ WF_absVars(Done)
=============================================================================
