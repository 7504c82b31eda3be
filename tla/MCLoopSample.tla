---------------------------- MODULE MCLoopSample ----------------------------
(* Instances of LoopSample: two secondaries, the first upstream of the     *)
(* second.                                                                 *)
EXTENDS LoopSample

BothTalk == <<2, 1>>
FirstTalks == <<2, 0>>

(* "All transactions successfully transmitted are then moved to another    *)
(* list of transactions waiting for a response": what leaves the queue of  *)
(* a secondary is waiting for its answer (DoPollResponse,                  *)
(* MoveQueuedTransactionToPendingList).  Whatever is queued behind the     *)
(* head when it is moved is in neither list afterwards.                    *)
QueuedMovesToPending ==
    [][\A s \in Sec : \A k \in Range(queued[s]) :
           k \in Range(queued'[s]) \cup Range(pending'[s])]_vars

=============================================================================
