---------------------------- MODULE MCLineEvents ----------------------------
(* The waits for line events for TLC: the events asked for.                *)
EXTENDS LineEvents

\* Carrier coming, and either receiver event.
DcdUp == [src |-> "dcd", up |-> TRUE]
MCMasks == {{DcdUp, Idle}, {Hunt}}
=============================================================================
