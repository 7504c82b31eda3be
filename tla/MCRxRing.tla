------------------------------ MODULE MCRxRing ------------------------------
(***************************************************************************)
(* The receive ring for TLC: what comments in the driver say of it that    *)
(* the code does not keep, checked by runs that show how they fail.        *)
(***************************************************************************)
EXTENDS RxRing

\* "If the receive buffers are now empty, then restart receiver"
\* (r56_get_rx_frame, Cleanup): no completed frame is thrown away.
OverflowRestartWhenEmpty ==
  [][BhOverflowRestart => \A i \in Ring : status[i] = "none"]_vars

\* "Only frames received without errors are returned" (r56_get_rx_frame): no
\* buffer handed on is of a frame that ended in error.
OnlyGoodFrames ==
  [][~raced /\ delivered' # delivered =>
       \A x \in Passed : ReturnFrame(status[x])]_vars
=============================================================================
