----------------------------- MODULE CharQueue -----------------------------
(***************************************************************************)
(* What the asynchronous transmit buffer of the Route 56 driver promises:  *)
(* a bounded queue of characters.  Writers append the characters of a      *)
(* stream, numbered 1, 2, ..., the transmitter takes from the front, and   *)
(* the queue may be emptied at once.                                       *)
(*                                                                         *)
(* AsyncTx.tla, with the circular xmit_buf, is shown to implement it.      *)
(***************************************************************************)
EXTENDS Naturals, Sequences

CONSTANT Capacity    \* how many characters the queue holds

VARIABLES
  written,   \* how many characters of the stream were appended
  queue,     \* the characters waiting
  taken      \* all the characters the transmitter was given

absVars == <<written, queue, taken>>

Init == written = 0 /\ queue = <<>> /\ taken = <<>>

\* A writer appends the next n characters of the stream.
Put == \E n \in 1 .. Capacity - Len(queue) :
         /\ written' = written + n
         /\ queue' = queue \o [i \in 1 .. n |-> written + i]
         /\ UNCHANGED taken

\* The transmitter is given the first n characters.
Take == \E n \in 1 .. Len(queue) :
          /\ taken' = taken \o SubSeq(queue, 1, n)
          /\ queue' = SubSeq(queue, n + 1, Len(queue))
          /\ UNCHANGED written

\* The queue is emptied.
Clear == queue' = <<>> /\ UNCHANGED <<written, taken>>

Next == Put \/ Take \/ Clear

Spec == Init /\ [][Next]_absVars
=============================================================================
