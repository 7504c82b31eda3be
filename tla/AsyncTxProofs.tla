--------------------------- MODULE AsyncTxProofs ---------------------------
(***************************************************************************)
(* AsyncTx.tla for any sizes of buffer and FIFO and any bounds: the        *)
(* circular buffer is the queue that CharQueue.tla promises, and waiting   *)
(* characters are not stranded.                                            *)
(***************************************************************************)
EXTENDS AsyncTx, SequenceTheorems, TLAPS

\* The circular buffer: the head is xmit_cnt places ahead of the tail.
RingOK ==
  /\ xmit_buf \in [0 .. Size - 1 -> Char \cup {XChar}]
  /\ xmit_head \in 0 .. Size - 1 /\ xmit_tail \in 0 .. Size - 1 /\ xmit_cnt \in 0 .. Size - 1
  /\ xmit_head = (xmit_tail + xmit_cnt) % Size
  /\ written \in 0 .. MaxChars
  /\ Queue \in Seq(Char)
  /\ taken \in Seq(Char)

FifoOK == fifo \in Seq(Char \cup {XChar}) /\ Len(fifo) <= Fifo

Flags ==
  /\ x_char \in BOOLEAN /\ tx_active \in BOOLEAN /\ tx_enabled \in BOOLEAN /\ pending \in BOOLEAN
  /\ hw_stopped \in BOOLEAN /\ woken \in BOOLEAN /\ data_irq \in BOOLEAN /\ txirq \in BOOLEAN

Points ==
  /\ flow \in {"go", "stopping", "stopped", "starting"}
  /\ w \in {"wait", "copy", "check", "start"} /\ sx \in {"idle", "start"}
  /\ ops \in 0 .. MaxOps /\ used \subseteq Ops

Termios == st \in {"idle", "same", "off", "cts", "start"} /\ cts_flow \in BOOLEAN

\* The transmitter: active, it is enabled and an interrupt is pending or will
\* come; not active, it has nothing to send.
Transmitter ==
  /\ tx_active => tx_enabled /\ data_irq /\ (fifo # <<>> \/ txirq)
  /\ ~tx_active => fifo = <<>>
  /\ txirq => fifo = <<>> /\ tx_active

\* Characters that wait are being sent, unless output is stopped, a write is on
\* its way to start it, or r56_start is, called by the line discipline or by
\* r56_set_termios, and will.
Manned ==
  "txenable" \notin used /\ xmit_cnt > 0 /\ w = "wait" /\ ~hw_stopped
  /\ (flow = "go" \/ (flow = "starting" /\ tx_enabled))
  /\ (st = "start" => tx_enabled)
  => tx_active

\* As long as r56_start was not misled: for its sake the transmitter, if it is
\* enabled while output is stopped, has to be active too.
Served ==
  ~misled => /\ flow = "stopped" /\ tx_enabled => tx_active
             /\ st = "cts" /\ hw_stopped /\ tx_enabled => tx_active
             /\ Manned

IInv ==
  /\ RingOK /\ FifoOK /\ Flags /\ Points /\ Termios /\ Transmitter
  /\ misled \in BOOLEAN /\ Served

-----------------------------------------------------------------------------
(* The circular buffer as a queue.                                         *)

\* An index past the end wraps around.
LEMMA Wrap ==
  ASSUME NEW a \in 0 .. 2 * Size - 1
  PROVE  a % Size = IF a < Size THEN a ELSE a - Size
<1>1. CASE a < Size
  BY <1>1, AsyncTxAssumption
<1>2. CASE a >= Size
  BY <1>2, AsyncTxAssumption
<1> QED
  BY <1>1, <1>2, AsyncTxAssumption

\* The same for all indices at once.
LEMMA WrapAll ==
  \A a \in 0 .. 2 * Size - 1 :
     a % Size = (IF a < Size THEN a ELSE a - Size) /\ a % Size \in 0 .. Size - 1
BY Wrap, AsyncTxAssumption

\* One copy appends the next characters of the stream to the queue, whether or
\* not the head wraps around after it.
LEMMA CopyAppends ==
  ASSUME RingOK, NEW n \in 1 .. Size - 1, Copy(n), UNCHANGED taken,
         n <= Size - xmit_cnt - 1, n <= Size - xmit_head, n <= MaxChars - written
  PROVE  RingOK' /\ Queue' = Queue \o [i \in 1 .. n |-> written + i]
<1> DEFINE Q == [i \in 1 .. n |-> written + i]
<1>0. /\ MaxChars \in Nat /\ Size \in Nat /\ Size > 1
      /\ xmit_head \in 0 .. Size - 1 /\ xmit_tail \in 0 .. Size - 1 /\ xmit_cnt \in 0 .. Size - 1
      /\ xmit_head = (xmit_tail + xmit_cnt) % Size /\ written \in 0 .. MaxChars
  BY AsyncTxAssumption DEF RingOK
<1>1. /\ xmit_cnt' = xmit_cnt + n /\ xmit_tail' = xmit_tail /\ written' = written + n
      /\ xmit_head' = (xmit_head + n) % Size
      /\ xmit_buf' = [i \in 0 .. Size - 1 |->
                    IF i \in xmit_head .. xmit_head + n - 1 THEN written + 1 + (i - xmit_head)
                    ELSE xmit_buf[i]]
  BY DEF Copy
<1>2. Queue \in Seq(Char) /\ Len(Queue) = xmit_cnt /\ Q \in Seq(Char) /\ Len(Q) = n
  <2>1. Len(Queue) = xmit_cnt
    BY <1>0 DEF Queue
  <2>2. \A i \in 1 .. n : Q[i] \in Char
    BY <1>0 DEF Char
  <2>3. Q \in Seq(Char) /\ Len(Q) = n
    BY <2>2
  <2> QED
    BY <2>1, <2>3 DEF RingOK
<1>3. xmit_head = IF xmit_tail + xmit_cnt < Size THEN xmit_tail + xmit_cnt
                  ELSE xmit_tail + xmit_cnt - Size
  <2>1. xmit_tail + xmit_cnt \in 0 .. 2 * Size - 1
    BY <1>0
  <2> QED
    BY <1>0, <2>1, Wrap
<1>4. ASSUME NEW i \in 1 .. xmit_cnt + n
      PROVE  /\ (xmit_tail + i - 1) % Size
                  = (IF xmit_tail + i - 1 < Size THEN xmit_tail + i - 1
                     ELSE (xmit_tail + i - 1) - Size)
             /\ (xmit_tail + i - 1) % Size \in 0 .. Size - 1
  <2>1. \A a \in 0 .. 2 * Size - 1 :
          a % Size = (IF a < Size THEN a ELSE a - Size) /\ a % Size \in 0 .. Size - 1
    BY WrapAll, Zenon
  <2>2. xmit_tail + i - 1 \in 0 .. 2 * Size - 1
    BY <1>0
  <2> QED
    BY <2>1, <2>2, Zenon
<1>5. ASSUME NEW i \in 1 .. xmit_cnt
      PROVE  xmit_buf'[(xmit_tail + i - 1) % Size] = Queue[i]
  <2> DEFINE j == (xmit_tail + i - 1) % Size
  <2>0. i \in 1 .. xmit_cnt + n
    BY <1>0
  <2>1. j = (IF xmit_tail + i - 1 < Size THEN xmit_tail + i - 1 ELSE (xmit_tail + i - 1) - Size)
        /\ j \in 0 .. Size - 1
    BY <1>4, <2>0
  <2>2. Queue[i] = xmit_buf[j]
    BY DEF Queue
  <2> HIDE DEF j
  <2>3. j \notin xmit_head .. xmit_head + n - 1
    BY <1>0, <1>3, <2>1
  <2>4. xmit_buf'[j] = xmit_buf[j]
    BY <1>1, <2>1, <2>3
  <2> QED
    BY <2>2, <2>4 DEF j
<1>6. ASSUME NEW i \in xmit_cnt + 1 .. xmit_cnt + n
      PROVE  xmit_buf'[(xmit_tail + i - 1) % Size] = written + (i - xmit_cnt)
  <2> DEFINE j == (xmit_tail + i - 1) % Size
  <2>0. i \in 1 .. xmit_cnt + n
    BY <1>0
  <2>1. j = (IF xmit_tail + i - 1 < Size THEN xmit_tail + i - 1 ELSE (xmit_tail + i - 1) - Size)
        /\ j \in 0 .. Size - 1
    BY <1>4, <2>0
  <2> HIDE DEF j
  <2>2. j = xmit_head + (i - xmit_cnt) - 1
    BY <1>0, <1>3, <2>1
  <2>3. j \in xmit_head .. xmit_head + n - 1
    BY <1>0, <2>2
  <2>4. xmit_buf'[j] = written + 1 + (j - xmit_head)
    BY <1>1, <2>1, <2>3
  <2>5. written + 1 + (j - xmit_head) = written + (i - xmit_cnt)
    <3>1. i \in Int /\ j \in Int /\ xmit_head \in Int /\ xmit_cnt \in Int /\ written \in Int
      BY <1>0, <2>1
    <3> QED
      BY <2>2, <3>1
  <2> QED
    BY <2>4, <2>5 DEF j
<1>7. Queue' = Queue \o Q
  <2>1. Queue' = [i \in 1 .. xmit_cnt + n |-> xmit_buf'[(xmit_tail + i - 1) % Size]]
    BY <1>1 DEF Queue
  <2>2. /\ Queue \o Q \in Seq(Char) /\ Len(Queue \o Q) = xmit_cnt + n
        /\ \A i \in 1 .. xmit_cnt + n :
             (Queue \o Q)[i] = IF i <= xmit_cnt THEN Queue[i] ELSE Q[i - xmit_cnt]
    <3> HIDE DEF Q
    <3> QED
      BY <1>2, ConcatProperties
  <2> HIDE DEF Q
  <2>3. ASSUME NEW i \in 1 .. xmit_cnt + n
        PROVE  Queue'[i] = (Queue \o Q)[i]
    <3>1. CASE i <= xmit_cnt
      <4>1. i \in 1 .. xmit_cnt
        BY <1>0, <3>1
      <4> QED
        BY <1>5, <2>1, <2>2, <3>1, <4>1
    <3>2. CASE i > xmit_cnt
      <4>1. i \in xmit_cnt + 1 .. xmit_cnt + n /\ i - xmit_cnt \in 1 .. n /\ ~(i <= xmit_cnt)
        BY <1>0, <3>2
      <4>2. Q[i - xmit_cnt] = written + (i - xmit_cnt)
        BY <4>1 DEF Q
      <4> QED
        BY <1>6, <2>1, <2>2, <4>1, <4>2
    <3>3. i <= xmit_cnt \/ i > xmit_cnt
      BY <1>0
    <3> QED
      BY <3>1, <3>2, <3>3, Zenon
  <2>4. Len(Queue') = xmit_cnt + n
    BY <1>0, <2>1
  <2>5. Queue' \in Seq(Char)
    <3>1. \A i \in 1 .. xmit_cnt + n : Queue'[i] \in Char
      BY <2>2, <2>3, ElementOfSeq
    <3> QED
      BY <1>0, <2>1, <3>1
  <2> QED
    BY <2>2, <2>3, <2>4, <2>5, SeqEqual
<1>8. RingOK'
  <2>1. Queue' \in Seq(Char)
    <3> HIDE DEF Q
    <3> QED
      BY <1>2, <1>7
  <2>2. xmit_buf' \in [0 .. Size - 1 -> Char \cup {XChar}]
    <3>1. \A i \in xmit_head .. xmit_head + n - 1 : written + 1 + (i - xmit_head) \in Char
      BY <1>0 DEF Char
    <3>2. xmit_buf \in [0 .. Size - 1 -> Char \cup {XChar}]
      BY DEF RingOK
    <3> QED
      BY <1>1, <3>1, <3>2
  <2>3. /\ xmit_head' \in 0 .. Size - 1
        /\ xmit_head' = (xmit_tail' + xmit_cnt') % Size
    <3> DEFINE a == xmit_head + n
               b == xmit_tail + (xmit_cnt + n)
    <3>1. a \in 0 .. 2 * Size - 1 /\ b \in 0 .. 2 * Size - 1 /\ (b = a \/ b = a + Size)
      BY <1>0, <1>3
    <3>2. xmit_head' = a % Size /\ xmit_tail' + xmit_cnt' = b
      BY <1>1
    <3> HIDE DEF a, b
    <3>3. /\ a % Size = (IF a < Size THEN a ELSE a - Size)
          /\ b % Size = (IF b < Size THEN b ELSE b - Size)
      BY <3>1, Wrap
    <3> QED
      BY <1>0, <3>1, <3>2, <3>3
  <2>4. xmit_tail' \in 0 .. Size - 1 /\ xmit_cnt' \in 0 .. Size - 1 /\ written' \in 0 .. MaxChars
    BY <1>0, <1>1
  <2>5. taken' \in Seq(Char)
    BY DEF RingOK
  <2> QED
    BY <2>1, <2>2, <2>3, <2>4, <2>5 DEF RingOK
<1> QED
  BY <1>7, <1>8

\* Moving the tail on by n leaves the queue without its first n characters.
LEMMA TailDrops ==
  ASSUME RingOK, NEW n \in 0 .. xmit_cnt,
         xmit_tail' = (xmit_tail + n) % Size, xmit_cnt' = xmit_cnt - n,
         UNCHANGED <<xmit_buf, xmit_head, written>>, taken' \in Seq(Char)
  PROVE  RingOK' /\ Queue' = SubSeq(Queue, n + 1, Len(Queue))
<1>0. /\ Size \in Nat /\ Size > 1
      /\ xmit_head \in 0 .. Size - 1 /\ xmit_tail \in 0 .. Size - 1 /\ xmit_cnt \in 0 .. Size - 1
      /\ xmit_head = (xmit_tail + xmit_cnt) % Size
  BY AsyncTxAssumption DEF RingOK
<1>1. \A a \in 0 .. 2 * Size - 1 :
        a % Size = (IF a < Size THEN a ELSE a - Size) /\ a % Size \in 0 .. Size - 1
  BY WrapAll, Zenon
<1>2. Queue \in Seq(Char) /\ Len(Queue) = xmit_cnt
  <2>1. Len(Queue) = xmit_cnt
    BY <1>0 DEF Queue
  <2>2. Queue \in Seq(Char)
    BY Zenon DEF RingOK
  <2> QED
    BY <2>1, <2>2
<1>3. /\ xmit_tail' = (IF xmit_tail + n < Size THEN xmit_tail + n ELSE (xmit_tail + n) - Size)
      /\ xmit_tail' \in 0 .. Size - 1
  <2>1. xmit_tail + n \in 0 .. 2 * Size - 1
    BY <1>0
  <2> QED
    BY <1>1, <2>1, Zenon
<1>4. ASSUME NEW i \in 1 .. xmit_cnt - n
      PROVE  Queue'[i] = Queue[n + i]
  <2> DEFINE a == xmit_tail' + i - 1
             b == xmit_tail + (n + i) - 1
  <2>1. a \in 0 .. 2 * Size - 1 /\ b \in 0 .. 2 * Size - 1 /\ (b = a \/ b = a + Size)
    BY <1>0, <1>3
  <2>2. Queue'[i] = xmit_buf[a % Size]
    BY DEF Queue
  <2>3. n + i \in 1 .. xmit_cnt
    BY <1>0
  <2>4. Queue[n + i] = xmit_buf[b % Size]
    BY <2>3 DEF Queue
  <2> HIDE DEF a, b
  <2>5. a % Size = b % Size
    <3>1. /\ a % Size = (IF a < Size THEN a ELSE a - Size)
          /\ b % Size = (IF b < Size THEN b ELSE b - Size)
      BY <1>1, <2>1
    <3> QED
      BY <1>0, <2>1, <3>1
  <2> QED
    BY <2>2, <2>4, <2>5
<1>5. Len(Queue') = xmit_cnt - n
  BY <1>0 DEF Queue
<1>6. Queue' \in Seq(Char)
  <2>1. Queue' = [i \in 1 .. xmit_cnt - n |-> Queue'[i]]
    BY DEF Queue
  <2>2. \A i \in 1 .. xmit_cnt - n : n + i \in 1 .. xmit_cnt
    BY <1>0
  <2>3. \A i \in 1 .. xmit_cnt - n : Queue'[i] \in Char
    BY <1>2, <1>4, <2>2, ElementOfSeq
  <2>4. xmit_cnt - n \in Nat
    BY <1>0
  <2> QED
    BY <2>1, <2>3, <2>4
<1>7. /\ SubSeq(Queue, n + 1, Len(Queue)) \in Seq(Char)
      /\ Len(SubSeq(Queue, n + 1, Len(Queue))) = xmit_cnt - n
      /\ \A i \in 1 .. xmit_cnt - n : SubSeq(Queue, n + 1, Len(Queue))[i] = Queue[n + i]
  <2>1. \A i \in n + 1 .. xmit_cnt : Queue[i] \in Char
    BY <1>0, <1>2, ElementOfSeq
  <2>2. /\ SubSeq(Queue, n + 1, xmit_cnt) \in Seq(Char)
        /\ Len(SubSeq(Queue, n + 1, xmit_cnt))
             = IF n + 1 <= xmit_cnt THEN xmit_cnt - (n + 1) + 1 ELSE 0
        /\ \A i \in 1 .. xmit_cnt - (n + 1) + 1 :
             SubSeq(Queue, n + 1, xmit_cnt)[i] = Queue[(n + 1) + i - 1]
    <3>1. n + 1 \in Int /\ xmit_cnt \in Int
      BY <1>0
    <3> QED
      BY <2>1, <3>1, SubSeqProperties
  <2>3. xmit_cnt - (n + 1) + 1 = xmit_cnt - n /\ \A i \in 1 .. xmit_cnt - n : (n + 1) + i - 1 = n + i
    BY <1>0
  <2> QED
    BY <1>0, <1>2, <2>2, <2>3
<1>8. Queue' = SubSeq(Queue, n + 1, Len(Queue))
  BY <1>4, <1>5, <1>6, <1>7, SeqEqual
<1>9. RingOK'
  <2>1. xmit_head' = (xmit_tail' + xmit_cnt') % Size
    <3> DEFINE a == xmit_tail' + (xmit_cnt - n)
               b == xmit_tail + xmit_cnt
    <3>1. a \in 0 .. 2 * Size - 1 /\ b \in 0 .. 2 * Size - 1 /\ (b = a \/ b = a + Size)
      BY <1>0, <1>3
    <3>2. xmit_tail' + xmit_cnt' = a
      OBVIOUS
    <3>4. xmit_head' = b % Size
      <4>1. xmit_head' = xmit_head
        OBVIOUS
      <4> QED
        BY <1>0, <4>1, Zenon
    <3> HIDE DEF a, b
    <3>3. /\ a % Size = (IF a < Size THEN a ELSE a - Size)
          /\ b % Size = (IF b < Size THEN b ELSE b - Size)
      BY <1>1, <3>1
    <3>5. a % Size = b % Size
      BY <1>0, <3>1, <3>3
    <3> QED
      BY <3>2, <3>4, <3>5, Zenon
  <2>2. xmit_cnt' \in 0 .. Size - 1
    BY <1>0
  <2>3. xmit_buf' \in [0 .. Size - 1 -> Char \cup {XChar}] /\ xmit_head' \in 0 .. Size - 1
        /\ written' \in 0 .. MaxChars
    BY DEF RingOK
  <2> QED
    BY <1>3, <1>6, <2>1, <2>2, <2>3 DEF RingOK
<1> QED
  BY <1>8, <1>9

\* What a step may do to the queue.
QueueStep == CharQueueSpec!Next \/ UNCHANGED <<written, Queue, taken>>

\* Filling the FIFO takes characters from the front of the queue; an empty FIFO
\* does not stay empty if characters are waiting, with or without an x_char.
LEMMA LoadTakes ==
  ASSUME RingOK, FifoOK, LoadTxfifo, UNCHANGED written
  PROVE  /\ RingOK' /\ FifoOK' /\ QueueStep /\ x_char' \in BOOLEAN
         /\ xmit_cnt > 0 /\ fifo = <<>> => fifo' # <<>>
         /\ xmit_cnt' > 0 => xmit_cnt > 0
<1> DEFINE room == Fifo - Len(fifo)
           x == x_char /\ xmit_cnt > 0 /\ room > 0
           X == IF x THEN <<XChar>> ELSE <<>>
           n == Min(xmit_cnt, IF x THEN room - 1 ELSE room)
           chars == [i \in 1 .. n |-> Queue[i]]
<1>0. /\ fifo' = fifo \o X \o chars
      /\ x_char' = (x_char /\ ~x)
      /\ taken' = taken \o chars
      /\ xmit_tail' = (xmit_tail + n) % Size
      /\ xmit_cnt' = xmit_cnt - n
      /\ xmit_buf' = xmit_buf /\ xmit_head' = xmit_head
  BY DEF LoadTxfifo
<1>1. Fifo \in Nat /\ Fifo > 0 /\ xmit_cnt \in Nat /\ Len(fifo) \in Nat /\ Len(fifo) <= Fifo
  <2>1. Len(fifo) \in Nat /\ Len(fifo) <= Fifo
    BY LenProperties DEF FifoOK
  <2>2. xmit_cnt \in Nat
    BY AsyncTxAssumption DEF RingOK
  <2> QED
    BY <2>1, <2>2, AsyncTxAssumption
<1>2. n \in 0 .. xmit_cnt /\ n <= room /\ (x => n <= room - 1)
  <2>1. CASE x
    BY <1>1, <2>1 DEF Min
  <2>2. CASE ~x
    BY <1>1, <2>2 DEF Min
  <2> QED
    BY <2>1, <2>2
<1>3. xmit_cnt > 0 /\ Len(fifo) = 0 => x \/ n > 0
  BY <1>1 DEF Min
<1>4. Queue \in Seq(Char) /\ Len(Queue) = xmit_cnt /\ taken \in Seq(Char)
  <2>1. Len(Queue) = xmit_cnt
    BY <1>1 DEF Queue
  <2>2. Queue \in Seq(Char) /\ taken \in Seq(Char)
    BY Zenon DEF RingOK
  <2> QED
    BY <2>1, <2>2
<1> HIDE DEF n
<1>5. chars \in Seq(Char) /\ Len(chars) = n /\ chars = SubSeq(Queue, 1, n)
  <2>1. \A i \in 1 .. n : i \in 1 .. xmit_cnt
    BY <1>1, <1>2
  <2>2. \A i \in 1 .. n : Queue[i] \in Char
    BY <1>4, <2>1, ElementOfSeq
  <2>3. n \in Nat
    BY <1>1, <1>2
  <2>4. chars \in Seq(Char) /\ Len(chars) = n /\ \A i \in 1 .. n : chars[i] = Queue[i]
    BY <2>2, <2>3
  <2>5. /\ SubSeq(Queue, 1, n) \in Seq(Char)
        /\ Len(SubSeq(Queue, 1, n)) = n
        /\ \A i \in 1 .. n : SubSeq(Queue, 1, n)[i] = Queue[i]
    <3>1. /\ SubSeq(Queue, 1, n) \in Seq(Char)
          /\ Len(SubSeq(Queue, 1, n)) = (IF 1 <= n THEN n - 1 + 1 ELSE 0)
          /\ \A i \in 1 .. n - 1 + 1 : SubSeq(Queue, 1, n)[i] = Queue[1 + i - 1]
      BY <2>2, <2>3, SubSeqProperties
    <3>2. n - 1 + 1 = n /\ (1 <= n \/ n = 0) /\ \A i \in 1 .. n : 1 + i - 1 = i
      BY <2>3
    <3> QED
      BY <2>3, <3>1, <3>2
  <2> HIDE DEF chars
  <2> QED
    BY <2>4, <2>5, SeqEqual
<1> HIDE DEF chars
<1>6. taken' \in Seq(Char)
  BY <1>0, <1>4, <1>5, ConcatProperties
<1>7. RingOK' /\ Queue' = SubSeq(Queue, n + 1, Len(Queue))
  <2>1. UNCHANGED <<xmit_buf, xmit_head, written>>
    BY <1>0
  <2>2. xmit_tail' = (xmit_tail + n) % Size /\ xmit_cnt' = xmit_cnt - n
    BY <1>0
  <2> HIDE <1>0
  <2> QED
    BY <1>2, <1>6, <2>1, <2>2, TailDrops
<1>8. QueueStep
  <2>1. CASE n = 0
    <3>1. taken' = taken
      <4>1. chars = <<>>
        BY <1>5, <2>1, EmptySeq
      <4> QED
        BY <1>0, <1>4, <4>1, ConcatEmptySeq
    <3>2. Queue' = Queue
      BY <1>4, <1>7, <2>1, SubSeqFull
    <3> QED
      BY <3>1, <3>2 DEF QueueStep
  <2>2. CASE n \in 1 .. Len(Queue)
    <3>1. taken' = taken \o SubSeq(Queue, 1, n)
      BY <1>0, <1>5
    <3> QED
      BY <1>7, <2>2, <3>1 DEF QueueStep, CharQueueSpec!Next, CharQueueSpec!Take
  <2> QED
    BY <1>1, <1>2, <1>4, <2>1, <2>2
<1>9. FifoOK' /\ (xmit_cnt > 0 /\ fifo = <<>> => fifo' # <<>>)
  <2> DEFINE S == Char \cup {XChar}
  <2>1. fifo \in Seq(S) /\ chars \in Seq(S)
    <3>1. Char \subseteq S
      OBVIOUS
    <3>2. \A i \in 1 .. Len(chars) : chars[i] \in S
      BY <1>5, <3>1, ElementOfSeq
    <3>3. chars \in Seq(S)
      BY <1>5, <3>1, <3>2
    <3> QED
      BY <3>3, Zenon DEF FifoOK
  <2>5. /\ X \in Seq(S)
        /\ \/ Len(X) = 1 /\ n <= room - 1
           \/ Len(X) = 0 /\ (xmit_cnt > 0 /\ Len(fifo) = 0 => n > 0)
    <3>1. CASE x
      <4>1. X = <<XChar>>
        BY <3>1
      <4> QED
        BY <1>2, <3>1, <4>1
    <3>2. CASE ~x
      <4>1. X = <<>>
        BY <3>2
      <4> QED
        BY <1>3, <3>2, <4>1, EmptySeq
    <3> QED
      BY <3>1, <3>2
  <2> HIDE DEF X, x, S
  <2>2. fifo' \in Seq(S) /\ Len(fifo') = Len(fifo) + Len(X) + n
    <3>1. fifo \o X \in Seq(S) /\ Len(fifo \o X) = Len(fifo) + Len(X)
      BY <2>1, <2>5, ConcatProperties
    <3>2. /\ (fifo \o X) \o chars \in Seq(S)
          /\ Len((fifo \o X) \o chars) = Len(fifo \o X) + Len(chars)
      BY <2>1, <3>1, ConcatProperties
    <3>3. fifo' = (fifo \o X) \o chars
      BY <1>0
    <3> QED
      BY <1>5, <3>1, <3>2, <3>3, Zenon
  <2> DEFINE k == Len(X)
             m == Len(fifo)
  <2>6. /\ Len(fifo') = m + k + n /\ m \in Nat /\ m <= Fifo /\ n \in Nat /\ n <= Fifo - m
        /\ \/ k = 1 /\ n <= Fifo - m - 1
           \/ k = 0 /\ (xmit_cnt > 0 /\ m = 0 => n > 0)
    <3>1. n \in Nat
      BY <1>1, <1>2
    <3> QED
      BY <1>1, <1>2, <2>2, <2>5, <3>1, Zenon
  <2> HIDE DEF k, m
  <2>3. Len(fifo') <= Fifo
    BY <1>1, <2>6
  <2>4. ASSUME xmit_cnt > 0, fifo = <<>>
        PROVE  fifo' # <<>>
    <3>1. m = 0
      BY <2>4, EmptySeq DEF m
    <3>2. Len(fifo') > 0
      BY <1>1, <2>4, <2>6, <3>1
    <3> QED
      BY <3>2, EmptySeq
  <2> QED
    BY <2>2, <2>3, <2>4, Zenon DEF FifoOK, S
<1>10. xmit_cnt' > 0 => xmit_cnt > 0
  BY <1>0, <1>1, <1>2
<1> QED
  BY <1>0, <1>7, <1>8, <1>9, <1>10, Zenon

\* So does every copy: one turn of r56_write, or r56_put_char.
LEMMA CopyStep ==
  ASSUME RingOK, NEW n \in 1 .. Size - 1, Copy(n), UNCHANGED taken,
         n <= Size - xmit_cnt - 1, n <= Size - xmit_head, n <= MaxChars - written
  PROVE  RingOK' /\ QueueStep
<1>1. RingOK' /\ Queue' = Queue \o [i \in 1 .. n |-> written + i]
  BY CopyAppends
<1>2. Len(Queue) = xmit_cnt /\ n \in 1 .. (Size - 1) - xmit_cnt
  <2>1. xmit_cnt \in 0 .. Size - 1 /\ Size \in Nat
    BY AsyncTxAssumption DEF RingOK
  <2>2. Len(Queue) = xmit_cnt
    BY <2>1 DEF Queue
  <2> QED
    BY <2>1, <2>2
<1>3. written' = written + n /\ taken' = taken
  BY DEF Copy
<1>4. n \in 1 .. (Size - 1) - Len(Queue)
  BY <1>2
<1> QED
  BY <1>1, <1>3, <1>4, Zenon DEF QueueStep, CharQueueSpec!Next, CharQueueSpec!Put

\* Steps that leave the buffer alone.
LEMMA Quiet ==
  ASSUME RingOK, UNCHANGED <<ring, written, taken>>
  PROVE  RingOK' /\ QueueStep
<1>1. /\ xmit_buf' = xmit_buf /\ xmit_head' = xmit_head /\ xmit_tail' = xmit_tail
      /\ xmit_cnt' = xmit_cnt /\ written' = written /\ taken' = taken
  BY DEF ring
<1>2. Queue' = Queue
  BY <1>1 DEF Queue
<1> QED
  BY <1>1, <1>2 DEF RingOK, QueueStep

\* Steps that empty it.
LEMMA Emptied ==
  ASSUME RingOK, ResetBuffer, UNCHANGED <<written, taken>>
  PROVE  RingOK' /\ QueueStep /\ xmit_cnt' = 0
<1>1. /\ xmit_buf' = xmit_buf /\ xmit_head' = 0 /\ xmit_tail' = 0
      /\ xmit_cnt' = 0 /\ written' = written /\ taken' = taken
  BY DEF ResetBuffer
<1>2. Queue' = <<>>
  BY <1>1 DEF Queue
<1>3. 0 \in 0 .. Size - 1 /\ 0 = (0 + 0) % Size
  BY AsyncTxAssumption
<1> QED
  BY <1>1, <1>2, <1>3, EmptySeq DEF RingOK, QueueStep, CharQueueSpec!Next, CharQueueSpec!Clear

\* Starting the transmitter: characters that were waiting are being sent.
LEMMA Started ==
  ASSUME RingOK, FifoOK, Flags, Transmitter, StartTransmitter, UNCHANGED written
  PROVE  /\ RingOK' /\ FifoOK' /\ QueueStep /\ Transmitter'
         /\ x_char' \in BOOLEAN /\ tx_active' \in BOOLEAN /\ tx_enabled' \in BOOLEAN
         /\ data_irq' \in BOOLEAN /\ txirq' \in BOOLEAN
         /\ xmit_cnt' > 0 => tx_active'
<1>0. tx_enabled' = TRUE /\ tx_active' = (tx_active \/ xmit_cnt > 0)
  BY DEF StartTransmitter
<1>1. CASE xmit_cnt > 0 /\ ~tx_active
  <2>1. LoadTxfifo /\ data_irq' = TRUE /\ txirq' = FALSE
    BY <1>1 DEF StartTransmitter
  <2>2. /\ RingOK' /\ FifoOK' /\ QueueStep /\ x_char' \in BOOLEAN
        /\ xmit_cnt > 0 /\ fifo = <<>> => fifo' # <<>>
    BY <2>1, LoadTakes
  <2> QED
    BY <1>0, <1>1, <2>1, <2>2, Zenon DEF Transmitter
<1>2. CASE ~(xmit_cnt > 0 /\ ~tx_active)
  <2>1. UNCHANGED <<ring, x_char, chip, taken>>
    BY <1>2 DEF StartTransmitter
  <2>2. /\ xmit_cnt' = xmit_cnt /\ x_char' = x_char /\ taken' = taken
        /\ fifo' = fifo /\ data_irq' = data_irq /\ txirq' = txirq
    BY <2>1 DEF ring, chip
  <2>3. RingOK' /\ QueueStep
    BY <2>1, Quiet
  <2>4. FifoOK'
    BY <2>2, Zenon DEF FifoOK
  <2> QED
    BY <1>0, <1>2, <2>2, <2>3, <2>4, Zenon DEF Transmitter, Flags
<1> QED
  BY <1>1, <1>2

-----------------------------------------------------------------------------
(* What every step preserves.                                              *)

Sound == RingOK /\ FifoOK /\ Flags /\ Transmitter

\* Steps of the line discipline and of r56_send_xchar that touch neither the
\* buffer nor the transmitter.
LEMMA AsideSound ==
  ASSUME Sound, UNCHANGED <<ring, written, taken, state, chip>>,
         x_char' \in BOOLEAN, pending' \in BOOLEAN, woken' \in BOOLEAN, hw_stopped' \in BOOLEAN
  PROVE  Sound' /\ QueueStep
<1>1. RingOK' /\ QueueStep
  BY Quiet DEF Sound
<1>2. /\ tx_active' = tx_active /\ tx_enabled' = tx_enabled
      /\ fifo' = fifo /\ data_irq' = data_irq /\ txirq' = txirq
  BY DEF state, chip
<1> QED
  BY <1>1, <1>2, Zenon DEF Sound, FifoOK, Flags, Transmitter

\* Stopping the transmitter purges the FIFO and leaves the buffer alone.
LEMMA StoppedSound ==
  ASSUME Sound, StopTransmitter, UNCHANGED <<ring, x_char, written, taken>>,
         pending' \in BOOLEAN, woken' \in BOOLEAN, hw_stopped' \in BOOLEAN
  PROVE  Sound' /\ QueueStep
<1>1. RingOK' /\ QueueStep
  BY Quiet DEF Sound
<1>2. /\ tx_active' = FALSE /\ tx_enabled' = FALSE /\ x_char' = x_char
      /\ fifo' = <<>> /\ data_irq' = FALSE /\ txirq' = FALSE
  BY DEF StopTransmitter
<1>3. FifoOK'
  BY <1>2, EmptySeq, AsyncTxAssumption DEF FifoOK
<1> QED
  BY <1>1, <1>2, <1>3, Zenon DEF Sound, Flags, Transmitter

\* usc_start_transmitter, which may load the FIFO, keeps the invariant of the
\* buffer and takes a step of the queue.
LEMMA StartedSound ==
  ASSUME Sound, StartTransmitter, UNCHANGED written,
         pending' \in BOOLEAN, woken' \in BOOLEAN, hw_stopped' \in BOOLEAN
  PROVE  Sound' /\ QueueStep
BY Started, Zenon DEF Sound, Flags

\* The writer.
LEMMA WriterSound ==
  ASSUME Sound, WriteBegin \/ PutChar \/ Writer
  PROVE  Sound' /\ QueueStep
<1>0. /\ x_char \in BOOLEAN /\ pending \in BOOLEAN /\ woken \in BOOLEAN /\ hw_stopped \in BOOLEAN
  BY DEF Sound, Flags
<1>1. CASE WriteBegin
  <2>1. /\ UNCHANGED <<ring, written, taken, state, chip>>
        /\ x_char' = x_char /\ pending' = pending /\ hw_stopped' = hw_stopped /\ woken' = FALSE
    BY <1>1 DEF WriteBegin, tty
  <2> QED
    BY <1>0, <2>1, AsideSound
<1>2. ASSUME UNCHANGED <<state, chip, x_char, pending, hw_stopped>>, woken' \in BOOLEAN,
             RingOK' /\ QueueStep
      PROVE  Sound' /\ QueueStep
  <2>1. /\ tx_active' = tx_active /\ tx_enabled' = tx_enabled /\ x_char' = x_char
        /\ fifo' = fifo /\ data_irq' = data_irq /\ txirq' = txirq
        /\ pending' = pending /\ hw_stopped' = hw_stopped
    BY <1>2 DEF state, chip
  <2> QED
    BY <1>2, <2>1, Zenon DEF Sound, FifoOK, Flags, Transmitter
<1>3. CASE PutChar
  <2>1. UNCHANGED <<state, chip, x_char, pending, hw_stopped>> /\ woken' \in BOOLEAN
    BY <1>3 DEF PutChar, tty
  <2>2. /\ xmit_cnt \in 0 .. Size - 1 /\ xmit_head \in 0 .. Size - 1 /\ Size \in Nat /\ Size > 1
        /\ written \in 0 .. MaxChars /\ written < MaxChars
    BY <1>3, AsyncTxAssumption DEF Sound, RingOK, PutChar
  <2>3. CASE xmit_cnt < Size - 1
    <3>1. Copy(1) /\ UNCHANGED taken
      BY <1>3, <2>3 DEF PutChar
    <3>2. 1 \in 1 .. Size - 1 /\ 1 <= Size - xmit_cnt - 1 /\ 1 <= Size - xmit_head
          /\ 1 <= MaxChars - written
      BY <2>2, <2>3, AsyncTxAssumption
    <3>3. RingOK' /\ QueueStep
      BY <3>1, <3>2, CopyStep DEF Sound
    <3> QED
      BY <1>2, <2>1, <3>3
  <2>4. CASE ~(xmit_cnt < Size - 1)
    <3>1. UNCHANGED <<ring, written, taken>>
      BY <1>3, <2>4 DEF PutChar
    <3> QED
      BY <1>2, <2>1, <3>1, Quiet DEF Sound
  <2> QED
    BY <2>3, <2>4
<1>4. CASE WriteCopy
  <2>1. UNCHANGED <<state, chip, x_char, pending, hw_stopped>> /\ woken' \in BOOLEAN
    BY <1>0, <1>4 DEF WriteCopy, tty
  <2>2. /\ xmit_cnt \in 0 .. Size - 1 /\ xmit_head \in 0 .. Size - 1 /\ Size \in Nat /\ Size > 1
        /\ written \in 0 .. MaxChars /\ MaxChars \in Nat
    BY AsyncTxAssumption DEF Sound, RingOK
  <2>3. CASE CopySize > 0
    <3>1. Copy(CopySize) /\ UNCHANGED taken
      BY <1>4, <2>3 DEF WriteCopy
    <3>2. CopySize \in 1 .. Size - 1 /\ CopySize <= Size - xmit_cnt - 1
          /\ CopySize <= Size - xmit_head /\ CopySize <= MaxChars - written
      BY <2>2, <2>3 DEF CopySize, Min
    <3>3. RingOK' /\ QueueStep
      BY <3>1, <3>2, CopyStep DEF Sound
    <3> QED
      BY <1>2, <2>1, <3>3
  <2>4. CASE ~(CopySize > 0)
    <3>1. UNCHANGED <<ring, written, taken>>
      BY <1>4, <2>4 DEF WriteCopy
    <3> QED
      BY <1>2, <2>1, <3>1, Quiet DEF Sound
  <2> QED
    BY <2>3, <2>4
<1>5. CASE WriteCheck
  <2>1. UNCHANGED <<ring, written, taken, state, chip>>
        /\ x_char' = x_char /\ pending' = pending /\ hw_stopped' = hw_stopped /\ woken' = woken
    BY <1>5 DEF WriteCheck, tty
  <2> QED
    BY <1>0, <2>1, AsideSound
<1>6. CASE WriteStart
  <2>1. /\ UNCHANGED written /\ pending' = pending /\ hw_stopped' = hw_stopped /\ woken' = woken
        /\ (StartTransmitter \/ UNCHANGED <<ring, x_char, state, chip, taken>>)
    BY <1>6 DEF WriteStart, tty
  <2>2. CASE StartTransmitter
    BY <1>0, <2>1, <2>2, StartedSound
  <2>3. CASE UNCHANGED <<ring, x_char, state, chip, taken>>
    <3>1. UNCHANGED <<ring, written, taken, state, chip>> /\ x_char' = x_char
      BY <2>1, <2>3
    <3> QED
      BY <1>0, <2>1, <3>1, AsideSound
  <2> QED
    BY <2>1, <2>2, <2>3
<1> QED
  BY <1>1, <1>3, <1>4, <1>5, <1>6 DEF Writer

\* The transmitter, its interrupt and the bottom half.
LEMMA DriverSound ==
  ASSUME Sound, HwSend \/ Driver
  PROVE  Sound' /\ QueueStep
<1>0. /\ x_char \in BOOLEAN /\ pending \in BOOLEAN /\ woken \in BOOLEAN /\ hw_stopped \in BOOLEAN
      /\ tx_active \in BOOLEAN /\ tx_enabled \in BOOLEAN /\ data_irq \in BOOLEAN
      /\ txirq \in BOOLEAN
  BY DEF Sound, Flags
<1>1. CASE HwSend
  <2>1. /\ UNCHANGED <<ring, written, taken>>
        /\ x_char' = x_char /\ pending' = pending /\ hw_stopped' = hw_stopped /\ woken' = woken
        /\ tx_active' = tx_active /\ tx_enabled' = tx_enabled /\ data_irq' = data_irq
        /\ fifo # <<>> /\ fifo' = Tail(fifo)
    BY <1>1 DEF HwSend, writer, state, tty
  <2>2. txirq' = (txirq \/ (data_irq /\ Len(fifo) = 1))
    BY <1>1 DEF HwSend
  <2>3. RingOK' /\ QueueStep
    BY <2>1, Quiet DEF Sound
  <2>4. FifoOK' /\ Len(fifo') = Len(fifo) - 1 /\ Len(fifo) \in Nat \ {0}
    <3>1. fifo \in Seq(Char \cup {XChar}) /\ Len(fifo) <= Fifo
      BY DEF Sound, FifoOK
    <3>2. Tail(fifo) \in Seq(Char \cup {XChar}) /\ Len(Tail(fifo)) = Len(fifo) - 1
      BY <2>1, <3>1, HeadTailProperties
    <3>3. Len(fifo) \in Nat \ {0}
      BY <2>1, <3>1, EmptySeq
    <3> QED
      BY <2>1, <3>1, <3>2, <3>3, AsyncTxAssumption DEF FifoOK
  <2>5. (Len(fifo) = 1 /\ fifo' = <<>>) \/ (Len(fifo) # 1 /\ fifo' # <<>>)
    <3>1. fifo' \in Seq(Char \cup {XChar})
      BY <2>4 DEF FifoOK
    <3>2. fifo' = <<>> <=> Len(fifo') = 0
      BY <3>1, EmptySeq
    <3> QED
      BY <2>4, <3>2
  <2>6. Transmitter'
    BY <1>0, <2>1, <2>2, <2>5, Zenon DEF Transmitter, Sound
  <2>7. txirq' \in BOOLEAN
    BY <2>2, Zenon
  <2> QED
    BY <1>0, <2>1, <2>3, <2>4, <2>6, <2>7, Zenon DEF Sound, Flags
<1>2. CASE IsrTransmitData
  <2>1. UNCHANGED written /\ hw_stopped' = hw_stopped /\ woken' = woken /\ txirq
    BY <1>2 DEF IsrTransmitData, writer, tty
  <2>2. CASE Stopped
    <3>1. StopTransmitter /\ UNCHANGED <<ring, x_char, pending, taken>>
      BY <1>2, <2>2 DEF IsrTransmitData
    <3>2. UNCHANGED <<ring, x_char, written, taken>> /\ pending' = pending
      BY <2>1, <3>1
    <3> QED
      BY <1>0, <2>1, <3>1, <3>2, StoppedSound
  <2>3. CASE ~Stopped
    <3>1. /\ txirq' = FALSE /\ tx_enabled' = tx_enabled /\ data_irq' = data_irq
          /\ pending' = (pending \/ xmit_cnt' < Wakeup)
      BY <1>2, <2>3 DEF IsrTransmitData
    <3>2. pending' \in BOOLEAN
      BY <3>1, Zenon
    <3>3. CASE xmit_cnt > 0
      <4>1. LoadTxfifo /\ tx_active' = tx_active
        BY <1>2, <2>3, <3>3 DEF IsrTransmitData
      <4>2. /\ RingOK' /\ FifoOK' /\ QueueStep /\ x_char' \in BOOLEAN
            /\ xmit_cnt > 0 /\ fifo = <<>> => fifo' # <<>>
        BY <2>1, <4>1, LoadTakes DEF Sound
      <4> QED
        BY <1>0, <2>1, <3>1, <3>2, <3>3, <4>1, <4>2, Zenon DEF Sound, Flags, Transmitter
    <3>4. CASE ~(xmit_cnt > 0)
      <4>1. tx_active' = FALSE /\ UNCHANGED <<ring, x_char, fifo, taken>>
        BY <1>2, <2>3, <3>4 DEF IsrTransmitData
      <4>2. x_char' = x_char /\ fifo' = fifo
        BY <4>1
      <4>3. RingOK' /\ QueueStep
        BY <2>1, <4>1, Quiet DEF Sound
      <4> QED
        BY <1>0, <2>1, <3>1, <3>2, <4>1, <4>2, <4>3, Zenon DEF Sound, FifoOK, Flags, Transmitter
    <3> QED
      BY <3>3, <3>4
  <2> QED
    BY <2>2, <2>3
<1>3. CASE BhTransmit
  <2>1. /\ UNCHANGED <<ring, written, taken, state, chip>>
        /\ x_char' = x_char /\ pending' = FALSE /\ hw_stopped' = hw_stopped /\ woken' = TRUE
    BY <1>3 DEF BhTransmit, writer, tty
  <2> QED
    BY <1>0, <2>1, AsideSound
<1> QED
  BY <1>1, <1>2, <1>3 DEF Driver

\* The operations.
LEMMA OperationsSound ==
  ASSUME Sound, Operations
  PROVE  Sound' /\ QueueStep
<1>0. /\ x_char \in BOOLEAN /\ pending \in BOOLEAN /\ woken \in BOOLEAN /\ hw_stopped \in BOOLEAN
  BY DEF Sound, Flags
<1> DEFINE Alone == UNCHANGED <<ring, written, taken, state, chip>>
           Rest == pending' = pending /\ woken' = woken
<1>1. CASE TtyStop \/ TtyStart
  <2>1. Alone /\ x_char' = x_char /\ Rest /\ hw_stopped' = hw_stopped
    BY <1>1 DEF TtyStop, TtyStart, writer
  <2> QED
    BY <1>0, <2>1, AsideSound
<1>2. CASE R56Stop
  <2>1. /\ UNCHANGED <<ring, x_char, written, taken>> /\ Rest /\ hw_stopped' = hw_stopped
        /\ (StopTransmitter \/ UNCHANGED <<state, chip>>)
    BY <1>2 DEF R56Stop, writer
  <2>2. CASE StopTransmitter
    BY <1>0, <2>1, <2>2, StoppedSound
  <2>3. CASE UNCHANGED <<state, chip>>
    <3>1. Alone /\ x_char' = x_char
      BY <2>1, <2>3
    <3> QED
      BY <1>0, <2>1, <3>1, AsideSound
  <2> QED
    BY <2>1, <2>2, <2>3
<1>3. CASE R56Start \/ SendXcharStart \/ SetTermiosStart
  <2>1. /\ UNCHANGED written /\ Rest /\ hw_stopped' = hw_stopped
        /\ (StartTransmitter \/ UNCHANGED <<ring, x_char, state, chip, taken>>)
    BY <1>3 DEF R56Start, SendXcharStart, SetTermiosStart, writer, tty
  <2>2. CASE StartTransmitter
    BY <1>0, <2>1, <2>2, StartedSound
  <2>3. CASE UNCHANGED <<ring, x_char, state, chip, taken>>
    <3>1. Alone /\ x_char' = x_char
      BY <2>1, <2>3
    <3> QED
      BY <1>0, <2>1, <3>1, AsideSound
  <2> QED
    BY <2>1, <2>2, <2>3
<1>4. CASE CtsDown
  <2>1. /\ StopTransmitter /\ UNCHANGED <<ring, x_char, written, taken>>
        /\ Rest /\ hw_stopped' = TRUE
    BY <1>4 DEF CtsDown, writer
  <2> QED
    BY <1>0, <2>1, StoppedSound
<1>5. CASE CtsUp
  <2>1. /\ StartTransmitter /\ UNCHANGED written
        /\ pending' = TRUE /\ woken' = woken /\ hw_stopped' = FALSE
    BY <1>5 DEF CtsUp, writer
  <2> QED
    BY <1>0, <2>1, StartedSound
<1>6. CASE FlushBuffer
  <2>1. /\ ResetBuffer /\ UNCHANGED <<written, taken>> /\ x_char' = x_char /\ pending' = pending
        /\ woken' = TRUE /\ hw_stopped' = hw_stopped /\ tx_active' = tx_active
        /\ tx_enabled' = tx_enabled /\ fifo' = fifo /\ data_irq' = data_irq /\ txirq' = txirq
    BY <1>6 DEF FlushBuffer, writer, tty, state, chip
  <2>2. RingOK' /\ QueueStep
    BY <2>1, Emptied DEF Sound
  <2> QED
    BY <2>1, <2>2, Zenon DEF Sound, FifoOK, Flags, Transmitter
<1>7. CASE SetParams \/ SetTermiosProgram
  <2>1. ProgramHw
    BY <1>7 DEF SetParams, SetTermiosProgram
  <2>2. /\ ResetBuffer /\ UNCHANGED <<written, taken>> /\ x_char' = x_char /\ Rest
        /\ hw_stopped' = hw_stopped /\ tx_active' = FALSE
        /\ tx_enabled' = FALSE /\ fifo' = <<>> /\ data_irq' = FALSE /\ txirq' = FALSE
    BY <2>1 DEF ProgramHw, StopTransmitter, writer
  <2>3. RingOK' /\ QueueStep
    BY <2>2, Emptied DEF Sound
  <2>4. FifoOK'
    BY <2>2, EmptySeq, AsyncTxAssumption DEF FifoOK
  <2> QED
    BY <2>2, <2>3, <2>4, Zenon DEF Sound, Flags, Transmitter
<1>8. CASE \E b \in BOOLEAN : TxEnable(b)
  <2>1. PICK b \in BOOLEAN : TxEnable(b)
    BY <1>8
  <2>2. /\ UNCHANGED written /\ Rest /\ hw_stopped' = hw_stopped
        /\ \/ StartTransmitter
           \/ StopTransmitter /\ UNCHANGED <<ring, x_char, taken>>
    BY <2>1 DEF TxEnable, writer, tty
  <2>3. CASE StartTransmitter
    BY <1>0, <2>2, <2>3, StartedSound
  <2>4. CASE StopTransmitter /\ UNCHANGED <<ring, x_char, taken>>
    <3>1. UNCHANGED <<ring, x_char, written, taken>>
      BY <2>2, <2>4
    <3> QED
      BY <1>0, <2>2, <2>4, <3>1, StoppedSound
  <2> QED
    BY <2>2, <2>3, <2>4
<1>9. CASE SendXchar \/ UnthrottleDrops
  <2>1. Alone /\ x_char' \in BOOLEAN /\ Rest /\ hw_stopped' = hw_stopped
    BY <1>9 DEF SendXchar, UnthrottleDrops, writer, tty
  <2> QED
    BY <1>0, <2>1, AsideSound
<1>10. CASE \E b \in BOOLEAN : SetTermios(b)
  <2>1. Alone /\ x_char' = x_char /\ Rest /\ hw_stopped' = hw_stopped
    BY <1>10 DEF SetTermios, writer
  <2> QED
    BY <1>0, <2>1, AsideSound
<1>11. CASE SetTermiosCts
  <2>1. Alone /\ x_char' = x_char /\ Rest /\ hw_stopped' = FALSE
    BY <1>11 DEF SetTermiosCts, writer
  <2> QED
    BY <1>0, <2>1, AsideSound
<1> QED
  BY <1>1, <1>2, <1>3, <1>4, <1>5, <1>6, <1>7, <1>8, <1>9, <1>10, <1>11 DEF Operations

\* The same for every kind of step.
LEMMA StepSound ==
  ASSUME Sound, Step
  PROVE  Sound' /\ QueueStep
BY WriterSound, DriverSound, OperationsSound DEF Step

\* Control points, and the operations counted.
LEMMA PointsStep ==
  ASSUME Points, Step
  PROVE  Points' /\ used \subseteq used'
<1>1. flow' \in {"go", "stopping", "stopped", "starting"}
      /\ w' \in {"wait", "copy", "check", "start"} /\ sx' \in {"idle", "start"}
  BY DEF Points, Step, WriteBegin, PutChar, Writer, WriteCopy, WriteCheck, WriteStart, HwSend,
         Driver, IsrTransmitData, BhTransmit, Operations, TtyStop, R56Stop, TtyStart, R56Start,
         CtsDown, CtsUp, FlushBuffer, SetParams, ProgramHw, SetTermios, SetTermiosProgram,
         SetTermiosCts, SetTermiosStart, TxEnable, SendXchar, SendXcharStart, UnthrottleDrops,
         tty, calls, writer
<1>2. UNCHANGED done \/ \E kind \in Ops : Op(kind)
  BY DEF Step, WriteBegin, PutChar, Writer, WriteCopy, WriteCheck, WriteStart, HwSend,
         Driver, IsrTransmitData, BhTransmit, Operations, TtyStop, R56Stop, TtyStart, R56Start,
         CtsDown, CtsUp, FlushBuffer, SetParams, SetTermios, SetTermiosProgram, SetTermiosCts,
         SetTermiosStart, TxEnable, SendXchar, SendXcharStart, UnthrottleDrops, Op
<1>3. ops' \in 0 .. MaxOps /\ used' \subseteq Ops /\ used \subseteq used'
  <2>1. CASE UNCHANGED done
    BY <2>1 DEF done, Points
  <2>2. ASSUME NEW kind \in Ops, Op(kind)
        PROVE  ops' \in 0 .. MaxOps /\ used' \subseteq Ops /\ used \subseteq used'
    <3>1. MaxOps \in Nat /\ ops \in 0 .. MaxOps /\ used \subseteq Ops
      BY AsyncTxAssumption DEF Points
    <3>2. ops < MaxOps /\ ops' = ops + 1 /\ used' = used \cup {kind}
      BY <2>2 DEF Op
    <3> QED
      BY <3>1, <3>2
  <2> QED
    BY <1>2, <2>1, <2>2
<1> QED
  BY <1>1, <1>3 DEF Points

\* r56_set_termios goes through its steps, and ASYNC_CTS_FLOW is a flag.
LEMMA TermiosStep ==
  ASSUME Termios, Step
  PROVE  Termios'
<1>1. st' = st \/ st' \in {"idle", "same", "off", "cts", "start"}
  BY DEF Step, WriteBegin, PutChar, Writer, WriteCopy, WriteCheck, WriteStart, HwSend,
         Driver, IsrTransmitData, BhTransmit, Operations, TtyStop, R56Stop, TtyStart, R56Start,
         CtsDown, CtsUp, FlushBuffer, SetParams, SetTermios, SetTermiosProgram,
         SetTermiosCts, SetTermiosStart, TxEnable, SendXchar, SendXcharStart, UnthrottleDrops,
         calls
<1>2. cts_flow' = cts_flow \/ \E b \in BOOLEAN : cts_flow' = b
  BY DEF Step, WriteBegin, PutChar, Writer, WriteCopy, WriteCheck, WriteStart, HwSend,
         Driver, IsrTransmitData, BhTransmit, Operations, TtyStop, R56Stop, TtyStart, R56Start,
         CtsDown, CtsUp, FlushBuffer, SetParams, SetTermios, SetTermiosProgram,
         SetTermiosCts, SetTermiosStart, TxEnable, SendXchar, SendXcharStart, UnthrottleDrops,
         tty
<1> QED
  BY <1>1, <1>2, Zenon DEF Termios

\* Where the transmitter is started, no characters are left waiting.
LEMMA StartedManned ==
  ASSUME Sound, StartTransmitter, UNCHANGED written
  PROVE  Manned'
BY Started, Zenon DEF Sound, Manned

\* Waiting characters have somebody to send them, unless r56_start was misled.
LEMMA MannedStep ==
  ASSUME IInv, Step, ~misled
  PROVE  Manned'
<1>0. /\ Sound /\ Manned /\ used \subseteq used'
      /\ flow = "stopped" /\ tx_enabled => tx_active
      /\ st = "cts" /\ hw_stopped /\ tx_enabled => tx_active
  BY PointsStep DEF IInv, Sound, Served
<1>1. ASSUME xmit_cnt' > 0 => xmit_cnt > 0, w' = w, hw_stopped' = hw_stopped, flow' = flow,
             st' = st, tx_active' = tx_active, tx_enabled' = tx_enabled
      PROVE  Manned'
  BY <1>0, <1>1, Zenon DEF Manned
<1>2. CASE WriteBegin \/ PutChar
  BY <1>2 DEF WriteBegin, PutChar, Manned
<1>3. CASE WriteCopy
  <2>1. w' # "wait"
    BY <1>3 DEF WriteCopy
  <2> QED
    BY <2>1 DEF Manned
<1>4. CASE WriteCheck
  <2>1. /\ xmit_cnt' = xmit_cnt /\ flow' = flow /\ hw_stopped' = hw_stopped
        /\ w' = (IF xmit_cnt > 0 /\ ~Stopped THEN "start" ELSE "wait")
    BY <1>4 DEF WriteCheck, ring, tty
  <2>2. w' = "wait" => ~(xmit_cnt > 0) \/ Stopped
    BY <2>1
  <2> QED
    BY <2>1, <2>2 DEF Manned, Stopped
<1>5. CASE WriteStart
  <2>1. CASE tx_active
    <3>1. tx_active'
      BY <1>5, <2>1 DEF WriteStart, state
    <3> QED
      BY <3>1 DEF Manned
  <2>2. CASE ~tx_active
    <3>1. StartTransmitter /\ UNCHANGED written
      BY <1>5, <2>2 DEF WriteStart
    <3> QED
      BY <1>0, <3>1, StartedManned
  <2> QED
    BY <2>1, <2>2
<1>6. CASE HwSend \/ BhTransmit
  <2>1. /\ xmit_cnt' = xmit_cnt /\ w' = w /\ hw_stopped' = hw_stopped /\ flow' = flow /\ st' = st
        /\ tx_active' = tx_active /\ tx_enabled' = tx_enabled
    BY <1>6 DEF HwSend, BhTransmit, ring, writer, tty, calls, state
  <2> QED
    BY <1>1, <2>1
<1>7. CASE IsrTransmitData
  <2>1. w' = w /\ hw_stopped' = hw_stopped /\ flow' = flow /\ st' = st /\ written' = written
    BY <1>7 DEF IsrTransmitData, writer, tty, calls
  <2>2. CASE Stopped
    BY <2>1, <2>2 DEF Stopped, Manned
  <2>3. CASE ~Stopped /\ xmit_cnt > 0
    <3>1. LoadTxfifo /\ tx_active' = tx_active /\ tx_enabled' = tx_enabled
      BY <1>7, <2>3 DEF IsrTransmitData
    <3> QED
      BY <1>1, <2>1, <2>3, <3>1
  <2>4. CASE ~Stopped /\ ~(xmit_cnt > 0)
    <3>1. xmit_cnt' = xmit_cnt
      BY <1>7, <2>4 DEF IsrTransmitData, ring
    <3> QED
      BY <2>4, <3>1 DEF Manned
  <2> QED
    BY <2>2, <2>3, <2>4
<1>8. CASE TtyStop \/ R56Stop
  <2>1. flow' = "stopping" \/ flow' = "stopped"
    BY <1>8 DEF TtyStop, R56Stop
  <2> QED
    BY <2>1 DEF Manned
<1>9. CASE TtyStart
  <2>1. flow = "stopped" /\ flow' = "starting" /\ tx_enabled' = tx_enabled /\ tx_active' = tx_active
    BY <1>9 DEF TtyStart, state
  <2> QED
    BY <1>0, <2>1 DEF Manned
<1>10. CASE R56Start
  <2>1. CASE tx_enabled
    <3>1. /\ xmit_cnt' = xmit_cnt /\ w' = w /\ hw_stopped' = hw_stopped /\ tx_active' = tx_active
          /\ flow = "starting" /\ st' = st
      BY <1>10, <2>1 DEF R56Start, ring, writer, calls, state
    <3> QED
      BY <1>0, <2>1, <3>1 DEF Manned
  <2>2. CASE ~tx_enabled
    <3>1. StartTransmitter /\ UNCHANGED written
      BY <1>10, <2>2 DEF R56Start, writer
    <3> QED
      BY <1>0, <3>1, StartedManned
  <2> QED
    BY <2>1, <2>2
<1>11. CASE CtsDown
  BY <1>11 DEF CtsDown, Manned
<1>12. CASE CtsUp
  <2>1. StartTransmitter /\ UNCHANGED written
    BY <1>12 DEF CtsUp, writer
  <2> QED
    BY <1>0, <2>1, StartedManned
<1>13. CASE FlushBuffer \/ SetParams \/ SetTermiosProgram
  <2>1. xmit_cnt' = 0
    BY <1>13 DEF FlushBuffer, SetParams, SetTermiosProgram, ProgramHw, ResetBuffer
  <2> QED
    BY <2>1 DEF Manned
<1>14. CASE \E b \in BOOLEAN : TxEnable(b)
  <2>1. "txenable" \in used'
    BY <1>14 DEF TxEnable, Op
  <2> QED
    BY <2>1 DEF Manned
<1>15. CASE SendXchar \/ UnthrottleDrops
  <2>1. /\ xmit_cnt' = xmit_cnt /\ w' = w /\ hw_stopped' = hw_stopped /\ flow' = flow /\ st' = st
        /\ tx_active' = tx_active /\ tx_enabled' = tx_enabled
    BY <1>15 DEF SendXchar, UnthrottleDrops, ring, writer, tty, calls, state
  <2> QED
    BY <1>1, <2>1
<1>16. CASE SendXcharStart
  <2>1. CASE tx_enabled
    <3>1. /\ xmit_cnt' = xmit_cnt /\ w' = w /\ hw_stopped' = hw_stopped /\ flow' = flow /\ st' = st
          /\ tx_active' = tx_active /\ tx_enabled' = tx_enabled
      BY <1>16, <2>1 DEF SendXcharStart, ring, writer, tty, state
    <3> QED
      BY <1>1, <3>1
  <2>2. CASE ~tx_enabled
    <3>1. StartTransmitter /\ UNCHANGED written
      BY <1>16, <2>2 DEF SendXcharStart, writer
    <3> QED
      BY <1>0, <3>1, StartedManned
  <2> QED
    BY <2>1, <2>2
<1>17. CASE \E b \in BOOLEAN : SetTermios(b)
  <2>1. /\ xmit_cnt' = xmit_cnt /\ w' = w /\ hw_stopped' = hw_stopped /\ flow' = flow
        /\ tx_active' = tx_active /\ tx_enabled' = tx_enabled /\ st # "start"
    BY <1>17 DEF SetTermios, ring, writer, state
  <2> QED
    BY <1>0, <2>1, Zenon DEF Manned
<1>18. CASE SetTermiosCts
  <2>1. /\ xmit_cnt' = xmit_cnt /\ w' = w /\ flow' = flow /\ st = "cts" /\ st' = "start"
        /\ tx_active' = tx_active /\ tx_enabled' = tx_enabled
    BY <1>18 DEF SetTermiosCts, ring, writer, state
  <2>2. st # "start"
    BY <2>1
  <2>3. hw_stopped \in BOOLEAN
    BY <1>0 DEF Sound, Flags
  <2> QED
    BY <1>0, <2>1, <2>2, <2>3, Zenon DEF Manned
<1>19. CASE SetTermiosStart
  <2>1. CASE tx_enabled
    <3>1. /\ xmit_cnt' = xmit_cnt /\ w' = w /\ hw_stopped' = hw_stopped /\ flow' = flow
          /\ tx_active' = tx_active /\ tx_enabled' = tx_enabled
      BY <1>19, <2>1 DEF SetTermiosStart, ring, writer, tty, state
    <3> QED
      BY <1>0, <2>1, <3>1, Zenon DEF Manned
  <2>2. CASE ~tx_enabled
    <3>1. StartTransmitter /\ UNCHANGED written
      BY <1>19, <2>2 DEF SetTermiosStart, writer
    <3> QED
      BY <1>0, <3>1, StartedManned
  <2> QED
    BY <2>1, <2>2
<1> QED
  BY <1>2, <1>3, <1>4, <1>5, <1>6, <1>7, <1>8, <1>9, <1>10, <1>11, <1>12, <1>13, <1>14, <1>15,
     <1>16, <1>17, <1>18, <1>19 DEF Step, Writer, Driver, Operations

-----------------------------------------------------------------------------
(* The theorems.                                                           *)

\* The invariant and the promise hold initially.
LEMMA IInvInit == Init => IInv /\ CharQueueSpec!Init
<1> SUFFICES ASSUME Init PROVE IInv /\ CharQueueSpec!Init
  OBVIOUS
<1>1. Queue = <<>>
  BY DEF Init, Queue
<1>2. RingOK
  <2>1. xmit_buf \in [0 .. Size - 1 -> Char \cup {XChar}]
    BY DEF Init
  <2>2. 0 \in 0 .. Size - 1 /\ 0 = (0 + 0) % Size /\ 0 \in 0 .. MaxChars
    BY AsyncTxAssumption
  <2> QED
    BY <1>1, <2>1, <2>2, EmptySeq DEF RingOK, Init
<1>3. FifoOK
  BY EmptySeq, AsyncTxAssumption DEF FifoOK, Init
<1>4. Points
  BY AsyncTxAssumption DEF Points, Init
<1>5. Flags /\ Transmitter /\ Termios /\ misled \in BOOLEAN
  BY Zenon DEF Flags, Transmitter, Termios, Init
<1>6. Served
  BY DEF Init, Served, Manned
<1> QED
  BY <1>1, <1>2, <1>3, <1>4, <1>5, <1>6 DEF IInv, CharQueueSpec!Init, Init

\* Every step keeps the invariant and is a step of the promised queue or a
\* stutter.
LEMMA IInvStep == IInv /\ [Next]_all => IInv' /\ QueueStep
<1> SUFFICES ASSUME IInv, [Next]_all PROVE IInv' /\ QueueStep
  OBVIOUS
<1>1. CASE Next
  <2>1. Step /\ misled' = (misled \/ Misled')
    BY <1>1 DEF Next
  <2>2. Sound' /\ QueueStep
    BY <2>1, StepSound DEF IInv, Sound
  <2>3. Points' /\ Termios'
    BY <2>1, PointsStep, TermiosStep DEF IInv
  <2>4. ~misled => Manned'
    BY <2>1, MannedStep
  <2>5. misled' \in BOOLEAN /\ Served'
    BY <2>1, <2>4, Zenon DEF Served, Misled
  <2> QED
    BY <2>2, <2>3, <2>5 DEF IInv, Sound
<1>2. CASE UNCHANGED all
  <2>1. /\ UNCHANGED <<ring, written, taken, state, chip>> /\ x_char' = x_char
        /\ pending' = pending /\ woken' = woken /\ hw_stopped' = hw_stopped
    BY <1>2 DEF all, vars, writer, tty
  <2>2. /\ misled' = misled /\ flow' = flow /\ w' = w /\ sx' = sx /\ ops' = ops /\ used' = used
        /\ tx_active' = tx_active /\ tx_enabled' = tx_enabled /\ xmit_cnt' = xmit_cnt
        /\ st' = st /\ cts_flow' = cts_flow
    BY <1>2 DEF all, vars, ring, state, writer, tty, calls, done
  <2>3. /\ x_char' \in BOOLEAN /\ pending' \in BOOLEAN /\ woken' \in BOOLEAN
        /\ hw_stopped' \in BOOLEAN
    BY <2>1, Zenon DEF IInv, Flags
  <2>4. Sound' /\ QueueStep
    BY <2>1, <2>3, AsideSound DEF IInv, Sound
  <2>5. Points' /\ Termios'
    BY <2>2, Zenon DEF IInv, Points, Termios
  <2>6. misled' \in BOOLEAN /\ Served'
    BY <2>1, <2>2, Zenon DEF IInv, Served, Manned
  <2> QED
    BY <2>4, <2>5, <2>6 DEF IInv, Sound
<1> QED
  BY <1>1, <1>2

\* The invariant of asynchronous transmission holds in every state: the buffer
\* is a circular buffer, the transmitter is active exactly while it has
\* characters or an interrupt to come, and waiting characters are being sent.
THEOREM AsyncInvariant == Spec => []IInv
BY IInvInit, IInvStep, PTL DEF Spec

\* Types, for any sizes and bounds.
THEOREM TypeCorrect == Spec => []TypeOK
<1>1. IInv => TypeOK
  <2> SUFFICES ASSUME IInv PROVE TypeOK
    OBVIOUS
  <2>1. {x_char, tx_active, tx_enabled, pending, hw_stopped, cts_flow, woken, data_irq, txirq, misled}
          \subseteq BOOLEAN
    BY Zenon DEF IInv, Flags, Termios
  <2> QED
    BY <2>1, Zenon DEF IInv, RingOK, FifoOK, Points, Termios, TypeOK
<1> QED
  BY <1>1, AsyncInvariant, PTL

\* Characters waiting in xmit_buf are never stranded: unless output is stopped or
\* being started, or r56_start was misled, the transmitter is active and an interrupt is pending or will
\* come (r56_write, r56_start, r56_isr_transmit_data), for any sizes and any
\* number of calls.
THEOREM NeverStranded == Spec => []NotStranded
<1>1. IInv => NotStranded
  BY Zenon DEF IInv, NotStranded, Served, Manned, Transmitter, Stopped
<1> QED
  BY <1>1, AsyncInvariant, PTL

\* The circular buffer implements the bounded queue of CharQueue.tla: whatever
\* the order of writes, interrupts, restarts and flushes, and wherever the indices
\* wrap around, characters go to the FIFO in the order written (r56_write,
\* r56_put_char, usc_load_txfifo).
THEOREM BufferIsQueue == Spec => ImplementsQueue
<1>1. IInv /\ [Next]_all => [CharQueueSpec!Next]_(CharQueueSpec!absVars)
  BY IInvStep DEF QueueStep, CharQueueSpec!absVars
<1> QED
  BY <1>1, IInvInit, AsyncInvariant, PTL DEF Spec, ImplementsQueue, CharQueueSpec!Spec
=============================================================================
