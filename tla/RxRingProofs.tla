---------------------------- MODULE RxRingProofs ----------------------------
(***************************************************************************)
(* RxRing.tla for a ring of any size and any number of frames, overruns,   *)
(* underruns and restarts: driver and channel stay in step, and frames     *)
(* reach the line discipline in the order of the line.                     *)
(***************************************************************************)
EXTENDS RxRing, SequenceTheorems, WellFoundedInduction, TLAPS

-----------------------------------------------------------------------------
(* The inductive invariant.                                                *)

\* What the line discipline is given.
Delivery == [frame : Nat, bytes : Seq(Nat \X Nat), passed : BOOLEAN]

\* Types of what the ring and its two users are made of.
Shape ==
  /\ count \in [Ring -> {0, DMABUFFERSIZE}]
  /\ status \in [Ring -> {"none", "ok", "crc", "bad"}]
  /\ rcc \in [Ring -> Nat \X Nat] /\ data \in [Ring -> Nat \X Nat]
  /\ current_rx_buffer \in Ring /\ StartIndex \in Ring /\ EndIndex \in Ring /\ hw \in Ring
  /\ part \in Nat /\ frame \in Nat
  /\ bh \in BhPoints /\ dma \in {"off", "run", "paused", "eol"}
  /\ delivered \in Seq(Delivery)

\* From Base on, n entries are in use, the channel's own being the last of them,
\* and the others are clean.
Held(n) ==
  /\ \A x \in Ring : count[x] = 0 <=> Off(Base, x) < n
  /\ \A x \in Ring : Off(Base, x) >= n => status[x] = "none"
  /\ count[hw] = 0 => Off(Base, hw) = n - 1
  /\ dma = "run" => count[hw] = 0 /\ status[hw] = "none"

\* What the bottom half has seen is still so: the frame it found begins at
\* current_rx_buffer and ends where it read a status.
Window ==
  /\ bh \in {"scan", "deliver"} => StartIndex = current_rx_buffer
  /\ bh \in {"deliver", "free"} => status[EndIndex] # "none"

\* The entries in use that the channel has filled; its own is not, unless it has
\* shut down for want of another.
Filled(x) == count[x] = 0 /\ (x = hw /\ status[x] = "none" => dma = "eol")

\* No entry is of a later frame than the one coming in, and none of that frame
\* if it has not begun.
Dated ==
  \A x \in Ring : Filled(x) =>
    /\ data[x][1] <= frame
    /\ part = 0 \/ status[x] # "none" => data[x][1] < frame

\* Going round, frames come in order and end where a status is.
Sorted ==
  \A x, y \in Ring : Filled(x) /\ Filled(y) /\ Off(Base, x) < Off(Base, y) =>
    /\ data[x][1] <= data[y][1]
    /\ status[x] # "none" => data[x][1] < data[y][1]

\* A frame begins at Base and after each end of a frame.
Starts ==
  /\ \A x \in Ring : status[x] # "none" /\ Succ(x) # Base /\ Filled(Succ(x))
                     => data[Succ(x)][2] = 1
  /\ bh # "free" /\ Filled(Base) => data[Base][2] = 1
  /\ dma = "run" /\ ((hw = Base /\ bh # "free") \/ \E x \in Ring : status[x] # "none" /\ Succ(x) = hw)
     => part = 0

\* The frames delivered came before all that are in the ring, save the one being
\* freed, and in order.
First(d, i) == d[i].bytes[1]
Given ==
  /\ \A i \in 1 .. Len(delivered) :
       /\ First(delivered, i) \in Nat \X Nat
       /\ First(delivered, i)[2] = 1 /\ First(delivered, i)[1] < frame
  /\ \A i \in 1 .. Len(delivered), x \in Ring :
       Filled(x) /\ (bh = "free" => Off(Base, x) > Off(Base, EndIndex))
         => First(delivered, i)[1] < data[x][1]
  /\ \A i, j \in 1 .. Len(delivered) : i < j => First(delivered, i)[1] < First(delivered, j)[1]

\* No frame ends from x on before y is reached.
Open(x, y) ==
  \A z \in Ring : Off(Base, x) <= Off(Base, z) /\ Off(Base, z) < Off(Base, y)
                  => status[z] = "none"

\* A frame's buffers follow each other in the ring, up to the one the channel is
\* using, and its length is in the last of them.
Runs ==
  /\ \A x \in Ring : status[x] # "none" => rcc[x] = data[x]
  /\ \A x, y \in Ring : Filled(x) /\ Filled(y) /\ Off(Base, x) <= Off(Base, y) /\ Open(x, y)
       => data[y][1] = data[x][1] /\ data[y][2] = data[x][2] + (Off(Base, y) - Off(Base, x))
  /\ dma = "run" => \A x \in Ring : Filled(x) /\ Open(x, hw)
       => frame = data[x][1] /\ part + 1 = data[x][2] + (Off(Base, hw) - Off(Base, x))

\* What was handed on is one frame.
OneFrame(d) == \A k \in DOMAIN d.bytes : d.bytes[k] = <<d.frame, k>>
Entire == \A i \in 1 .. Len(delivered) : delivered[i].passed \/ OneFrame(delivered[i])

\* The frames in the ring are those of the line, in their order.
InOrder == Dated /\ Sorted /\ Starts /\ Given

Sound == Window /\ (\E n \in 0 .. rx_buffer_count : Held(n)) /\ InOrder

RingInv == ~raced => Sound

WholeInv == ~raced /\ ~cut => Runs /\ Entire

-----------------------------------------------------------------------------
(* Distances round the ring.                                               *)

\* What is assumed of the size of the ring.
LEMMA Count == rx_buffer_count \in Nat /\ rx_buffer_count >= 2
BY RingAssumption

\* The distance determines the entry, and the entry the distance.
LEMMA OffRange ==
  ASSUME NEW b \in Ring
  PROVE  /\ \A x \in Ring : Off(b, x) \in Ring
         /\ \A x, y \in Ring : Off(b, x) = Off(b, y) => x = y
         /\ \A x \in Ring : Off(b, x) = 0 <=> x = b
BY Count DEF Ring, Off

\* Off is the inverse of counting on from b.
LEMMA OffPlace ==
  ASSUME NEW b \in Ring, NEW k \in Ring
  PROVE  /\ (b + k) % rx_buffer_count \in Ring
         /\ Off(b, (b + k) % rx_buffer_count) = k
<1>1. CASE b + k < rx_buffer_count
  <2>1. (b + k) % rx_buffer_count = b + k
    BY <1>1, Count DEF Ring
  <2> QED
    BY <1>1, <2>1, Count DEF Ring, Off
<1>2. CASE b + k >= rx_buffer_count
  <2>1. (b + k) % rx_buffer_count = (b + k) - rx_buffer_count
    BY <1>2, Count DEF Ring
  <2> QED
    BY <1>2, <2>1, Count DEF Ring, Off
<1> QED
  BY <1>1, <1>2, Count DEF Ring

\* The next entry is one further, and one step nearer to the next.
LEMMA OffSucc ==
  ASSUME NEW b \in Ring, NEW x \in Ring
  PROVE  /\ Succ(x) \in Ring
         /\ Off(b, Succ(x)) = IF Off(b, x) = rx_buffer_count - 1 THEN 0 ELSE Off(b, x) + 1
BY Count DEF Ring, Off, Succ

\* Counting from the next entry: b comes last, all others one earlier.
LEMMA OffNext ==
  ASSUME NEW b \in Ring
  PROVE  /\ Succ(b) \in Ring
         /\ Off(Succ(b), b) = rx_buffer_count - 1
         /\ \A x \in Ring : x # b => Off(Succ(b), x) = Off(b, x) - 1
BY Count DEF Ring, Off, Succ

\* Going on from an entry adds the distances, round the ring.
LEMMA OffSum ==
  ASSUME NEW b \in Ring, NEW c \in Ring, NEW k \in Ring
  PROVE  Off(b, (c + k) % rx_buffer_count)
           = IF Off(b, c) + k < rx_buffer_count THEN Off(b, c) + k
             ELSE (Off(b, c) + k) - rx_buffer_count
<1>1. CASE c + k < rx_buffer_count
  <2>1. (c + k) % rx_buffer_count = c + k
    BY <1>1, Count DEF Ring
  <2> QED
    BY <1>1, <2>1, Count DEF Ring, Off
<1>2. CASE c + k >= rx_buffer_count
  <2>1. (c + k) % rx_buffer_count = (c + k) - rx_buffer_count
    BY <1>2, Count DEF Ring
  <2> QED
    BY <1>2, <2>1, Count DEF Ring, Off
<1> QED
  BY <1>1, <1>2, Count DEF Ring

\* Indices modulo the size of the ring.
LEMMA ModRing ==
  /\ \A a \in Nat : a % rx_buffer_count \in Ring
  /\ \A x \in Ring : x % rx_buffer_count = x
<1>1. \A a \in Nat : a % rx_buffer_count \in 0 .. rx_buffer_count - 1
  BY Count
<1>2. ASSUME NEW x \in Ring PROVE x % rx_buffer_count = x
  <2>1. x \in Nat /\ x < rx_buffer_count
    BY Count DEF Ring
  <2> QED
    BY <2>1, Count
<1> QED
  BY <1>1, <1>2 DEF Ring

\* A set of indices that is not empty has a least one.
LEMMA Least ==
  ASSUME NEW T, T \subseteq Ring, T # {}
  PROVE  \E k \in T : \A j \in T : k <= j
<1>1. T \subseteq Nat
  BY Count DEF Ring
<1> DEFINE R == OpToRel(<, Nat)
<1>2. IsWellFoundedOn(R, Nat)
  BY NatLessThanWellFounded
<1>3. \A i, j \in Nat : <<i, j>> \in R <=> i < j
  BY DEF OpToRel
<1> HIDE DEF R
<1>4. PICK k \in T : \A j \in T : ~(<<j, k>> \in R)
  BY <1>1, <1>2, WFMin
<1>5. ASSUME NEW j \in T PROVE k <= j
  <2>1. j \in Nat /\ k \in Nat /\ ~(j < k)
    BY <1>1, <1>3, <1>4
  <2> QED
    BY <2>1
<1> QED
  BY <1>5

\* The place the driver has freed up to is in the ring.
LEMMA BaseInRing ==
  ASSUME Shape
  PROVE  Base \in Ring
<1>1. Succ(EndIndex) \in Ring
  BY OffSucc DEF Shape
<1> QED
  BY <1>1 DEF Shape, Base

-----------------------------------------------------------------------------
(* Held: each kind of step on the ring, whoever takes it.                  *)

\* Held is RingInStep, counted by entries instead of distances.
LEMMA HeldInStep ==
  ASSUME Shape, NEW n \in 0 .. rx_buffer_count, Held(n)
  PROVE  RingInStep
<1>1. Base \in Ring
  BY BaseInRing
<1>2. \A k \in Ring : FromBase(k) \in Ring /\ Off(Base, FromBase(k)) = k
  BY <1>1, OffPlace DEF FromBase
<1>3. \A k \in Ring : count[FromBase(k)] = 0 <=> k < n
  BY <1>2 DEF Held
<1>4. \A k \in Ring : k >= n => status[FromBase(k)] = "none"
  BY <1>2 DEF Held
<1>5. ASSUME dma = "run" PROVE n > 0 /\ hw = FromBase(n - 1)
  <2>1. hw \in Ring /\ count[hw] = 0 /\ Off(Base, hw) = n - 1
    BY <1>5 DEF Held, Shape
  <2>2. Off(Base, hw) \in Ring
    BY <1>1, <2>1, OffRange
  <2>3. n - 1 \in Ring /\ n > 0
    BY <2>1, <2>2, Count DEF Ring
  <2>4. Off(Base, FromBase(n - 1)) = n - 1 /\ FromBase(n - 1) \in Ring
    BY <1>2, <2>3
  <2> QED
    BY <1>1, <2>1, <2>3, <2>4, OffRange
<1> QED
  BY <1>3, <1>4, <1>5 DEF RingInStep

\* Nothing happens to the ring; the channel goes on or stops.
LEMMA HeldQuiet ==
  ASSUME Shape, NEW n \in 0 .. rx_buffer_count, Held(n),
         count' = count, status' = status, hw' = hw, Base' = Base,
         dma' = dma \/ dma' # "run"
  PROVE  Held(n)'
BY DEF Held

\* The channel leaves its entry for the next one.
LEMMA HeldNext ==
  ASSUME Shape, NEW n \in 0 .. rx_buffer_count, Held(n), dma = "run", Base' = Base, NextEntry,
         status' \in [Ring -> {"none", "ok", "crc", "bad"}],
         \A x \in Ring : x # hw => status'[x] = status[x]
  PROVE  /\ \E m \in 0 .. rx_buffer_count : Held(m)'
         /\ dma' = "run" => count[Succ(hw)] # 0 /\ hw' = Succ(hw)
         /\ dma' # "run" => count[Succ(hw)] = 0 /\ hw' = hw /\ dma' = "eol" /\ count' = count
<1>1. Base \in Ring /\ hw \in Ring /\ Succ(hw) \in Ring
  BY BaseInRing, OffSucc DEF Shape
<1>2. /\ count[hw] = 0 /\ Off(Base, hw) = n - 1
      /\ \A x \in Ring : count[x] = 0 <=> Off(Base, x) < n
      /\ \A x \in Ring : Off(Base, x) >= n => status[x] = "none"
  BY <1>1 DEF Held
<1>3. \A x \in Ring : Off(Base, x) \in Ring
  BY <1>1, OffRange
<1>4. CASE count[Succ(hw)] # 0
  <2>1. hw' = Succ(hw) /\ count' = [count EXCEPT ![Succ(hw)] = 0] /\ dma' = "run"
    BY <1>4 DEF NextEntry
  <2>2. Off(Base, Succ(hw)) = n /\ n + 1 \in 0 .. rx_buffer_count
    <3>1. Off(Base, Succ(hw)) = IF n - 1 = rx_buffer_count - 1 THEN 0 ELSE (n - 1) + 1
      BY <1>1, <1>2, OffSucc
    <3>2. ~(Off(Base, Succ(hw)) < n)
      BY <1>1, <1>2, <1>4
    <3> QED
      BY <1>1, <1>2, <1>3, <3>1, <3>2, Count DEF Ring
  <2>3. \A x \in Ring : Off(Base, x) = n => x = Succ(hw)
    BY <1>1, <2>2, OffRange
  <2>4. \A x \in Ring : count'[x] = 0 <=> x = Succ(hw) \/ Off(Base, x) < n
    BY <1>1, <1>2, <2>1 DEF Shape
  <2>5. \A x \in Ring : count'[x] = 0 <=> Off(Base, x) < n + 1
    BY <1>3, <2>2, <2>3, <2>4, Count DEF Ring
  <2>6. \A x \in Ring : Off(Base, x) >= n => x # hw /\ status'[x] = "none"
    BY <1>2, <1>3, Count DEF Ring
  <2>7. \A x \in Ring : Off(Base, x) >= n + 1 => status'[x] = "none"
    BY <1>3, <2>6, Count DEF Ring
  <2>8. count'[hw'] = 0 /\ status'[hw'] = "none" /\ Off(Base, hw') = (n + 1) - 1
    BY <1>1, <2>1, <2>2, <2>4, <2>6, Count DEF Ring
  <2>9. Held(n + 1)'
    BY <2>5, <2>7, <2>8 DEF Held
  <2> QED
    BY <1>4, <2>1, <2>2, <2>9
<1>5. CASE count[Succ(hw)] = 0
  <2>1. hw' = hw /\ count' = count /\ dma' = "eol"
    BY <1>5 DEF NextEntry
  <2>2. \A x \in Ring : Off(Base, x) >= n => status'[x] = "none"
    <3>1. \A x \in Ring : Off(Base, x) >= n => x # hw
      BY <1>2, <1>3, Count DEF Ring
    <3> QED
      BY <1>2, <3>1
  <2>3. Held(n)'
    BY <1>2, <2>1, <2>2 DEF Held
  <2> QED
    BY <1>5, <2>1, <2>3
<1> QED
  BY <1>4, <1>5

\* The ring is given back and the channel is started on its first entry.
LEMMA HeldReset ==
  ASSUME InitRxChannel(0, Ring), Base' = 0
  PROVE  /\ Held(1)'
         /\ \A x \in Ring : ~Filled(x)'
         /\ 1 \in 0 .. rx_buffer_count
<1>1. /\ \A x \in Ring : count'[x] = (IF x = 0 THEN 0 ELSE DMABUFFERSIZE) /\ status'[x] = "none"
      /\ dma' = "run" /\ hw' = 0
  BY DEF InitRxChannel
<1>2. \A x \in Ring : Off(0, x) = x /\ (x < 1 <=> x = 0)
  BY Count DEF Ring, Off
<1>3. 0 \in Ring
  BY Count DEF Ring
<1>4. \A x \in Ring : count'[x] = 0 <=> x = 0
  BY <1>1 DEF DMABUFFERSIZE
<1> QED
  BY <1>1, <1>2, <1>3, <1>4, Count DEF Held, Filled

\* The first entry in use is freed, an entry with a status being further on.
LEMMA HeldFree ==
  ASSUME Shape, NEW n \in 0 .. rx_buffer_count, Held(n), Base' = Succ(Base),
         status[EndIndex] # "none", hw' = hw, dma' = dma,
         count' = [count EXCEPT ![Base] = DMABUFFERSIZE],
         status' = [status EXCEPT ![Base] = "none"]
  PROVE  /\ n - 1 \in 0 .. rx_buffer_count
         /\ Held(n - 1)'
<1>1. Base \in Ring /\ hw \in Ring /\ EndIndex \in Ring
  BY BaseInRing DEF Shape
<1>2. \A x \in Ring : Off(Base, x) \in Ring
  BY <1>1, OffRange
<1>3. Off(Base, EndIndex) < n
  BY <1>1, <1>2, Count DEF Held, Ring
<1>4. n - 1 \in 0 .. rx_buffer_count /\ n >= 1
  BY <1>1, <1>2, <1>3, Count DEF Ring
<1>5. /\ Off(Succ(Base), Base) = rx_buffer_count - 1
      /\ \A x \in Ring : x # Base => Off(Succ(Base), x) = Off(Base, x) - 1
      /\ Off(Base, Base) = 0
  BY <1>1, OffNext, OffRange
<1>6. \A x \in Ring : /\ count'[x] = (IF x = Base THEN DMABUFFERSIZE ELSE count[x])
                      /\ status'[x] = (IF x = Base THEN "none" ELSE status[x])
  BY <1>1 DEF Shape
<1>7. ASSUME NEW x \in Ring
      PROVE  /\ count'[x] = 0 <=> Off(Succ(Base), x) < n - 1
             /\ Off(Succ(Base), x) >= n - 1 => status'[x] = "none"
  <2>1. CASE x = Base
    BY <1>4, <1>5, <1>6, <2>1, Count DEF DMABUFFERSIZE
  <2>2. CASE x # Base
    <3>1. count'[x] = count[x] /\ status'[x] = status[x] /\ Off(Succ(Base), x) = Off(Base, x) - 1
      BY <1>5, <1>6, <2>2
    <3>2. /\ count[x] = 0 <=> Off(Base, x) < n
          /\ Off(Base, x) >= n => status[x] = "none"
      BY DEF Held
    <3> QED
      BY <1>2, <3>1, <3>2, Count DEF Ring
  <2> QED
    BY <2>1, <2>2
<1>8. count'[hw] = 0 => Off(Succ(Base), hw) = (n - 1) - 1
  <2>1. count'[hw] = 0 => hw # Base /\ count[hw] = 0
    BY <1>1, <1>6 DEF DMABUFFERSIZE
  <2> QED
    BY <1>1, <1>2, <1>5, <2>1, Count DEF Held, Ring
<1>9. ASSUME dma = "run" PROVE count'[hw] = 0 /\ status'[hw] = "none"
  <2>1. count[hw] = 0 /\ status[hw] = "none" /\ Off(Base, hw) = n - 1
    BY <1>1, <1>9 DEF Held
  <2>2. ASSUME hw = Base PROVE FALSE
    <3>1. Off(Base, EndIndex) = 0
      BY <1>1, <1>2, <1>3, <1>5, <2>1, <2>2, Count DEF Ring
    <3> QED
      BY <1>1, <2>1, <2>2, <3>1, OffRange
  <2> QED
    BY <1>1, <1>6, <2>1, <2>2
<1> QED
  BY <1>4, <1>7, <1>8, <1>9 DEF Held

\* An overrun gives back the entries of the unfinished frame, which are the last
\* ones in use, and starts the channel on the first of them.
LEMMA HeldOverrun ==
  ASSUME Shape, NEW n \in 0 .. rx_buffer_count, Held(n), Base' = Base,
         ProcessRxOverrun, ~AllInUse, dma' # "paused"
  PROVE  /\ \E m \in 0 .. rx_buffer_count : Held(m)'
         /\ \A x \in Ring : Filled(x)' => Filled(x)
         /\ status' = status
         /\ count[current_rx_buffer] = 0
         /\ current_rx_buffer = Base =>
              \A x \in Ring : Filled(x)' => ~Open(x, hw')
<1> DEFINE N == rx_buffer_count
           Pos(k) == (current_rx_buffer + k) % N
           InUse == {k \in Ring : \A j \in 0 .. k : count[Pos(j)] = 0}
           Complete == {k \in InUse : status[Pos(k)] # "none"}
           Unfinished == {k \in InUse : \A j \in Complete : j < k}
           first == CHOOSE k \in Unfinished : \A j \in Unfinished : k <= j
           S == {Pos(k) : k \in Unfinished}
           c == Off(Base, current_rx_buffer)
<1>1. Unfinished # {} /\ InitRxChannel(Pos(first), S)
  BY Zenon DEF ProcessRxOverrun
<1>2. Base \in Ring /\ hw \in Ring /\ current_rx_buffer \in Ring
  BY BaseInRing DEF Shape
<1>3. c \in Ring
  BY <1>2, OffRange
<1>4. \A k \in Ring : Pos(k) \in Ring /\ Off(Base, Pos(k)) = IF c + k < N THEN c + k ELSE (c + k) - N
  BY <1>2, OffPlace, OffSum
<1> HIDE DEF Pos, c
<1>5. \A x \in Ring : Off(Base, x) \in Ring
  BY <1>2, OffRange
<1>6. n < N
  <2>1. PICK x \in Ring : count[x] # 0
    BY DEF AllInUse
  <2>2. ~(Off(Base, x) < n) /\ Off(Base, x) \in Ring
    BY <1>5, <2>1 DEF Held
  <2> QED
    BY <2>2, Count DEF Ring
<1>7. \A k \in Ring : count[Pos(k)] = 0 <=> Off(Base, Pos(k)) < n
  BY <1>4 DEF Held
\* The entries in use from the current one on are those up to the n-th.
<1>8. \A k \in InUse : k \in Ring /\ c + k < n
  <2> SUFFICES ASSUME NEW k \in InUse PROVE c + k < n
    OBVIOUS
  <2>1. k \in Ring /\ \A j \in 0 .. k : count[Pos(j)] = 0
    OBVIOUS
  <2>2. \A j \in 0 .. k : j \in Ring
    BY <2>1, Count DEF Ring
  <2>3. \A j \in 0 .. k : (IF c + j < N THEN c + j ELSE (c + j) - N) < n
    BY <1>4, <1>7, <2>1, <2>2
  <2>4. 0 \in 0 .. k /\ k \in Nat
    BY <2>1, Count DEF Ring
  <2>5. c < n
    BY <1>3, <2>3, <2>4, Count DEF Ring
  <2>6. SUFFICES ASSUME c + k >= n PROVE FALSE
    BY <1>3, <2>4, Count DEF Ring
  <2>7. n - c \in 0 .. k
    BY <1>3, <2>4, <2>5, <2>6, Count DEF Ring
  <2> QED
    BY <1>3, <1>6, <2>3, <2>7, Count DEF Ring
<1>9. \A k, m \in Ring : k \in InUse /\ c + m < n => m \in InUse
  <2> SUFFICES ASSUME NEW m \in Ring, c + m < n PROVE \A j \in 0 .. m : count[Pos(j)] = 0
    OBVIOUS
  <2>1. \A j \in 0 .. m : j \in Ring /\ c + j < n
    BY <1>3, Count DEF Ring
  <2> QED
    BY <1>3, <1>4, <1>6, <1>7, <2>1, Count DEF Ring
<1>28. count[current_rx_buffer] = 0
  <2>1. PICK k \in InUse : TRUE
    BY <1>1
  <2>2. 0 \in 0 .. k
    BY <1>8, Count DEF Ring
  <2>3. Pos(0) = current_rx_buffer
    <3>1. current_rx_buffer + 0 = current_rx_buffer
      BY <1>2, Count DEF Ring
    <3> QED
      BY <1>2, <3>1, ModRing DEF Pos
  <2> QED
    BY <2>1, <2>2, <2>3
<1> HIDE DEF InUse
<1>10. Unfinished \subseteq Ring
  BY <1>8
<1>11. first \in Unfinished /\ \A j \in Unfinished : first <= j
  <2>1. \E k \in Unfinished : \A j \in Unfinished : k <= j
    BY <1>1, <1>10, Least
  <2> QED
    BY <2>1
<1>12. \A m \in Ring : m \in Unfinished <=> first <= m /\ c + m < n
  <2> SUFFICES ASSUME NEW m \in Ring PROVE m \in Unfinished <=> first <= m /\ c + m < n
    OBVIOUS
  <2>1. m \in Unfinished => first <= m /\ c + m < n
    BY <1>8, <1>11
  <2>2. ASSUME first <= m, c + m < n PROVE m \in Unfinished
    <3>1. m \in InUse /\ first \in Ring
      BY <1>9, <1>10, <1>11, <2>2
    <3>2. \A j \in Complete : j < first /\ j \in Ring
      BY <1>8, <1>11
    <3>3. \A j \in Complete : j < m
      BY <2>2, <3>1, <3>2, Count DEF Ring
    <3> QED
      BY <3>1, <3>3
  <2> QED
    BY <2>1, <2>2
<1>13. \A m \in Unfinished : status[Pos(m)] = "none" /\ m \in Ring
  <2> SUFFICES ASSUME NEW m \in Unfinished PROVE status[Pos(m)] = "none"
    BY <1>10
  <2>1. m \in Ring /\ m \in InUse /\ m \notin Complete
    <3>1. m \in Ring /\ m \in InUse /\ \A j \in Complete : j < m
      BY <1>10
    <3>2. ~(m < m)
      BY <3>1, Count DEF Ring
    <3> QED
      BY <3>1, <3>2
  <2> QED
    BY <2>1
<1> DEFINE f == c + first
<1>14. first \in Ring /\ Pos(first) \in Ring /\ Off(Base, Pos(first)) = f /\ f \in 0 .. n - 1
  BY <1>3, <1>4, <1>6, <1>10, <1>11, <1>12, Count DEF Ring
<1>15. \A x \in Ring : x \in S <=> Off(Base, x) >= f /\ Off(Base, x) < n
  <2> SUFFICES ASSUME NEW x \in Ring PROVE x \in S <=> Off(Base, x) >= f /\ Off(Base, x) < n
    OBVIOUS
  <2>1. ASSUME NEW k \in Unfinished, x = Pos(k) PROVE Off(Base, x) >= f /\ Off(Base, x) < n
    <3>1. k \in Ring /\ first <= k /\ c + k < n
      BY <1>10, <1>12
    <3> QED
      BY <1>3, <1>4, <1>6, <1>14, <2>1, <3>1, Count DEF Ring
  <2>2. ASSUME Off(Base, x) >= f, Off(Base, x) < n PROVE x \in S
    <3> DEFINE k == Off(Base, x) - c
    <3>1. k \in Ring /\ first <= k /\ c + k < n /\ c + k = Off(Base, x)
      BY <1>3, <1>5, <1>14, <2>2, Count DEF Ring
    <3>2. k \in Unfinished
      BY <1>12, <3>1
    <3>3. Off(Base, Pos(k)) = Off(Base, x) /\ Pos(k) \in Ring
      BY <1>4, <1>5, <3>1, Count DEF Ring
    <3>4. Pos(k) = x
      BY <1>2, <3>3, OffRange
    <3> HIDE DEF k
    <3> QED
      BY <3>2, <3>4
  <2> QED
    BY <2>1, <2>2
<1>16. \A x \in S : status[x] = "none"
  BY <1>13
\* The entry before the first of them holds the end of a frame.
<1>29. ASSUME first # 0
       PROVE  \E z \in Ring : Off(Base, z) = f - 1 /\ status[z] # "none"
  <2>1. first - 1 \in Ring /\ c + (first - 1) < n
    BY <1>3, <1>8, <1>14, <1>29, Count DEF Ring
  <2>2. first - 1 \in InUse /\ first - 1 \notin Unfinished
    <3>1. ~(first <= first - 1)
      BY <1>14, Count DEF Ring
    <3>2. first \in Ring /\ first \in InUse
      BY <1>11, <1>14
    <3>3. first - 1 \in InUse
      BY <1>9, <2>1, <3>2, Zenon
    <3>4. first - 1 \notin Unfinished
      BY <1>12, <2>1, <3>1, Zenon
    <3> QED
      BY <3>3, <3>4
  <2>3. PICK j \in Complete : ~(j < first - 1)
    BY <2>2
  <2>4. j < first /\ j \in Ring
    BY <1>8, <1>11
  <2>5. j = first - 1
    BY <1>14, <2>3, <2>4, Count DEF Ring
  <2>6. Pos(j) \in Ring /\ Off(Base, Pos(j)) = f - 1 /\ status[Pos(j)] # "none"
    <3>1. c + j < N
      BY <1>3, <1>6, <2>1, <2>4, <2>5, Count DEF Ring
    <3>2. Off(Base, Pos(j)) = c + j
      BY <1>4, <2>4, <3>1
    <3> QED
      BY <1>3, <1>4, <1>14, <2>3, <2>4, <2>5, <3>2, Count DEF Ring
  <2> QED
    BY <2>6
<1>30. current_rx_buffer = Base => c = 0
  BY <1>2, OffRange DEF c
<1>31. first = 0 => f = c
  <2> HIDE DEF first
  <2> QED
    BY <1>3, Count DEF Ring
<1> HIDE DEF S, Unfinished, first, f
<1>17. /\ \A x \in Ring : count'[x] = IF x = Pos(first) THEN 0
                                      ELSE IF x \in S THEN DMABUFFERSIZE ELSE count[x]
       /\ status' = [x \in Ring |-> IF x \in S THEN "none" ELSE status[x]]
       /\ dma' = "run" /\ hw' = Pos(first)
  BY <1>1 DEF InitRxChannel
<1>18. status' = status
  BY <1>16, <1>17 DEF Shape
<1>19. \A x \in Ring : Off(Base, x) = f <=> x = Pos(first)
  <2>1. \A x, y \in Ring : Off(Base, x) = Off(Base, y) => x = y
    BY <1>2, OffRange
  <2>2. Pos(first) \in Ring /\ Off(Base, Pos(first)) = f
    BY <1>14
  <2> QED
    BY <2>1, <2>2
<1>20. \A x \in Ring : count'[x] = 0 <=> Off(Base, x) < f + 1
  <2> SUFFICES ASSUME NEW x \in Ring PROVE count'[x] = 0 <=> Off(Base, x) < f + 1
    OBVIOUS
  <2>1. Off(Base, x) \in Ring /\ (count[x] = 0 <=> Off(Base, x) < n)
    BY <1>5 DEF Held
  <2> QED
    BY <1>14, <1>15, <1>17, <1>19, <2>1, Count DEF Ring, DMABUFFERSIZE
<1>21. Pos(first) \in S
  BY <1>14, <1>15
<1>22. status[Pos(first)] = "none"
  BY <1>16, <1>21
<1>23. \A x \in Ring : Off(Base, x) >= f + 1 => status[x] = "none"
  <2> SUFFICES ASSUME NEW x \in Ring, Off(Base, x) >= f + 1 PROVE status[x] = "none"
    OBVIOUS
  <2>1. CASE Off(Base, x) < n
    <3>1. x \in S
      BY <1>5, <1>14, <1>15, <2>1, Count DEF Ring
    <3> QED
      BY <1>16, <3>1
  <2>2. CASE Off(Base, x) >= n
    BY <2>2 DEF Held
  <2> QED
    BY <1>5, <2>1, <2>2, Count DEF Ring
<1>24. count'[hw'] = 0 /\ status'[hw'] = "none" /\ Off(Base, hw') = (f + 1) - 1
  BY <1>14, <1>17, <1>18, <1>22
<1>25. PICK m \in 0 .. rx_buffer_count : m = f + 1
  <2>1. f + 1 \in 0 .. rx_buffer_count
    BY <1>6, <1>14, Count
  <2> QED
    BY <2>1
<1>26. Held(m)'
  <2>1. /\ \A x \in Ring : count'[x] = 0 <=> Off(Base, x) < m
        /\ \A x \in Ring : Off(Base, x) >= m => status'[x] = "none"
        /\ Off(Base, hw') = m - 1
    BY <1>18, <1>20, <1>23, <1>24, <1>25
  <2> QED
    BY <1>24, <2>1 DEF Held
<1>27. ASSUME NEW x \in Ring, Filled(x)' PROVE Filled(x)
  <2>1. count'[x] = 0 /\ x # Pos(first)
    BY <1>17, <1>18, <1>22, <1>27 DEF Filled
  <2>2. Off(Base, x) < n - 1
    BY <1>5, <1>14, <1>19, <1>20, <2>1, Count DEF Ring
  <2>3. count[x] = 0 /\ (x = hw => FALSE)
    <3>1. count[x] = 0 <=> Off(Base, x) < n
      BY DEF Held
    <3>2. count[hw] = 0 => Off(Base, hw) = n - 1
      BY <1>2 DEF Held
    <3> QED
      BY <1>5, <2>2, <3>1, <3>2, Count DEF Ring
  <2> QED
    BY <2>3 DEF Filled
<1>32. ASSUME current_rx_buffer = Base, NEW x \in Ring, Filled(x)', Open(x, hw') PROVE FALSE
  <2>1. count'[x] = 0 /\ x # Pos(first)
    BY <1>17, <1>18, <1>22, <1>32 DEF Filled
  <2>2. Off(Base, x) < f /\ Off(Base, x) >= 0
    BY <1>5, <1>14, <1>19, <1>20, <2>1, Count DEF Ring
  <2>3. first # 0
    BY <1>30, <1>31, <1>32, <2>2, <1>5, Count DEF Ring
  <2>4. PICK z \in Ring : Off(Base, z) = f - 1 /\ status[z] # "none"
    BY <1>29, <2>3
  <2>5. Off(Base, x) <= Off(Base, z) /\ Off(Base, z) < Off(Base, hw')
    BY <1>5, <1>14, <1>17, <2>2, <2>4, Count DEF Ring
  <2> QED
    BY <1>32, <2>4, <2>5 DEF Open
<1> QED
  BY <1>18, <1>25, <1>26, <1>27, <1>28, <1>32

-----------------------------------------------------------------------------
(* InOrder: each kind of step.                                             *)

\* Steps that fill no entry, end no frame and free none: the frame coming in goes
\* on, or is abandoned.
LEMMA OrderKept ==
  ASSUME Shape, Shape', InOrder, Base' = Base, data' = data, status' = status,
         delivered' = delivered,
         \A x \in Ring : Filled(x)' => Filled(x),
         bh' = "free" <=> bh = "free",
         bh = "free" => EndIndex' = EndIndex,
         \/ part' = part /\ frame' = frame
         \/ part' = 0 /\ frame' >= frame /\ (part = 0 \/ frame' > frame),
         dma' = "run" => part' = 0 \/ (dma = "run" /\ hw' = hw)
  PROVE  InOrder'
<1>1. Base \in Ring /\ (\A x \in Ring : Succ(x) \in Ring) /\ part \in Nat /\ frame \in Nat
      /\ part' \in Nat /\ frame' \in Nat /\ \A x \in Ring : data[x] \in Nat \X Nat /\ data[x][1] \in Nat
  BY BaseInRing, OffSucc DEF Shape
<1>2. frame <= frame'
  BY <1>1
<1>3. Dated'
  <2> SUFFICES ASSUME NEW x \in Ring, Filled(x)'
               PROVE  /\ data[x][1] <= frame'
                      /\ part' = 0 \/ status[x] # "none" => data[x][1] < frame'
    BY DEF Dated
  <2>1. /\ data[x][1] <= frame
        /\ part = 0 \/ status[x] # "none" => data[x][1] < frame
    BY DEF InOrder, Dated
  <2> QED
    BY <1>1, <2>1
<1>4. Sorted'
  BY DEF InOrder, Sorted
<1>5. Starts'
  BY <1>1 DEF InOrder, Starts
<1>6. Given'
  <2>1. \A i \in 1 .. Len(delivered) :
          /\ First(delivered', i) = First(delivered, i)
          /\ First(delivered, i) \in Nat \X Nat /\ First(delivered, i)[1] \in Nat
          /\ First(delivered, i)[2] = 1 /\ First(delivered, i)[1] < frame
    BY DEF InOrder, Given, First
  <2>2. \A i \in 1 .. Len(delivered) : First(delivered, i)[1] < frame'
    BY <1>1, <1>2, <2>1
  <2>3. \A x \in Ring : (bh' = "free" => Off(Base', x) > Off(Base', EndIndex'))
                        => (bh = "free" => Off(Base, x) > Off(Base, EndIndex))
    OBVIOUS
  <2>4. \A i \in 1 .. Len(delivered), x \in Ring :
          Filled(x) /\ (bh = "free" => Off(Base, x) > Off(Base, EndIndex))
         => First(delivered, i)[1] < data[x][1]
    BY DEF InOrder, Given
  <2>5. \A i, j \in 1 .. Len(delivered) : i < j => First(delivered, i)[1] < First(delivered, j)[1]
    BY DEF InOrder, Given
  <2> QED
    BY <2>1, <2>2, <2>3, <2>4, <2>5 DEF Given
<1> QED
  BY <1>3, <1>4, <1>5, <1>6 DEF InOrder

\* The ring has been given back: only the frames delivered are left.
LEMMA OrderReset ==
  ASSUME Shape, Shape', InOrder, \A x \in Ring : ~Filled(x)', Base' \in Ring,
         delivered' = delivered, frame' >= frame, part' = 0
  PROVE  InOrder'
<1>1. frame \in Nat /\ frame' \in Nat /\ \A x \in Ring : Succ(x) \in Ring
  BY OffSucc DEF Shape
<1>2. Dated' /\ Sorted' /\ Starts'
  BY <1>1 DEF Dated, Sorted, Starts
<1>3. \A i \in 1 .. Len(delivered) :
        /\ First(delivered', i) = First(delivered, i)
        /\ First(delivered, i) \in Nat \X Nat /\ First(delivered, i)[1] \in Nat
        /\ First(delivered, i)[2] = 1 /\ First(delivered, i)[1] < frame
  BY DEF InOrder, Given, First
<1>4. \A i \in 1 .. Len(delivered) : First(delivered, i)[1] < frame'
  BY <1>1, <1>3
<1>5. \A i, j \in 1 .. Len(delivered) : i < j => First(delivered, i)[1] < First(delivered, j)[1]
  BY DEF InOrder, Given
<1>6. Given'
  BY <1>3, <1>4, <1>5 DEF Given
<1> QED
  BY <1>2, <1>6 DEF InOrder

\* When the channel leaves its entry, only that entry is new among the filled ones,
\* and it is the last of them.
LEMMA NewFilled ==
  ASSUME Shape, Shape', NEW n \in 0 .. rx_buffer_count, Held(n), dma = "run",
         Base' = Base, NextEntry,
         \A x \in Ring : x # hw => status'[x] = status[x]
  PROVE  /\ count[hw] = 0 /\ status[hw] = "none" /\ Off(Base, hw) = n - 1
         /\ dma' = "run" => count[Succ(hw)] # 0 /\ hw' = Succ(hw)
         /\ dma' # "run" => count[Succ(hw)] = 0 /\ hw' = hw /\ dma' = "eol" /\ count' = count
         /\ \A x \in Ring : Filled(x)' => x = hw \/ (Filled(x) /\ x # hw /\ Off(Base, x) < n - 1)
<1>1. /\ Base \in Ring /\ hw \in Ring /\ \A x \in Ring : Succ(x) \in Ring
  BY BaseInRing, OffSucc DEF Shape
<1>3. /\ count[hw] = 0 /\ status[hw] = "none" /\ Off(Base, hw) = n - 1
      /\ \A x \in Ring : count[x] = 0 <=> Off(Base, x) < n
      /\ \A x \in Ring : Off(Base, x) >= n => status[x] = "none"
  BY <1>1 DEF Held
<1>4. /\ dma' = "run" => count[Succ(hw)] # 0 /\ hw' = Succ(hw)
      /\ dma' # "run" => count[Succ(hw)] = 0 /\ hw' = hw /\ dma' = "eol" /\ count' = count
  <2>1. status' \in [Ring -> {"none", "ok", "crc", "bad"}]
    BY DEF Shape
  <2> QED
    BY <2>1, HeldNext
<1>5. \A x \in Ring : Off(Base, x) \in Ring
  BY <1>1, OffRange
<1>6. \A x \in Ring : Filled(x)' => x = hw \/ (Filled(x) /\ x # hw /\ Off(Base, x) < n - 1)
  <2> SUFFICES ASSUME NEW x \in Ring, Filled(x)', x # hw
               PROVE  Filled(x) /\ Off(Base, x) < n - 1
    OBVIOUS
  <2>1. count'[x] = 0 /\ (x = hw' /\ status'[x] = "none" => dma' = "eol") /\ status'[x] = status[x]
    BY DEF Filled
  <2>2. count[x] = 0
    <3>1. CASE dma' = "run"
      <4>1. count' = [count EXCEPT ![Succ(hw)] = 0] /\ hw' = Succ(hw) /\ Succ(hw) \in Ring
        BY <1>1, <1>4, <3>1 DEF NextEntry
      <4>2. status[Succ(hw)] = "none"
        BY <1>1, <1>3, <1>4, <1>5, <3>1, Count DEF Ring
      <4>3. x # Succ(hw)
        BY <2>1, <3>1, <4>1, <4>2
      <4> QED
        BY <2>1, <4>1, <4>3 DEF Shape
    <3> QED
      BY <1>4, <2>1, <3>1
  <2>3. Off(Base, x) < n /\ Off(Base, x) # Off(Base, hw)
    <3>1. \A y, z \in Ring : Off(Base, y) = Off(Base, z) => y = z
      BY <1>1, OffRange
    <3> QED
      BY <1>1, <1>3, <2>2, <3>1
  <2>4. Off(Base, x) < n - 1
    BY <1>3, <1>5, <2>3, Count DEF Ring
  <2> QED
    BY <2>2, <2>4 DEF Filled
<1> QED
  BY <1>3, <1>4, <1>6

\* The channel fills its entry, in the middle or at the end of a frame.
LEMMA OrderFilled ==
  ASSUME Shape, Shape', NEW n \in 0 .. rx_buffer_count, Held(n), InOrder, dma = "run",
         Base' = Base, bh' = bh, EndIndex' = EndIndex, delivered' = delivered, NextEntry,
         data' = [data EXCEPT ![hw] = <<frame, part + 1>>],
         \A x \in Ring : x # hw => status'[x] = status[x],
         \/ status'[hw] = "none" /\ frame' = frame /\ part' = part + 1
         \/ status'[hw] # "none" /\ frame' = frame + 1 /\ part' = 0
  PROVE  InOrder'
<1>1. /\ Base \in Ring /\ hw \in Ring /\ \A x \in Ring : Succ(x) \in Ring
      /\ part \in Nat /\ frame \in Nat /\ part' \in Nat /\ frame' \in Nat
      /\ \A x \in Ring : data[x] \in Nat \X Nat /\ data[x][1] \in Nat
  BY BaseInRing, OffSucc DEF Shape
<1>2. /\ data'[hw][1] = frame /\ data'[hw][2] = part + 1
      /\ \A x \in Ring : x # hw => data'[x] = data[x]
  BY <1>1 DEF Shape
<1>3. /\ count[hw] = 0 /\ status[hw] = "none" /\ Off(Base, hw) = n - 1
      /\ \A x \in Ring : count[x] = 0 <=> Off(Base, x) < n
      /\ \A x \in Ring : Off(Base, x) >= n => status[x] = "none"
  BY <1>1 DEF Held
<1>4. /\ dma' = "run" => count[Succ(hw)] # 0 /\ hw' = Succ(hw)
      /\ dma' # "run" => count[Succ(hw)] = 0 /\ hw' = hw /\ dma' = "eol" /\ count' = count
  BY NewFilled
<1>5. \A x \in Ring : Off(Base, x) \in Ring
  BY <1>1, OffRange
<1>6. \A x \in Ring : Filled(x)' => x = hw \/ (Filled(x) /\ x # hw /\ Off(Base, x) < n - 1)
  BY NewFilled
<1>7. \A x \in Ring : Filled(x) => /\ data[x][1] <= frame
                                   /\ status[x] # "none" => data[x][1] < frame
  BY DEF InOrder, Dated
<1>8. Dated'
  <2> SUFFICES ASSUME NEW x \in Ring, Filled(x)'
               PROVE  /\ data'[x][1] <= frame'
                      /\ part' = 0 \/ status'[x] # "none" => data'[x][1] < frame'
    BY DEF Dated
  <2>1. CASE x = hw
    BY <1>1, <1>2, <2>1
  <2>2. CASE x # hw
    BY <1>1, <1>2, <1>6, <1>7, <2>2
  <2> QED
    BY <2>1, <2>2
<1>9. Sorted'
  <2> SUFFICES ASSUME NEW x \in Ring, NEW y \in Ring, Filled(x)', Filled(y)',
                      Off(Base, x) < Off(Base, y)
               PROVE  /\ data'[x][1] <= data'[y][1]
                      /\ status'[x] # "none" => data'[x][1] < data'[y][1]
    BY DEF Sorted
  <2>1. x # hw
    BY <1>1, <1>3, <1>5, <1>6, Count DEF Ring
  <2>2. CASE y = hw
    BY <1>2, <1>6, <1>7, <2>1, <2>2
  <2>3. CASE y # hw
    BY <1>2, <1>6, <2>1, <2>3 DEF InOrder, Sorted
  <2> QED
    BY <2>2, <2>3
<1>10. Starts'
  <2>1. ASSUME NEW x \in Ring, status'[x] # "none", Succ(x) # Base, Filled(Succ(x))'
        PROVE  data'[Succ(x)][2] = 1
    <3>1. CASE x = hw
      <4>1. Succ(hw) # hw
        BY <1>1, Count DEF Succ, Ring
      <4>2. Off(Base, Succ(hw)) < n - 1
        BY <1>1, <1>6, <2>1, <3>1, <4>1
      <4>3. Off(Base, Succ(hw)) = IF n - 1 = rx_buffer_count - 1 THEN 0 ELSE (n - 1) + 1
        BY <1>1, <1>3, OffSucc
      <4>4. Off(Base, Succ(hw)) = 0
        BY <1>5, <4>2, <4>3, Count
      <4> QED
        BY <1>1, <2>1, <3>1, <4>4, OffRange
    <3>2. CASE x # hw /\ Succ(x) = hw
      <4>1. part = 0
        BY <2>1, <3>2 DEF InOrder, Starts
      <4> QED
        BY <1>2, <3>2, <4>1
    <3>3. CASE x # hw /\ Succ(x) # hw
      BY <1>1, <1>2, <1>6, <2>1, <3>3 DEF InOrder, Starts
    <3> QED
      BY <3>1, <3>2, <3>3
  <2>2. ASSUME bh # "free", Filled(Base)' PROVE data'[Base][2] = 1
    <3>1. CASE Base = hw
      <4>1. part = 0
        BY <2>2, <3>1 DEF InOrder, Starts
      <4> QED
        BY <1>2, <3>1, <4>1
    <3>2. CASE Base # hw
      BY <1>1, <1>2, <1>6, <2>2, <3>2 DEF InOrder, Starts
    <3> QED
      BY <3>1, <3>2
  <2>3. ASSUME dma' = "run", part' # 0
        PROVE  hw' # Base /\ \A x \in Ring : status'[x] # "none" => Succ(x) # hw'
    <3>1. hw' = Succ(hw) /\ status'[hw] = "none" /\ count[Succ(hw)] # 0
      BY <1>1, <1>4, <2>3
    <3>2. \A x \in Ring : Succ(x) = Succ(hw) => x = hw
      BY <1>1, Count DEF Succ, Ring
    <3>3. Off(Base, Succ(hw)) # 0
      BY <1>1, <1>3, <1>5, <3>1, Count DEF Ring
    <3>4. Succ(hw) # Base
      BY <1>1, <3>3, OffRange
    <3> QED
      BY <3>1, <3>2, <3>4
  <2> QED
    BY <1>1, <2>1, <2>2, <2>3 DEF Starts
<1>11. Given'
  <2>1. \A i \in 1 .. Len(delivered) :
          /\ First(delivered', i) = First(delivered, i)
          /\ First(delivered, i) \in Nat \X Nat /\ First(delivered, i)[1] \in Nat
          /\ First(delivered, i)[2] = 1 /\ First(delivered, i)[1] < frame
    BY DEF InOrder, Given, First
  <2>2. \A i \in 1 .. Len(delivered) : First(delivered, i)[1] < frame'
    BY <1>1, <2>1
  <2>3. ASSUME NEW i \in 1 .. Len(delivered), NEW x \in Ring, Filled(x)',
               bh = "free" => Off(Base, x) > Off(Base, EndIndex)
        PROVE  First(delivered, i)[1] < data'[x][1]
    <3>1. CASE x = hw
      BY <1>2, <2>1, <3>1
    <3>2. CASE x # hw
      BY <1>2, <1>6, <2>3, <3>2 DEF InOrder, Given
    <3> QED
      BY <3>1, <3>2
  <2>5. \A i, j \in 1 .. Len(delivered) : i < j => First(delivered, i)[1] < First(delivered, j)[1]
    BY DEF InOrder, Given
  <2> QED
    BY <2>1, <2>2, <2>3, <2>5 DEF Given
<1> QED
  BY <1>8, <1>9, <1>10, <1>11 DEF InOrder

\* The frame that ends at EndIndex begins at Base; it comes after all that were
\* delivered and before all that are left.
LEMMA FrameAtBase ==
  ASSUME Shape, NEW n \in 0 .. rx_buffer_count, Held(n), InOrder,
         status[EndIndex] # "none", bh # "free"
  PROVE  /\ Filled(Base) /\ data[Base][1] < frame /\ data[Base][2] = 1
         /\ \A x \in Ring : Filled(x) /\ Off(Base, x) > Off(Base, EndIndex)
                            => data[Base][1] < data[x][1]
<1>1. /\ Base \in Ring /\ hw \in Ring /\ EndIndex \in Ring /\ frame \in Nat
      /\ \A x \in Ring : data[x] \in Nat \X Nat /\ data[x][1] \in Nat
  BY BaseInRing DEF Shape
<1>4. /\ \A x \in Ring : Off(Base, x) \in Ring
      /\ \A x, y \in Ring : Off(Base, x) = Off(Base, y) => x = y
      /\ Off(Base, Base) = 0
  BY <1>1, OffRange
<1>5. /\ \A x \in Ring : count[x] = 0 <=> Off(Base, x) < n
      /\ \A x \in Ring : Off(Base, x) >= n => status[x] = "none"
      /\ count[hw] = 0 => Off(Base, hw) = n - 1
  BY DEF Held
<1>6. Off(Base, EndIndex) < n
  BY <1>1, <1>4, <1>5, Count DEF Ring
<1>7. Filled(EndIndex)
  BY <1>1, <1>5, <1>6 DEF Filled
<1>8. Filled(Base)
  <2>1. count[Base] = 0
    BY <1>1, <1>4, <1>5, <1>6, Count DEF Ring
  <2>2. ASSUME Base = hw, status[Base] = "none" PROVE FALSE
    <3>1. Off(Base, EndIndex) = Off(Base, Base)
      BY <1>1, <1>4, <1>5, <1>6, <2>1, <2>2, Count DEF Ring
    <3> QED
      BY <1>1, <1>4, <2>2, <3>1
  <2> QED
    BY <2>1, <2>2 DEF Filled
<1>9. data[Base][1] <= data[EndIndex][1]
  <2>1. CASE EndIndex = Base
    BY <1>1, <2>1
  <2>2. CASE EndIndex # Base
    <3>1. Off(Base, Base) < Off(Base, EndIndex)
      BY <1>1, <1>4, <2>2, Count DEF Ring
    <3> QED
      BY <1>1, <1>7, <1>8, <3>1 DEF InOrder, Sorted
  <2> QED
    BY <2>1, <2>2
<1>10. data[Base][1] < frame
  <2>1. data[EndIndex][1] < frame
    BY <1>1, <1>7 DEF InOrder, Dated
  <2> QED
    BY <1>1, <1>9, <2>1
<1>11. \A x \in Ring : Filled(x) /\ Off(Base, x) > Off(Base, EndIndex) => data[Base][1] < data[x][1]
  <2> SUFFICES ASSUME NEW x \in Ring, Filled(x), Off(Base, x) > Off(Base, EndIndex)
               PROVE  data[Base][1] < data[x][1]
    OBVIOUS
  <2>1. Off(Base, EndIndex) < Off(Base, x)
    BY <1>1, <1>4, Count DEF Ring
  <2>2. data[EndIndex][1] < data[x][1]
    BY <1>1, <1>7, <2>1 DEF InOrder, Sorted
  <2> QED
    BY <1>1, <1>9, <2>2
<1>12. data[Base][2] = 1
  BY <1>8 DEF InOrder, Starts
<1> QED
  BY <1>8, <1>10, <1>11, <1>12

\* The bottom half hands that frame on, or drops it.
LEMMA OrderDelivered ==
  ASSUME Shape, Shape', NEW n \in 0 .. rx_buffer_count, Held(n), InOrder,
         status[EndIndex] # "none", bh # "free", bh' = "free", Base' = Base, EndIndex' = EndIndex,
         count' = count, status' = status, data' = data, hw' = hw, dma' = dma,
         part' = part, frame' = frame, NEW d \in Delivery, d.bytes[1] = data[Base],
         delivered' = delivered \/ delivered' = Append(delivered, d)
  PROVE  InOrder'
<1>1. /\ Base \in Ring /\ frame \in Nat /\ data[Base] \in Nat \X Nat
      /\ \A x \in Ring : Succ(x) \in Ring
      /\ delivered \in Seq(Delivery)
  BY BaseInRing, OffSucc DEF Shape
<1>2. \A x \in Ring : Filled(x)' <=> Filled(x)
  BY DEF Filled
<1>3. Dated' /\ Sorted' /\ Starts'
  <2>1. Dated'
    BY <1>2 DEF InOrder, Dated
  <2>2. Sorted'
    BY <1>2 DEF InOrder, Sorted
  <2>3. Starts'
    BY <1>1, <1>2 DEF InOrder, Starts
  <2> QED
    BY <2>1, <2>2, <2>3
<1>4. /\ Filled(Base) /\ data[Base][1] < frame /\ data[Base][2] = 1
      /\ \A x \in Ring : Filled(x) /\ Off(Base, x) > Off(Base, EndIndex)
                         => data[Base][1] < data[x][1]
  BY FrameAtBase
<1>5. /\ \A i \in 1 .. Len(delivered) :
           /\ First(delivered, i) \in Nat \X Nat /\ First(delivered, i)[2] = 1
           /\ First(delivered, i)[1] < frame
      /\ \A i \in 1 .. Len(delivered), x \in Ring :
           Filled(x) => First(delivered, i)[1] < data[x][1]
      /\ \A i, j \in 1 .. Len(delivered) :
           i < j => First(delivered, i)[1] < First(delivered, j)[1]
  BY DEF InOrder, Given
<1>6. CASE delivered' = delivered
  BY <1>2, <1>3, <1>5, <1>6 DEF InOrder, Given
<1>7. CASE delivered' = Append(delivered, d)
  <2> DEFINE l == Len(delivered)
             F(i) == First(delivered', i)
  <2>1. /\ l \in Nat /\ Len(delivered') = l + 1
        /\ \A i \in 1 .. l : F(i) = First(delivered, i)
        /\ F(l + 1) = data[Base]
    <3>1. /\ l \in Nat /\ Len(delivered') = l + 1
          /\ \A i \in 1 .. l : delivered'[i] = delivered[i]
          /\ delivered'[l + 1] = d
      BY <1>1, <1>7, AppendProperties, LenProperties
    <3> QED
      BY <3>1 DEF First
  <2>2. /\ \A i \in 1 .. l : F(i) \in Nat \X Nat /\ F(i)[2] = 1 /\ F(i)[1] < frame
        /\ \A i \in 1 .. l, x \in Ring : Filled(x) => F(i)[1] < data[x][1]
        /\ \A i, j \in 1 .. l : i < j => F(i)[1] < F(j)[1]
    BY <1>5, <2>1
  <2>3. /\ F(l + 1) \in Nat \X Nat /\ F(l + 1)[2] = 1 /\ F(l + 1)[1] < frame
        /\ \A x \in Ring : Filled(x) /\ Off(Base, x) > Off(Base, EndIndex)
                           => F(l + 1)[1] < data[x][1]
        /\ \A i \in 1 .. l : F(i)[1] < F(l + 1)[1]
    <3>1. \A i \in 1 .. l : F(i)[1] < data[Base][1]
      BY <1>1, <1>4, <2>2
    <3> QED
      BY <1>1, <1>4, <2>1, <3>1
  <2> HIDE DEF l, F
  <2>4. \A i \in 1 .. l + 1 : i \in 1 .. l \/ i = l + 1
    BY <2>1
  <2>5. \A i \in 1 .. l + 1 : F(i) \in Nat \X Nat /\ F(i)[2] = 1 /\ F(i)[1] < frame
    BY <2>2, <2>3, <2>4, Zenon
  <2>6. \A i \in 1 .. l + 1, x \in Ring :
          Filled(x) /\ Off(Base, x) > Off(Base, EndIndex) => F(i)[1] < data[x][1]
    BY <2>2, <2>3, <2>4, Zenon
  <2>7. \A i, j \in 1 .. l + 1 : i < j => F(i)[1] < F(j)[1]
    <3> SUFFICES ASSUME NEW i \in 1 .. l + 1, NEW j \in 1 .. l + 1, i < j
                 PROVE  F(i)[1] < F(j)[1]
      OBVIOUS
    <3>1. i \in 1 .. l
      BY <2>1
    <3> QED
      BY <2>2, <2>3, <2>4, <3>1, Zenon
  <2>8. Given'
    BY <1>2, <2>1, <2>5, <2>6, <2>7 DEF Given, F
  <2> QED
    BY <1>3, <2>8 DEF InOrder
<1> QED
  BY <1>6, <1>7

\* The bottom half frees the entry at Base; after the last one of a frame the next
\* frame begins.
LEMMA OrderFreed ==
  ASSUME Shape, Shape', NEW n \in 0 .. rx_buffer_count, Held(n), InOrder,
         bh = "free", bh' = IF EndIndex = Base THEN "advance" ELSE "free",
         status[EndIndex] # "none", Base' = Succ(Base), EndIndex' = EndIndex,
         count' = [count EXCEPT ![Base] = DMABUFFERSIZE],
         status' = [status EXCEPT ![Base] = "none"],
         data' = data, hw' = hw, dma' = dma, part' = part, frame' = frame, delivered' = delivered
  PROVE  InOrder'
<1>1. /\ Base \in Ring /\ hw \in Ring /\ EndIndex \in Ring /\ \A x \in Ring : Succ(x) \in Ring
      /\ part \in Nat /\ frame \in Nat
  BY BaseInRing, OffSucc DEF Shape
<1>2. \A x \in Ring : /\ count'[x] = (IF x = Base THEN DMABUFFERSIZE ELSE count[x])
                      /\ status'[x] = (IF x = Base THEN "none" ELSE status[x])
  BY <1>1 DEF Shape
<1>3. \A x \in Ring : Filled(x)' => Filled(x) /\ x # Base /\ status'[x] = status[x]
  BY <1>2 DEF Filled, DMABUFFERSIZE
<1>4. /\ \A x \in Ring : Off(Base, x) \in Ring
      /\ \A x \in Ring : x # Base => Off(Succ(Base), x) = Off(Base, x) - 1
      /\ \A x \in Ring : Off(Base, x) = 0 <=> x = Base
  BY <1>1, OffRange, OffNext
<1>5. \A x, y \in Ring : x # Base /\ y # Base
        => (Off(Succ(Base), x) < Off(Succ(Base), y) <=> Off(Base, x) < Off(Base, y))
  BY <1>4, Count DEF Ring
<1>6. Dated'
  BY <1>3 DEF InOrder, Dated
<1>7. Sorted'
  <2> SUFFICES ASSUME NEW x \in Ring, NEW y \in Ring, Filled(x)', Filled(y)',
                      Off(Succ(Base), x) < Off(Succ(Base), y)
               PROVE  /\ data[x][1] <= data[y][1]
                      /\ status'[x] # "none" => data[x][1] < data[y][1]
    BY DEF Sorted
  <2>1. Off(Base, x) < Off(Base, y) /\ Filled(x) /\ Filled(y) /\ status'[x] = status[x]
    BY <1>3, <1>5
  <2> QED
    BY <2>1 DEF InOrder, Sorted
<1>8. Starts'
  <2>1. ASSUME NEW x \in Ring, status'[x] # "none", Filled(Succ(x))'
        PROVE  data[Succ(x)][2] = 1
    <3>1. status[x] # "none" /\ Succ(x) # Base /\ Filled(Succ(x))
      BY <1>1, <1>2, <1>3, <2>1
    <3> QED
      BY <3>1 DEF InOrder, Starts
  <2>2. ASSUME bh' # "free"
        PROVE  EndIndex = Base /\ Succ(Base) # Base
    BY <1>1, <2>2, Count DEF Succ, Ring
  <2>3. ASSUME bh' # "free", Filled(Base)' PROVE data[Base'][2] = 1
    <3>1. PICK b \in Ring : b = Base'
      BY <1>1
    <3>2. Filled(b)'
      BY <2>3, <3>1 DEF Filled
    <3>3. Filled(Succ(Base)) /\ status[Base] # "none" /\ Succ(Base) # Base
      BY <1>1, <1>3, <2>2, <2>3, <3>1, <3>2
    <3> QED
      BY <1>1, <3>3 DEF InOrder, Starts
  <2>4. ASSUME dma = "run",
               (hw = Succ(Base) /\ bh' # "free") \/ \E x \in Ring : status'[x] # "none" /\ Succ(x) = hw
        PROVE  part = 0
    <3>1. \E x \in Ring : status[x] # "none" /\ Succ(x) = hw
      <4>1. CASE hw = Succ(Base) /\ bh' # "free"
        BY <1>1, <2>2, <4>1
      <4>2. CASE \E x \in Ring : status'[x] # "none" /\ Succ(x) = hw
        BY <1>2, <4>2
      <4> QED
        BY <2>4, <4>1, <4>2
    <3> QED
      BY <2>4, <3>1 DEF InOrder, Starts
  <2> QED
    BY <2>1, <2>3, <2>4 DEF Starts
<1>9. Given'
  <2>1. \A i \in 1 .. Len(delivered) : First(delivered', i) = First(delivered, i)
    BY DEF First
  <2>2. ASSUME NEW x \in Ring, Filled(x)',
               bh' = "free" => Off(Succ(Base), x) > Off(Succ(Base), EndIndex)
        PROVE  Filled(x) /\ Off(Base, x) > Off(Base, EndIndex)
    <3>1. Filled(x) /\ x # Base
      BY <1>3, <2>2
    <3>2. CASE EndIndex = Base
      BY <1>1, <1>4, <3>1, <3>2, Count DEF Ring
    <3>3. CASE EndIndex # Base
      <4>1. Off(Succ(Base), x) > Off(Succ(Base), EndIndex)
        BY <2>2, <3>3
      <4>2. Off(Succ(Base), x) = Off(Base, x) - 1 /\ Off(Succ(Base), EndIndex) = Off(Base, EndIndex) - 1
            /\ Off(Base, x) \in Ring /\ Off(Base, EndIndex) \in Ring
        BY <1>1, <1>4, <3>1, <3>3
      <4> QED
        BY <3>1, <4>1, <4>2, Count DEF Ring
    <3> QED
      BY <3>2, <3>3
  <2>3. /\ \A i \in 1 .. Len(delivered) :
             /\ First(delivered, i) \in Nat \X Nat
             /\ First(delivered, i)[2] = 1 /\ First(delivered, i)[1] < frame
        /\ \A i \in 1 .. Len(delivered), x \in Ring :
             Filled(x) /\ Off(Base, x) > Off(Base, EndIndex) => First(delivered, i)[1] < data[x][1]
        /\ \A i, j \in 1 .. Len(delivered) : i < j => First(delivered, i)[1] < First(delivered, j)[1]
    BY DEF InOrder, Given
  <2> QED
    BY <2>1, <2>2, <2>3 DEF Given
<1> QED
  BY <1>6, <1>7, <1>8, <1>9 DEF InOrder

-----------------------------------------------------------------------------
(* The shape of the state.                                                 *)

\* Types of what the channel is given when it is started at entry i.
LEMMA InitRxChannelShape ==
  ASSUME Shape, NEW i \in Ring, NEW T, InitRxChannel(i, T)
  PROVE  /\ count' \in [Ring -> {0, DMABUFFERSIZE}]
         /\ status' \in [Ring -> {"none", "ok", "crc", "bad"}]
         /\ rcc' \in [Ring -> Nat \X Nat]
         /\ dma' = "run" /\ hw' \in Ring
BY DEF InitRxChannel, Shape, NoFrame

\* A frame given up is not taken up again.
LEMMA AbandonFrameShape ==
  ASSUME Shape, AbandonFrame
  PROVE  /\ part' = 0 /\ frame' \in Nat /\ frame' >= frame /\ (part = 0 \/ frame' > frame)
         /\ part' \in Nat
BY DEF AbandonFrame, Shape

\* Types after the channel moves on.
LEMMA NextEntryShape ==
  ASSUME Shape, NextEntry
  PROVE  /\ count' \in [Ring -> {0, DMABUFFERSIZE}] /\ hw' \in Ring
         /\ dma' = dma \/ dma' = "eol"
<1>1. Succ(hw) \in Ring
  BY OffSucc DEF Shape
<1> QED
  BY <1>1 DEF NextEntry, Shape

\* Types after usc_start_receiver.
LEMMA StartReceiverShape ==
  ASSUME Shape, StartReceiver
  PROVE  /\ count' \in [Ring -> {0, DMABUFFERSIZE}]
         /\ status' \in [Ring -> {"none", "ok", "crc", "bad"}]
         /\ rcc' \in [Ring -> Nat \X Nat]
         /\ dma' = "run" /\ hw' \in Ring /\ current_rx_buffer' \in Ring
         /\ part' \in Nat /\ frame' \in Nat
<1>1. 0 \in Ring
  BY Count DEF Ring
<1>2. InitRxChannel(0, Ring) /\ current_rx_buffer' = 0 /\ AbandonFrame
  BY DEF StartReceiver
<1> QED
  BY <1>1, <1>2, InitRxChannelShape, AbandonFrameShape

\* usc_stop_receiver leaves the ring alone.
LEMMA StopReceiverShape ==
  ASSUME Shape, StopReceiver
  PROVE  /\ count' = count /\ status' = status /\ rcc' = rcc /\ dma' = "off" /\ hw' = hw
         /\ current_rx_buffer' = current_rx_buffer
         /\ part' \in Nat /\ frame' \in Nat
<1>1. AbandonFrame
  BY DEF StopReceiver
<1> QED
  BY <1>1, AbandonFrameShape DEF StopReceiver, ring

\* Types after usc_process_rxoverrun_sync.
LEMMA OverrunShape ==
  ASSUME Shape, ProcessRxOverrun
  PROVE  /\ count' \in [Ring -> {0, DMABUFFERSIZE}]
         /\ status' \in [Ring -> {"none", "ok", "crc", "bad"}]
         /\ rcc' \in [Ring -> Nat \X Nat]
         /\ dma' \in {"run", "paused"} /\ hw' \in Ring /\ current_rx_buffer' \in Ring
<1>1. 0 \in Ring
  BY Count DEF Ring
<1>2. CASE AllInUse
  <2>1. InitRxChannel(0, Ring) /\ current_rx_buffer' = 0
    BY <1>2, Zenon DEF ProcessRxOverrun
  <2> QED
    BY <1>1, <2>1, InitRxChannelShape
<1>3. CASE ~AllInUse
  <2> DEFINE Pos(k) == (current_rx_buffer + k) % rx_buffer_count
             InUse == {k \in Ring : \A j \in 0 .. k : count[Pos(j)] = 0}
             Complete == {k \in InUse : status[Pos(k)] # "none"}
             Unfinished == {k \in InUse : \A j \in Complete : j < k}
             first == CHOOSE k \in Unfinished : \A j \in Unfinished : k <= j
  <2>1. /\ current_rx_buffer' = current_rx_buffer
        /\ IF Unfinished # {} THEN InitRxChannel(Pos(first), {Pos(k) : k \in Unfinished})
           ELSE dma' = "paused" /\ UNCHANGED <<ring, hw>>
    BY <1>3, Zenon DEF ProcessRxOverrun
  <2>2. current_rx_buffer \in Ring /\ \A k \in Ring : Pos(k) \in Ring
    BY OffPlace DEF Shape
  <2>3. CASE Unfinished # {}
    <3>1. Unfinished \subseteq Ring
      OBVIOUS
    <3>2. first \in Unfinished
      <4>1. \E k \in Unfinished : \A j \in Unfinished : k <= j
        BY <2>3, <3>1, Least
      <4> QED
        BY <4>1
    <3>3. Pos(first) \in Ring
      BY <2>2, <3>1, <3>2
    <3>4. InitRxChannel(Pos(first), {Pos(k) : k \in Unfinished})
      BY <2>1, <2>3
    <3> HIDE DEF Pos, Unfinished, first
    <3>5. /\ count' \in [Ring -> {0, DMABUFFERSIZE}]
          /\ status' \in [Ring -> {"none", "ok", "crc", "bad"}]
          /\ rcc' \in [Ring -> Nat \X Nat]
          /\ dma' = "run" /\ hw' \in Ring
      BY <3>3, <3>4, InitRxChannelShape
    <3> QED
      BY <2>1, <2>2, <3>5
  <2>4. CASE Unfinished = {}
    <3>1. dma' = "paused" /\ UNCHANGED <<ring, hw>>
      BY <2>1, <2>4, Zenon
    <3> QED
      BY <2>1, <2>2, <3>1 DEF Shape, ring
  <2> QED
    BY <2>3, <2>4
<1> QED
  BY <1>2, <1>3

\* Whatever was found in the ring, what is handed on is a frame.
LEMMA DeliverShape ==
  ASSUME Shape, BhDeliver
  PROVE  \E d \in Delivery :
           /\ delivered' = delivered \/ delivered' = Append(delivered, d)
           /\ d.bytes[1] = data[StartIndex]
<1> DEFINE size == rcc[EndIndex][2]
           bytes == [i \in 1 .. size |-> data[(StartIndex + i - 1) % rx_buffer_count]]
           d == [frame |-> rcc[EndIndex][1], bytes |-> bytes, passed |-> Passed # {}]
           none == [frame |-> 0, bytes |-> <<data[StartIndex]>>, passed |-> FALSE]
<1>1. EndIndex \in Ring /\ StartIndex \in Ring /\ data \in [Ring -> Nat \X Nat]
      /\ rcc[EndIndex] \in Nat \X Nat /\ data[StartIndex] \in Nat \X Nat
  BY DEF Shape
<1>2. size \in Nat /\ rcc[EndIndex][1] \in Nat
  BY <1>1
<1>3. delivered' = IF ReturnFrame(status[EndIndex]) /\ size \in 1 .. max_frame_size
                   THEN Append(delivered, d) ELSE delivered
  BY DEF BhDeliver
<1>4. CASE ReturnFrame(status[EndIndex]) /\ size \in 1 .. max_frame_size
  <2>1. \A i \in 1 .. size : StartIndex + i - 1 \in Nat
    BY <1>1, <1>2, Count DEF Ring
  <2>3. \A i \in 1 .. size : (StartIndex + i - 1) % rx_buffer_count \in Ring
    BY <2>1, ModRing, Zenon
  <2>4. bytes \in [1 .. size -> Nat \X Nat]
    BY <1>1, <2>3
  <2>5. bytes \in Seq(Nat \X Nat)
    <3> HIDE DEF bytes, size
    <3> QED
      BY <1>2, <2>4, SeqDef
  <2>6. 1 \in 1 .. size /\ max_frame_size \in Nat
    BY <1>2, <1>4, RingAssumption
  <2>7. (StartIndex + 1 - 1) % rx_buffer_count = StartIndex
    <3>1. StartIndex + 1 - 1 = StartIndex
      BY <1>1, Count DEF Ring
    <3>2. StartIndex % rx_buffer_count = StartIndex
      BY <1>1, ModRing, Zenon
    <3> QED
      BY <3>1, <3>2
  <2>8. bytes[1] = data[StartIndex]
    BY <2>6, <2>7
  <2>9. d \in Delivery /\ d.bytes = bytes
    <3> HIDE DEF bytes
    <3> QED
      BY <1>2, <2>5 DEF Delivery
  <2> HIDE DEF d
  <2> QED
    BY <1>3, <1>4, <2>8, <2>9
<1>5. CASE ~(ReturnFrame(status[EndIndex]) /\ size \in 1 .. max_frame_size)
  <2>1. <<data[StartIndex]>> \in Seq(Nat \X Nat) /\ <<data[StartIndex]>>[1] = data[StartIndex]
    BY <1>1
  <2>2. none \in Delivery /\ none.bytes[1] = data[StartIndex]
    BY <2>1 DEF Delivery
  <2>3. delivered' = delivered
    BY <1>3, <1>5
  <2> HIDE DEF none
  <2> QED
    BY <2>2, <2>3
<1> QED
  BY <1>4, <1>5

\* Every step keeps the types.
LEMMA ShapeStep ==
  ASSUME Shape, [Next]_vars
  PROVE  Shape'
<1>a. frame \in Nat /\ part \in Nat /\ part + 1 \in Nat /\ <<frame, part + 1>> \in Nat \X Nat
  <2>1. frame \in Nat /\ part \in Nat
    BY DEF Shape
  <2>2. frame \in Nat /\ part + 1 \in Nat
    BY <2>1
  <2> QED
    BY <2>1, <2>2
<1>b. delivered \in Seq(Delivery) /\ \A d \in Delivery : Append(delivered, d) \in Seq(Delivery)
  <2>1. delivered \in Seq(Delivery)
    BY DEF Shape
  <2> QED
    BY <2>1, AppendProperties
<1> USE DEF Shape
<1>0. Succ(EndIndex) \in Ring /\ Succ(StartIndex) \in Ring
  BY OffSucc
<1>1. CASE HwBufferFull
  <2>1. NextEntry
    BY <1>1 DEF HwBufferFull
  <2>2. data' \in [Ring -> Nat \X Nat] /\ part' \in Nat
    BY <1>1, <1>a DEF HwBufferFull
  <2>3. /\ count' \in [Ring -> {0, DMABUFFERSIZE}] /\ hw' \in Ring
        /\ dma' = dma \/ dma' = "eol"
    BY <2>1, NextEntryShape
  <2> QED
    BY <1>1, <2>2, <2>3 DEF HwBufferFull, driver, locals
<1>2. CASE HwFrameEnd
  <2>1. NextEntry
    BY <1>2 DEF HwFrameEnd
  <2>2. data' \in [Ring -> Nat \X Nat] /\ rcc' \in [Ring -> Nat \X Nat] /\ part' \in Nat /\ frame' \in Nat
    <3>1. /\ data' = [data EXCEPT ![hw] = <<frame, part + 1>>]
          /\ rcc' = [rcc EXCEPT ![hw] = <<frame, part + 1>>]
          /\ frame' = frame + 1 /\ part' = 0
      BY <1>2 DEF HwFrameEnd
    <3>2. frame' \in Nat /\ part' \in Nat
      BY <1>a, <3>1
    <3> QED
      BY <1>a, <3>1, <3>2
  <2>3. status' \in [Ring -> {"none", "ok", "crc", "bad"}]
    BY <1>2 DEF HwFrameEnd
  <2>4. /\ count' \in [Ring -> {0, DMABUFFERSIZE}] /\ hw' \in Ring
        /\ dma' = dma \/ dma' = "eol"
    BY <2>1, NextEntryShape
  <2> QED
    BY <1>2, <2>2, <2>3, <2>4 DEF HwFrameEnd, driver, locals
<1>3. CASE HwOverrun
  BY <1>3 DEF HwOverrun, ring, driver, locals
<1>4. CASE HwRccUnderrun
  BY <1>4 DEF HwRccUnderrun, ring, driver, locals, channel
<1>5. CASE IsrReceiveStatus
  <2>1. ProcessRxOverrun /\ AbandonFrame
    BY <1>5 DEF IsrReceiveStatus
  <2>2. /\ count' \in [Ring -> {0, DMABUFFERSIZE}]
        /\ status' \in [Ring -> {"none", "ok", "crc", "bad"}]
        /\ rcc' \in [Ring -> Nat \X Nat]
        /\ dma' \in {"run", "paused"} /\ hw' \in Ring /\ current_rx_buffer' \in Ring
    BY <2>1, OverrunShape
  <2>3. part' \in Nat /\ frame' \in Nat
    BY <2>1, AbandonFrameShape
  <2> QED
    BY <1>5, <2>2, <2>3 DEF IsrReceiveStatus, locals
<1>6. CASE IsrMisc
  <2>1. AbandonFrame
    BY <1>6 DEF IsrMisc
  <2>2. part' \in Nat /\ frame' \in Nat
    BY <2>1, AbandonFrameShape
  <2> QED
    BY <1>6, <2>2 DEF IsrMisc, ring, locals
<1>7. CASE IsrReceiveDma
  BY <1>7 DEF IsrReceiveDma, ring, locals
<1>8. CASE Process
  <2>1. StartReceiver \/ StopReceiver
    BY <1>8 DEF Process, RxEnable, ProgramHw
  <2>2. data' = data /\ locals' = locals /\ delivered' = delivered
    BY <1>8 DEF Process, RxEnable, ProgramHw
  <2>3. CASE StartReceiver
    <3>1. /\ count' \in [Ring -> {0, DMABUFFERSIZE}]
          /\ status' \in [Ring -> {"none", "ok", "crc", "bad"}]
          /\ rcc' \in [Ring -> Nat \X Nat]
          /\ dma' = "run" /\ hw' \in Ring /\ current_rx_buffer' \in Ring
          /\ part' \in Nat /\ frame' \in Nat
      BY <2>3, StartReceiverShape
    <3> QED
      BY <2>2, <3>1 DEF locals
  <2>4. CASE StopReceiver
    <3>1. /\ count' = count /\ status' = status /\ rcc' = rcc /\ dma' = "off" /\ hw' = hw
          /\ current_rx_buffer' = current_rx_buffer
          /\ part' \in Nat /\ frame' \in Nat
      BY <2>4, StopReceiverShape
    <3> QED
      BY <2>2, <3>1 DEF locals
  <2> QED
    BY <2>1, <2>3, <2>4
<1>9. CASE BhTake
  BY <1>9 DEF BhTake, ring, driver, channel, BhPoints
<1>10. CASE BhTop
  BY <1>10 DEF BhTop, ring, driver, channel, BhPoints
<1>11. CASE BhScan
  <2>1. EndIndex' \in Ring /\ bh' \in BhPoints
    BY <1>0, <1>11 DEF BhScan, BhPoints
  <2> QED
    BY <1>11, <2>1 DEF BhScan, ring, driver, channel
<1>12. CASE BhDeliver
  <2>1. PICK d \in Delivery : delivered' = delivered \/ delivered' = Append(delivered, d)
    BY <1>12, DeliverShape
  <2>2. delivered' \in Seq(Delivery)
    BY <1>b, <2>1
  <2>3. bh' = "free" /\ UNCHANGED <<ring, data, driver, StartIndex, EndIndex, channel>>
    BY <1>12 DEF BhDeliver
  <2> QED
    BY <2>2, <2>3 DEF ring, driver, channel, BhPoints
<1>13. CASE BhFree
  <2>1. /\ count' \in [Ring -> {0, DMABUFFERSIZE}]
        /\ status' \in [Ring -> {"none", "ok", "crc", "bad"}]
        /\ rcc' \in [Ring -> Nat \X Nat]
    BY <1>13 DEF BhFree, NoFrame
  <2>2. StartIndex' \in Ring /\ bh' \in BhPoints
    BY <1>0, <1>13 DEF BhFree, BhPoints
  <2> QED
    BY <1>13, <2>1, <2>2 DEF BhFree, driver, channel
<1>14. CASE BhAdvance
  BY <1>0, <1>14 DEF BhAdvance, ring, channel, BhPoints
<1>15. CASE BhCleanup
  BY <1>15 DEF BhCleanup, ring, driver, channel, BhPoints, AfterFrame
<1>16. CASE BhUnderrunRestart \/ BhWrapRestart \/ BhOverflowRestart
  <2>0. {"underrun", "wrapped", "restart", "off", "cleanup", AfterFrame} \subseteq BhPoints
    BY DEF AfterFrame, BhPoints
  <2>1. PICK from \in BhPoints, to \in BhPoints : BhRestart(from, to)
    BY <1>16, <2>0, Zenon DEF BhUnderrunRestart, BhWrapRestart, BhOverflowRestart
  <2>2. /\ StartReceiver /\ bh' \in BhPoints
        /\ UNCHANGED <<data, StartIndex, EndIndex, delivered>>
    BY <2>1 DEF BhRestart
  <2>3. /\ count' \in [Ring -> {0, DMABUFFERSIZE}]
        /\ status' \in [Ring -> {"none", "ok", "crc", "bad"}]
        /\ rcc' \in [Ring -> Nat \X Nat]
        /\ dma' = "run" /\ hw' \in Ring /\ current_rx_buffer' \in Ring
        /\ part' \in Nat /\ frame' \in Nat
    BY <2>2, StartReceiverShape
  <2> QED
    BY <2>2, <2>3
<1>17. CASE UNCHANGED vars
  BY <1>17 DEF vars, ring, driver, locals, channel
<1> QED
  BY <1>1, <1>2, <1>3, <1>4, <1>5, <1>6, <1>7, <1>8, <1>9, <1>10, <1>11, <1>12, <1>13, <1>14,
     <1>15, <1>16, <1>17 DEF Next, Hardware, BhStep

-----------------------------------------------------------------------------
(* Sound: every action.                                                    *)

\* Steps that leave the ring alone, the channel going on or stopping.
LEMMA QuietSound ==
  ASSUME Shape, Shape', Sound, Window', Base' = Base,
         count' = count, status' = status, data' = data, hw' = hw, delivered' = delivered,
         dma' = dma \/ dma' \in {"off", "paused"},
         bh' = "free" <=> bh = "free",
         bh = "free" => EndIndex' = EndIndex,
         (part' = part /\ frame' = frame) \/ AbandonFrame
  PROVE  Sound'
<1>1. PICK n \in 0 .. rx_buffer_count : Held(n)
  BY DEF Sound
<1>2. Held(n)'
  BY <1>1, HeldQuiet
<1>3. \A x \in Ring : Filled(x)' => Filled(x)
  BY DEF Filled
<1>4. \/ part' = part /\ frame' = frame
      \/ part' = 0 /\ frame' >= frame /\ (part = 0 \/ frame' > frame)
  BY AbandonFrameShape
<1>5. dma' = "run" => part' = 0 \/ (dma = "run" /\ hw' = hw)
  OBVIOUS
<1>6. InOrder
  BY DEF Sound
<1>7. InOrder'
  BY <1>3, <1>4, <1>5, <1>6, OrderKept
<1> QED
  BY <1>2, <1>7 DEF Sound

\* The ring is given back while the bottom half is not using it.
LEMMA ResetSound ==
  ASSUME Shape, Shape', Sound, InitRxChannel(0, Ring), AbandonFrame, current_rx_buffer' = 0,
         bh' \notin {"scan", "deliver", "free", "advance"}, delivered' = delivered
  PROVE  Sound'
<1>1. Base' = 0 /\ 0 \in Ring
  BY Count DEF Base, Ring
<1>2. /\ Held(1)' /\ 1 \in 0 .. rx_buffer_count
      /\ \A x \in Ring : ~Filled(x)'
  BY <1>1, HeldReset
<1>3. frame' >= frame /\ part' = 0 /\ InOrder
  BY AbandonFrameShape DEF Sound
<1>4. InOrder'
  BY <1>1, <1>2, <1>3, OrderReset
<1>5. Window'
  BY DEF Window
<1> QED
  BY <1>2, <1>4, <1>5 DEF Sound

\* The channel fills its entry.
LEMMA HardwareSound ==
  ASSUME Shape, Shape', Sound, Hardware
  PROVE  Sound'
<1>1. CASE HwBufferFull \/ HwFrameEnd
  <2>1. /\ dma = "run" /\ NextEntry /\ data' = [data EXCEPT ![hw] = <<frame, part + 1>>]
        /\ UNCHANGED <<driver, locals, delivered>>
    BY <1>1 DEF HwBufferFull, HwFrameEnd
  <2>2. PICK n \in 0 .. rx_buffer_count : Held(n)
    BY DEF Sound
  <2>3. hw \in Ring /\ status[hw] = "none" /\ status \in [Ring -> {"none", "ok", "crc", "bad"}]
    BY <2>1, <2>2 DEF Held, Shape
  <2>4. /\ \A x \in Ring : x # hw => status'[x] = status[x]
        /\ \/ status'[hw] = "none" /\ frame' = frame /\ part' = part + 1
           \/ status'[hw] # "none" /\ frame' = frame + 1 /\ part' = 0
    BY <1>1, <2>3 DEF HwBufferFull, HwFrameEnd
  <2>5. Base' = Base /\ bh' = bh /\ EndIndex' = EndIndex /\ StartIndex' = StartIndex
        /\ current_rx_buffer' = current_rx_buffer /\ delivered' = delivered
    BY <2>1 DEF Base, driver, locals
  <2>6. \E m \in 0 .. rx_buffer_count : Held(m)'
    <3>1. status' \in [Ring -> {"none", "ok", "crc", "bad"}]
      BY DEF Shape
    <3> QED
      BY <2>1, <2>2, <2>4, <2>5, <3>1, HeldNext
  <2>7. InOrder'
    <3>1. InOrder
      BY DEF Sound
    <3> QED
      BY <2>1, <2>2, <2>4, <2>5, <3>1, OrderFilled
  <2>8. Window'
    <3>1. EndIndex \in Ring
      BY DEF Shape
    <3>2. status[EndIndex] # "none" => status'[EndIndex] # "none"
      BY <2>3, <2>4, <3>1
    <3> QED
      BY <2>5, <3>2 DEF Sound, Window
  <2> QED
    BY <2>6, <2>7, <2>8 DEF Sound
<1>2. CASE HwOverrun \/ HwRccUnderrun
  <2>1. UNCHANGED <<ring, data, driver, locals, dma, hw, part, frame, delivered>>
    BY <1>2 DEF HwOverrun, HwRccUnderrun, channel
  <2>2. Base' = Base /\ Window'
    BY <2>1 DEF Base, Window, Sound, driver, locals, ring
  <2> QED
    BY <2>1, <2>2, QuietSound DEF ring, driver, locals
<1> QED
  BY <1>1, <1>2 DEF Hardware

\* An overrun, unless it gives back a ring the bottom half is using.
LEMMA OverrunSound ==
  ASSUME Shape, Shape', Sound, IsrReceiveStatus, ~(InWindow /\ AllInUse)
  PROVE  Sound'
<1>1. ProcessRxOverrun /\ AbandonFrame /\ UNCHANGED <<data, locals, delivered>>
  BY DEF IsrReceiveStatus
<1>2. CASE AllInUse
  <2>1. InitRxChannel(0, Ring) /\ current_rx_buffer' = 0
    BY <1>1, <1>2, Zenon DEF ProcessRxOverrun
  <2>2. bh' = bh /\ bh \notin {"scan", "deliver", "free", "advance"} /\ delivered' = delivered
    BY <1>1, <1>2 DEF InWindow, locals
  <2> QED
    BY <1>1, <2>1, <2>2, ResetSound
<1>3. CASE ~AllInUse
  <2>1. /\ current_rx_buffer' = current_rx_buffer
        /\ dma' = "paused" => UNCHANGED <<ring, hw>>
    BY <1>1, <1>3 DEF ProcessRxOverrun, InitRxChannel
  <2>2. Base' = Base /\ bh' = bh /\ EndIndex' = EndIndex /\ StartIndex' = StartIndex
        /\ delivered' = delivered /\ data' = data
    BY <1>1, <2>1 DEF Base, locals
  <2>3. CASE dma' = "paused"
    <3>1. count' = count /\ status' = status /\ hw' = hw
      BY <2>1, <2>3 DEF ring
    <3>2. Window'
      BY <2>1, <2>2, <3>1 DEF Sound, Window
    <3> QED
      BY <1>1, <2>2, <2>3, <3>1, <3>2, QuietSound
  <2>4. CASE dma' # "paused"
    <3>1. PICK n \in 0 .. rx_buffer_count : Held(n)
      BY DEF Sound
    <3>2. /\ \E m \in 0 .. rx_buffer_count : Held(m)'
          /\ \A x \in Ring : Filled(x)' => Filled(x)
          /\ status' = status
      BY <1>1, <1>3, <2>2, <2>4, <3>1, HeldOverrun
    <3>3. Window'
      BY <2>1, <2>2, <3>2 DEF Sound, Window
    <3>4. part' = 0 /\ frame' >= frame /\ (part = 0 \/ frame' > frame) /\ InOrder
      BY <1>1, AbandonFrameShape DEF Sound
    <3>5. InOrder'
      BY <2>2, <3>2, <3>4, OrderKept
    <3> QED
      BY <3>2, <3>3, <3>5 DEF Sound
  <2> QED
    BY <2>3, <2>4
<1> QED
  BY <1>2, <1>3

\* The other interrupts leave the ring alone.
LEMMA IsrSound ==
  ASSUME Shape, Shape', Sound, IsrMisc \/ IsrReceiveDma
  PROVE  Sound'
<1>1. /\ UNCHANGED <<ring, data, current_rx_buffer, locals, hw, delivered>>
      /\ (dma' = "off" /\ AbandonFrame) \/ (dma' = dma /\ part' = part /\ frame' = frame)
  BY DEF IsrMisc, IsrReceiveDma
<1>2. Base' = Base /\ Window'
  BY <1>1 DEF Base, Window, Sound, locals, ring
<1> QED
  BY <1>1, <1>2, QuietSound DEF ring, locals

\* Process context, unless the bottom half is using the ring.
LEMMA ProcessSound ==
  ASSUME Shape, Shape', Sound, Process, ~InWindow
  PROVE  Sound'
<1>1. UNCHANGED <<data, locals, delivered>> /\ (StartReceiver \/ StopReceiver)
  BY DEF Process, RxEnable, ProgramHw
<1>2. CASE StartReceiver
  <2>1. InitRxChannel(0, Ring) /\ current_rx_buffer' = 0 /\ AbandonFrame
    BY <1>2 DEF StartReceiver
  <2>2. bh' = bh /\ bh \notin {"scan", "deliver", "free", "advance"} /\ delivered' = delivered
    BY <1>1 DEF InWindow, locals
  <2> QED
    BY <2>1, <2>2, ResetSound
<1>3. CASE StopReceiver
  <2>1. UNCHANGED <<ring, current_rx_buffer, hw>> /\ dma' = "off" /\ AbandonFrame
    BY <1>3 DEF StopReceiver
  <2>2. Base' = Base /\ Window'
    BY <1>1, <2>1 DEF Base, Window, Sound, locals, ring
  <2> QED
    BY <1>1, <2>1, <2>2, QuietSound DEF ring, locals
<1> QED
  BY <1>1, <1>2, <1>3

\* The bottom half.
LEMMA BhSound ==
  ASSUME Shape, Shape', Sound, BhStep
  PROVE  Sound'
<1>1. CASE BhTake \/ BhTop \/ BhScan \/ BhCleanup
  <2>1. UNCHANGED <<ring, data, driver, channel, delivered>>
    BY <1>1 DEF BhTake, BhTop, BhScan, BhCleanup
  <2>2. bh \in {"off", "top", "scan", "cleanup"} /\ bh' \notin {"free", "advance"}
    BY <1>1 DEF BhTake, BhTop, BhScan, BhCleanup, AfterFrame
  <2>3. Base' = Base
    BY <2>1, <2>2 DEF Base, driver
  <2>4. Window'
    <3>1. bh' \in {"scan", "deliver"} => StartIndex' = current_rx_buffer
      BY <1>1 DEF BhTake, BhTop, BhScan, BhCleanup, AfterFrame, Sound, Window
    <3>2. bh' = "deliver" => status[EndIndex'] # "none"
      BY <1>1 DEF BhTake, BhTop, BhScan, BhCleanup, AfterFrame
    <3> QED
      BY <2>1, <2>2, <3>1, <3>2 DEF Window, driver, ring
  <2>5. count' = count /\ status' = status /\ data' = data /\ hw' = hw /\ delivered' = delivered
        /\ dma' = dma /\ part' = part /\ frame' = frame
    BY <2>1 DEF ring, channel
  <2>6. (bh' = "free" <=> bh = "free") /\ bh # "free"
    BY <2>2
  <2> QED
    BY <2>3, <2>4, <2>5, <2>6, QuietSound
<1>2. CASE BhDeliver
  <2>1. /\ bh = "deliver" /\ bh' = "free" /\ StartIndex' = StartIndex /\ EndIndex' = EndIndex
        /\ UNCHANGED <<ring, data, driver, channel>>
    BY <1>2 DEF BhDeliver
  <2>2. StartIndex = current_rx_buffer /\ status[EndIndex] # "none"
    BY <2>1 DEF Sound, Window
  <2>3. Base = StartIndex /\ Base' = Base
    BY <2>1, <2>2 DEF Base
  <2>4. PICK d \in Delivery : /\ delivered' = delivered \/ delivered' = Append(delivered, d)
                              /\ d.bytes[1] = data[Base]
    BY <1>2, <2>3, DeliverShape
  <2>5. count' = count /\ status' = status /\ data' = data /\ hw' = hw
        /\ dma' = dma /\ part' = part /\ frame' = frame
    BY <2>1 DEF ring, channel
  <2>6. PICK n \in 0 .. rx_buffer_count : Held(n)
    BY DEF Sound
  <2>7. Held(n)'
    BY <2>3, <2>5, <2>6, HeldQuiet
  <2>8. InOrder'
    <3>1. InOrder
      BY DEF Sound
    <3> QED
      BY <2>1, <2>2, <2>3, <2>4, <2>5, <2>6, <3>1, OrderDelivered
  <2>9. Window'
    BY <2>1, <2>2, <2>5 DEF Window
  <2> QED
    BY <2>7, <2>8, <2>9 DEF Sound
<1>3. CASE BhFree
  <2>1. /\ bh = "free"
        /\ count' = [count EXCEPT ![StartIndex] = DMABUFFERSIZE]
        /\ status' = [status EXCEPT ![StartIndex] = "none"]
        /\ IF StartIndex = EndIndex THEN bh' = "advance" /\ StartIndex' = StartIndex
           ELSE bh' = "free" /\ StartIndex' = Succ(StartIndex)
        /\ data' = data /\ EndIndex' = EndIndex /\ delivered' = delivered
        /\ hw' = hw /\ dma' = dma /\ part' = part /\ frame' = frame
    BY <1>3 DEF BhFree, channel
  <2>2. Base = StartIndex /\ Base' = Succ(Base)
    BY <2>1 DEF Base
  <2>3. status[EndIndex] # "none"
    BY <2>1 DEF Sound, Window
  <2>4. bh' = IF EndIndex = Base THEN "advance" ELSE "free"
    BY <2>1, <2>2
  <2>5. PICK n \in 0 .. rx_buffer_count : Held(n)
    BY DEF Sound
  <2>6. n - 1 \in 0 .. rx_buffer_count /\ Held(n - 1)'
    BY <2>1, <2>2, <2>3, <2>5, HeldFree
  <2>7. InOrder'
    <3>1. InOrder
      BY DEF Sound
    <3> QED
      BY <2>1, <2>2, <2>3, <2>4, <2>5, <3>1, OrderFreed
  <2>8. Window'
    <3>1. EndIndex # StartIndex => status'[EndIndex] # "none"
      BY <2>1, <2>3 DEF Shape
    <3>2. bh' = "free" => EndIndex # StartIndex
      BY <2>1
    <3>3. bh' \in {"free", "advance"}
      BY <2>1
    <3> QED
      BY <2>1, <3>1, <3>2, <3>3 DEF Window
  <2> QED
    BY <2>6, <2>7, <2>8 DEF Sound
<1>4. CASE BhAdvance
  <2>1. /\ bh = "advance" /\ bh' = "cleanup" /\ current_rx_buffer' = Succ(EndIndex)
        /\ count' = count /\ status' = status /\ data' = data /\ hw' = hw /\ delivered' = delivered
        /\ dma' = dma /\ part' = part /\ frame' = frame
    BY <1>4 DEF BhAdvance, ring, channel
  <2>2. Base' = Base /\ Window'
    BY <2>1 DEF Base, Window
  <2>3. (bh' = "free" <=> bh = "free") /\ bh # "free"
    BY <2>1
  <2> QED
    BY <2>1, <2>2, <2>3, QuietSound
<1>5. CASE BhUnderrunRestart \/ BhWrapRestart \/ BhOverflowRestart
  <2>1. StartReceiver /\ delivered' = delivered
    BY <1>5 DEF BhUnderrunRestart, BhWrapRestart, BhOverflowRestart, BhRestart
  <2>2. bh' \notin {"scan", "deliver", "free", "advance"}
    BY <1>5 DEF BhUnderrunRestart, BhWrapRestart, BhOverflowRestart, BhRestart, AfterFrame
  <2> QED
    BY <2>1, <2>2, ResetSound DEF StartReceiver
<1> QED
  BY <1>1, <1>2, <1>3, <1>4, <1>5 DEF BhStep

-----------------------------------------------------------------------------
(* Frames as a whole: each kind of step.                                   *)

\* Steps that fill no entry and end no frame: the channel goes on as it was, has
\* stopped, or begins a frame after the end of another.
LEMMA RunsKept ==
  ASSUME Shape, Shape', Runs, Base' = Base, data' = data, status' = status,
         \A x \in Ring : status[x] # "none" => rcc'[x] = rcc[x],
         \A x \in Ring : Filled(x)' => Filled(x),
         dma' = "run" => \/ dma = "run" /\ hw' = hw /\ part' = part /\ frame' = frame
                         \/ \A x \in Ring : Filled(x)' => ~Open(x, hw')
  PROVE  Runs'
<1>1. \A x, y \in Ring : Open(x, y)' <=> Open(x, y)
  BY DEF Open
<1>2. hw' \in Ring
  BY DEF Shape
<1>3. \A x \in Ring : Open(x, hw)' <=> Open(x, hw')
  BY <1>2 DEF Open
<1>4. \A x \in Ring : status'[x] # "none" => rcc'[x] = data'[x]
  BY DEF Runs
<1>5. \A x, y \in Ring : Filled(x)' /\ Filled(y)' /\ Off(Base, x) <= Off(Base, y) /\ Open(x, y)
       => data[y][1] = data[x][1] /\ data[y][2] = data[x][2] + (Off(Base, y) - Off(Base, x))
  BY DEF Runs
<1>6. ASSUME dma' = "run", NEW x \in Ring, Filled(x)', Open(x, hw')
      PROVE  frame' = data[x][1] /\ part' + 1 = data[x][2] + (Off(Base, hw') - Off(Base, x))
  <2>1. dma = "run" /\ hw' = hw /\ part' = part /\ frame' = frame
    BY <1>6
  <2> QED
    BY <1>6, <2>1 DEF Runs
<1> QED
  BY <1>1, <1>3, <1>4, <1>5, <1>6 DEF Runs

\* The ring has been given back.
LEMMA RunsReset ==
  ASSUME \A x \in Ring : ~Filled(x)', \A x \in Ring : status'[x] = "none"
  PROVE  Runs'
BY DEF Runs

\* The channel fills its entry, in the middle or at the end of a frame.
LEMMA RunsFilled ==
  ASSUME Shape, Shape', NEW n \in 0 .. rx_buffer_count, Held(n), Runs, dma = "run",
         Base' = Base, NextEntry,
         data' = [data EXCEPT ![hw] = <<frame, part + 1>>],
         \A x \in Ring : x # hw => status'[x] = status[x] /\ rcc'[x] = rcc[x],
         \/ status'[hw] = "none" /\ frame' = frame /\ part' = part + 1
         \/ status'[hw] # "none" /\ rcc'[hw] = <<frame, part + 1>>
  PROVE  Runs'
<1>1. /\ Base \in Ring /\ hw \in Ring /\ \A x \in Ring : Succ(x) \in Ring
      /\ part \in Nat /\ frame \in Nat
      /\ \A x \in Ring : data[x][1] \in Nat /\ data[x][2] \in Nat
  BY BaseInRing, OffSucc DEF Shape
<1>2. /\ data'[hw] = <<frame, part + 1>> /\ data'[hw][1] = frame /\ data'[hw][2] = part + 1
      /\ \A x \in Ring : x # hw => data'[x] = data[x]
  BY <1>1 DEF Shape
<1>3. /\ status[hw] = "none" /\ Off(Base, hw) = n - 1
      /\ dma' = "run" => count[Succ(hw)] # 0 /\ hw' = Succ(hw)
      /\ \A x \in Ring : Filled(x)' => x = hw \/ (Filled(x) /\ x # hw /\ Off(Base, x) < n - 1)
  BY NewFilled
<1>4. \A x \in Ring : Off(Base, x) \in Ring
  BY <1>1, OffRange
\* Up to the channel's entry the statuses are what they were.
<1>5. ASSUME NEW x \in Ring, NEW y \in Ring, Off(Base, y) <= n - 1, Open(x, y)'
      PROVE  Open(x, y)
  <2> SUFFICES ASSUME NEW z \in Ring, Off(Base, x) <= Off(Base, z), Off(Base, z) < Off(Base, y)
               PROVE  status[z] = "none"
    BY DEF Open
  <2>1. z # hw
    BY <1>1, <1>3, <1>4, <1>5, Count DEF Ring
  <2>2. status'[z] = "none"
    BY <1>5 DEF Open
  <2> QED
    BY <2>1, <2>2
<1>6. \A x \in Ring : status'[x] # "none" => rcc'[x] = data'[x]
  <2> SUFFICES ASSUME NEW x \in Ring, status'[x] # "none" PROVE rcc'[x] = data'[x]
    OBVIOUS
  <2>1. CASE x = hw
    BY <1>2, <2>1
  <2>2. CASE x # hw
    BY <1>2, <2>2 DEF Runs
  <2> QED
    BY <2>1, <2>2
\* The frame coming in goes on in the entry just filled.
<1>7. ASSUME NEW x \in Ring, Filled(x), x # hw, Open(x, hw)
      PROVE  frame = data[x][1] /\ part + 1 = data[x][2] + (Off(Base, hw) - Off(Base, x))
  BY <1>7 DEF Runs
<1>8. ASSUME NEW x \in Ring, NEW y \in Ring, Filled(x)', Filled(y)',
             Off(Base, x) <= Off(Base, y), Open(x, y)'
      PROVE  /\ data'[y][1] = data'[x][1]
             /\ data'[y][2] = data'[x][2] + (Off(Base, y) - Off(Base, x))
  <2>1. Off(Base, y) <= n - 1 /\ Off(Base, x) <= n - 1
    BY <1>3, <1>4, <1>8, Count DEF Ring
  <2>2. Open(x, y)
    BY <1>5, <1>8, <2>1
  <2>3. CASE x = hw
    <3>1. Off(Base, y) = Off(Base, hw)
      BY <1>3, <1>4, <1>8, <2>1, <2>3, Count DEF Ring
    <3>2. y = hw
      BY <1>1, <3>1, OffRange
    <3> QED
      BY <1>1, <1>2, <1>4, <2>3, <3>2, Count DEF Ring
  <2>4. CASE x # hw /\ y = hw
    <3>1. Filled(x) /\ Open(x, hw)
      BY <1>3, <1>8, <2>2, <2>4
    <3> QED
      BY <1>2, <1>7, <2>4, <3>1
  <2>5. CASE x # hw /\ y # hw
    <3>1. Filled(x) /\ Filled(y) /\ data'[x] = data[x] /\ data'[y] = data[y]
      BY <1>2, <1>3, <1>8, <2>5
    <3> QED
      BY <1>8, <2>2, <3>1 DEF Runs
  <2> QED
    BY <2>3, <2>4, <2>5
<1>9. ASSUME dma' = "run", NEW x \in Ring, Filled(x)', Open(x, hw)'
      PROVE  frame' = data'[x][1] /\ part' + 1 = data'[x][2] + (Off(Base, hw') - Off(Base, x))
  <2>1. hw' = Succ(hw) /\ hw' \in Ring /\ Off(Base, hw') = n
    <3>1. hw' = Succ(hw) /\ hw' \in Ring /\ count[Succ(hw)] # 0
      BY <1>1, <1>3, <1>9
    <3>2. ~(Off(Base, Succ(hw)) < n) /\ Off(Base, Succ(hw)) \in Ring
      BY <1>1, <1>4, <3>1 DEF Held
    <3>3. Off(Base, Succ(hw)) = IF n - 1 = rx_buffer_count - 1 THEN 0 ELSE (n - 1) + 1
      BY <1>1, <1>3, OffSucc
    <3>4. Off(Base, hw) \in Ring
      BY <1>1, <1>4
    <3> QED
      BY <1>3, <3>1, <3>2, <3>3, <3>4, Count DEF Ring
  <2>2. \A z \in Ring : Off(Base, x) <= Off(Base, z) /\ Off(Base, z) < n => status'[z] = "none"
    BY <1>9, <2>1 DEF Open
  <2>3. Off(Base, x) <= n - 1 /\ Off(Base, x) \in Ring
    BY <1>3, <1>4, <1>9, Count DEF Ring
  <2>4. status'[hw] = "none" /\ frame' = frame /\ part' = part + 1
    <3>1. Off(Base, x) <= Off(Base, hw) /\ Off(Base, hw) < n
      BY <1>3, <2>3, Count DEF Ring
    <3>2. status'[hw] = "none"
      BY <1>1, <2>2, <3>1
    <3> QED
      BY <3>2
  <2>5. CASE x = hw
    BY <1>1, <1>2, <1>3, <2>1, <2>4, <2>5
  <2>6. CASE x # hw
    <3>1. Filled(x) /\ data'[x] = data[x] /\ Off(Base, x) \in Ring
      BY <1>2, <1>3, <1>9, <2>3, <2>6
    <3>2. Open(x, hw)
      <4> SUFFICES ASSUME NEW z \in Ring, Off(Base, x) <= Off(Base, z), Off(Base, z) < Off(Base, hw)
                   PROVE  status[z] = "none"
        BY DEF Open
      <4>1. z # hw /\ Off(Base, z) < n
        BY <1>1, <1>3, <1>4, Count DEF Ring
      <4> QED
        BY <2>2, <4>1
    <3>3. frame = data[x][1] /\ part + 1 = data[x][2] + (Off(Base, hw) - Off(Base, x))
      BY <1>7, <2>6, <3>1, <3>2
    <3> QED
      BY <1>1, <1>3, <2>1, <2>4, <3>1, <3>3, Count DEF Ring
  <2> QED
    BY <2>5, <2>6
<1> QED
  BY <1>6, <1>8, <1>9 DEF Runs

\* The bottom half frees the entry at Base.
LEMMA RunsFreed ==
  ASSUME Shape, Shape', Runs, Base' = Succ(Base),
         count' = [count EXCEPT ![Base] = DMABUFFERSIZE],
         status' = [status EXCEPT ![Base] = "none"],
         rcc' = [rcc EXCEPT ![Base] = NoFrame],
         dma = "run" => hw # Base,
         data' = data, hw' = hw, dma' = dma, part' = part, frame' = frame
  PROVE  Runs'
<1> DEFINE b == Base
<1>1. b \in Ring /\ hw \in Ring /\ \A x \in Ring : Succ(x) \in Ring
  BY BaseInRing, OffSucc DEF Shape
<1>2. \A x \in Ring : /\ count'[x] = (IF x = b THEN DMABUFFERSIZE ELSE count[x])
                      /\ status'[x] = (IF x = b THEN "none" ELSE status[x])
                      /\ x # b => rcc'[x] = rcc[x]
  BY <1>1 DEF Shape
<1>3. \A x \in Ring : Filled(x)' => Filled(x) /\ x # b
  BY <1>2 DEF Filled, DMABUFFERSIZE
<1>4. /\ \A x \in Ring : Off(b, x) \in Ring
      /\ \A x \in Ring : x # b => Off(Succ(b), x) = Off(b, x) - 1
      /\ \A x \in Ring : Off(b, x) = 0 <=> x = b
  BY <1>1, OffRange, OffNext
\* Counting from the next entry moves all the others by one.
<1>5. ASSUME NEW x \in Ring, NEW y \in Ring, x # b, y # b,
             \A z \in Ring : Off(Succ(b), x) <= Off(Succ(b), z) /\ Off(Succ(b), z) < Off(Succ(b), y)
                             => status'[z] = "none"
      PROVE  Open(x, y)
  <2> SUFFICES ASSUME NEW z \in Ring, Off(b, x) <= Off(b, z), Off(b, z) < Off(b, y)
               PROVE  status[z] = "none"
    BY DEF Open
  <2>1. z # b
    BY <1>1, <1>4, <1>5, Count DEF Ring
  <2>2. Off(Succ(b), x) <= Off(Succ(b), z) /\ Off(Succ(b), z) < Off(Succ(b), y)
    BY <1>4, <1>5, <2>1, Count DEF Ring
  <2> QED
    BY <1>2, <1>5, <2>1, <2>2
<1>6. \A x \in Ring : status'[x] # "none" => rcc'[x] = data[x]
  BY <1>2 DEF Runs
<1>7. ASSUME NEW x \in Ring, NEW y \in Ring, Filled(x)', Filled(y)',
             Off(Succ(b), x) <= Off(Succ(b), y), Open(x, y)'
      PROVE  /\ data[y][1] = data[x][1]
             /\ data[y][2] = data[x][2] + (Off(Succ(b), y) - Off(Succ(b), x))
  <2>1. Filled(x) /\ Filled(y) /\ x # b /\ y # b
    BY <1>3, <1>7
  <2>2. Open(x, y)
    BY <1>5, <1>7, <2>1 DEF Open
  <2>3. Off(b, x) <= Off(b, y) /\ Off(b, y) - Off(b, x) = Off(Succ(b), y) - Off(Succ(b), x)
    BY <1>4, <1>7, <2>1, Count DEF Ring
  <2> QED
    BY <2>1, <2>2, <2>3 DEF Runs
<1>8. ASSUME dma = "run", NEW x \in Ring, Filled(x)', Open(x, hw)'
      PROVE  frame = data[x][1] /\ part + 1 = data[x][2] + (Off(Succ(b), hw) - Off(Succ(b), x))
  <2>1. Filled(x) /\ x # b /\ hw # b
    BY <1>3, <1>8
  <2>2. Open(x, hw)
    BY <1>1, <1>5, <1>8, <2>1 DEF Open
  <2>3. Off(b, hw) - Off(b, x) = Off(Succ(b), hw) - Off(Succ(b), x)
    BY <1>1, <1>4, <2>1, Count DEF Ring
  <2> QED
    BY <1>8, <2>1, <2>2, <2>3 DEF Runs
<1> QED
  BY <1>6, <1>7, <1>8 DEF Runs

\* The frame that ends at EndIndex, with no other end of a frame before it: its
\* buffers are those from Base on and its length is their number.
LEMMA WholeAtBase ==
  ASSUME Shape, NEW n \in 0 .. rx_buffer_count, Held(n), InOrder, Runs,
         status[EndIndex] # "none", bh # "free",
         \A z \in Ring : Off(Base, z) < Off(Base, EndIndex) => status[z] = "none"
  PROVE  /\ rcc[EndIndex][2] = Off(Base, EndIndex) + 1
         /\ \A k \in 1 .. rcc[EndIndex][2] :
              data[(Base + (k - 1)) % rx_buffer_count] = <<rcc[EndIndex][1], k>>
<1>1. Base \in Ring /\ hw \in Ring /\ EndIndex \in Ring
  BY BaseInRing DEF Shape
<1>10. \A x \in Ring : data[x] = <<data[x][1], data[x][2]>>
  <2>1. \A x \in Ring : data[x] \in Nat \X Nat
    BY DEF Shape
  <2>2. \A p \in Nat \X Nat : p = <<p[1], p[2]>>
    OBVIOUS
  <2> QED
    BY <2>1, <2>2, Zenon
<1>2. /\ \A x \in Ring : Off(Base, x) \in Ring
      /\ \A x, y \in Ring : Off(Base, x) = Off(Base, y) => x = y
      /\ Off(Base, Base) = 0
  BY <1>1, OffRange
<1> DEFINE e == Off(Base, EndIndex)
<1>3. e \in Ring /\ e < n
  <2>1. Off(Base, EndIndex) >= n => status[EndIndex] = "none"
    BY <1>1 DEF Held
  <2> QED
    BY <1>1, <1>2, <2>1, Count DEF Ring
\* All entries up to EndIndex are filled, and of one frame.
<1>4. \A x \in Ring : Off(Base, x) <= e => Filled(x)
  <2> SUFFICES ASSUME NEW x \in Ring, Off(Base, x) <= e PROVE Filled(x)
    OBVIOUS
  <2>1. count[x] = 0 /\ (count[hw] = 0 => Off(Base, hw) = n - 1)
    BY <1>1, <1>2, <1>3, Count DEF Held, Ring
  <2>2. ASSUME x = hw, status[x] = "none" PROVE FALSE
    <3>1. Off(Base, x) = e
      BY <1>2, <1>3, <2>1, <2>2, Count DEF Ring
    <3>2. x = EndIndex
      BY <1>1, <1>2, <3>1
    <3> QED
      BY <2>2, <3>2
  <2> QED
    BY <2>1, <2>2 DEF Filled
<1>5. data[Base][2] = 1 /\ Filled(Base)
  BY FrameAtBase
<1>6. ASSUME NEW x \in Ring, Off(Base, x) <= e
      PROVE  data[x][1] = data[Base][1] /\ data[x][2] = Off(Base, x) + 1
  <2>1. Open(Base, x)
    BY <1>1, <1>2, <1>3, <1>6, Count DEF Open, Ring
  <2>2. Filled(x) /\ Off(Base, Base) <= Off(Base, x)
    BY <1>1, <1>2, <1>4, <1>6, Count DEF Ring
  <2>3. data[x][1] = data[Base][1] /\ data[x][2] = data[Base][2] + (Off(Base, x) - Off(Base, Base))
    BY <1>1, <1>5, <2>1, <2>2 DEF Runs
  <2> QED
    BY <1>2, <1>5, <2>3, Count DEF Ring
<1>7. rcc[EndIndex] = data[EndIndex]
  BY <1>1 DEF Runs
<1>8. rcc[EndIndex][2] = e + 1 /\ rcc[EndIndex][1] = data[Base][1]
  BY <1>1, <1>3, <1>6, <1>7, Count DEF Ring
<1>9. ASSUME NEW k \in 1 .. e + 1
      PROVE  data[(Base + (k - 1)) % rx_buffer_count] = <<rcc[EndIndex][1], k>>
  <2>1. k - 1 \in Ring /\ k - 1 <= e /\ (k - 1) + 1 = k
    BY <1>3, Count DEF Ring
  <2>2. PICK x \in Ring : x = (Base + (k - 1)) % rx_buffer_count /\ Off(Base, x) = k - 1
    BY <1>1, <2>1, OffPlace
  <2>3. data[x][1] = data[Base][1] /\ data[x][2] = k
    BY <1>6, <2>1, <2>2
  <2>4. data[x] = <<data[x][1], data[x][2]>>
    BY <1>10
  <2> QED
    BY <1>8, <2>2, <2>3, <2>4
<1> QED
  BY <1>8, <1>9

\* What the bottom half hands on is one frame, unless it had passed another.
LEMMA EntireDelivered ==
  ASSUME Shape, Sound, Runs, Entire, BhDeliver
  PROVE  Entire'
<1> DEFINE size == rcc[EndIndex][2]
           bytes == [i \in 1 .. size |-> data[(StartIndex + i - 1) % rx_buffer_count]]
           d == [frame |-> rcc[EndIndex][1], bytes |-> bytes, passed |-> Passed # {}]
<1>1. /\ delivered' = IF ReturnFrame(status[EndIndex]) /\ size \in 1 .. max_frame_size
                      THEN Append(delivered, d) ELSE delivered
      /\ bh = "deliver"
  BY DEF BhDeliver
<1>2. StartIndex = Base /\ status[EndIndex] # "none"
  BY <1>1 DEF Sound, Window, Base
<1>3. PICK n \in 0 .. rx_buffer_count : Held(n)
  BY DEF Sound
<1>4. StartIndex \in Ring /\ EndIndex \in Ring /\ size \in Nat /\ delivered \in Seq(Delivery)
  BY DEF Shape
<1>5. ASSUME Passed = {} PROVE OneFrame(d)
  <2>1. \A z \in Ring : Off(Base, z) < Off(Base, EndIndex) => status[z] = "none"
    BY <1>2, <1>5 DEF Passed
  <2>2. \A k \in 1 .. size : data[(Base + (k - 1)) % rx_buffer_count] = <<rcc[EndIndex][1], k>>
    BY <1>1, <1>2, <1>3, <2>1, WholeAtBase DEF Sound
  <2>3. \A k \in 1 .. size : StartIndex + k - 1 = Base + (k - 1)
    BY <1>2, <1>4, Count DEF Ring
  <2>4. d.bytes = bytes /\ d.frame = rcc[EndIndex][1] /\ DOMAIN bytes = 1 .. size
    BY Zenon
  <2>5. \A k \in 1 .. size : bytes[k] = <<rcc[EndIndex][1], k>>
    BY <2>2, <2>3
  <2> HIDE DEF d, bytes, size
  <2> QED
    BY <2>4, <2>5 DEF OneFrame
<1>6. d.passed \/ OneFrame(d)
  BY <1>5
<1>7. CASE delivered' = delivered
  BY <1>7 DEF Entire
<1>8. CASE delivered' = Append(delivered, d)
  <2> HIDE DEF d
  <2>1. /\ Len(delivered) \in Nat /\ Len(delivered') = Len(delivered) + 1
        /\ \A i \in 1 .. Len(delivered) : delivered'[i] = delivered[i]
        /\ delivered'[Len(delivered) + 1] = d
    BY <1>4, <1>8, AppendProperties, LenProperties
  <2>2. \A i \in 1 .. Len(delivered') : i \in 1 .. Len(delivered) \/ i = Len(delivered) + 1
    BY <2>1
  <2>3. \A i \in 1 .. Len(delivered') : delivered'[i].passed \/ OneFrame(delivered'[i])
    BY <1>6, <2>1, <2>2, Zenon DEF Entire
  <2> QED
    BY <2>3 DEF Entire, OneFrame
<1> QED
  BY <1>1, <1>7, <1>8

\* Steps that leave the ring alone, the channel going on or stopping.
LEMMA RunsQuiet ==
  ASSUME Shape, Shape', Runs, Base' = Base, ring' = ring, data' = data, hw' = hw,
         \/ dma' = dma /\ part' = part /\ frame' = frame
         \/ dma' \in {"off", "paused"}
  PROVE  Runs'
<1>1. count' = count /\ status' = status /\ rcc' = rcc
  BY DEF ring
<1>2. \A x \in Ring : Filled(x)' => Filled(x)
  BY <1>1 DEF Filled
<1> QED
  BY <1>1, <1>2, RunsKept

\* The receiver is started on an empty ring.
LEMMA RunsStarted ==
  ASSUME Shape, Shape', InitRxChannel(0, Ring), Base' = 0
  PROVE  Runs'
<1>1. \A x \in Ring : ~Filled(x)'
  BY HeldReset
<1>2. \A x \in Ring : status'[x] = "none"
  BY DEF InitRxChannel
<1> QED
  BY <1>1, <1>2, RunsReset

\* The frames delivered are the same.
LEMMA EntireKept ==
  ASSUME Entire, delivered' = delivered
  PROVE  Entire'
BY DEF Entire, OneFrame

\* An overrun, unless it gives back a ring the bottom half is using or looks for the
\* unfinished frame at an entry already freed.
LEMMA RunsOverrun ==
  ASSUME Shape, Shape', Sound, Runs, IsrReceiveStatus, ~(InWindow /\ AllInUse),
         ~(current_rx_buffer # Base /\ count[current_rx_buffer] = 0)
  PROVE  Runs'
<1>1. ProcessRxOverrun /\ UNCHANGED <<data, locals>>
  BY DEF IsrReceiveStatus
<1>2. CASE AllInUse
  <2>1. InitRxChannel(0, Ring) /\ current_rx_buffer' = 0
    BY <1>1, <1>2, Zenon DEF ProcessRxOverrun
  <2>2. bh' = bh /\ bh \notin {"scan", "deliver", "free", "advance"}
    BY <1>1, <1>2 DEF InWindow, locals
  <2>3. Base' = 0
    BY <2>1, <2>2 DEF Base
  <2> QED
    BY <2>1, <2>3, RunsStarted
<1>3. CASE ~AllInUse
  <2>1. /\ current_rx_buffer' = current_rx_buffer
        /\ dma' = "paused" => UNCHANGED <<ring, hw>>
    BY <1>1, <1>3 DEF ProcessRxOverrun, InitRxChannel
  <2>2. Base' = Base /\ data' = data
    BY <1>1, <2>1 DEF Base, locals
  <2>3. CASE dma' = "paused"
    BY <2>1, <2>2, <2>3, RunsQuiet
  <2>4. CASE dma' # "paused"
    <3>1. PICK n \in 0 .. rx_buffer_count : Held(n)
      BY DEF Sound
    <3>2. /\ \A x \in Ring : Filled(x)' => Filled(x)
          /\ status' = status
          /\ count[current_rx_buffer] = 0
          /\ current_rx_buffer = Base => \A x \in Ring : Filled(x)' => ~Open(x, hw')
      BY <1>1, <1>3, <2>2, <2>4, <3>1, HeldOverrun
    <3>3. \A x \in Ring : Filled(x)' => ~Open(x, hw')
      BY <3>2
    <3>4. \A x \in Ring : status[x] # "none" => rcc'[x] = rcc[x]
      <4>1. PICK i, S : InitRxChannel(i, S)
        BY <1>1, <1>3, <2>4, Zenon DEF ProcessRxOverrun
      <4>2. /\ status' = [j \in Ring |-> IF j \in S THEN "none" ELSE status[j]]
            /\ rcc' = [j \in Ring |-> IF j \in S THEN NoFrame ELSE rcc[j]]
        BY <4>1 DEF InitRxChannel
      <4> QED
        BY <3>2, <4>2
    <3> QED
      BY <2>2, <3>2, <3>3, <3>4, RunsKept
  <2> QED
    BY <2>3, <2>4
<1> QED
  BY <1>2, <1>3

\* Every step keeps the frames whole.
LEMMA WholeStep ==
  ASSUME Shape, Shape', RingInv, WholeInv, [Next]_vars
  PROVE  WholeInv'
<1> SUFFICES ASSUME ~raced', ~cut' PROVE Runs' /\ Entire'
  BY DEF WholeInv
<1>1. CASE HwBufferFull \/ HwFrameEnd
  <2>1. /\ dma = "run" /\ NextEntry /\ data' = [data EXCEPT ![hw] = <<frame, part + 1>>]
        /\ UNCHANGED <<driver, locals, delivered, raced, cut>>
    BY <1>1 DEF HwBufferFull, HwFrameEnd
  <2>2. Sound /\ Runs /\ Entire /\ Base' = Base
    BY <2>1 DEF RingInv, WholeInv, Base, driver, locals
  <2>3. PICK n \in 0 .. rx_buffer_count : Held(n)
    BY <2>2 DEF Sound
  <2>4. hw \in Ring /\ status[hw] = "none" /\ status \in [Ring -> {"none", "ok", "crc", "bad"}]
        /\ rcc \in [Ring -> Nat \X Nat]
    BY <2>1, <2>3 DEF Held, Shape
  <2>5. /\ \A x \in Ring : x # hw => status'[x] = status[x] /\ rcc'[x] = rcc[x]
        /\ \/ status'[hw] = "none" /\ frame' = frame /\ part' = part + 1
           \/ status'[hw] # "none" /\ rcc'[hw] = <<frame, part + 1>>
    BY <1>1, <2>4 DEF HwBufferFull, HwFrameEnd
  <2> QED
    BY <2>1, <2>2, <2>3, <2>5, RunsFilled, EntireKept
<1>2. CASE HwOverrun \/ HwRccUnderrun \/ IsrMisc \/ IsrReceiveDma
  <2>1. /\ UNCHANGED <<ring, data, current_rx_buffer, locals, hw, delivered, raced, cut>>
        /\ dma' = "off" \/ (dma' = dma /\ part' = part /\ frame' = frame)
    BY <1>2 DEF HwOverrun, HwRccUnderrun, IsrMisc, IsrReceiveDma, channel, driver
  <2>2. Runs /\ Entire /\ Base' = Base
    BY <2>1 DEF WholeInv, Base, locals
  <2> QED
    BY <2>1, <2>2, RunsQuiet, EntireKept
<1>3. CASE IsrReceiveStatus
  <2>1. /\ raced' = (raced \/ (InWindow /\ AllInUse))
        /\ cut' = (cut \/ (current_rx_buffer # Base /\ count[current_rx_buffer] = 0))
        /\ delivered' = delivered
    BY <1>3 DEF IsrReceiveStatus
  <2>2. /\ ~raced /\ ~(InWindow /\ AllInUse)
        /\ ~cut /\ ~(current_rx_buffer # Base /\ count[current_rx_buffer] = 0)
    BY <2>1, Zenon
  <2> QED
    BY <1>3, <2>1, <2>2, RunsOverrun, EntireKept DEF RingInv, WholeInv
<1>4. CASE Process
  <2>1. raced' = (raced \/ InWindow) /\ UNCHANGED <<data, locals, delivered, cut>>
        /\ (StartReceiver \/ StopReceiver)
    BY <1>4 DEF Process, RxEnable, ProgramHw
  <2>2. ~raced /\ ~InWindow
    BY <2>1, Zenon
  <2>3. Runs /\ Entire
    BY <2>1, <2>2 DEF WholeInv
  <2>4. CASE StartReceiver
    <3>1. InitRxChannel(0, Ring) /\ current_rx_buffer' = 0
      BY <2>4 DEF StartReceiver
    <3>2. Base' = 0
      BY <2>1, <2>2, <3>1 DEF Base, InWindow, locals
    <3> QED
      BY <2>1, <2>3, <3>1, <3>2, RunsStarted, EntireKept
  <2>5. CASE StopReceiver
    <3>1. UNCHANGED <<ring, current_rx_buffer, hw>> /\ dma' = "off"
      BY <2>5 DEF StopReceiver
    <3>2. Base' = Base
      BY <2>1, <3>1 DEF Base, locals
    <3> QED
      BY <2>1, <2>3, <3>1, <3>2, RunsQuiet, EntireKept
  <2> QED
    BY <2>1, <2>4, <2>5
<1>5. CASE BhTake \/ BhTop \/ BhScan \/ BhCleanup \/ BhAdvance
  <2>1. UNCHANGED <<ring, data, channel, delivered, raced, cut>>
    BY <1>5 DEF BhTake, BhTop, BhScan, BhCleanup, BhAdvance
  <2>2. Base' = Base
    BY <1>5 DEF BhTake, BhTop, BhScan, BhCleanup, BhAdvance, AfterFrame, Base, driver
  <2>3. Runs /\ Entire
    BY <2>1 DEF WholeInv
  <2> QED
    BY <2>1, <2>2, <2>3, RunsQuiet, EntireKept DEF channel
<1>6. CASE BhDeliver
  <2>1. /\ bh = "deliver" /\ bh' = "free" /\ StartIndex' = StartIndex
        /\ UNCHANGED <<ring, data, driver, channel, raced, cut>>
    BY <1>6 DEF BhDeliver
  <2>2. Sound /\ Runs /\ Entire
    BY <2>1 DEF RingInv, WholeInv
  <2>3. Base' = Base
    BY <2>1, <2>2 DEF Base, Sound, Window
  <2>4. Runs'
    BY <2>1, <2>2, <2>3, RunsQuiet DEF channel
  <2> QED
    BY <1>6, <2>2, <2>4, EntireDelivered
<1>7. CASE BhFree
  <2>1. /\ bh = "free"
        /\ count' = [count EXCEPT ![StartIndex] = DMABUFFERSIZE]
        /\ status' = [status EXCEPT ![StartIndex] = "none"]
        /\ rcc' = [rcc EXCEPT ![StartIndex] = NoFrame]
        /\ IF StartIndex = EndIndex THEN bh' = "advance" /\ StartIndex' = StartIndex
           ELSE bh' = "free" /\ StartIndex' = Succ(StartIndex)
        /\ data' = data /\ EndIndex' = EndIndex /\ delivered' = delivered
        /\ hw' = hw /\ dma' = dma /\ part' = part /\ frame' = frame
        /\ raced' = raced /\ cut' = cut
    BY <1>7 DEF BhFree, channel
  <2>2. Base = StartIndex /\ Base' = Succ(Base)
    BY <2>1 DEF Base
  <2>3. Sound /\ Runs /\ Entire
    BY <2>1 DEF RingInv, WholeInv
  <2>4. dma = "run" => hw # Base
    <3>1. PICK n \in 0 .. rx_buffer_count : Held(n)
      BY <2>3 DEF Sound
    <3>2. /\ Base \in Ring /\ EndIndex \in Ring /\ hw \in Ring /\ status[EndIndex] # "none"
      BY <2>1, <2>3, BaseInRing DEF Shape, Sound, Window
    <3>3. Off(Base, EndIndex) \in Ring /\ Off(Base, EndIndex) < n
      BY <3>1, <3>2, OffRange, Count DEF Held, Ring
    <3> SUFFICES ASSUME dma = "run", hw = Base PROVE FALSE
      OBVIOUS
    <3>4. status[hw] = "none" /\ Off(Base, hw) = n - 1 /\ Off(Base, hw) = 0
      BY <3>1, <3>2, OffRange DEF Held
    <3>5. Off(Base, EndIndex) = 0
      BY <3>3, <3>4, Count DEF Ring
    <3>6. EndIndex = Base
      BY <3>2, <3>5, OffRange
    <3> QED
      BY <3>2, <3>4, <3>6
  <2> QED
    BY <2>1, <2>2, <2>3, <2>4, RunsFreed, EntireKept
<1>8. CASE BhUnderrunRestart \/ BhWrapRestart \/ BhOverflowRestart
  <2>1. StartReceiver /\ UNCHANGED <<delivered, raced, cut>>
    BY <1>8 DEF BhUnderrunRestart, BhWrapRestart, BhOverflowRestart, BhRestart
  <2>2. bh' \notin {"scan", "deliver", "free", "advance"}
    BY <1>8 DEF BhUnderrunRestart, BhWrapRestart, BhOverflowRestart, BhRestart, AfterFrame
  <2>3. InitRxChannel(0, Ring) /\ Base' = 0
    BY <2>1, <2>2 DEF StartReceiver, Base
  <2>4. Entire
    BY <2>1 DEF WholeInv
  <2> QED
    BY <2>1, <2>3, <2>4, RunsStarted, EntireKept
<1>9. CASE UNCHANGED vars
  <2>1. UNCHANGED <<ring, data, driver, locals, channel, delivered, raced, cut>>
    BY <1>9 DEF vars
  <2>2. Runs /\ Entire /\ Base' = Base
    BY <2>1 DEF WholeInv, Base, driver, locals
  <2> QED
    BY <2>1, <2>2, RunsQuiet, EntireKept DEF channel
<1> QED
  BY <1>1, <1>2, <1>3, <1>4, <1>5, <1>6, <1>7, <1>8, <1>9 DEF Next, Hardware, BhStep

-----------------------------------------------------------------------------
(* The theorems.                                                           *)

\* Every step keeps the ring in step and in order, once the types are known.
LEMMA RingInvStep ==
  ASSUME Shape, Shape', RingInv, [Next]_vars
  PROVE  RingInv'
<1> SUFFICES ASSUME ~raced' PROVE Sound'
  BY DEF RingInv
<1>1. CASE Hardware
  <2>1. raced' = raced
    BY <1>1 DEF Hardware, HwBufferFull, HwFrameEnd, HwOverrun, HwRccUnderrun
  <2> QED
    BY <1>1, <2>1, HardwareSound DEF RingInv
<1>2. CASE IsrReceiveStatus
  <2>1. raced' = (raced \/ (InWindow /\ AllInUse))
    BY <1>2 DEF IsrReceiveStatus
  <2>2. ~raced /\ ~(InWindow /\ AllInUse)
    BY <2>1, Zenon
  <2> QED
    BY <1>2, <2>2, OverrunSound DEF RingInv
<1>3. CASE IsrMisc \/ IsrReceiveDma
  <2>1. raced' = raced
    BY <1>3 DEF IsrMisc, IsrReceiveDma
  <2> QED
    BY <1>3, <2>1, IsrSound DEF RingInv
<1>4. CASE Process
  <2>1. raced' = (raced \/ InWindow)
    BY <1>4 DEF Process, RxEnable, ProgramHw
  <2>2. ~raced /\ ~InWindow
    BY <2>1, Zenon
  <2> QED
    BY <1>4, <2>2, ProcessSound DEF RingInv
<1>5. CASE BhStep
  <2>1. raced' = raced
    BY <1>5 DEF BhStep, BhTake, BhTop, BhScan, BhDeliver, BhFree, BhAdvance, BhCleanup,
                BhUnderrunRestart, BhWrapRestart, BhOverflowRestart, BhRestart
  <2> QED
    BY <1>5, <2>1, BhSound DEF RingInv
<1>6. CASE UNCHANGED vars
  <2>1. raced' = raced /\ bh' = bh /\ EndIndex' = EndIndex /\ StartIndex' = StartIndex
        /\ current_rx_buffer' = current_rx_buffer
        /\ count' = count /\ status' = status /\ data' = data /\ hw' = hw /\ delivered' = delivered
        /\ dma' = dma /\ part' = part /\ frame' = frame
    BY <1>6 DEF vars, ring, driver, locals, channel
  <2>2. Sound
    BY <2>1 DEF RingInv
  <2>3. Base' = Base /\ Window'
    BY <2>1, <2>2 DEF Base, Window, Sound
  <2> QED
    BY <2>1, <2>2, <2>3, QuietSound
<1> QED
  BY <1>1, <1>2, <1>3, <1>4, <1>5, <1>6 DEF Next

\* The empty ring is in step and in order.
LEMMA RingInit ==
  ASSUME Init
  PROVE  Shape /\ RingInv /\ WholeInv
<1> USE DEF Init
<1>1. 0 \in Ring /\ \A x \in Ring : Off(0, x) = x /\ (x < 1 <=> x = 0)
  BY Count DEF Ring, Off
<1>2. <<0, 0>> \in Nat \X Nat /\ << >> \in Seq(Delivery) /\ Len(<< >>) = 0
  OBVIOUS
<1>3. Shape
  BY <1>1, <1>2 DEF Shape, NoFrame, BhPoints
<1>4. Base = 0
  BY DEF Base
<1>5. \A x \in Ring : count[x] = 0 <=> x = 0
  BY DEF DMABUFFERSIZE
<1>6. Held(1) /\ 1 \in 0 .. rx_buffer_count
  BY <1>1, <1>4, <1>5, Count DEF Held
<1>7. \A x \in Ring : ~Filled(x)
  BY <1>5 DEF Filled
<1>8. Window
  BY DEF Window
<1>9. Dated /\ Sorted
  BY <1>7 DEF Dated, Sorted
<1>10. Starts
  <2>1. \A x \in Ring : Succ(x) \in Ring
    BY OffSucc
  <2> QED
    BY <1>1, <1>4, <1>7, <2>1 DEF Starts
<1>11. Given
  BY <1>2 DEF Given
<1>12. Runs /\ Entire
  BY <1>2, <1>7 DEF Runs, Entire
<1> QED
  BY <1>3, <1>6, <1>8, <1>9, <1>10, <1>11, <1>12 DEF RingInv, Sound, InOrder, WholeInv

\* The inductive invariant holds in every state of every behaviour.
THEOREM RingInvariant == Spec => [](Shape /\ RingInv /\ WholeInv)
<1>1. Init => Shape /\ RingInv /\ WholeInv
  BY RingInit
<1>2. Shape /\ RingInv /\ WholeInv /\ [Next]_vars => (Shape /\ RingInv /\ WholeInv)'
  BY ShapeStep, RingInvStep, WholeStep
<1> QED
  BY <1>1, <1>2, PTL DEF Spec

\* For a ring of any size: as long as nothing resets it between the bottom half's
\* read of current_rx_buffer and its store, driver and channel agree on where the
\* next frame is (r56_get_rx_frame, usc_process_rxoverrun_sync).
THEOREM RingAlwaysInStep == Spec => []InStep
<1>1. Shape /\ RingInv => InStep
  BY HeldInStep DEF RingInv, Sound, InStep
<1> QED
  BY <1>1, RingInvariant, PTL

\* For a ring of any size: frames reach the line discipline in the order of the
\* line, none twice, each from its first buffer on, and with the status, the length
\* and the bytes of one and the same frame, unless the search passed the end of a
\* frame or an overrun left the beginning of one behind (r56_get_rx_frame).
THEOREM FramesAlwaysOrdered == Spec => []Ordered
<1>1. ASSUME Shape, RingInv, WholeInv PROVE Ordered
  <2> SUFFICES ASSUME ~raced
               PROVE  /\ \A i \in DOMAIN delivered :
                           /\ delivered[i].bytes[1][2] = 1
                           /\ \/ delivered[i].passed \/ cut
                              \/ OneFrame(delivered[i])
                      /\ \A i, j \in DOMAIN delivered :
                           i < j => delivered[i].bytes[1][1] < delivered[j].bytes[1][1]
    BY DEF Ordered, OneFrame
  <2>1. DOMAIN delivered = 1 .. Len(delivered)
    <3>1. delivered \in Seq(Delivery)
      BY <1>1 DEF Shape
    <3>2. delivered \in [1 .. Len(delivered) -> Delivery]
      BY <3>1, LenProperties
    <3> QED
      BY <3>2
  <2>2. Given
    BY <1>1 DEF RingInv, Sound, InOrder
  <2>3. /\ \A i \in 1 .. Len(delivered) : First(delivered, i)[2] = 1
        /\ \A i, j \in 1 .. Len(delivered) :
             i < j => First(delivered, i)[1] < First(delivered, j)[1]
    BY <2>2 DEF Given
  <2>4. cut \/ Entire
    BY <1>1 DEF WholeInv
  <2> QED
    BY <2>1, <2>3, <2>4, Zenon DEF First, Entire
<1> QED
  BY <1>1, RingInvariant, PTL

\* The flags and counters; the rest of TypeOK is Shape.
Flags ==
  /\ rx_enabled \in BOOLEAN /\ rx_overflow \in BOOLEAN /\ rx_rcc_underrun \in BOOLEAN
  /\ pending \in BOOLEAN /\ ReturnCode \in BOOLEAN
  /\ overrun \in BOOLEAN /\ rccirq \in BOOLEAN /\ raced \in BOOLEAN /\ cut \in BOOLEAN
Tallies ==
  /\ rdmr \subseteq {"EOB", "EOL"}
  /\ restarts \in Nat /\ overruns \in Nat /\ underruns \in Nat

\* Flags stay flags.
LEMMA FlagsStep ==
  ASSUME Flags, [Next]_vars
  PROVE  Flags'
<1>1. /\ rx_enabled' = rx_enabled \/ rx_enabled' = TRUE \/ rx_enabled' = FALSE
      /\ \/ rx_overflow' = rx_overflow \/ rx_overflow' = FALSE
         \/ rx_overflow' = (rx_overflow \/ "EOL" \in rdmr)
      /\ rx_rcc_underrun' = rx_rcc_underrun \/ rx_rcc_underrun' = TRUE \/ rx_rcc_underrun' = FALSE
      /\ pending' = pending \/ pending' = TRUE \/ pending' = FALSE
      /\ ReturnCode' = ReturnCode \/ ReturnCode' = TRUE \/ ReturnCode' = FALSE
      /\ overrun' = overrun \/ overrun' = TRUE \/ overrun' = FALSE
      /\ rccirq' = rccirq \/ rccirq' = TRUE \/ rccirq' = FALSE
      /\ \/ raced' = raced \/ raced' = (raced \/ InWindow)
         \/ raced' = (raced \/ (InWindow /\ AllInUse))
      /\ \/ cut' = cut
         \/ cut' = (cut \/ (current_rx_buffer # Base /\ count[current_rx_buffer] = 0))
  <2>1. CASE Hardware
    BY <2>1 DEF Hardware, HwBufferFull, HwFrameEnd, HwOverrun, HwRccUnderrun, driver, locals, channel
  <2>2. CASE IsrReceiveStatus \/ IsrMisc \/ IsrReceiveDma
    BY <2>2 DEF IsrReceiveStatus, IsrMisc, IsrReceiveDma, locals
  <2>3. CASE Process
    <3>1. /\ StartReceiver \/ StopReceiver
          /\ UNCHANGED <<pending, locals, rccirq, cut>> /\ raced' = (raced \/ InWindow)
      BY <2>3 DEF Process, RxEnable, ProgramHw
    <3> QED
      BY <3>1 DEF StartReceiver, StopReceiver, locals
  <2>4. CASE BhStep
    <3>1. CASE BhTake \/ BhTop \/ BhScan \/ BhDeliver \/ BhFree \/ BhAdvance \/ BhCleanup
      BY <3>1 DEF BhTake, BhTop, BhScan, BhDeliver, BhFree, BhAdvance, BhCleanup, driver, channel
    <3>2. CASE BhUnderrunRestart \/ BhWrapRestart \/ BhOverflowRestart
      BY <3>2 DEF BhUnderrunRestart, BhWrapRestart, BhOverflowRestart, BhRestart, StartReceiver
    <3> QED
      BY <2>4, <3>1, <3>2 DEF BhStep
  <2>5. CASE UNCHANGED vars
    BY <2>5 DEF vars, driver, locals, channel
  <2> QED
    BY <2>1, <2>2, <2>3, <2>4, <2>5 DEF Next
<1>2. rx_overflow' \in BOOLEAN
  <2>1. (rx_overflow \/ "EOL" \in rdmr) \in BOOLEAN
    BY Zenon
  <2> QED
    BY <1>1, <2>1, Zenon DEF Flags
<1>3. raced' \in BOOLEAN
  <2>1. (raced \/ InWindow) \in BOOLEAN /\ (raced \/ (InWindow /\ AllInUse)) \in BOOLEAN
    BY Zenon
  <2> QED
    BY <1>1, <2>1, Zenon DEF Flags
<1>5. cut' \in BOOLEAN
  <2>1. (cut \/ (current_rx_buffer # Base /\ count[current_rx_buffer] = 0)) \in BOOLEAN
    BY Zenon
  <2> QED
    BY <1>1, <2>1, Zenon DEF Flags
<1>4. /\ rx_enabled' \in BOOLEAN /\ rx_rcc_underrun' \in BOOLEAN
      /\ pending' \in BOOLEAN /\ ReturnCode' \in BOOLEAN
      /\ overrun' \in BOOLEAN /\ rccirq' \in BOOLEAN
  BY <1>1, Zenon DEF Flags
<1> QED
  BY <1>2, <1>3, <1>4, <1>5, Zenon DEF Flags

\* Counters stay counters.
LEMMA TalliesStep ==
  ASSUME Tallies, [Next]_vars
  PROVE  Tallies'
<1> USE DEF Tallies
<1>1. CASE Hardware
  <2>1. CASE HwBufferFull \/ HwFrameEnd
    <3>1. UNCHANGED bounds /\ NextEntry
      BY <2>1 DEF HwBufferFull, HwFrameEnd
    <3>2. rdmr' = rdmr \cup {"EOB"} \/ rdmr' = rdmr \cup {"EOB", "EOL"}
      BY <3>1 DEF NextEntry
    <3>3. rdmr' \subseteq {"EOB", "EOL"}
      BY <3>2
    <3> QED
      BY <3>1, <3>3 DEF bounds
  <2>2. CASE HwOverrun \/ HwRccUnderrun
    <3>1. /\ rdmr' = rdmr /\ restarts' = restarts
          /\ overruns' = overruns \/ overruns' = overruns + 1
          /\ underruns' = underruns \/ underruns' = underruns + 1
      BY <2>2 DEF HwOverrun, HwRccUnderrun, channel
    <3> QED
      BY <3>1
  <2> QED
    BY <1>1, <2>1, <2>2 DEF Hardware
<1>2. CASE IsrReceiveStatus \/ IsrMisc \/ IsrReceiveDma
  BY <1>2 DEF IsrReceiveStatus, IsrMisc, IsrReceiveDma, bounds
<1>3. CASE Process
  <2>1. /\ StartReceiver \/ StopReceiver
        /\ UNCHANGED <<overruns, underruns>> /\ restarts' = restarts + 1
    BY <1>3 DEF Process, RxEnable, ProgramHw
  <2> QED
    BY <2>1 DEF StartReceiver, StopReceiver
<1>4. CASE BhStep
  <2>1. CASE BhTake \/ BhTop \/ BhScan \/ BhDeliver \/ BhFree \/ BhAdvance \/ BhCleanup
    BY <2>1 DEF BhTake, BhTop, BhScan, BhDeliver, BhFree, BhAdvance, BhCleanup, channel, bounds
  <2>2. CASE BhUnderrunRestart \/ BhWrapRestart \/ BhOverflowRestart
    BY <2>2 DEF BhUnderrunRestart, BhWrapRestart, BhOverflowRestart, BhRestart, StartReceiver, bounds
  <2> QED
    BY <1>4, <2>1, <2>2 DEF BhStep
<1>5. CASE UNCHANGED vars
  BY <1>5 DEF vars, channel, bounds
<1> QED
  BY <1>1, <1>2, <1>3, <1>4, <1>5 DEF Next

\* Every variable has its type in every state: the indices stay in the ring, and
\* what is handed to the line discipline is a sequence of frames.
THEOREM TypeCorrect == Spec => []TypeOK
<1>1. Init => Flags /\ Tallies
  <2>1. Init => Flags
    BY Zenon DEF Init, Flags
  <2>2. Init => Tallies
    BY DEF Init, Tallies
  <2> QED
    BY <2>1, <2>2
<1>2. Flags /\ Tallies /\ [Next]_vars => (Flags /\ Tallies)'
  BY FlagsStep, TalliesStep
<1>3. Shape /\ Flags /\ Tallies => TypeOK
  BY Zenon DEF Shape, Flags, Tallies, TypeOK, Delivery
<1> QED
  BY <1>1, <1>2, <1>3, RingInvariant, PTL DEF Spec
=============================================================================
