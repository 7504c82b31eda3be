---------------------------- MODULE TxRawProofs ----------------------------
(***************************************************************************)
(* TxRaw.tla for DMA rings of any size and blocks of any sizes: no buffer  *)
(* with unsent data is taken for free, and what is sent is the stream of   *)
(* the blocks in the order they were written.                              *)
(***************************************************************************)
EXTENDS TxRaw, FunctionTheorems, FiniteSetTheorems, SequenceTheorems, WellFoundedInduction, TLAPS

Entries == 0 .. C - 1

\* The DMA buffers that hold data not sent yet.
Occupied == {i \in DOMAIN tx_buffer_list : tx_buffer_list[i] # None}

\* Ring and indices.
Shape == /\ DOMAIN tx_buffer_list = Entries
         /\ current_tx_buffer \in Entries /\ start_tx_dma_buffer \in Entries /\ pos \in Entries
         /\ xmit_cnt \in Nat

\* UsedCoversBuffers, and the count is a number.
Covered == Cardinality(Occupied) + (IF eob THEN 1 ELSE 0) <= tx_dma_buffers_used
IInv == Shape /\ (~raced => tx_dma_buffers_used \in Int /\ Covered)

-----------------------------------------------------------------------------
(* The ring.                                                               *)

\* The ring is not empty.
LEMMA RingSize == C \in Nat /\ C >= 1
BY RawAssumption DEF C

\* A block has a number of buffers, and no block none.
LEMMA SizeOfNat == \A b : SizeOf(b) \in Nat
<1> SUFFICES ASSUME NEW b PROVE SizeOf(b) \in Nat
  OBVIOUS
<1>1. CASE b \in DOMAIN Size
  <2>1. Size \in Seq(1 .. BuffersPerFrame) /\ BuffersPerFrame \in Nat
    BY RawAssumption
  <2>2. Size \in [1 .. Len(Size) -> 1 .. BuffersPerFrame]
    BY <2>1
  <2>3. Size[b] \in 1 .. BuffersPerFrame
    BY <1>1, <2>2
  <2> QED
    BY <1>1, <2>1, <2>3 DEF SizeOf
<1>2. CASE b \notin DOMAIN Size
  BY <1>2 DEF SizeOf
<1> QED
  BY <1>1, <1>2

\* How far an entry is behind cur, going round.
LEMMA Distance ==
  ASSUME NEW cur \in Entries
  PROVE  /\ \A i \in Entries : (i - cur + C) % C = (IF i >= cur THEN i - cur ELSE i - cur + C)
         /\ \A i \in Entries : (i - cur + C) % C \in Nat
<1> SUFFICES ASSUME NEW i \in Entries
             PROVE  /\ (i - cur + C) % C = (IF i >= cur THEN i - cur ELSE i - cur + C)
                    /\ (i - cur + C) % C \in Nat
  OBVIOUS
<1>1. i \in Int /\ cur \in Int /\ 0 <= i /\ i < C /\ 0 <= cur /\ cur < C /\ C \in Nat
  BY RingSize DEF Entries
<1> DEFINE N == C
<1> HIDE DEF N
<1>2. N \in Nat /\ i < N /\ cur < N /\ N >= 1
  BY <1>1, RingSize DEF N
<1>3. CASE i >= cur
  <2>1. (i - cur + N) % N = i - cur
    BY <1>1, <1>2, <1>3
  <2> QED
    BY <1>1, <1>3, <2>1 DEF N
<1>4. CASE i < cur
  <2>1. (i - cur + N) % N = i - cur + N
    BY <1>1, <1>2, <1>4
  <2> QED
    BY <1>1, <1>2, <1>4, <2>1 DEF N
<1> QED
  BY <1>1, <1>3, <1>4

\* The window of n entries that r56_load_tx_dma_buffer fills has no more than n.
LEMMA WindowSize ==
  ASSUME NEW cur \in Entries, NEW n \in Nat
  PROVE  LET W == {i \in Entries : (i - cur + C) % C < n}
         IN IsFiniteSet(W) /\ Cardinality(W) <= n
<1> DEFINE W == {i \in Entries : (i - cur + C) % C < n}
           T == 0 .. n - 1
           f == [i \in W |-> (i - cur + C) % C]
<1>1. \A i \in W : f[i] \in T
  BY Distance
<1>2. \A i, j \in W : f[i] = f[j] => i = j
  <2> SUFFICES ASSUME NEW i \in W, NEW j \in W, f[i] = f[j] PROVE i = j
    OBVIOUS
  <2>1. /\ f[i] = (IF i >= cur THEN i - cur ELSE i - cur + C)
        /\ f[j] = (IF j >= cur THEN j - cur ELSE j - cur + C)
    BY Distance
  <2>2. i \in 0 .. C - 1 /\ j \in 0 .. C - 1 /\ cur \in 0 .. C - 1
    BY DEF Entries
  <2>3. (IF i >= cur THEN i - cur ELSE i - cur + C) = (IF j >= cur THEN j - cur ELSE j - cur + C)
    BY <2>1
  <2>4. \A N \in Nat : \A x, y, b \in 0 .. N - 1 :
          (IF x >= b THEN x - b ELSE x - b + N) = (IF y >= b THEN y - b ELSE y - b + N) => x = y
    OBVIOUS
  <2> HIDE DEF f, W
  <2> QED
    BY <2>2, <2>3, <2>4, RingSize
<1>3. f \in Injection(W, T)
  <2>1. f \in [W -> T]
    BY <1>1
  <2> HIDE DEF f, W, T
  <2> QED
    BY <1>2, <2>1, Fun_IsInj
<1>4. IsFiniteSet(T) /\ Cardinality(T) = n
  BY FS_Interval
<1> HIDE DEF f, W, T
<1>5. IsFiniteSet(W) /\ Cardinality(W) <= n
  BY <1>3, <1>4, FS_Injection
<1> QED
  BY <1>5 DEF W

\* The occupied buffers can be counted.
LEMMA OccupiedFinite ==
  ASSUME Shape
  PROVE  IsFiniteSet(Occupied) /\ Cardinality(Occupied) \in Nat
<1>1. IsFiniteSet(Entries)
  BY RingSize, FS_Interval DEF Entries
<1>2. Occupied \in SUBSET Entries
  BY DEF Occupied, Shape
<1> QED
  BY <1>1, <1>2, FS_Subset, FS_CardinalityType

\* Loading n buffers occupies at most n more.
LEMMA LoadOccupies ==
  ASSUME Shape, NEW b, NEW n \in Nat, LoadTxDmaBuffer(b, n)
  PROVE  /\ Cardinality(Occupied') \in Nat
         /\ Cardinality(Occupied') <= Cardinality(Occupied) + n
         /\ DOMAIN tx_buffer_list' = Entries
         /\ current_tx_buffer' \in Entries /\ start_tx_dma_buffer' \in Entries
<1> DEFINE W == {i \in Entries : (i - current_tx_buffer + C) % C < n}
<1>1. /\ start_tx_dma_buffer' = current_tx_buffer
      /\ tx_buffer_list' = [i \in Entries |-> IF i \in W THEN b ELSE tx_buffer_list[i]]
      /\ current_tx_buffer' = (current_tx_buffer + n) % C
  BY DEF LoadTxDmaBuffer, Shape
<1>2. current_tx_buffer \in Entries
  BY DEF Shape
<1>3. (current_tx_buffer + n) % C \in Entries
  <2>1. current_tx_buffer + n \in Nat
    BY <1>2, RingSize DEF Entries
  <2>2. \A a \in Nat : a % C \in 0 .. C - 1
    BY RingSize
  <2> QED
    BY <2>1, <2>2 DEF Entries
<1>4. IsFiniteSet(W) /\ Cardinality(W) <= n
  BY <1>2, WindowSize
<1> HIDE DEF W
<1>5. Occupied' \in SUBSET (Occupied \cup W)
  BY <1>1 DEF Occupied, Shape
<1>6. IsFiniteSet(Occupied) /\ Cardinality(Occupied) \in Nat
  BY OccupiedFinite
<1>7. /\ IsFiniteSet(Occupied \cup W)
      /\ Cardinality(Occupied \cup W)
           = Cardinality(Occupied) + Cardinality(W) - Cardinality(Occupied \cap W)
  BY <1>4, <1>6, FS_Union
<1>8. Cardinality(Occupied \cap W) \in Nat /\ Cardinality(W) \in Nat
  <2>1. Occupied \cap W \in SUBSET W
    OBVIOUS
  <2> QED
    BY <1>4, <2>1, FS_Subset, FS_CardinalityType
<1>9. /\ IsFiniteSet(Occupied') /\ Cardinality(Occupied') \in Nat
      /\ Cardinality(Occupied') <= Cardinality(Occupied \cup W)
  BY <1>5, <1>7, FS_Subset, FS_CardinalityType
<1>10. Cardinality(Occupied') <= Cardinality(Occupied) + n
  BY <1>4, <1>6, <1>7, <1>8, <1>9
<1> QED
  BY <1>1, <1>2, <1>3, <1>9, <1>10

-----------------------------------------------------------------------------
(* Every step preserves the invariant.                                     *)

\* A step that leaves the ring, its count and the End of Buffer status alone.
LEMMA QuietStep ==
  ASSUME IInv, UNCHANGED <<tx_buffer_list, current_tx_buffer, start_tx_dma_buffer, tx_dma_buffers_used, eob>>,
         pos' \in Entries, xmit_cnt' \in Nat, ~raced' => ~raced
  PROVE  IInv'
<1>1. Shape'
  BY DEF IInv, Shape
<1>2. Occupied' = Occupied
  BY DEF Occupied
<1> QED
  BY <1>1, <1>2 DEF IInv, Covered

\* A step that loads n buffers and counts them, used being what the count was.
LEMMA LoadStep ==
  ASSUME Shape, NEW b, NEW n \in Nat, LoadTxDmaBuffer(b, n), pos' \in Entries, xmit_cnt' \in Nat,
         ~raced' => /\ tx_dma_buffers_used' \in Int
                    /\ Cardinality(Occupied) + (IF eob' THEN 1 ELSE 0) + n <= tx_dma_buffers_used'
  PROVE  IInv'
<1>1. /\ Cardinality(Occupied') \in Nat
      /\ Cardinality(Occupied') <= Cardinality(Occupied) + n
      /\ DOMAIN tx_buffer_list' = Entries
      /\ current_tx_buffer' \in Entries /\ start_tx_dma_buffer' \in Entries
  BY LoadOccupies
<1>2. Shape'
  BY <1>1 DEF Shape
<1>3. ASSUME ~raced' PROVE tx_dma_buffers_used' \in Int /\ Covered'
  <2> DEFINE e == IF eob' THEN 1 ELSE 0
             k == Cardinality(Occupied)
             m == Cardinality(Occupied')
  <2>1. e \in 0 .. 1 /\ k \in Nat /\ m \in Nat /\ m <= k + n
    BY <1>1, OccupiedFinite
  <2>2. tx_dma_buffers_used' \in Int /\ k + e + n <= tx_dma_buffers_used'
    BY <1>3
  <2> HIDE DEF e, k, m
  <2>3. m + e <= tx_dma_buffers_used'
    BY <2>1, <2>2
  <2> QED
    BY <2>2, <2>3 DEF Covered, e, m
<1> QED
  BY <1>2, <1>3 DEF IInv

\* load_next_tx_holding_buffer, with inUse buffers of the ring in use, which cover
\* those that hold data.
LEMMA MoveStep ==
  ASSUME Shape, NEW inUse, LoadNext(inUse) \/ LoadNone(inUse), pos' = pos,
         ~raced' => inUse \in Int /\ Cardinality(Occupied) + (IF eob' THEN 1 ELSE 0) <= inUse
  PROVE  IInv'
<1>1. pos' \in Entries
  BY DEF Shape
<1>2. CASE LoadNext(inUse)
  <2> DEFINE n == SizeOf(NextBlock)
             e == IF eob' THEN 1 ELSE 0
  <2>1. n \in Nat
    BY SizeOfNat
  <2>2. LoadTxDmaBuffer(NextBlock, n) /\ xmit_cnt' = n /\ tx_dma_buffers_used' = inUse + n
    BY <1>2 DEF LoadNext, MoveBlock
  <2> HIDE DEF n
  <2>3. ASSUME ~raced'
        PROVE  tx_dma_buffers_used' \in Int /\ Cardinality(Occupied) + e + n <= tx_dma_buffers_used'
    <3> DEFINE k == Cardinality(Occupied)
    <3>1. e \in 0 .. 1 /\ k \in Nat /\ inUse \in Int /\ k + e <= inUse
      BY <2>3, OccupiedFinite
    <3> HIDE DEF k, e
    <3>2. inUse + n \in Int /\ k + e + n <= inUse + n
      BY <2>1, <3>1
    <3> QED
      BY <2>2, <3>2 DEF k, e
  <2> QED
    BY <1>1, <2>1, <2>2, <2>3, LoadStep
<1>3. CASE LoadNone(inUse)
  <2>1. /\ tx_dma_buffers_used' = inUse /\ xmit_cnt' = xmit_cnt
        /\ UNCHANGED <<tx_buffer_list, current_tx_buffer, start_tx_dma_buffer>>
    BY <1>3 DEF LoadNone
  <2>2. Shape'
    BY <1>1, <2>1 DEF Shape
  <2>3. Occupied' = Occupied
    BY <2>1 DEF Occupied
  <2> QED
    BY <2>1, <2>2, <2>3 DEF IInv, Covered
<1> QED
  BY <1>2, <1>3

\* An empty ring.
LEMMA IInvInit ==
  ASSUME Init
  PROVE  IInv
<1>1. 0 \in Entries
  BY RingSize DEF Entries
<1>2. tx_buffer_list = [i \in Entries |-> None] /\ tx_dma_buffers_used = 0 /\ eob = FALSE
  BY DEF Init, Entries
<1>3. Occupied = {}
  BY <1>2 DEF Occupied
<1>4. Cardinality(Occupied) = 0
  BY <1>3, FS_EmptySet
<1>5. Covered
  BY <1>2, <1>4 DEF Covered
<1> QED
  BY <1>1, <1>2, <1>5 DEF Init, IInv, Shape

\* Every step keeps the count above the buffers in use.
LEMMA IInvStep ==
  ASSUME IInv, [Next]_vars
  PROVE  IInv'
<1>0. Shape /\ pos \in Entries /\ xmit_cnt \in Nat /\ start_tx_dma_buffer \in Entries
  BY DEF IInv, Shape
\* The channel empties a buffer: one less is occupied, and one End of Buffer more is
\* to be counted at most.
<1>1. CASE HwBufferSent
  <2>1. /\ pos \in DOMAIN tx_buffer_list /\ tx_buffer_list[pos] # None
        /\ tx_buffer_list' = [tx_buffer_list EXCEPT ![pos] = None]
        /\ pos' = (pos + 1) % C
        /\ UNCHANGED <<current_tx_buffer, start_tx_dma_buffer, tx_dma_buffers_used, xmit_cnt>>
    BY <1>0, <1>1 DEF HwBufferSent, xmit, Shape
  <2>2. (pos + 1) % C \in Entries
    <3>1. pos + 1 \in Nat
      BY <1>0, RingSize DEF Entries
    <3>2. \A a \in Nat : a % C \in 0 .. C - 1
      BY RingSize
    <3> QED
      BY <3>1, <3>2 DEF Entries
  <2>3. Shape'
    BY <1>0, <2>1, <2>2 DEF Shape
  <2>4. Occupied' = Occupied \ {pos} /\ pos \in Occupied
    BY <1>0, <2>1 DEF Occupied, Shape
  <2>5. Cardinality(Occupied') = Cardinality(Occupied) - 1 /\ Cardinality(Occupied) \in Nat
    BY <1>0, <2>4, OccupiedFinite, FS_RemoveElement
  <2>6. raced' = (raced \/ eob)
    BY <1>1 DEF HwBufferSent
  <2>7. ASSUME ~raced' PROVE tx_dma_buffers_used' \in Int /\ Covered'
    <3>1. ~raced /\ ~eob
      BY <2>6, <2>7, Zenon
    <3>2. (IF eob THEN 1 ELSE 0) = 0
      BY <3>1, Zenon
    <3>3. tx_dma_buffers_used \in Int /\ Cardinality(Occupied) <= tx_dma_buffers_used
      <4>1. tx_dma_buffers_used \in Int /\ Cardinality(Occupied) + (IF eob THEN 1 ELSE 0) <= tx_dma_buffers_used
        BY <3>1 DEF IInv, Covered
      <4> QED
        BY <2>5, <3>2, <4>1
    <3> DEFINE e == IF eob' THEN 1 ELSE 0
    <3>4. e \in 0 .. 1
      OBVIOUS
    <3> HIDE DEF e
    <3>5. Cardinality(Occupied') + e <= tx_dma_buffers_used' /\ tx_dma_buffers_used' \in Int
      BY <2>1, <2>5, <3>3, <3>4
    <3> QED
      BY <3>5 DEF Covered, e
  <2> QED
    BY <2>3, <2>7 DEF IInv
\* An End of Buffer is counted, and room may be filled.
<1>2. CASE IsrTransmitDma
  <2>1. /\ eob /\ eob' = FALSE /\ raced' = raced /\ pos' = pos
        /\ LoadNext(tx_dma_buffers_used - 1) \/ LoadNone(tx_dma_buffers_used - 1)
    BY <1>2 DEF IsrTransmitDma
  <2>2. ASSUME ~raced'
        PROVE  /\ tx_dma_buffers_used - 1 \in Int
               /\ Cardinality(Occupied) + (IF eob' THEN 1 ELSE 0) <= tx_dma_buffers_used - 1
    <3>1. ~raced
      BY <2>1, <2>2
    <3>2. (IF eob THEN 1 ELSE 0) = 1 /\ (IF eob' THEN 1 ELSE 0) = 0
      BY <2>1, Zenon
    <3>3. tx_dma_buffers_used \in Int /\ Cardinality(Occupied) + 1 <= tx_dma_buffers_used
      BY <3>1, <3>2 DEF IInv, Covered
    <3>4. Cardinality(Occupied) \in Nat
      BY <1>0, OccupiedFinite
    <3>5. tx_dma_buffers_used - 1 \in Int /\ Cardinality(Occupied) + 0 <= tx_dma_buffers_used - 1
      BY <3>3, <3>4
    <3> QED
      BY <3>2, <3>5
  <2> QED
    BY <1>0, <2>1, <2>2, MoveStep
<1>3. CASE WriteLoad
  <2>1. /\ eob' = eob /\ raced' = raced /\ pos' = pos
        /\ LoadNext(tx_dma_buffers_used) \/ LoadNone(tx_dma_buffers_used)
    BY <1>3 DEF WriteLoad, chip
  <2>2. ~raced' => /\ tx_dma_buffers_used \in Int
                   /\ Cardinality(Occupied) + (IF eob' THEN 1 ELSE 0) <= tx_dma_buffers_used
    BY <2>1 DEF IInv, Covered
  <2> QED
    BY <1>0, <2>1, <2>2, MoveStep
\* r56_write fills the buffers itself and counts them, unless an interrupt counted
\* at the same time.
<1>4. CASE WriteDirect
  <2>1. PICK b, n : /\ n = (IF w = "direct" THEN SizeOf(Block) ELSE xmit_cnt)
                    /\ LoadTxDmaBuffer(b, n)
                    /\ tx_dma_buffers_used' \in Added(tx_dma_buffers_used, n)
                    /\ raced' = (raced \/ tx_dma_buffers_used # tmp)
                    /\ xmit_cnt' = n
    BY <1>4, Zenon DEF WriteDirect
  <2>2. n \in Nat
    BY <1>0, <2>1, SizeOfNat
  <2>3. eob' = eob /\ pos' = pos
    BY <1>4 DEF WriteDirect, chip
  <2>4. ASSUME ~raced'
        PROVE  /\ tx_dma_buffers_used' \in Int
               /\ Cardinality(Occupied) + (IF eob' THEN 1 ELSE 0) + n <= tx_dma_buffers_used'
    <3>1. ~raced /\ tx_dma_buffers_used = tmp
      BY <2>1, <2>4, Zenon
    <3>2. tx_dma_buffers_used' = tx_dma_buffers_used + n
      BY <2>1, <3>1 DEF Added
    <3> DEFINE e == IF eob THEN 1 ELSE 0
               k == Cardinality(Occupied)
    <3>3. tx_dma_buffers_used \in Int /\ k + e <= tx_dma_buffers_used /\ k \in Nat /\ e \in 0 .. 1
      BY <1>0, <3>1, OccupiedFinite DEF IInv, Covered
    <3> HIDE DEF k, e
    <3>4. tx_dma_buffers_used + n \in Int /\ k + e + n <= tx_dma_buffers_used + n
      BY <2>2, <3>3
    <3> QED
      BY <2>3, <3>2, <3>4 DEF k, e
  <2>5. pos' \in Entries /\ xmit_cnt' \in Nat
    BY <1>0, <2>1, <2>2, <2>3
  <2> QED
    BY <1>0, <2>1, <2>2, <2>4, <2>5, LoadStep
\* Everything else leaves the ring and its count alone.
<1>5. CASE WriteBegin \/ WriteCheck \/ HwEndOfList \/ HwUnderrun \/ BhTransmit \/ TtyFlow
  BY <1>0, <1>5, QuietStep DEF WriteBegin, WriteCheck, HwEndOfList, HwUnderrun, BhTransmit, TtyFlow,
     dma, xmit, chip, history
<1>6. CASE WriteHold
  <2>1. /\ UNCHANGED <<tx_buffer_list, current_tx_buffer, start_tx_dma_buffer, tx_dma_buffers_used,
                       eob, pos, xmit_cnt>>
        /\ raced' = (raced \/ tx_holding_count # tmp)
    BY <1>6 DEF WriteHold, dma, chip, xmit
  <2>2. ~raced' => ~raced
    BY <2>1, Zenon
  <2> QED
    BY <1>0, <2>1, <2>2, QuietStep
<1>7. CASE IsrTransmitStatus \/ TxTimeout \/ FlushBuffer
  BY <1>0, <1>7, QuietStep DEF IsrTransmitStatus, TxTimeout, FlushBuffer, dma, chip, history
<1>8. CASE WriteStart \/ R56Stop \/ R56Start \/ TxEnable
  <2>1. /\ UNCHANGED <<tx_buffer_list, current_tx_buffer, start_tx_dma_buffer, tx_dma_buffers_used,
                       eob, xmit_cnt, raced>>
        /\ pos' = pos \/ pos' = start_tx_dma_buffer
    BY <1>8 DEF WriteStart, R56Stop, R56Start, TxEnable, StartTransmitter, StopTransmitter, dma,
       chip, history
  <2> QED
    BY <1>0, <2>1, QuietStep
<1>9. CASE UNCHANGED vars
  BY <1>0, <1>9, QuietStep DEF vars, dma, xmit, chip, history
<1> QED
  BY <1>1, <1>2, <1>3, <1>4, <1>5, <1>6, <1>7, <1>8, <1>9 DEF Next, Write, Hw

\* For DMA rings of any size, any number of holding buffers and blocks of any sizes:
\* as long as no count met an interrupt, tx_dma_buffers_used is never less than the
\* buffers that hold data (r56_load_tx_dma_buffer, load_next_tx_holding_buffer,
\* r56_isr_transmit_dma).
THEOREM UsedAlwaysCovers == Spec => []UsedCoversBuffers
<1>1. Init => IInv
  BY IInvInit
<1>2. IInv /\ [Next]_vars => IInv'
  BY IInvStep
<1>3. IInv => UsedCoversBuffers
  BY DEF IInv, Covered, Occupied, UsedCoversBuffers
<1> QED
  BY <1>1, <1>2, <1>3, PTL DEF Spec

-----------------------------------------------------------------------------
(* The stream that was written.                                            *)

\* Induction over the numbers, in terms of sets.
LEMMA SetInduction ==
  ASSUME NEW S, 0 \in S, \A n \in Nat : n \in S => n + 1 \in S
  PROVE  \A n \in Nat : n \in S
<1> SUFFICES ASSUME NEW m \in Nat, m \notin S PROVE FALSE
  OBVIOUS
<1> DEFINE R == OpToRel(<, Nat)
           T == {n \in Nat : n \notin S}
<1>1. IsWellFoundedOn(R, Nat)
  BY NatLessThanWellFounded
<1>2. \A i, j \in Nat : <<i, j>> \in R <=> i < j
  BY DEF OpToRel
<1> HIDE DEF R
<1>3. T \subseteq Nat /\ T # {}
  OBVIOUS
<1>4. PICK k \in T : \A j \in T : ~(<<j, k>> \in R)
  BY <1>1, <1>3, WFMin
<1>5. k \in Nat /\ k \notin S /\ k # 0
  BY <1>4
<1>6. k - 1 \in Nat /\ k - 1 < k /\ (k - 1) + 1 = k
  BY <1>5
<1>7. k - 1 \in S
  BY <1>2, <1>4, <1>5, <1>6
<1> QED
  BY <1>5, <1>6, <1>7

\* The number of blocks, and how many buffers those up to b take.
LastBlock == Len(Size)
Off[b \in 0 .. Len(Size)] == IF b = 0 THEN 0 ELSE Off[b - 1] + SizeOf(b)

\* Off is what its recursive definition says.
LEMMA OffDef == Off = [b \in 0 .. Len(Size) |-> IF b = 0 THEN 0 ELSE Off[b - 1] + SizeOf(b)]
<1> DEFINE P(f, n) == f = [b \in 0 .. n |-> IF b = 0 THEN 0 ELSE f[b - 1] + SizeOf(b)]
           S == {n \in Nat : \E f : P(f, n)}
<1>1. 0 \in S
  <2> DEFINE f == [b \in 0 .. 0 |-> 0]
  <2>1. P(f, 0)
    OBVIOUS
  <2> HIDE DEF P
  <2> QED
    BY <2>1
<1>2. ASSUME NEW n \in Nat, n \in S PROVE n + 1 \in S
  <2>1. PICK f : P(f, n)
    BY <1>2
  <2> DEFINE g == [b \in 0 .. n + 1 |-> IF b <= n THEN f[b] ELSE f[n] + SizeOf(b)]
  <2>2. P(g, n + 1)
    <3>1. ASSUME NEW b \in 0 .. n + 1
          PROVE  g[b] = IF b = 0 THEN 0 ELSE g[b - 1] + SizeOf(b)
      <4>1. CASE b <= n
        <5>1. b \in 0 .. n
          BY <4>1
        <5>2. f[b] = IF b = 0 THEN 0 ELSE f[b - 1] + SizeOf(b)
          BY <2>1, <5>1
        <5>3. g[b] = f[b]
          BY <4>1
        <5>4. b # 0 => g[b - 1] = f[b - 1]
          BY <4>1
        <5> HIDE DEF g
        <5> QED
          BY <5>2, <5>3, <5>4
      <4>2. CASE ~(b <= n)
        <5>1. b = n + 1
          BY <4>2
        <5> QED
          BY <5>1
      <4> QED
        BY <4>1, <4>2
    <3>2. g = [b \in 0 .. n + 1 |-> g[b]]
      OBVIOUS
    <3> HIDE DEF g
    <3> QED
      BY <3>1, <3>2
  <2> HIDE DEF P, g
  <2> QED
    BY <2>2
<1>3. \A n \in Nat : n \in S
  <2> HIDE DEF S
  <2> QED
    BY <1>1, <1>2, SetInduction
<1>4. Len(Size) \in Nat
  BY RawAssumption
<1>5. \E f : P(f, Len(Size))
  BY <1>3, <1>4
<1>6. Off = CHOOSE f : P(f, Len(Size))
  BY DEF Off
<1>7. P(Off, Len(Size))
  <2> HIDE DEF P
  <2> QED
  BY <1>5, <1>6, Zenon
<1> QED
  BY <1>7

\* The offsets are numbers that grow with the blocks.
LEMMA OffFacts ==
  /\ Off \in [0 .. LastBlock -> Nat] /\ Off[0] = 0
  /\ \A b \in 1 .. LastBlock : Off[b] = Off[b - 1] + SizeOf(b) /\ SizeOf(b) >= 1 /\ SizeOf(b) \in Nat
<1>0. LastBlock \in Nat
  BY RawAssumption DEF LastBlock
<1>1. \A b \in 0 .. LastBlock : Off[b] = IF b = 0 THEN 0 ELSE Off[b - 1] + SizeOf(b)
  <2>1. Off = [b \in 0 .. LastBlock |-> IF b = 0 THEN 0 ELSE Off[b - 1] + SizeOf(b)]
    BY OffDef DEF LastBlock
  <2> QED
    BY <2>1, Zenon
<1>2. Off[0] = 0
  BY <1>0, <1>1
<1>3. \A b \in 1 .. LastBlock : Off[b] = Off[b - 1] + SizeOf(b) /\ SizeOf(b) \in Nat /\ SizeOf(b) >= 1
  <2>1. \A b \in 1 .. LastBlock : SizeOf(b) \in Nat /\ SizeOf(b) >= 1
    BY RawAssumption DEF SizeOf, LastBlock
  <2> QED
    BY <1>0, <1>1, <2>1
<1>4. \A b \in 0 .. LastBlock : Off[b] \in Nat
  <2> DEFINE S == {n \in Nat : n <= LastBlock => Off[n] \in Nat}
  <2>1. 0 \in S
    BY <1>2
  <2>2. ASSUME NEW n \in Nat, n \in S PROVE n + 1 \in S
    <3>1. CASE n + 1 <= LastBlock
      <4>1. Off[n] \in Nat /\ n + 1 \in 1 .. LastBlock /\ (n + 1) - 1 = n
        BY <1>0, <2>2, <3>1
      <4>2. Off[n + 1] = Off[n] + SizeOf(n + 1) /\ SizeOf(n + 1) \in Nat
        BY <1>3, <4>1
      <4> QED
        BY <4>1, <4>2
    <3>2. CASE ~(n + 1 <= LastBlock)
      BY <3>2
    <3> QED
      BY <3>1, <3>2
  <2>3. \A n \in Nat : n \in S
    <3> HIDE DEF S
    <3> QED
      BY <2>1, <2>2, SetInduction
  <2> QED
    BY <1>0, <2>3
<1>6. Off \in [0 .. LastBlock -> Nat]
  <2>1. DOMAIN Off = 0 .. LastBlock
    BY OffDef, Zenon DEF LastBlock
  <2>2. Off = [b \in 0 .. LastBlock |-> Off[b]]
    BY OffDef, <2>1, Zenon DEF LastBlock
  <2> QED
    BY <1>4, <2>2
<1> QED
  BY <1>2, <1>3, <1>6

\* A later block begins later.
LEMMA OffGrows ==
  ASSUME NEW c \in 0 .. LastBlock, NEW b \in 0 .. c
  PROVE  Off[b] <= Off[c]
<1>0. LastBlock \in Nat /\ c \in Nat /\ c <= LastBlock /\ b \in Nat /\ b <= c
  BY RawAssumption DEF LastBlock
<1> DEFINE S == {n \in Nat : b + n <= LastBlock => Off[b] <= Off[b + n]}
<1>1. 0 \in S
  <2>1. Off[b] \in Nat /\ b + 0 = b
    BY <1>0, OffFacts
  <2> QED
    BY <2>1
<1>2. ASSUME NEW n \in Nat, n \in S PROVE n + 1 \in S
  <2> SUFFICES ASSUME b + (n + 1) <= LastBlock PROVE Off[b] <= Off[b + (n + 1)]
    OBVIOUS
  <2> DEFINE d == b + (n + 1)
  <2>1. d \in 1 .. LastBlock /\ d - 1 = b + n /\ d - 1 \in 0 .. LastBlock /\ d \in 0 .. LastBlock /\ b \in 0 .. LastBlock
    BY <1>0
  <2>2. Off[b] <= Off[b + n]
    BY <1>0, <1>2, <2>1
  <2> HIDE DEF d
  <2>3. Off[d] = Off[d - 1] + SizeOf(d) /\ SizeOf(d) >= 1 /\ SizeOf(d) \in Nat
    BY <2>1, OffFacts
  <2>4. Off[b] \in Nat /\ Off[d - 1] \in Nat /\ Off[d] \in Nat
    BY <2>1, OffFacts
  <2>5. Off[b] <= Off[d]
    BY <2>1, <2>2, <2>3, <2>4
  <2> QED
    BY <2>5 DEF d
<1>3. \A n \in Nat : n \in S
  <2> HIDE DEF S
  <2> QED
    BY <1>1, <1>2, SetInduction
<1>4. c - b \in Nat /\ b + (c - b) = c
  BY <1>0
<1>5. c - b \in S
  BY <1>3, <1>4
<1> QED
  BY <1>0, <1>4, <1>5

\* The sequences that Stream puts together, and FlattenSeq's partial results.
Copies == [b \in 1 .. Len(Size) |-> [i \in 1 .. SizeOf(b) |-> b]]
Flat == CHOOSE f : f = [i \in 1 .. Len(Copies) |-> IF i = 1 THEN Copies[i] ELSE f[i - 1] \o Copies[i]]

\* Each block is as many copies of its number as it has buffers.
LEMMA CopiesFacts ==
  /\ Len(Copies) = LastBlock
  /\ \A b \in 1 .. LastBlock : /\ Copies[b] \in Seq(Nat) /\ Len(Copies[b]) = SizeOf(b)
                       /\ \A i \in 1 .. SizeOf(b) : Copies[b][i] = b
<1>0. LastBlock \in Nat
  BY RawAssumption DEF LastBlock
<1>1. Copies = [b \in 1 .. LastBlock |-> [i \in 1 .. SizeOf(b) |-> b]]
  BY DEF Copies, LastBlock
<1>2. Len(Copies) = LastBlock
  BY <1>0, <1>1
<1>3. ASSUME NEW b \in 1 .. LastBlock
      PROVE  /\ Copies[b] \in Seq(Nat) /\ Len(Copies[b]) = SizeOf(b)
             /\ \A i \in 1 .. SizeOf(b) : Copies[b][i] = b
  <2>1. SizeOf(b) \in Nat /\ b \in Nat
    BY <1>0, OffFacts, RawAssumption DEF SizeOf, LastBlock
  <2> DEFINE n == SizeOf(b)
             s == [i \in 1 .. n |-> b]
  <2>2. Copies[b] = s
    BY <1>1
  <2> HIDE DEF n
  <2>3. n \in Nat
    BY <2>1 DEF n
  <2>4. s \in Seq(Nat) /\ Len(s) = n /\ \A i \in 1 .. n : s[i] = b
    BY <2>1, <2>3
  <2> HIDE DEF s
  <2> QED
    BY <2>2, <2>4 DEF n
<1> QED
  BY <1>2, <1>3

\* FlattenSeq's recursive function is what its definition says.
LEMMA FlatDef ==
  Flat = [i \in 1 .. Len(Copies) |-> IF i = 1 THEN Copies[i] ELSE Flat[i - 1] \o Copies[i]]
<1> DEFINE P(f, n) == f = [i \in 1 .. n |-> IF i = 1 THEN Copies[i] ELSE f[i - 1] \o Copies[i]]
           S == {n \in Nat : \E f : P(f, n)}
<1>1. 0 \in S
  <2> DEFINE f == [i \in 1 .. 0 |-> 0]
  <2>1. P(f, 0)
    OBVIOUS
  <2> HIDE DEF P
  <2> QED
    BY <2>1
<1>2. ASSUME NEW n \in Nat, n \in S PROVE n + 1 \in S
  <2>1. PICK f : P(f, n)
    BY <1>2
  <2> DEFINE g == [i \in 1 .. n + 1 |-> IF i <= n THEN f[i]
                                         ELSE IF i = 1 THEN Copies[i] ELSE f[n] \o Copies[i]]
  <2>2. P(g, n + 1)
    <3>1. ASSUME NEW i \in 1 .. n + 1
          PROVE  g[i] = IF i = 1 THEN Copies[i] ELSE g[i - 1] \o Copies[i]
      <4>1. CASE i <= n
        <5>1. i \in 1 .. n
          BY <4>1
        <5>2. f[i] = IF i = 1 THEN Copies[i] ELSE f[i - 1] \o Copies[i]
          BY <2>1, <5>1, Zenon
        <5>3. g[i] = f[i]
          BY <4>1
        <5>4. i # 1 => g[i - 1] = f[i - 1]
          BY <4>1
        <5> HIDE DEF g
        <5> QED
          BY <5>2, <5>3, <5>4, Zenon
      <4>2. CASE ~(i <= n)
        <5>1. i = n + 1
          BY <4>2
        <5>2. g[i] = IF i = 1 THEN Copies[i] ELSE f[n] \o Copies[i]
          BY <4>2
        <5>3. i # 1 => g[i - 1] = f[n]
          BY <5>1
        <5> HIDE DEF g
        <5> QED
          BY <5>2, <5>3, Zenon
      <4> QED
        BY <4>1, <4>2
    <3>2. g = [i \in 1 .. n + 1 |-> g[i]]
      OBVIOUS
    <3> HIDE DEF g
    <3> QED
      BY <3>1, <3>2
  <2> HIDE DEF P, g
  <2> QED
    BY <2>2
<1>3. \A n \in Nat : n \in S
  <2> HIDE DEF S
  <2> QED
    BY <1>1, <1>2, SetInduction
<1>4. Len(Copies) \in Nat
  BY RawAssumption, CopiesFacts DEF LastBlock
<1>5. \E f : P(f, Len(Copies))
  BY <1>3, <1>4
<1>6. Flat = CHOOSE f : P(f, Len(Copies))
  BY DEF Flat
<1>7. P(Flat, Len(Copies))
  <2> HIDE DEF P
  <2> QED
    BY <1>5, <1>6, Zenon
<1> QED
  BY <1>7

\* The stream, buffer by buffer.
LEMMA StreamFacts ==
  /\ Stream \in Seq(Nat) /\ Len(Stream) = Off[LastBlock]
  /\ \A b \in 1 .. LastBlock : \A j \in Nat : Off[b - 1] < j /\ j <= Off[b] => Stream[j] = b
<1>0. LastBlock \in Nat
  BY RawAssumption DEF LastBlock
<1>1. \A i \in 1 .. LastBlock : Flat[i] = IF i = 1 THEN Copies[i] ELSE Flat[i - 1] \o Copies[i]
  BY FlatDef, CopiesFacts, Zenon
<1> DEFINE Good(n) == /\ Flat[n] \in Seq(Nat) /\ Len(Flat[n]) = Off[n]
                      /\ \A b \in 1 .. n : \A j \in Nat : Off[b - 1] < j /\ j <= Off[b] => Flat[n][j] = b
           S == {n \in Nat : 1 <= n /\ n <= LastBlock => Good(n)}
<1>2. 0 \in S
  OBVIOUS
<1>3. ASSUME NEW n \in Nat, n \in S PROVE n + 1 \in S
  <2> SUFFICES ASSUME n + 1 <= LastBlock PROVE Good(n + 1)
    OBVIOUS
  <2> DEFINE m == n + 1
             c == Copies[m]
  <2>1. m \in 1 .. LastBlock /\ m - 1 = n /\ n \in 0 .. LastBlock
    BY <1>0
  <2>2. /\ c \in Seq(Nat) /\ Len(c) = SizeOf(m)
        /\ \A i \in 1 .. SizeOf(m) : c[i] = m
    BY <2>1, CopiesFacts
  <2>3. /\ Off[m] = Off[n] + SizeOf(m) /\ Off[n] \in Nat /\ SizeOf(m) \in Nat
        /\ \A b \in 1 .. m : Off[b] \in Nat /\ Off[b - 1] \in Nat
    <3>1. SizeOf(m) \in Nat
      BY <2>1, RawAssumption DEF SizeOf, LastBlock
    <3>2. \A b \in 1 .. m : b \in 0 .. LastBlock /\ b - 1 \in 0 .. LastBlock
      BY <1>0, <2>1
    <3> QED
      BY <2>1, <3>1, <3>2, OffFacts
  <2>4. CASE n = 0
    <3>1. Flat[m] = c /\ m = 1 /\ Off[n] = 0
      BY <1>1, <2>1, <2>4, OffFacts
    <3>2. ASSUME NEW b \in 1 .. m, NEW j \in Nat, Off[b - 1] < j, j <= Off[b] PROVE Flat[m][j] = b
      <4>1. b = m /\ b - 1 = n
        BY <3>1, <2>4
      <4>2. j \in 1 .. SizeOf(m)
        BY <2>3, <3>1, <3>2, <4>1
      <4> QED
        BY <2>2, <3>1, <4>1, <4>2
    <3> HIDE DEF m, c
    <3>3. Good(m)
      BY <2>2, <2>3, <3>1, <3>2
    <3> QED
      BY <3>3 DEF m
  <2>5. CASE n # 0
    <3> DEFINE f == Flat[n]
    <3>1. Flat[m] = f \o c
      <4>1. m # 1
        BY <2>5
      <4>2. Flat[m] = Flat[m - 1] \o Copies[m]
        <5> HIDE DEF m
        <5> QED
          BY <1>1, <2>1, <4>1, Zenon
      <4> HIDE DEF m
      <4> QED
        BY <2>1, <4>2, Zenon
    <3>2. Good(n)
      BY <1>0, <1>3, <2>1, <2>5
    <3>3. f \in Seq(Nat) /\ Len(f) = Off[n]
      BY <3>2
    <3>4. \A b \in 1 .. n : \A j \in Nat : Off[b - 1] < j /\ j <= Off[b] => f[j] = b
      BY <3>2
    <3>4a. \A b \in 1 .. n : Off[b] <= Off[n]
      <4> SUFFICES ASSUME NEW b \in 1 .. n PROVE Off[b] <= Off[n]
        OBVIOUS
      <4> QED
        BY <2>1, OffGrows
    <3> HIDE DEF f, c, Good
    <3>5. /\ f \o c \in Seq(Nat) /\ Len(f \o c) = Off[n] + SizeOf(m)
          /\ \A i \in 1 .. Off[n] + SizeOf(m) : (f \o c)[i] = IF i <= Off[n] THEN f[i] ELSE c[i - Off[n]]
      <4> HIDE DEF m
      <4>1. f \in Seq(Nat) /\ c \in Seq(Nat) /\ Len(f) = Off[n] /\ Len(c) = SizeOf(m)
        BY <2>2, <3>3, Zenon
      <4>2. /\ f \o c \in Seq(Nat) /\ Len(f \o c) = Len(f) + Len(c)
            /\ \A i \in 1 .. Len(f) + Len(c) : (f \o c)[i] = IF i <= Len(f) THEN f[i] ELSE c[i - Len(f)]
        BY <4>1, ConcatProperties, Zenon
      <4> QED
        BY <4>1, <4>2, Zenon
    <3>6. ASSUME NEW b \in 1 .. m, NEW j \in Nat, Off[b - 1] < j, j <= Off[b] PROVE (f \o c)[j] = b
      <4>0. Off[b] \in Nat /\ Off[b - 1] \in Nat
        BY <2>3
      <4>1. CASE b = m
        <5>1. Off[n] < j /\ j <= Off[n] + SizeOf(m) /\ b - 1 = n
          BY <2>1, <2>3, <3>6, <4>1
        <5>2. j \in 1 .. Off[n] + SizeOf(m) /\ ~(j <= Off[n]) /\ j - Off[n] \in 1 .. SizeOf(m)
          BY <2>3, <5>1
        <5> QED
          BY <2>2, <3>5, <4>1, <5>2
      <4>2. CASE b # m
        <5>1. b \in 1 .. n
          BY <4>2
        <5>2. j <= Off[n] /\ j \in 1 .. Off[n] + SizeOf(m)
          BY <2>3, <3>4a, <3>6, <4>0, <5>1
        <5> QED
          BY <3>4, <3>5, <3>6, <5>1, <5>2
      <4> QED
        BY <4>1, <4>2
    <3> HIDE DEF m
    <3>7. Good(m)
      BY <2>3, <3>1, <3>5, <3>6 DEF Good
    <3> QED
      BY <3>7 DEF m
  <2> QED
    BY <2>4, <2>5
<1>4. \A n \in Nat : n \in S
  <2> HIDE DEF S
  <2> QED
    BY <1>2, <1>3, SetInduction
<1>5. CASE LastBlock = 0
  <2>1. Copies = <<>>
    BY <1>5 DEF Copies, LastBlock
  <2>2. Stream = <<>>
    BY <1>5, <2>1, CopiesFacts DEF Stream, Copies, FlattenSeq
  <2> QED
    BY <1>5, <2>2, OffFacts
<1>6. CASE LastBlock # 0
  <2>1. Good(LastBlock)
    BY <1>0, <1>4, <1>6
  <2>2. Stream = Flat[LastBlock]
    <3>1. Stream = FlattenSeq(Copies)
      BY DEF Stream, Copies
    <3>2. FlattenSeq(Copies) = Flat[Len(Copies)]
      BY <1>6, CopiesFacts, Zenon DEF FlattenSeq, Flat
    <3> QED
      BY <3>1, <3>2, CopiesFacts
  <2> QED
    BY <2>1, <2>2
<1> QED
  BY <1>5, <1>6

-----------------------------------------------------------------------------
(* Rings of buffers and what they hold.                                    *)

\* The places of a ring of M, n places on from p, and how far i is behind p.
Places(M) == 0 .. M - 1
Round(p, n, M) == IF p + n < M THEN p + n ELSE p + n - M
Dist(i, p, M) == IF i >= p THEN i - p ELSE i - p + M

\* Places of a ring of M, without remainders.
LEMMA RoundRing ==
  ASSUME NEW M \in Nat, NEW p \in Places(M), NEW n \in 0 .. M
  PROVE  (p + n) % M = Round(p, n, M) /\ Round(p, n, M) \in Places(M)
<1>1. p \in Nat /\ p < M /\ n \in Nat /\ n <= M
  BY DEF Places
<1>2. CASE p + n < M
  <2>1. (p + n) % M = p + n
    BY <1>1, <1>2
  <2> QED
    BY <1>1, <1>2, <2>1 DEF Round, Places
<1>3. CASE p + n >= M
  <2>1. (p + n) % M = p + n - M
    BY <1>1, <1>3
  <2> QED
    BY <1>1, <1>3, <2>1 DEF Round, Places
<1> QED
  BY <1>1, <1>2, <1>3

\* A window of n places behind the q first ones is the next n of them.
LEMMA WindowBehind ==
  ASSUME NEW M \in Nat, NEW p \in Places(M), NEW q \in Nat, NEW n \in Nat, q + n <= M, n >= 1,
         NEW i \in Places(M)
  PROVE  /\ Dist(i, Round(p, q, M), M) < n <=> q <= Dist(i, p, M) /\ Dist(i, p, M) < q + n
         /\ Round(Round(p, q, M), n, M) = Round(p, q + n, M)
BY DEF Round, Dist, Places

\* One place on, everything is one place nearer except what was passed.
LEMMA OnePlaceOn ==
  ASSUME NEW M \in Nat, NEW p \in Places(M), NEW q \in Nat, 1 <= q, q <= M, NEW i \in Places(M)
  PROVE  /\ Dist(i, p, M) \in Nat /\ Dist(i, p, M) < M
         /\ Dist(i, Round(p, 1, M), M) = IF i = p THEN M - 1 ELSE Dist(i, p, M) - 1
         /\ i # p => Dist(i, p, M) >= 1
         /\ Round(Round(p, 1, M), q - 1, M) = Round(p, q, M)
BY DEF Round, Dist, Places

\* q buffers of the ring, from p on, hold what comes after the n first of the stream.
RingIs(list, p, cur, q, n) ==
  /\ p \in Entries /\ cur = Round(p, q, C) /\ DOMAIN list = Entries
  /\ q \in Nat /\ q <= C /\ n \in Nat /\ n + q <= Off[LastBlock]
  /\ \A i \in Entries : list[i] = IF Dist(i, p, C) < q THEN Stream[n + 1 + Dist(i, p, C)] ELSE None

\* h holding buffers, from g on, hold the blocks from first on.
HoldIs(held, g, put, h, first) ==
  /\ h \in Nat /\ h <= H /\ first \in Nat /\ DOMAIN held = Places(H)
  /\ H > 0 => g \in Places(H) /\ put = Round(g, h, H)
  /\ \A i \in Places(H) : Dist(i, g, H) < h => held[i] = first + Dist(i, g, H)

\* The first buffer of the ring.
LEMMA RingFirst ==
  ASSUME NEW list, NEW p, NEW cur, NEW q, NEW n, RingIs(list, p, cur, q, n)
  PROVE  list[p] # None <=> q >= 1
<1>0. p \in Entries /\ q \in Nat /\ n \in Nat /\ n + q <= Off[LastBlock]
  BY DEF RingIs
<1>1. Dist(p, p, C) = 0
  BY <1>0, RingSize DEF Entries, Dist
<1>2. list[p] = IF 0 < q THEN Stream[n + 1 + 0] ELSE None
  BY <1>0, <1>1, Zenon DEF RingIs
<1>3. CASE q >= 1
  <2>1. Off[LastBlock] \in Nat /\ Stream \in Seq(Nat) /\ Len(Stream) = Off[LastBlock]
    <3>1. LastBlock \in 0 .. LastBlock
      BY RawAssumption DEF LastBlock
    <3> QED
      BY <3>1, OffFacts, StreamFacts
  <2>2. n + 1 + 0 \in 1 .. Len(Stream)
    BY <1>0, <1>3, <2>1
  <2>3. Stream[n + 1 + 0] \in Nat
    BY <2>1, <2>2, ElementOfSeq
  <2> QED
    BY <1>0, <1>2, <1>3, <2>3 DEF None
<1>4. CASE ~(q >= 1)
  <2>1. ~(0 < q)
    BY <1>0, <1>4
  <2> QED
    BY <1>2, <1>4, <2>1
<1> QED
  BY <1>3, <1>4

\* The channel sends the first buffer of the ring.
LEMMA RingSent ==
  ASSUME NEW list, NEW p, NEW cur, NEW q, NEW n, RingIs(list, p, cur, q, n), q >= 1
  PROVE  /\ list[p] = Stream[n + 1]
         /\ RingIs([list EXCEPT ![p] = None], (p + 1) % C, cur, q - 1, n + 1)
<1>0. /\ p \in Entries /\ q \in Nat /\ q <= C /\ n \in Nat /\ n + q <= Off[LastBlock] /\ C \in Nat
      /\ C >= 1 /\ cur = Round(p, q, C) /\ DOMAIN list = Entries
  BY RingSize DEF RingIs
<1>1. list[p] = Stream[n + 1]
  <2>1. Dist(p, p, C) = 0 /\ n + 1 + 0 = n + 1 /\ 0 < q
    BY <1>0 DEF Entries, Dist
  <2> QED
    BY <1>0, <2>1, Zenon DEF RingIs
<1> DEFINE e == [list EXCEPT ![p] = None]
           r == Round(p, 1, C)
<1>2. (p + 1) % C = r /\ r \in Entries /\ p \in Places(C) /\ Entries = Places(C)
  <2>1. p \in Places(C) /\ 1 \in 0 .. C
    BY <1>0 DEF Entries, Places
  <2> QED
    BY <1>0, <2>1, RoundRing DEF Entries, Places
<1>3. cur = Round(r, q - 1, C) /\ q - 1 \in Nat /\ q - 1 <= C /\ n + 1 \in Nat
  BY <1>0, <1>2, OnePlaceOn
<1>4. (n + 1) + (q - 1) <= Off[LastBlock]
  <2>1. (n + 1) + (q - 1) = n + q
    BY <1>0
  <2> QED
    BY <1>0, <2>1
<1>5. ASSUME NEW i \in Entries
      PROVE  e[i] = IF Dist(i, r, C) < q - 1 THEN Stream[(n + 1) + 1 + Dist(i, r, C)] ELSE None
  <2>1. /\ Dist(i, p, C) \in Nat /\ Dist(i, r, C) = IF i = p THEN C - 1 ELSE Dist(i, p, C) - 1
        /\ i # p => Dist(i, p, C) >= 1
    BY <1>0, <1>2, OnePlaceOn
  <2> DEFINE d == Dist(i, p, C)
             x == Dist(i, r, C)
  <2>2. list[i] = IF d < q THEN Stream[n + 1 + d] ELSE None
    BY DEF RingIs
  <2> HIDE DEF d, x, r
  <2>3. CASE i = p
    <3>1. e[i] = None
      BY <1>0, <2>3
    <3>2. ~(x < q - 1)
      BY <1>0, <2>1, <2>3 DEF x
    <3> QED
      BY <3>1, <3>2 DEF x
  <2>4. CASE i # p
    <3>1. e[i] = list[i]
      BY <1>0, <2>4
    <3>2. (x < q - 1 <=> d < q) /\ (n + 1) + 1 + x = n + 1 + d
      BY <1>0, <2>1, <2>4 DEF x, d
    <3> HIDE DEF e
    <3> QED
      BY <2>2, <3>1, <3>2, Zenon DEF x
  <2> QED
    BY <2>3, <2>4
<1>6. DOMAIN e = Entries
  BY <1>0
<1> HIDE DEF e, r
<1>7. RingIs(e, r, cur, q - 1, n + 1)
  BY <1>2, <1>3, <1>4, <1>5, <1>6, Zenon DEF RingIs
<1> QED
  BY <1>1, <1>2, <1>7 DEF e

\* A block goes into the ring behind what is there.
LEMMA RingLoad ==
  ASSUME NEW list, NEW p, NEW cur, NEW q, NEW n, RingIs(list, p, cur, q, n),
         NEW b \in 1 .. LastBlock, n + q = Off[b - 1], q + SizeOf(b) <= C
  PROVE  /\ RingIs([i \in DOMAIN list |-> IF (i - cur + C) % C < SizeOf(b) THEN b ELSE list[i]], p,
                   (cur + SizeOf(b)) % C, q + SizeOf(b), n)
         /\ n + (q + SizeOf(b)) = Off[b]
<1>0. /\ p \in Entries /\ q \in Nat /\ q <= C /\ n \in Nat /\ C \in Nat
      /\ C >= 1 /\ cur = Round(p, q, C) /\ DOMAIN list = Entries
  BY RingSize DEF RingIs
<1> DEFINE m == SizeOf(b)
           e == [i \in Entries |-> IF (i - cur + C) % C < m THEN b ELSE list[i]]
<1>1. /\ Off[b] = Off[b - 1] + m /\ m >= 1 /\ m \in Nat /\ Off[b] <= Off[LastBlock]
      /\ Off[b] \in Nat /\ Off[b - 1] \in Nat /\ Off[LastBlock] \in Nat
  <2>1. b \in 0 .. LastBlock /\ b - 1 \in 0 .. LastBlock /\ LastBlock \in 0 .. LastBlock /\ LastBlock \in Nat
    BY RawAssumption DEF LastBlock
  <2> QED
    BY <2>1, OffFacts, OffGrows
<1>2. Entries = Places(C)
  BY DEF Entries, Places
<1>3. q \in 0 .. C /\ m \in 0 .. C /\ q + m \in Nat /\ q + m <= C
  BY <1>0, <1>1
<1> HIDE DEF m
<1>4. cur \in Entries
  BY <1>0, <1>2, <1>3, RoundRing
<1>5. (cur + m) % C = Round(p, q + m, C)
  <2>1. (cur + m) % C = Round(cur, m, C)
    BY <1>0, <1>2, <1>3, <1>4, RoundRing
  <2> QED
    BY <1>0, <1>1, <1>2, <1>3, <2>1, WindowBehind
<1>6. n + (q + m) = Off[b] /\ n + (q + m) <= Off[LastBlock]
  BY <1>0, <1>1
<1>7. ASSUME NEW i \in Entries
      PROVE  e[i] = IF Dist(i, p, C) < q + m THEN Stream[n + 1 + Dist(i, p, C)] ELSE None
  <2> DEFINE d == Dist(i, p, C)
  <2>1. (i - cur + C) % C = Dist(i, cur, C)
    BY <1>4, Distance DEF Dist
  <2>2. (Dist(i, cur, C) < m) <=> (q <= d /\ d < q + m)
    BY <1>0, <1>1, <1>2, <1>3, WindowBehind
  <2>3. d \in Nat
    BY <1>0 DEF Dist, Entries
  <2>4. e[i] = IF q <= d /\ d < q + m THEN b ELSE list[i]
    BY <2>1, <2>2
  <2>5. list[i] = IF d < q THEN Stream[n + 1 + d] ELSE None
    BY DEF RingIs
  <2> HIDE DEF d, e
  <2>6. CASE q <= d /\ d < q + m
    <3>1. n + 1 + d \in Nat /\ Off[b - 1] < n + 1 + d /\ n + 1 + d <= Off[b]
      BY <1>0, <1>1, <1>6, <2>3, <2>6
    <3>2. Stream[n + 1 + d] = b
      BY <3>1, StreamFacts
    <3> QED
      BY <2>4, <2>6, <3>2 DEF d
  <2>7. CASE d < q
    <3>1. ~(q <= d) /\ d < q + m
      BY <1>0, <1>1, <2>3, <2>7
    <3> QED
      BY <2>4, <2>5, <2>7, <3>1, Zenon DEF d
  <2>8. CASE q + m <= d
    <3>1. ~(d < q + m) /\ ~(d < q)
      BY <1>0, <1>1, <2>3, <2>8
    <3> QED
      BY <2>4, <2>5, <3>1, Zenon DEF d
  <2> QED
    BY <1>0, <1>1, <2>3, <2>6, <2>7, <2>8
<1>8. DOMAIN e = Entries
  OBVIOUS
<1>9. RingIs(e, p, (cur + m) % C, q + m, n)
  <2> HIDE DEF e
  <2> QED
    BY <1>0, <1>3, <1>5, <1>6, <1>7, <1>8, Zenon DEF RingIs
<1> QED
  BY <1>0, <1>6, <1>9 DEF m

\* A block is put into the holding buffer behind those that are held.
LEMMA HoldAdd ==
  ASSUME NEW held, NEW g, NEW put, NEW h, NEW first, HoldIs(held, g, put, h, first), h < H
  PROVE  HoldIs([held EXCEPT ![put] = first + h], g, (put + 1) % H, h + 1, first)
<1>0. /\ h \in Nat /\ H \in Nat /\ H > 0 /\ first \in Nat /\ DOMAIN held = Places(H)
      /\ g \in Places(H) /\ put = Round(g, h, H)
  <2>1. h \in Nat /\ H \in Nat
    BY RawAssumption DEF HoldIs
  <2>2. H > 0
    BY <2>1
  <2> QED
    BY <2>1, <2>2 DEF HoldIs
<1> DEFINE e == [held EXCEPT ![put] = first + h]
<1>1. put \in Places(H)
  BY <1>0, RoundRing
<1>2. (put + 1) % H = Round(g, h + 1, H)
  <2>1. (put + 1) % H = Round(put, 1, H)
    BY <1>0, <1>1, RoundRing
  <2> QED
    BY <1>0, <1>1, <2>1, WindowBehind
<1>3. ASSUME NEW i \in Places(H), Dist(i, g, H) < h + 1 PROVE e[i] = first + Dist(i, g, H)
  <2>1. Dist(i, g, H) \in Nat /\ (i = put <=> Dist(i, g, H) = h)
    BY <1>0 DEF Places, Dist, Round
  <2>2. CASE i = put
    BY <1>0, <1>1, <2>1, <2>2
  <2>3. CASE i # put
    <3>1. Dist(i, g, H) < h
      BY <1>0, <1>3, <2>1, <2>3
    <3>2. held[i] = first + Dist(i, g, H)
      BY <3>1 DEF HoldIs
    <3> QED
      BY <1>0, <2>3, <3>2
  <2> QED
    BY <2>2, <2>3
<1>4. DOMAIN e = Places(H) /\ h + 1 \in Nat /\ h + 1 <= H
  BY <1>0
<1> HIDE DEF e
<1>5. HoldIs(e, g, (put + 1) % H, h + 1, first)
  BY <1>0, <1>2, <1>3, <1>4, Zenon DEF HoldIs
<1> QED
  BY <1>5 DEF e

\* The block held longest is taken out.
LEMMA HoldTake ==
  ASSUME NEW held, NEW g, NEW put, NEW h, NEW first, HoldIs(held, g, put, h, first), h > 0
  PROVE  held[g] = first /\ HoldIs(held, (g + 1) % H, put, h - 1, first + 1)
<1>0. /\ h \in Nat /\ h <= H /\ H \in Nat /\ H > 0 /\ first \in Nat /\ DOMAIN held = Places(H)
      /\ g \in Places(H) /\ put = Round(g, h, H)
  <2>1. h \in Nat /\ H \in Nat /\ h <= H
    BY RawAssumption DEF HoldIs
  <2>2. H > 0
    BY <2>1
  <2> QED
    BY <2>1, <2>2 DEF HoldIs
<1> DEFINE r == Round(g, 1, H)
<1>1. held[g] = first
  <2>1. Dist(g, g, H) = 0 /\ 0 < h
    BY <1>0 DEF Dist, Places
  <2>2. held[g] = first + 0
    BY <1>0, <2>1, Zenon DEF HoldIs
  <2> QED
    BY <1>0, <2>2
<1>2. (g + 1) % H = r /\ r \in Places(H)
  BY <1>0, RoundRing
<1>3. put = Round(r, h - 1, H)
  BY <1>0, OnePlaceOn
<1>4. ASSUME NEW i \in Places(H), Dist(i, r, H) < h - 1 PROVE held[i] = (first + 1) + Dist(i, r, H)
  <2>1. /\ Dist(i, g, H) \in Nat
        /\ Dist(i, r, H) = IF i = g THEN H - 1 ELSE Dist(i, g, H) - 1
    BY <1>0, OnePlaceOn
  <2> HIDE DEF r
  <2>2. Dist(i, g, H) < h /\ (first + 1) + Dist(i, r, H) = first + Dist(i, g, H)
    BY <1>0, <1>4, <2>1
  <2>3. held[i] = first + Dist(i, g, H)
    BY <2>2 DEF HoldIs
  <2> QED
    BY <2>2, <2>3
<1>5. h - 1 \in Nat /\ h - 1 <= H /\ first + 1 \in Nat
  BY <1>0
<1> HIDE DEF r
<1>6. HoldIs(held, r, put, h - 1, first + 1)
  BY <1>0, <1>2, <1>3, <1>4, <1>5, Zenon DEF HoldIs
<1> QED
  BY <1>1, <1>2, <1>6

-----------------------------------------------------------------------------
(* What holds while nothing disturbs the stream.                           *)

\* The hypothesis of StreamInOrder, and where r56_write is.
Calm == ~raced /\ ops = {} /\ ~starved
Starting == w \in {"check", "start"}
Direct == w \in {"direct", "check", "start"}
Eob == IF eob THEN 1 ELSE 0

\* Blocks that r56_write has put somewhere, and those that are in the ring or sent.
Taken == accepted + (IF w \in {"load", "check", "start"} THEN 1 ELSE 0)
Loaded == Taken - tx_holding_count
InRing == Off[Loaded] - Len(sent)

\* The transmitter is active exactly while the chip is busy or has its underrun to report.
Control ==
  /\ flow = "go" /\ w \in {"idle", "hold", "load", "direct", "check", "start"}
  /\ Direct => ~tx_active
  /\ running => busy
  /\ busy => tx_active
  /\ txirq => tx_active /\ ~busy

\* r56_write fills the DMA buffers itself only when nothing is held, and the transmitter
\* then starts where it filled them.
Writer ==
  /\ accepted \in Nat /\ accepted <= LastBlock
  /\ w # "idle" => accepted + 1 <= LastBlock
  /\ Direct => tx_holding_count = 0
  /\ w = "hold" => tmp < H
  /\ ~tx_active /\ ~Starting => xmit_cnt = 0
  /\ Starting => xmit_cnt > 0 /\ start_tx_dma_buffer = pos

\* The blocks after those loaded are in the holding buffers, in order.
Held == HoldIs(tx_holding_buffers, get_tx_holding_index, put_tx_holding_index, tx_holding_count, Loaded + 1)

\* From where the channel reads to where the next block goes, the ring has what comes
\* next in the stream; the channel does not stop before it has sent it all.
InBuffers ==
  /\ Loaded \in Nat
  /\ RingIs(tx_buffer_list, pos, current_tx_buffer, InRing, Len(sent))
  /\ ~running => InRing = 0 \/ Starting

\* What was sent is the beginning of the stream.
InOrder == sent \in Seq(Nat) /\ \A i \in 1 .. Len(sent) : sent[i] = Stream[i]

\* With End of Buffer interrupts the count is exact, and a block stays held only as long
\* as it does not fit.
Counted ==
  /\ NumTxDmaBuffers > 1 => tx_dma_buffers_used = InRing + Eob
  /\ tx_holding_count > 0 => \/ SizeOf(Loaded + 1) > C - tx_dma_buffers_used
                             \/ w = "load" /\ tx_holding_count = 1

Parts == Control /\ Writer /\ Held /\ InBuffers /\ InOrder /\ Counted
StreamInv == Calm => Parts

\* Every block fits the ring, and with more than one DMA buffer it leaves a place.
LEMMA RoomForBlock ==
  /\ \A b : SizeOf(b) \in Nat /\ SizeOf(b) <= C
  /\ NumTxDmaBuffers > 1 => \A b : SizeOf(b) <= C - 1
<1> SUFFICES ASSUME NEW b
             PROVE  /\ SizeOf(b) \in Nat /\ SizeOf(b) <= C
                    /\ NumTxDmaBuffers > 1 => SizeOf(b) <= C - 1
  OBVIOUS
<1>1. /\ NumTxDmaBuffers \in Nat /\ NumTxDmaBuffers >= 1 /\ BuffersPerFrame \in Nat /\ BuffersPerFrame >= 1
      /\ Size \in Seq(1 .. BuffersPerFrame)
  BY RawAssumption
<1>2. C >= BuffersPerFrame /\ (NumTxDmaBuffers > 1 => C >= 2 * BuffersPerFrame) /\ C \in Nat
  <2>1. \A x, y \in Nat : x >= 1 => x * y >= y
    OBVIOUS
  <2>2. \A x, y \in Nat : x >= 2 => x * y >= 2 * y
    OBVIOUS
  <2> QED
    BY <1>1, <2>1, <2>2 DEF C
<1>3. SizeOf(b) \in Nat /\ SizeOf(b) <= BuffersPerFrame
  <2>1. CASE b \in DOMAIN Size
    <3>1. Size \in [1 .. Len(Size) -> 1 .. BuffersPerFrame]
      BY <1>1
    <3>2. Size[b] \in 1 .. BuffersPerFrame
      BY <2>1, <3>1
    <3> QED
      BY <1>1, <2>1, <3>2 DEF SizeOf
  <2>2. CASE b \notin DOMAIN Size
    BY <1>1, <2>2 DEF SizeOf
  <2> QED
    BY <2>1, <2>2
<1> QED
  BY <1>1, <1>2, <1>3

\* The blocks are numbered from 1.
LEMMA LastBlockNat == LastBlock \in Nat /\ DOMAIN Size = 1 .. LastBlock
BY RawAssumption DEF LastBlock

\* What disturbs the stream does so for good.
LEMMA CalmBefore ==
  ASSUME [Next]_vars, Calm'
  PROVE  Calm
<1>1. raced => raced'
  BY DEF Next, Write, Hw, WriteBegin, WriteHold, WriteLoad, WriteDirect, WriteCheck, WriteStart,
     HwBufferSent, HwEndOfList, HwUnderrun, IsrTransmitStatus, IsrTransmitDma, BhTransmit,
     TxTimeout, FlushBuffer, TtyFlow, R56Stop, R56Start, TxEnable, history, vars
<1>2. starved => starved'
  BY DEF Next, Write, Hw, WriteBegin, WriteHold, WriteLoad, WriteDirect, WriteCheck, WriteStart,
     HwBufferSent, HwEndOfList, HwUnderrun, IsrTransmitStatus, IsrTransmitDma, BhTransmit,
     TxTimeout, FlushBuffer, TtyFlow, R56Stop, R56Start, TxEnable, history, vars, LoadNext, LoadNone, MoveBlock
<1>3. ops' = ops \/ \E o : ops' = ops \cup {o}
  BY DEF Next, Write, Hw, WriteBegin, WriteHold, WriteLoad, WriteDirect, WriteCheck, WriteStart,
     HwBufferSent, HwEndOfList, HwUnderrun, IsrTransmitStatus, IsrTransmitDma, BhTransmit,
     TxTimeout, FlushBuffer, TtyFlow, R56Stop, R56Start, TxEnable, history, vars, Op
<1> QED
  BY <1>1, <1>2, <1>3 DEF Calm

\* Without operations that disturb it, the stream is the writer's and the chip's.
LEMMA CalmActions ==
  ASSUME [Next]_vars, ops' = {}, flow = "go"
  PROVE  Write \/ Hw \/ IsrTransmitStatus \/ IsrTransmitDma \/ BhTransmit \/ UNCHANGED vars
<1>1. ASSUME NEW o, Op(o) PROVE FALSE
  BY <1>1 DEF Op
<1>2. ~TxTimeout /\ ~FlushBuffer /\ ~TtyFlow /\ ~R56Stop /\ ~R56Start /\ ~TxEnable
  BY <1>1, Zenon DEF TxTimeout, FlushBuffer, TtyFlow, R56Stop, R56Start, TxEnable
<1> QED
  BY <1>2 DEF Next

\* A step that leaves the buffers, the indices and what was sent alone.
LEMMA Kept ==
  ASSUME Held, InBuffers, InOrder, Taken' = Taken,
         UNCHANGED <<tx_buffer_list, current_tx_buffer, pos, tx_holding_buffers, get_tx_holding_index,
                     put_tx_holding_index, tx_holding_count, sent>>
  PROVE  /\ Loaded' = Loaded /\ InRing' = InRing /\ Held' /\ InOrder' /\ Loaded' \in Nat
         /\ RingIs(tx_buffer_list, pos, current_tx_buffer, InRing, Len(sent))'
<1>1. Loaded' = Loaded
  BY DEF Loaded
<1>2. InRing' = InRing
  BY <1>1 DEF InRing
<1>3. Held'
  BY <1>1 DEF Held
<1>4. RingIs(tx_buffer_list, pos, current_tx_buffer, InRing, Len(sent))'
  BY <1>2 DEF InBuffers
<1> QED
  BY <1>1, <1>2, <1>3, <1>4 DEF InOrder, InBuffers

\* Numbers that the parts of the invariant speak of.
LEMMA Numbers ==
  ASSUME Writer, Held, InBuffers, Control
  PROVE  /\ tx_holding_count \in Nat /\ tx_holding_count <= H /\ H \in Nat
         /\ Taken \in Nat /\ Taken <= LastBlock /\ Taken = Loaded + tx_holding_count
         /\ Loaded \in Nat /\ Loaded <= LastBlock
         /\ InRing \in Nat /\ InRing <= C /\ Len(sent) + InRing = Off[Loaded]
         /\ Len(sent) \in Nat
<1>1. tx_holding_count \in Nat /\ tx_holding_count <= H /\ H \in Nat
  BY RawAssumption DEF Held, HoldIs
<1>2. Taken \in Nat /\ Taken <= LastBlock
  BY LastBlockNat DEF Taken, Writer, Control
<1>3. Loaded \in Nat /\ Taken = Loaded + tx_holding_count
  BY <1>1, <1>2 DEF Loaded, InBuffers
<1>4. InRing \in Nat /\ InRing <= C /\ Len(sent) \in Nat
  BY DEF InBuffers, RingIs
<1>5. Loaded <= LastBlock
  BY <1>1, <1>2, <1>3, LastBlockNat
<1>6. Off[Loaded] \in Nat
  BY <1>3, <1>5, LastBlockNat, OffFacts
<1>7. Len(sent) + InRing = Off[Loaded]
  <2> DEFINE o == Off[Loaded]
             n == Len(sent)
  <2>1. InRing = o - n /\ o \in Nat /\ n \in Nat
    BY <1>4, <1>6 DEF InRing
  <2> HIDE DEF o, n
  <2>2. n + InRing = o
    BY <2>1
  <2> QED
    BY <2>2 DEF o, n
<1> QED
  BY <1>1, <1>2, <1>3, <1>4, <1>5, <1>7

\* load_next_tx_holding_buffer, when the inUse buffers it goes by cover the ring.
LEMMA Moved ==
  ASSUME Control, Writer, Held, InBuffers, InOrder, NEW inUse \in Int, InRing <= inUse,
         LoadNext(inUse), Taken' = Taken, UNCHANGED <<pos, sent>>
  PROVE  /\ tx_holding_count > 0 /\ tx_holding_count' = tx_holding_count - 1
         /\ Loaded + 1 \in 1 .. LastBlock /\ SizeOf(Loaded + 1) <= C - inUse
         /\ Loaded' = Loaded + 1 /\ Loaded' \in Nat
         /\ InRing' = InRing + SizeOf(Loaded + 1)
         /\ tx_dma_buffers_used' = inUse + SizeOf(Loaded + 1)
         /\ RingIs(tx_buffer_list, pos, current_tx_buffer, InRing, Len(sent))'
         /\ Held' /\ InOrder'
<1> DEFINE b == Loaded + 1
           h == tx_holding_count
<1>1. /\ h \in Nat /\ Taken = Loaded + h /\ Loaded \in Nat /\ Taken <= LastBlock /\ Taken \in Nat
      /\ InRing \in Nat /\ Len(sent) + InRing = Off[Loaded] /\ Len(sent) \in Nat /\ Loaded <= LastBlock
  BY Numbers
<1>2. h > 0 /\ h' = h - 1 /\ get_tx_holding_index' = (get_tx_holding_index + 1) % H
  BY DEF LoadNext, MoveBlock
<1>3. b \in 1 .. LastBlock
  BY <1>1, <1>2, LastBlockNat
<1>4. /\ tx_holding_buffers[get_tx_holding_index] = b
      /\ HoldIs(tx_holding_buffers, (get_tx_holding_index + 1) % H, put_tx_holding_index, h - 1, b + 1)
  <2>1. HoldIs(tx_holding_buffers, get_tx_holding_index, put_tx_holding_index, h, b)
    BY DEF Held
  <2> HIDE DEF b, h
  <2> QED
    BY <1>2, <2>1, HoldTake
<1>5. /\ SizeOf(b) <= C - inUse /\ LoadTxDmaBuffer(b, SizeOf(b))
      /\ tx_dma_buffers_used' = inUse + SizeOf(b)
      /\ UNCHANGED <<tx_holding_buffers, put_tx_holding_index>>
  <2> HIDE DEF b
  <2> QED
    BY <1>4 DEF LoadNext, MoveBlock, NextBlock
<1>6. Loaded' = b
  <2>1. Loaded' = Taken - (h - 1)
    BY <1>2 DEF Loaded
  <2> QED
    BY <1>1, <1>2, <2>1
<1>7. SizeOf(b) \in Nat /\ C \in Nat
  BY RoomForBlock, RingSize
<1>8. InRing + SizeOf(b) <= C
  <2> DEFINE z == SizeOf(b)
  <2>1. z \in Nat /\ C \in Nat /\ z <= C - inUse /\ InRing \in Nat
    BY <1>1, <1>5, <1>7
  <2> HIDE DEF z
  <2>2. InRing + z <= C
    BY <2>1
  <2> QED
    BY <2>2 DEF z
<1>9. b - 1 = Loaded
  BY <1>1
<1>10. /\ RingIs(tx_buffer_list', pos, current_tx_buffer', InRing + SizeOf(b), Len(sent))
       /\ Len(sent) + (InRing + SizeOf(b)) = Off[b]
  <2>1. RingIs(tx_buffer_list, pos, current_tx_buffer, InRing, Len(sent))
    BY DEF InBuffers
  <2>2. /\ tx_buffer_list' = [i \in DOMAIN tx_buffer_list |->
                               IF (i - current_tx_buffer + C) % C < SizeOf(b) THEN b ELSE tx_buffer_list[i]]
        /\ current_tx_buffer' = (current_tx_buffer + SizeOf(b)) % C
    BY <1>5 DEF LoadTxDmaBuffer
  <2>3. Len(sent) + InRing = Off[b - 1]
    BY <1>1, <1>9
  <2> HIDE DEF b
  <2> QED
    BY <1>3, <1>8, <2>1, <2>2, <2>3, RingLoad
<1>11. InRing' = InRing + SizeOf(b)
  <2> DEFINE z == SizeOf(b)
             n == Len(sent)
             o == Off[b]
  <2>1. InRing' = o - n
    BY <1>6 DEF InRing
  <2>2. n + (InRing + z) = o /\ n \in Nat /\ z \in Nat /\ InRing \in Nat
    BY <1>1, <1>7, <1>10
  <2> HIDE DEF z, n, o
  <2>3. o - n = InRing + z
    BY <2>2
  <2> QED
    BY <2>1, <2>3 DEF z
<1>12. RingIs(tx_buffer_list, pos, current_tx_buffer, InRing, Len(sent))'
  BY <1>10, <1>11
<1>13. Held'
  <2>1. HoldIs(tx_holding_buffers', get_tx_holding_index', put_tx_holding_index', h', b + 1)
    BY <1>2, <1>4, <1>5
  <2> QED
    BY <1>6, <2>1 DEF Held
<1>14. InOrder'
  BY DEF InOrder
<1>15. b \in Nat
  BY <1>1
<1> QED
  BY <1>2, <1>3, <1>5, <1>6, <1>11, <1>12, <1>13, <1>14, <1>15

\* Nothing is held while the channel is stopped, except by a write that is to load it.
LEMMA NothingHeld ==
  ASSUME NumTxDmaBuffers > 1 \/ H = 0, Control, Writer, Held, InBuffers, Counted,
         InRing = 0, w # "load"
  PROVE  tx_holding_count = 0
<1>1. tx_holding_count \in Nat /\ tx_holding_count <= H /\ H \in Nat
  BY Numbers
<1>2. CASE H = 0
  BY <1>1, <1>2
<1>3. CASE NumTxDmaBuffers > 1
  <2>1. Eob \in 0 .. 1 /\ tx_dma_buffers_used = 0 + Eob
    BY <1>3 DEF Counted, Eob
  <2>2. SizeOf(Loaded + 1) <= C - 1 /\ SizeOf(Loaded + 1) \in Nat /\ C \in Nat
    BY <1>3, RoomForBlock, RingSize
  <2> DEFINE z == SizeOf(Loaded + 1)
  <2>3. tx_holding_count > 0 => z > C - tx_dma_buffers_used
    BY DEF Counted
  <2> HIDE DEF z
  <2>4. z <= C - 1 /\ z \in Nat
    BY <2>2 DEF z
  <2> QED
    BY <1>1, <2>1, <2>2, <2>3, <2>4
<1> QED
  BY <1>2, <1>3

-----------------------------------------------------------------------------
(* Every step preserves it.                                                *)

\* A step that leaves the buffers, their count and what was sent alone.
LEMMA QuietParts ==
  ASSUME Parts, Control', Writer', Taken' = Taken,
         UNCHANGED <<tx_buffer_list, current_tx_buffer, pos, tx_holding_buffers, get_tx_holding_index,
                     put_tx_holding_index, tx_holding_count, sent, tx_dma_buffers_used, eob>>,
         ~running' => InRing = 0 \/ Starting',
         w = "load" => w' = "load"
  PROVE  Parts'
<1>1. /\ Loaded' = Loaded /\ InRing' = InRing /\ Held' /\ InOrder' /\ Loaded' \in Nat
      /\ RingIs(tx_buffer_list, pos, current_tx_buffer, InRing, Len(sent))'
  BY Kept DEF Parts
<1>2. InBuffers'
  BY <1>1, Zenon DEF InBuffers
<1>3. Eob' = Eob
  BY DEF Eob
<1>4. Counted'
  BY <1>1, <1>3 DEF Parts, Counted
<1> QED
  BY <1>1, <1>2, <1>4 DEF Parts

\* r56_write goes on to the holding buffers or, when nothing is held, to the ring.
LEMMA BeginParts ==
  ASSUME NumTxDmaBuffers > 1 \/ H = 0, Parts, WriteBegin
  PROVE  Parts'
<1>1. /\ w = "idle" /\ Block \in DOMAIN Size
      /\ UNCHANGED <<tx_active, xmit_cnt, start_tx_dma_buffer, pos, running, busy, txirq, flow, accepted,
                     tx_buffer_list, current_tx_buffer, tx_holding_buffers, get_tx_holding_index,
                     put_tx_holding_index, tx_holding_count, sent, tx_dma_buffers_used, eob>>
  BY DEF WriteBegin, xmit, dma, holding, chip, history
<1>2. accepted + 1 <= LastBlock /\ accepted \in Nat
  BY <1>1, LastBlockNat DEF Block, Parts, Writer
<1>3. ~tx_active => xmit_cnt = 0
  BY <1>1 DEF Parts, Writer, Starting
<1>4. tx_holding_count \in Nat /\ H \in Nat
  BY Numbers DEF Parts
<1>5. \/ w' = "idle"
      \/ tx_active /\ tx_holding_count < H /\ w' = "hold"
      \/ ~tx_active /\ w' = "direct"
  BY <1>3, <1>4 DEF WriteBegin
<1>6. w' = "hold" => tmp' = tx_holding_count
  BY DEF WriteBegin
<1>7. ~tx_active => InRing = 0 /\ tx_holding_count = 0
  <2> SUFFICES ASSUME ~tx_active PROVE InRing = 0 /\ tx_holding_count = 0
    OBVIOUS
  <2>1. ~running /\ ~Starting
    BY <1>1 DEF Parts, Control, Starting
  <2>2. InRing = 0
    BY <2>1 DEF Parts, InBuffers
  <2> QED
    BY <1>1, <2>2, NothingHeld DEF Parts
<1>8. Control'
  BY <1>1, <1>5 DEF Parts, Control, Direct
<1>9. Writer'
  <2>1. Starting' = FALSE
    BY <1>5 DEF Starting
  <2>2. Direct' => tx_holding_count' = 0
    BY <1>1, <1>5, <1>7 DEF Direct
  <2>3. w' = "hold" => tmp' < H
    BY <1>5, <1>6
  <2>4. ~tx_active' /\ ~Starting' => xmit_cnt' = 0
    BY <1>1, <1>3
  <2>5. accepted' \in Nat /\ accepted' <= LastBlock /\ accepted' + 1 <= LastBlock
    BY <1>1, <1>2, LastBlockNat
  <2> QED
    BY <2>1, <2>2, <2>3, <2>4, <2>5 DEF Writer
<1>10. Taken' = Taken
  BY <1>1, <1>5 DEF Taken
<1>11. ~running' => InRing = 0 \/ Starting'
  <2>1. ~Starting
    BY <1>1 DEF Starting
  <2> QED
    BY <1>1, <2>1 DEF Parts, InBuffers
<1> QED
  BY <1>1, <1>8, <1>9, <1>10, <1>11, QuietParts

\* save_tx_buffer_request.
LEMMA HoldParts ==
  ASSUME Parts, WriteHold, ~raced'
  PROVE  Parts'
<1>1. /\ w = "hold" /\ w' = "load"
      /\ tx_holding_buffers' = [tx_holding_buffers EXCEPT ![put_tx_holding_index] = accepted + 1]
      /\ put_tx_holding_index' = (put_tx_holding_index + 1) % H
      /\ tx_holding_count' \in Added(tx_holding_count, 1)
      /\ raced' = (raced \/ tx_holding_count # tmp)
      /\ UNCHANGED <<tx_active, xmit_cnt, start_tx_dma_buffer, pos, running, busy, txirq, flow, accepted,
                     tx_buffer_list, current_tx_buffer, get_tx_holding_index,
                     tmp, sent, tx_dma_buffers_used, eob>>
  BY DEF WriteHold, Block, xmit, dma, chip
<1> DEFINE h == tx_holding_count
<1>2. h = tmp
  BY <1>1, Zenon
<1>3. h' = h + 1 /\ h < H /\ h \in Nat /\ H \in Nat
  <2>1. h < H
    BY <1>1, <1>2 DEF Parts, Writer
  <2>2. h \in Nat /\ H \in Nat
    BY Numbers DEF Parts
  <2> QED
    BY <1>1, <1>2, <2>1, <2>2 DEF Added
<1>4. accepted \in Nat /\ accepted + 1 <= LastBlock
  BY <1>1 DEF Parts, Writer
<1>5. Taken = accepted /\ Taken' = accepted + 1
  BY <1>1, <1>4 DEF Taken
<1>6. Taken = Loaded + h /\ Loaded \in Nat
  BY Numbers DEF Parts
<1>7. Loaded' = Loaded /\ (Loaded + 1) + h = accepted + 1
  <2>1. Loaded' = (accepted + 1) - (h + 1)
    BY <1>3, <1>5 DEF Loaded
  <2>2. accepted = Loaded + h /\ Loaded \in Nat /\ h \in Nat /\ accepted \in Nat
    BY <1>3, <1>4, <1>5, <1>6
  <2>3. (accepted + 1) - (h + 1) = Loaded /\ (Loaded + 1) + h = accepted + 1
    <3> HIDE DEF h
    <3> QED
      BY <2>2
  <2> QED
    BY <2>1, <2>3
<1>8. InRing' = InRing
  BY <1>1, <1>7 DEF InRing
<1>9. Held'
  <2>1. HoldIs([tx_holding_buffers EXCEPT ![put_tx_holding_index] = (Loaded + 1) + h], get_tx_holding_index,
               (put_tx_holding_index + 1) % H, h + 1, Loaded + 1)
    <3>1. HoldIs(tx_holding_buffers, get_tx_holding_index, put_tx_holding_index, h, Loaded + 1)
      BY DEF Parts, Held
    <3> DEFINE first == Loaded + 1
    <3> HIDE DEF first
    <3>2. HoldIs(tx_holding_buffers, get_tx_holding_index, put_tx_holding_index, h, first)
      BY <3>1 DEF first
    <3>3. HoldIs([tx_holding_buffers EXCEPT ![put_tx_holding_index] = first + h], get_tx_holding_index,
                 (put_tx_holding_index + 1) % H, h + 1, first)
      BY <1>3, <3>2, HoldAdd, Zenon
    <3> QED
      BY <3>3 DEF first
  <2>2. HoldIs(tx_holding_buffers', get_tx_holding_index', put_tx_holding_index', h', Loaded + 1)
    BY <1>1, <1>3, <1>7, <2>1
  <2> QED
    BY <1>7, <2>2 DEF Held
<1>10. Control'
  BY <1>1 DEF Parts, Control, Direct
<1>11. Writer'
  BY <1>1, <1>4 DEF Parts, Writer, Direct, Starting
<1>12. InBuffers'
  <2>1. RingIs(tx_buffer_list, pos, current_tx_buffer, InRing, Len(sent))'
    BY <1>1, <1>8 DEF Parts, InBuffers
  <2>2. ~running' => InRing' = 0
    BY <1>1, <1>8 DEF Parts, InBuffers, Starting
  <2> QED
    BY <1>6, <1>7, <2>1, <2>2 DEF InBuffers
<1>13. Counted'
  <2>1. Eob' = Eob
    BY <1>1 DEF Eob
  <2>2. NumTxDmaBuffers > 1 => tx_dma_buffers_used' = InRing' + Eob'
    BY <1>1, <1>8, <2>1 DEF Parts, Counted
  <2>3. CASE h = 0
    BY <1>1, <1>3, <2>2, <2>3 DEF Counted
  <2>4. CASE h # 0
    <3>1. SizeOf(Loaded + 1) > C - tx_dma_buffers_used
      BY <1>1, <1>3, <2>4 DEF Parts, Counted
    <3> QED
      BY <1>1, <1>7, <2>2, <3>1 DEF Counted
  <2> QED
    BY <2>3, <2>4
<1>14. InOrder'
  BY <1>1 DEF Parts, InOrder
<1> QED
  BY <1>9, <1>10, <1>11, <1>12, <1>13, <1>14 DEF Parts

\* load_next_tx_holding_buffer does not fit the next block: nothing but the count changes.
LEMMA NotMoved ==
  ASSUME Parts, NEW inUse, LoadNone(inUse), Taken' = Taken, UNCHANGED <<pos, sent, running>>,
         Control', Writer', Starting' = Starting,
         NumTxDmaBuffers > 1 => inUse = InRing + Eob'
  PROVE  Parts'
<1>1. /\ tx_holding_count > 0 => SizeOf(NextBlock) > C - inUse
      /\ tx_dma_buffers_used' = inUse
      /\ UNCHANGED <<tx_buffer_list, current_tx_buffer, tx_holding_buffers, get_tx_holding_index,
                     put_tx_holding_index, tx_holding_count>>
  BY DEF LoadNone, holding
<1>2. /\ Loaded' = Loaded /\ InRing' = InRing /\ Held' /\ InOrder' /\ Loaded' \in Nat
      /\ RingIs(tx_buffer_list, pos, current_tx_buffer, InRing, Len(sent))'
  BY <1>1, Kept DEF Parts
<1>3. InBuffers'
  BY <1>2, Zenon DEF InBuffers, Parts
<1>4. tx_holding_count > 0 => NextBlock = Loaded + 1
  BY HoldTake DEF Parts, Held, NextBlock
<1>5. Counted'
  BY <1>1, <1>2, <1>4 DEF Counted
<1> QED
  BY <1>2, <1>3, <1>5 DEF Parts

\* load_next_tx_holding_buffer in r56_write: only a block that was just held can fit.
LEMMA LoadParts ==
  ASSUME NumTxDmaBuffers > 1 \/ H = 0, Parts, WriteLoad, ~starved'
  PROVE  Parts'
<1>1. /\ w = "load" /\ w' = "idle" /\ accepted' = accepted + 1
      /\ UNCHANGED <<tx_active, pos, running, busy, txirq, flow, sent, eob>>
  BY DEF WriteLoad, Return, chip
<1>2. accepted \in Nat /\ accepted + 1 <= LastBlock
  BY <1>1 DEF Parts, Writer
<1>3. Taken' = Taken
  BY <1>1, <1>2 DEF Taken
<1>4. ~Starting /\ ~Starting' /\ ~Direct'
  BY <1>1 DEF Starting, Direct
<1>5. Control'
  BY <1>1, <1>4 DEF Parts, Control
<1>6. Writer' <=> (~tx_active' => xmit_cnt' = 0)
  BY <1>1, <1>2, <1>4, LastBlockNat DEF Writer
<1>7. Eob' = Eob /\ Eob \in 0 .. 1
  BY <1>1 DEF Eob
<1>8. CASE LoadNone(tx_dma_buffers_used)
  <2>1. xmit_cnt' = xmit_cnt
    BY <1>8 DEF LoadNone
  <2>2. Writer'
    BY <1>1, <1>4, <1>6, <2>1 DEF Parts, Writer
  <2>3. NumTxDmaBuffers > 1 => tx_dma_buffers_used = InRing + Eob'
    BY <1>7 DEF Parts, Counted
  <2>4. Starting' = Starting
    BY <1>1 DEF Starting
  <2> QED
    BY <1>1, <1>3, <1>5, <1>8, <2>2, <2>3, <2>4, NotMoved
<1>9. CASE LoadNext(tx_dma_buffers_used)
  <2> DEFINE h == tx_holding_count
             z == SizeOf(Loaded + 1)
             used == tx_dma_buffers_used
  <2>0. h > 0 /\ starved' = (starved \/ ~running)
    BY <1>9 DEF LoadNext, MoveBlock
  <2>1. NumTxDmaBuffers > 1 /\ h \in Nat
    BY <2>0, Numbers DEF Parts
  <2>2. used = InRing + Eob /\ InRing \in Nat /\ used \in Int /\ InRing <= used
    BY <1>7, <2>1, Numbers DEF Parts, Counted
  <2>3. running /\ tx_active
    BY <2>0, Zenon DEF Parts, Control
  <2>4. Writer'
    BY <1>1, <1>6, <2>3
  <2>5. /\ h' = h - 1 /\ Loaded + 1 \in 1 .. LastBlock /\ z <= C - used
        /\ Loaded' = Loaded + 1 /\ Loaded' \in Nat
        /\ InRing' = InRing + z /\ used' = used + z
        /\ RingIs(tx_buffer_list, pos, current_tx_buffer, InRing, Len(sent))'
        /\ Held' /\ InOrder'
    BY <1>1, <1>3, <1>9, <2>2, Moved DEF Parts
  <2>6. z \in Nat /\ C \in Nat
    BY RoomForBlock, RingSize
  <2>7. InBuffers'
    BY <1>1, <2>3, <2>5 DEF InBuffers
  <2>8. h = 1
    <3>1. z > C - used \/ h = 1
      BY <2>0 DEF Parts, Counted
    <3> HIDE DEF z, used
    <3>2. used \in Int
      BY <2>2
    <3> QED
      BY <2>5, <2>6, <3>1, <3>2
  <2>9. h' = 0
    BY <2>5, <2>8
  <2>10. used' = InRing' + Eob'
    <3> HIDE DEF z
    <3> QED
      BY <1>7, <2>2, <2>5, <2>6
  <2>11. Counted'
    BY <2>9, <2>10 DEF Counted
  <2> QED
    BY <1>5, <2>4, <2>5, <2>7, <2>11 DEF Parts
<1> QED
  BY <1>8, <1>9 DEF WriteLoad

\* r56_isr_transmit_dma: what it loads fills the ring, so that the next block cannot fit.
LEMMA DmaIsrParts ==
  ASSUME NumTxDmaBuffers > 1 \/ H = 0, Parts, IsrTransmitDma, ~starved'
  PROVE  Parts'
<1>1. /\ eob /\ eob' = FALSE
      /\ UNCHANGED <<tx_active, pos, running, busy, txirq, flow, sent, accepted, w, tmp>>
  BY DEF IsrTransmitDma, writer
<1>2. Taken' = Taken /\ Starting' = Starting /\ Direct' = Direct
  BY <1>1 DEF Taken, Starting, Direct
<1>3. Control'
  BY <1>1, <1>2 DEF Parts, Control
<1>4. Eob' = 0 /\ Eob = 1
  BY <1>1, Zenon DEF Eob
<1> DEFINE inUse == tx_dma_buffers_used - 1
<1>5. NumTxDmaBuffers > 1 => inUse = InRing + Eob' /\ inUse = InRing /\ InRing \in Nat
  <2>1. InRing \in Nat
    BY Numbers DEF Parts
  <2> QED
    BY <1>4, <2>1 DEF Parts, Counted
<1>6. CASE LoadNone(inUse)
  <2>1. xmit_cnt' = xmit_cnt /\ start_tx_dma_buffer' = start_tx_dma_buffer /\ tx_holding_count' = tx_holding_count
    BY <1>6 DEF LoadNone, holding
  <2>2. Writer'
    BY <1>1, <1>2, <2>1 DEF Parts, Writer
  <2> HIDE DEF inUse
  <2> QED
    BY <1>1, <1>2, <1>3, <1>5, <1>6, <2>2, NotMoved
<1>7. CASE LoadNext(inUse)
  <2> DEFINE h == tx_holding_count
             z == SizeOf(Loaded + 1)
             used == tx_dma_buffers_used
  <2>0. h > 0 /\ starved' = (starved \/ ~running)
    BY <1>7 DEF LoadNext, MoveBlock
  <2>1. NumTxDmaBuffers > 1 /\ h \in Nat /\ H \in Nat
    BY <2>0, Numbers DEF Parts
  <2>2. inUse = InRing /\ InRing \in Nat /\ inUse \in Int /\ InRing <= inUse /\ used = InRing + 1
    BY <1>4, <1>5, <2>1 DEF Parts, Counted
  <2>3. running /\ tx_active
    BY <2>0, Zenon DEF Parts, Control
  <2>4. ~Direct /\ ~Starting
    BY <2>3 DEF Parts, Control, Direct, Starting
  <2>5. Writer'
    BY <1>1, <1>2, <2>3, <2>4 DEF Parts, Writer
  <2>6. /\ h' = h - 1 /\ Loaded + 1 \in 1 .. LastBlock /\ z <= C - inUse
        /\ Loaded' = Loaded + 1 /\ Loaded' \in Nat
        /\ InRing' = InRing + z /\ used' = inUse + z
        /\ RingIs(tx_buffer_list, pos, current_tx_buffer, InRing, Len(sent))'
        /\ Held' /\ InOrder'
    <3> HIDE DEF inUse
    <3> QED
      BY <1>1, <1>2, <1>7, <2>2, Moved DEF Parts
  <2>7. z \in Nat /\ C \in Nat
    BY RoomForBlock, RingSize
  <2>8. InBuffers'
    BY <1>1, <2>3, <2>6 DEF InBuffers
  <2>9. used' = InRing' + Eob'
    <3> HIDE DEF z, inUse
    <3> QED
      BY <1>4, <2>2, <2>6, <2>7
  <2>10. ASSUME h' > 0 PROVE SizeOf(Loaded' + 1) > C - used'
    <3>1. h # 1
      BY <2>1, <2>6, <2>10
    <3>2. z > C - used
      BY <2>0, <3>1 DEF Parts, Counted
    <3>3. used' = C
      <4> HIDE DEF z, inUse, used
      <4> QED
        BY <2>2, <2>6, <2>7, <3>2 DEF inUse, used
    <3>4. SizeOf(Loaded' + 1) >= 1 /\ SizeOf(Loaded' + 1) \in Nat
      <4>1. Control' /\ Writer' /\ Held' /\ InBuffers'
        BY <1>3, <2>5, <2>6, <2>8
      <4>2. Taken = Loaded + h /\ Taken <= LastBlock /\ Loaded \in Nat /\ Taken \in Nat
        BY Numbers DEF Parts
      <4>3. Loaded' + 1 \in 1 .. LastBlock
        BY <2>1, <2>6, <2>10, <4>2, LastBlockNat
      <4> QED
        BY <4>3, OffFacts
    <3> DEFINE y == SizeOf(Loaded' + 1)
    <3> HIDE DEF y
    <3>5. y >= 1 /\ y \in Nat
      BY <3>4 DEF y
    <3>6. y > C - used'
      BY <2>7, <3>3, <3>5
    <3> QED
      BY <3>6 DEF y
  <2>11. Counted'
    BY <2>9, <2>10 DEF Counted
  <2> QED
    BY <1>3, <2>5, <2>6, <2>8, <2>11 DEF Parts
<1> QED
  BY <1>6, <1>7 DEF IsrTransmitDma

\* r56_load_tx_dma_buffer in r56_write: the ring and the holding buffers are empty.
LEMMA DirectParts ==
  ASSUME Parts, Shape, WriteDirect, ~raced'
  PROVE  Parts'
<1>1. w = "direct" /\ w' = "check"
  BY DEF WriteDirect, Parts, Control
<1> DEFINE b == accepted + 1
           z == SizeOf(b)
           used == tx_dma_buffers_used
<1>2. /\ LoadTxDmaBuffer(b, z) /\ used' \in Added(used, z) /\ raced' = (raced \/ used # tmp)
      /\ xmit_cnt' = z
      /\ UNCHANGED <<tx_active, pos, running, busy, txirq, flow, sent, accepted, eob, tx_holding_buffers,
                     get_tx_holding_index, put_tx_holding_index, tx_holding_count>>
  BY <1>1 DEF WriteDirect, Block, chip, holding
<1>3. accepted \in Nat /\ b <= LastBlock /\ tx_holding_count = 0
  BY <1>1 DEF Parts, Writer, Direct
<1>4. b \in 1 .. LastBlock /\ b - 1 = accepted
  BY <1>3, LastBlockNat
<1>5. ~tx_active /\ ~running
  BY <1>1 DEF Parts, Control, Direct
<1>6. InRing = 0
  BY <1>1, <1>5 DEF Parts, InBuffers, Starting
<1>7. Loaded = accepted /\ Loaded' = b
  BY <1>1, <1>2, <1>3 DEF Loaded, Taken
<1>8. z \in Nat /\ z >= 1 /\ z <= C
  BY <1>4, OffFacts, RoomForBlock
<1>9. Len(sent) + 0 = Off[b - 1] /\ Len(sent) \in Nat
  BY <1>4, <1>6, <1>7, Numbers DEF Parts
<1>10. RingIs(tx_buffer_list', pos, current_tx_buffer', 0 + z, Len(sent)) /\ Len(sent) + (0 + z) = Off[b]
  <2>1. RingIs(tx_buffer_list, pos, current_tx_buffer, InRing, Len(sent))
    BY DEF Parts, InBuffers
  <2>2. /\ tx_buffer_list' = [i \in DOMAIN tx_buffer_list |->
                               IF (i - current_tx_buffer + C) % C < SizeOf(b) THEN b ELSE tx_buffer_list[i]]
        /\ current_tx_buffer' = (current_tx_buffer + SizeOf(b)) % C
    BY <1>2 DEF LoadTxDmaBuffer
  <2>3. InRing + SizeOf(b) <= C /\ Len(sent) + InRing = Off[b - 1]
    BY <1>6, <1>8, <1>9
  <2> HIDE DEF b
  <2>4. /\ RingIs(tx_buffer_list', pos, current_tx_buffer', InRing + SizeOf(b), Len(sent))
        /\ Len(sent) + (InRing + SizeOf(b)) = Off[b]
    <3>1. b \in 1 .. LastBlock
      BY <1>4
    <3>2. /\ RingIs([i \in DOMAIN tx_buffer_list |->
                      IF (i - current_tx_buffer + C) % C < SizeOf(b) THEN b ELSE tx_buffer_list[i]],
                    pos, (current_tx_buffer + SizeOf(b)) % C, InRing + SizeOf(b), Len(sent))
          /\ Len(sent) + (InRing + SizeOf(b)) = Off[b]
      BY <2>1, <2>3, <3>1, RingLoad
    <3> QED
      BY <2>2, <3>2
  <2> QED
    BY <1>6, <2>4
<1>11. InRing' = z
  <2> DEFINE n == Len(sent)
             o == Off[b]
  <2>1. InRing' = o - n
    BY <1>2, <1>7 DEF InRing
  <2>2. n + (0 + z) = o /\ n \in Nat /\ z \in Nat
    BY <1>8, <1>9, <1>10
  <2> HIDE DEF n, o, z
  <2>3. o - n = z
    BY <2>2
  <2> QED
    BY <2>1, <2>3
<1>12. InBuffers'
  <2>1. 0 + z = z /\ b \in Nat
    BY <1>3, <1>8
  <2>2. RingIs(tx_buffer_list, pos, current_tx_buffer, InRing, Len(sent))'
    BY <1>2, <1>10, <1>11, <2>1
  <2> QED
    BY <1>1, <1>7, <2>1, <2>2 DEF InBuffers, Starting
<1>13. Held'
  <2>1. HoldIs(tx_holding_buffers, get_tx_holding_index, put_tx_holding_index, 0, Loaded + 1)
    BY <1>3 DEF Parts, Held
  <2>2. HoldIs(tx_holding_buffers, get_tx_holding_index, put_tx_holding_index, 0, b + 1)
    <3>1. b + 1 \in Nat
      BY <1>3
    <3>2. \A i \in Places(H) : ~(Dist(i, get_tx_holding_index, H) < 0)
      <4> SUFFICES ASSUME NEW i \in Places(H) PROVE ~(Dist(i, get_tx_holding_index, H) < 0)
        OBVIOUS
      <4>1. H \in Nat /\ H > 0 /\ i \in Int /\ 0 <= i /\ i < H
        BY RawAssumption DEF Places
      <4>2. get_tx_holding_index \in Places(H)
        BY <2>1, <4>1 DEF HoldIs
      <4> QED
        BY <4>1, <4>2 DEF Dist, Places
    <3> HIDE DEF b
    <3> QED
      BY <2>1, <3>1, <3>2 DEF HoldIs
  <2> QED
    BY <1>2, <1>3, <1>7, <2>2 DEF Held
<1>14. start_tx_dma_buffer' = pos
  <2>1. start_tx_dma_buffer' = current_tx_buffer
    BY <1>2 DEF LoadTxDmaBuffer
  <2>2. current_tx_buffer = Round(pos, 0, C) /\ pos \in Entries
    BY <1>6 DEF Parts, InBuffers, RingIs
  <2>3. Round(pos, 0, C) = pos
    BY <2>2, RingSize DEF Round, Entries
  <2> QED
    BY <2>1, <2>2, <2>3
<1>15. Control'
  BY <1>1, <1>2, <1>5 DEF Parts, Control
<1>16. Writer'
  <2>1. accepted' \in Nat /\ accepted' <= LastBlock /\ accepted' + 1 <= LastBlock
    BY <1>2, <1>3, LastBlockNat
  <2>2. xmit_cnt' > 0 /\ start_tx_dma_buffer' = pos'
    BY <1>2, <1>8, <1>14
  <2> QED
    BY <1>1, <1>2, <1>3, <2>1, <2>2 DEF Writer, Starting
<1>17. Counted'
  <2>1. used = tmp
    BY <1>2, Zenon
  <2>2. used' = used + z
    BY <1>2, <2>1 DEF Added
  <2>3. Eob' = Eob /\ Eob \in 0 .. 1
    BY <1>2 DEF Eob
  <2>4. NumTxDmaBuffers > 1 => used = 0 + Eob
    BY <1>6 DEF Parts, Counted
  <2>5. NumTxDmaBuffers > 1 => used' = InRing' + Eob'
    <3> HIDE DEF z, used
    <3> QED
      BY <1>8, <1>11, <2>2, <2>3, <2>4
  <2> QED
    BY <1>2, <1>3, <2>5 DEF Counted
<1>18. InOrder'
  BY <1>2 DEF Parts, InOrder
<1> QED
  BY <1>12, <1>13, <1>15, <1>16, <1>17, <1>18 DEF Parts

\* Output is not stopped.
LEMMA CheckParts ==
  ASSUME Parts, WriteCheck
  PROVE  Parts'
<1>1. /\ w = "check" /\ xmit_cnt > 0 /\ flow = "go"
  BY DEF WriteCheck, Parts, Control, Writer, Starting
<1>2. /\ w' = "start"
      /\ UNCHANGED <<tx_active, xmit_cnt, start_tx_dma_buffer, pos, running, busy, txirq, flow, accepted,
                     tx_buffer_list, current_tx_buffer, tx_holding_buffers, get_tx_holding_index,
                     put_tx_holding_index, tx_holding_count, sent, tx_dma_buffers_used, eob, tmp>>
  BY <1>1 DEF WriteCheck, Stopped, xmit, dma, holding, chip, history
<1>3. Control'
  BY <1>1, <1>2 DEF Parts, Control, Direct
<1>4. Writer'
  BY <1>1, <1>2 DEF Parts, Writer, Direct, Starting
<1>5. Taken' = Taken /\ Starting'
  BY <1>1, <1>2 DEF Taken, Starting
<1> QED
  BY <1>1, <1>2, <1>3, <1>4, <1>5, QuietParts

\* usc_start_transmitter: the channel starts at the block that was loaded.
LEMMA StartParts ==
  ASSUME Parts, WriteStart
  PROVE  Parts'
<1>1. /\ w = "start" /\ xmit_cnt > 0 /\ ~tx_active /\ start_tx_dma_buffer = pos /\ ~txirq
      /\ accepted \in Nat /\ accepted + 1 <= LastBlock /\ tx_holding_count = 0
  BY DEF WriteStart, Parts, Control, Writer, Starting, Direct
<1>2. /\ w' = "idle" /\ accepted' = accepted + 1 /\ pos' = pos
      /\ tx_active' = TRUE /\ running' = TRUE /\ busy' = TRUE /\ txirq' = FALSE
      /\ UNCHANGED <<xmit_cnt, start_tx_dma_buffer, flow,
                     tx_buffer_list, current_tx_buffer, tx_holding_buffers, get_tx_holding_index,
                     put_tx_holding_index, tx_holding_count, sent, tx_dma_buffers_used, eob, tmp>>
  BY <1>1 DEF WriteStart, StartTransmitter, Return, dma, holding, history
<1>3. Control'
  BY <1>2 DEF Parts, Control, Direct
<1>4. Writer'
  BY <1>1, <1>2, LastBlockNat DEF Writer, Direct, Starting
<1>5. Taken' = Taken
  BY <1>1, <1>2 DEF Taken
<1> QED
  BY <1>1, <1>2, <1>3, <1>4, <1>5, QuietParts

\* The channel sends the next buffer of the stream.
LEMMA SentParts ==
  ASSUME Parts, HwBufferSent, ~raced'
  PROVE  Parts'
<1>1. /\ running /\ tx_buffer_list[pos] # None
      /\ sent' = Append(sent, tx_buffer_list[pos])
      /\ tx_buffer_list' = [tx_buffer_list EXCEPT ![pos] = None]
      /\ pos' = (pos + 1) % C
      /\ eob' = (NumTxDmaBuffers > 1)
      /\ raced' = (raced \/ eob)
      /\ UNCHANGED <<tx_active, xmit_cnt, start_tx_dma_buffer, running, busy, txirq, flow, accepted, w, tmp,
                     current_tx_buffer, tx_holding_buffers, get_tx_holding_index,
                     put_tx_holding_index, tx_holding_count, tx_dma_buffers_used>>
  BY DEF HwBufferSent, xmit, holding, writer
<1>2. ~Direct /\ ~Starting /\ Direct' = Direct /\ Starting' = Starting
  BY <1>1 DEF Parts, Control, Direct, Starting
<1>3. /\ InRing \in Nat /\ Len(sent) \in Nat /\ Len(sent) + InRing = Off[Loaded] /\ Loaded \in Nat
      /\ sent \in Seq(Nat)
  BY Numbers DEF Parts, InOrder
<1>4. RingIs(tx_buffer_list, pos, current_tx_buffer, InRing, Len(sent))
  BY DEF Parts, InBuffers
<1>5. InRing >= 1
  BY <1>1, <1>4, RingFirst
<1>6. /\ tx_buffer_list[pos] = Stream[Len(sent) + 1]
      /\ RingIs([tx_buffer_list EXCEPT ![pos] = None], (pos + 1) % C, current_tx_buffer, InRing - 1, Len(sent) + 1)
  BY <1>4, <1>5, RingSent
<1>7. tx_buffer_list[pos] \in Nat
  <2>1. Len(sent) + InRing <= Off[LastBlock] /\ Stream \in Seq(Nat) /\ Len(Stream) = Off[LastBlock]
    BY <1>4, StreamFacts DEF RingIs
  <2>2. Len(Stream) \in Nat
    BY <2>1
  <2>3. Len(sent) + 1 \in 1 .. Len(Stream)
    <3> DEFINE n == Len(sent)
               l == Len(Stream)
    <3>1. n \in Nat /\ l \in Nat /\ n + InRing <= l
      BY <1>3, <2>1, <2>2
    <3> HIDE DEF n, l
    <3>2. n + 1 \in 1 .. l
      BY <1>3, <1>5, <3>1
    <3> QED
      BY <3>2 DEF n, l
  <2> QED
    BY <1>6, <2>1, <2>3, ElementOfSeq
<1>8. /\ sent' \in Seq(Nat) /\ Len(sent') = Len(sent) + 1
      /\ \A i \in 1 .. Len(sent) : sent'[i] = sent[i]
      /\ sent'[Len(sent) + 1] = tx_buffer_list[pos]
  BY <1>1, <1>3, <1>7, AppendProperties
<1>9. InOrder'
  <2> SUFFICES ASSUME NEW i \in 1 .. Len(sent') PROVE sent'[i] = Stream[i]
    BY <1>8 DEF InOrder
  <2>1. CASE i = Len(sent) + 1
    BY <1>6, <1>8, <2>1
  <2>2. CASE i # Len(sent) + 1
    <3>1. i \in 1 .. Len(sent)
      BY <1>3, <1>8, <2>2
    <3> QED
      BY <1>8, <3>1 DEF Parts, InOrder
  <2> QED
    BY <2>1, <2>2
<1>10. Loaded' = Loaded
  BY <1>1 DEF Loaded, Taken
<1>11. InRing' = InRing - 1
  <2> DEFINE n == Len(sent)
             o == Off[Loaded]
  <2>1. InRing' = o - (n + 1) /\ InRing = o - n
    BY <1>8, <1>10 DEF InRing
  <2>2. n + InRing = o /\ n \in Nat /\ InRing \in Nat
    BY <1>3
  <2> HIDE DEF n, o
  <2>3. o - (n + 1) = InRing - 1
    BY <2>2
  <2> QED
    BY <2>1, <2>3
<1>12. InBuffers'
  <2>1. RingIs(tx_buffer_list, pos, current_tx_buffer, InRing, Len(sent))'
    BY <1>1, <1>6, <1>8, <1>11
  <2> QED
    BY <1>1, <1>3, <1>10, <2>1 DEF InBuffers
<1>13. Held'
  BY <1>1, <1>10 DEF Parts, Held
<1>14. Control'
  BY <1>1, <1>2 DEF Parts, Control
<1>15. Writer'
  BY <1>1, <1>2 DEF Parts, Writer
<1>16. Counted'
  <2>1. ~eob
    BY <1>1, Zenon
  <2>2. Eob = 0
    BY <2>1, Zenon DEF Eob
  <2>3. NumTxDmaBuffers > 1 => Eob' = 1
    BY <1>1, Zenon DEF Eob
  <2>4. NumTxDmaBuffers > 1 => tx_dma_buffers_used = InRing
    BY <1>3, <2>2 DEF Parts, Counted
  <2>5. NumTxDmaBuffers > 1 => tx_dma_buffers_used' = InRing' + Eob'
    BY <1>1, <1>3, <1>11, <2>3, <2>4
  <2>6. tx_holding_count' > 0 => \/ SizeOf(Loaded' + 1) > C - tx_dma_buffers_used'
                                 \/ w' = "load" /\ tx_holding_count' = 1
    BY <1>1, <1>10 DEF Parts, Counted
  <2> QED
    BY <2>5, <2>6 DEF Counted
<1> QED
  BY <1>9, <1>12, <1>13, <1>14, <1>15, <1>16 DEF Parts

\* The channel ends its list, the transmitter runs dry and reports it, the writer is woken.
LEMMA IdleParts ==
  ASSUME Parts, HwEndOfList \/ HwUnderrun \/ IsrTransmitStatus \/ BhTransmit \/ UNCHANGED vars
  PROVE  Parts'
<1>1. /\ UNCHANGED <<start_tx_dma_buffer, pos, flow, accepted, w, tmp,
                     tx_buffer_list, current_tx_buffer, tx_holding_buffers, get_tx_holding_index,
                     put_tx_holding_index, tx_holding_count, sent, tx_dma_buffers_used, eob>>
  BY DEF HwEndOfList, HwUnderrun, IsrTransmitStatus, BhTransmit, vars, xmit, dma, holding, chip, writer, history
<1>2. Taken' = Taken /\ Direct' = Direct /\ Starting' = Starting
  BY <1>1 DEF Taken, Direct, Starting
<1>3. InRing \in Nat
  BY Numbers DEF Parts
<1>4. CASE HwEndOfList
  <2>1. running /\ tx_buffer_list[pos] = None /\ ~running' /\ UNCHANGED <<busy, txirq, tx_active, xmit_cnt>>
    BY <1>4 DEF HwEndOfList, xmit
  <2>2. RingIs(tx_buffer_list, pos, current_tx_buffer, InRing, Len(sent))
    BY DEF Parts, InBuffers
  <2>3. InRing = 0
    BY <1>3, <2>1, <2>2, RingFirst
  <2>4. Control' /\ Writer'
    BY <1>1, <1>2, <2>1, Zenon DEF Parts, Control, Writer
  <2> QED
    BY <1>1, <1>2, <2>3, <2>4, QuietParts
<1>5. CASE HwUnderrun
  <2>1. busy /\ ~running /\ ~busy' /\ UNCHANGED <<running, tx_active, xmit_cnt>>
    BY <1>5 DEF HwUnderrun, xmit
  <2>2. Control' /\ Writer'
    BY <1>1, <1>2, <2>1, Zenon DEF Parts, Control, Writer
  <2>3. ~running' => InRing = 0 \/ Starting'
    BY <1>2, <2>1, Zenon DEF Parts, InBuffers
  <2> QED
    BY <1>1, <1>2, <2>2, <2>3, QuietParts
<1>6. CASE IsrTransmitStatus
  <2>1. txirq /\ xmit_cnt' = 0 /\ ~tx_active' /\ ~txirq' /\ ~running' /\ ~busy'
    BY <1>6 DEF IsrTransmitStatus
  <2>2. ~Direct /\ ~Starting /\ ~running
    BY <2>1 DEF Parts, Control, Direct, Starting
  <2>3. InRing = 0
    BY <2>2 DEF Parts, InBuffers
  <2>4. Control' /\ Writer'
    BY <1>1, <1>2, <2>1, <2>2, Zenon DEF Parts, Control, Writer
  <2> QED
    BY <1>1, <1>2, <2>3, <2>4, QuietParts
<1>7. CASE BhTransmit \/ UNCHANGED vars
  <2>1. UNCHANGED <<running, busy, txirq, tx_active, xmit_cnt>>
    BY <1>7 DEF BhTransmit, vars, xmit, chip
  <2>2. Control' /\ Writer'
    BY <1>1, <1>2, <2>1, Zenon DEF Parts, Control, Writer
  <2>3. ~running' => InRing = 0 \/ Starting'
    BY <1>2, <2>1, Zenon DEF Parts, InBuffers
  <2> QED
    BY <1>1, <1>2, <2>2, <2>3, QuietParts
<1> QED
  BY <1>4, <1>5, <1>6, <1>7

\* Nothing is sent, loaded or held.
LEMMA StreamInit ==
  ASSUME Init
  PROVE  Parts
<1>1. Control
  BY DEF Init, Control, Direct
<1>2. Writer
  BY LastBlockNat DEF Init, Writer, Direct, Starting
<1>3. Taken = 0 /\ Loaded = 0
  BY DEF Init, Taken, Loaded
<1>4. InRing = 0 /\ Len(sent) = 0 /\ sent \in Seq(Nat)
  <2>1. sent = <<>>
    BY DEF Init
  <2>2. Len(sent) = 0 /\ sent \in Seq(Nat)
    BY <2>1
  <2>3. InRing = 0 - 0
    BY <1>3, <2>2, OffFacts, Zenon DEF InRing
  <2> QED
    BY <2>2, <2>3
<1>5. Held
  <2>1. H \in Nat
    BY RawAssumption
  <2>2. DOMAIN tx_holding_buffers = Places(H) /\ get_tx_holding_index = 0 /\ put_tx_holding_index = 0
    BY DEF Init, Places
  <2>3. H > 0 => 0 \in Places(H) /\ 0 = Round(0, 0, H)
    BY <2>1 DEF Places, Round
  <2>4. \A i \in Places(H) : ~(Dist(i, 0, H) < 0)
    BY <2>1 DEF Places, Dist
  <2>5. tx_holding_count = 0 /\ Loaded + 1 \in Nat
    BY <1>3 DEF Init
  <2> QED
    BY <2>1, <2>2, <2>3, <2>4, <2>5 DEF Held, HoldIs
<1>6. InBuffers
  <2>1. 0 \in Entries /\ C \in Nat /\ C >= 1
    BY RingSize DEF Entries
  <2>2. 0 = Round(0, 0, C)
    BY <2>1 DEF Round
  <2>3. \A i \in Entries : ~(Dist(i, 0, C) < 0)
    BY <2>1 DEF Entries, Dist
  <2>4. tx_buffer_list = [i \in Entries |-> None] /\ pos = 0 /\ current_tx_buffer = 0
    BY DEF Init, Entries
  <2>5. 0 + 0 <= Off[LastBlock]
    <3>1. Off[LastBlock] \in Nat
      BY LastBlockNat, OffFacts
    <3> QED
      BY <3>1
  <2>6. RingIs(tx_buffer_list, 0, 0, 0, 0)
    BY <2>1, <2>2, <2>3, <2>4, <2>5 DEF RingIs
  <2> QED
    BY <1>3, <1>4, <2>4, <2>6 DEF InBuffers
<1>7. InOrder
  BY <1>4 DEF InOrder
<1>8. Counted
  <2>1. Eob = 0
    BY Zenon DEF Init, Eob
  <2> QED
    BY <1>4, <2>1 DEF Init, Counted
<1> QED
  BY <1>1, <1>2, <1>5, <1>6, <1>7, <1>8 DEF Parts

\* Every step preserves the invariant, if holding buffers are used only with End of
\* Buffer interrupts.
LEMMA StreamStep ==
  ASSUME NumTxDmaBuffers > 1 \/ H = 0, StreamInv, Shape, [Next]_vars
  PROVE  StreamInv'
<1> SUFFICES ASSUME Calm' PROVE Parts'
  BY DEF StreamInv
<1>1. Parts
  BY CalmBefore DEF StreamInv
<1>2. ~raced' /\ ~starved' /\ ops' = {} /\ flow = "go"
  BY <1>1 DEF Calm, Parts, Control
<1>3. Write \/ Hw \/ IsrTransmitStatus \/ IsrTransmitDma \/ BhTransmit \/ UNCHANGED vars
  BY <1>2, CalmActions
<1>4. CASE Write
  BY <1>1, <1>2, <1>4, BeginParts, HoldParts, LoadParts, DirectParts, CheckParts, StartParts DEF Write
<1>5. CASE Hw
  BY <1>1, <1>2, <1>5, SentParts, IdleParts DEF Hw
<1>6. CASE IsrTransmitDma
  BY <1>1, <1>2, <1>6, DmaIsrParts
<1>7. CASE IsrTransmitStatus \/ BhTransmit \/ UNCHANGED vars
  BY <1>1, <1>7, IdleParts
<1> QED
  BY <1>3, <1>4, <1>5, <1>6, <1>7

\* For DMA rings of any size, blocks of any sizes and any number of holding buffers: the
\* blocks go out in the order and as often as they were written, as long as nothing but
\* the writer and the chip touches the transmitter.  The End of Buffer interrupt, which
\* empties the holding buffers, is armed only with more than one DMA buffer; without it a
\* block that is held is overtaken, so with one DMA buffer the driver must have no holding
\* buffers, as r56_allocate_device sets it up (r56_write, load_next_tx_holding_buffer,
\* r56_isr_transmit_dma).
THEOREM RawStreamInOrder ==
  ASSUME NumTxDmaBuffers > 1 \/ H = 0
  PROVE  Spec => []StreamInOrder
<1>1. Init => IInv /\ StreamInv
  BY IInvInit, StreamInit DEF StreamInv
<1>2. IInv /\ StreamInv /\ [Next]_vars => (IInv /\ StreamInv)'
  BY IInvStep, StreamStep DEF IInv
<1>3. StreamInv => StreamInOrder
  <2> SUFFICES ASSUME StreamInv, Undisturbed, ~starved PROVE IsPrefix(sent, Stream)
    BY DEF StreamInOrder
  <2>1. Parts
    BY DEF StreamInv, Calm, Undisturbed
  <2> DEFINE n == Len(sent)
  <2>2. sent \in Seq(Nat) /\ Stream \in Seq(Nat) /\ \A i \in 1 .. n : sent[i] = Stream[i]
    BY <2>1, StreamFacts DEF Parts, InOrder
  <2>3. n \in Nat /\ n <= Len(Stream) /\ Len(Stream) \in Nat
    <3>1. n + InRing <= Off[LastBlock] /\ n \in Nat /\ InRing \in Nat
      BY <2>1 DEF Parts, InBuffers, RingIs
    <3>2. Len(Stream) = Off[LastBlock] /\ Len(Stream) \in Nat
      BY <2>2, StreamFacts
    <3> HIDE DEF n
    <3> QED
      BY <3>1, <3>2
  <2> HIDE DEF n
  <2>4. \A i \in 1 .. n : sent[i] \in Nat /\ Stream[i] \in Nat
    BY <2>2, <2>3, ElementOfSeq DEF n
  <2>5. SubSeq(sent, 1, n) = SubSeq(Stream, 1, n)
    <3>1. /\ SubSeq(sent, 1, n) \in Seq(Nat) /\ Len(SubSeq(sent, 1, n)) = (IF 1 <= n THEN n - 1 + 1 ELSE 0)
          /\ \A i \in 1 .. n - 1 + 1 : SubSeq(sent, 1, n)[i] = sent[1 + i - 1]
      BY <2>3, <2>4, SubSeqProperties
    <3>2. /\ SubSeq(Stream, 1, n) \in Seq(Nat) /\ Len(SubSeq(Stream, 1, n)) = (IF 1 <= n THEN n - 1 + 1 ELSE 0)
          /\ \A i \in 1 .. n - 1 + 1 : SubSeq(Stream, 1, n)[i] = Stream[1 + i - 1]
      BY <2>3, <2>4, SubSeqProperties
    <3> DEFINE s == SubSeq(sent, 1, n)
               t == SubSeq(Stream, 1, n)
    <3>3. Len(s) = Len(t) /\ s \in Seq(Nat) /\ t \in Seq(Nat) /\ Len(s) = n
      BY <2>3, <3>1, <3>2
    <3>4. \A i \in 1 .. n : i \in 1 .. n - 1 + 1 /\ 1 + i - 1 = i
      BY <2>3
    <3>5. \A i \in 1 .. n : s[i] = t[i]
      BY <2>2, <3>1, <3>2, <3>4
    <3> HIDE DEF s, t
    <3>6. s = t
      BY <3>3, <3>5, SeqEqual
    <3> QED
      BY <3>6 DEF s, t
  <2> QED
    BY <2>3, <2>5 DEF IsPrefix, n
<1> QED
  BY <1>1, <1>2, <1>3, PTL DEF Spec
=============================================================================
