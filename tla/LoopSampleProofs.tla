------------------------- MODULE LoopSampleProofs -------------------------
(***************************************************************************)
(* LoopSample.tla for any number of secondaries, buffers of the line       *)
(* discipline, transactions and faults: a secondary that believes itself   *)
(* initialized is a client of the primary, and every answer that reaches a *)
(* secondary is that of a transaction it waits for, and the only one.      *)
(***************************************************************************)
EXTENDS LoopSample, SequenceTheorems, WellFoundedInduction, TLAPS

-----------------------------------------------------------------------------
(* Queues.                                                                 *)

\* f is in the queue; at most once; every b comes before every a.
Has(q, f) == \E i \in 1 .. Len(q) : q[i] = f
Once(q, f) == \A i, j \in 1 .. Len(q) : q[i] = f /\ q[j] = f => i = j
Before(q, b, a) == \A i, j \in 1 .. Len(q) : q[i] = a /\ q[j] = b => j < i

\* What is left of a queue that lost its head or everything, or nothing.
Less(r, q) == r = q \/ (q # <<>> /\ r = Tail(q)) \/ r = <<>>

\* A queue without its head.
LEMMA TailFacts ==
  ASSUME NEW S, NEW q \in Seq(S), q # <<>>
  PROVE  /\ Head(q) \in S /\ Tail(q) \in Seq(S) /\ Has(q, Head(q))
         /\ \A g : Has(Tail(q), g) => Has(q, g)
         /\ \A g : Once(q, g) => Once(Tail(q), g)
         /\ \A g : Once(q, g) /\ g = Head(q) => ~Has(Tail(q), g)
         /\ \A a, b : Before(q, b, a) => Before(Tail(q), b, a)
         /\ \A a, b : Before(q, b, a) /\ a = Head(q) => ~Has(q, b)
<1>1. /\ Len(q) \in Nat /\ Len(q) >= 1 /\ Head(q) = q[1] /\ Head(q) \in S
      /\ Tail(q) \in Seq(S) /\ Len(Tail(q)) = Len(q) - 1
      /\ \A i \in 1 .. Len(Tail(q)) : Tail(q)[i] = q[i + 1]
  OBVIOUS
<1> DEFINE n == Len(q)
           r == Tail(q)
           h == Head(q)
<1>2. /\ n \in Nat /\ n >= 1 /\ h = q[1] /\ Len(r) = n - 1
      /\ \A i \in 1 .. (n - 1) : r[i] = q[i + 1] /\ i + 1 \in 1 .. n
      /\ Len(q) = n
  BY <1>1
<1> HIDE DEF n, r, h
<1>3. Has(q, h)
  BY <1>2 DEF Has
<1>4. \A g : Has(r, g) => Has(q, g)
  BY <1>2 DEF Has
<1>5. \A g : Once(q, g) => Once(r, g)
  BY <1>2 DEF Once
<1>6. \A g : Once(q, g) /\ g = h => ~Has(r, g)
  BY <1>2 DEF Once, Has
<1>7. \A a, b : Before(q, b, a) => Before(r, b, a)
  BY <1>2 DEF Before
<1>8. \A a, b : Before(q, b, a) /\ a = h => ~Has(q, b)
  BY <1>2 DEF Before, Has
<1> QED
  BY <1>1, <1>3, <1>4, <1>5, <1>6, <1>7, <1>8 DEF r, h

\* A queue with one more at the end.
LEMMA AppendFacts ==
  ASSUME NEW S, NEW q \in Seq(S), NEW f \in S
  PROVE  /\ Append(q, f) \in Seq(S)
         /\ \A g : Has(Append(q, f), g) <=> Has(q, g) \/ g = f
         /\ \A g : Once(q, g) /\ (g = f => ~Has(q, g)) => Once(Append(q, f), g)
         /\ \A a, b : Before(q, b, a) /\ (b = f => b # a /\ ~Has(q, a)) => Before(Append(q, f), b, a)
<1> DEFINE n == Len(q)
           r == Append(q, f)
<1>1. r \in Seq(S) /\ Len(r) = Len(q) + 1 /\ r[Len(q) + 1] = f /\ \A i \in 1 .. Len(q) : r[i] = q[i]
  OBVIOUS
<1>2. /\ n \in Nat /\ Len(q) = n /\ Len(r) = n + 1 /\ r[n + 1] = f /\ \A i \in 1 .. n : r[i] = q[i] /\ i \in 1 .. (n + 1)
      /\ \A i \in 1 .. (n + 1) : i \in 1 .. n \/ i = n + 1
      /\ n + 1 \in 1 .. (n + 1)
  BY <1>1
<1> HIDE DEF n, r
<1>3. \A g : Has(r, g) <=> Has(q, g) \/ g = f
  BY <1>2 DEF Has
<1>4. \A g : Once(q, g) /\ (g = f => ~Has(q, g)) => Once(r, g)
  BY <1>2 DEF Once, Has
<1>5. ASSUME NEW a, NEW b, Before(q, b, a), b = f => b # a /\ ~Has(q, a) PROVE Before(r, b, a)
  <2> SUFFICES ASSUME NEW i \in 1 .. (n + 1), NEW j \in 1 .. (n + 1), r[i] = a, r[j] = b PROVE j < i
    BY <1>2 DEF Before
  <2>1. CASE j = n + 1
    BY <1>2, <1>5, <2>1 DEF Has
  <2>2. CASE j \in 1 .. n /\ i = n + 1
    BY <1>2, <2>2
  <2>3. CASE j \in 1 .. n /\ i \in 1 .. n
    BY <1>2, <1>5, <2>3 DEF Before
  <2> QED
    BY <1>2, <2>1, <2>2, <2>3
<1> QED
  BY <1>1, <1>3, <1>4, <1>5 DEF r

\* Nothing is in an empty queue.
LEMMA EmptyFacts ==
  /\ \A S : <<>> \in Seq(S)
  /\ \A g : ~Has(<<>>, g) /\ Once(<<>>, g)
  /\ \A a, b : Before(<<>>, b, a)
<1>1. Len(<<>>) = 0 /\ \A i : i \notin 1 .. 0
  OBVIOUS
<1>2. \A S : <<>> \in Seq(S)
  OBVIOUS
<1> QED
  BY <1>1, <1>2 DEF Has, Once, Before

\* A queue that got shorter.
LEMMA LessFacts ==
  ASSUME NEW S, NEW q \in Seq(S), NEW r, Less(r, q)
  PROVE  /\ r \in Seq(S)
         /\ \A g : Has(r, g) => Has(q, g)
         /\ \A g : Once(q, g) => Once(r, g)
         /\ \A a, b : Before(q, b, a) => Before(r, b, a)
<1>1. CASE r = q
  BY <1>1
<1>2. CASE q # <<>> /\ r = Tail(q)
  BY <1>2, TailFacts
<1>3. CASE r = <<>>
  BY <1>3, EmptyFacts, Zenon
<1> QED
  BY <1>1, <1>2, <1>3 DEF Less

\* ReconcileTransaction takes away at most the number it is given.
LEMMA RemoveFacts ==
  ASSUME NEW q \in Seq(Nat), NEW k
  PROVE  /\ RemoveFirst(q, k) \in Seq(Nat)
         /\ \A j \in Range(q) : j # k => j \in Range(RemoveFirst(q, k))
         /\ Range(RemoveFirst(q, k)) \subseteq Range(q)
<1>1. CASE ~\E i \in 1 .. Len(q) : q[i] = k
  BY <1>1 DEF RemoveFirst
<1>2. CASE \E i \in 1 .. Len(q) : q[i] = k
  <2> DEFINE I == {i \in 1 .. Len(q) : q[i] = k}
             m == SelectInSeq(q, LAMBDA v : v = k)
             a == SubSeq(q, 1, m - 1)
             b == SubSeq(q, m + 1, Len(q))
             R == OpToRel(<, Nat)
  <2>1. I # {} /\ I \subseteq Nat
    BY <1>2
  <2>2. IsWellFoundedOn(R, Nat)
    BY NatLessThanWellFounded
  <2>3. \A i, j \in Nat : <<i, j>> \in R <=> i < j
    BY DEF OpToRel
  <2> HIDE DEF R
  <2>4. PICK x \in I : \A j \in I : ~(<<j, x>> \in R)
    BY <2>1, <2>2, WFMin
  <2>5. x \in I /\ \A y \in I : x <= y
    <3> HIDE DEF I
    <3>1. \A y \in I : x \in Nat /\ y \in Nat /\ ~(y < x)
      BY <2>1, <2>3, <2>4
    <3>2. \A y \in I : x <= y
      BY <3>1
    <3> QED
      BY <2>4, <3>2
  <2>6. Min(I) \in I
    BY <2>5, Zenon DEF Min
  <2>7. m = Min(I)
    BY <2>1, Zenon DEF SelectInSeq
  <2>8. m \in 1 .. Len(q) /\ q[m] = k
    BY <2>6, <2>7
  <2>9. RemoveFirst(q, k) = a \o b
    BY <1>2, Zenon DEF RemoveFirst, RemoveAt
  <2> HIDE DEF I, m
  <2>10. /\ a \in Seq(Nat) /\ Len(a) = m - 1 /\ \A i \in 1 .. m - 1 : a[i] = q[i]
         /\ b \in Seq(Nat) /\ Len(b) = Len(q) - m /\ \A i \in 1 .. (Len(q) - m) : b[i] = q[m + i]
    BY <2>8
  <2> HIDE DEF a, b
  <2>11. /\ a \o b \in Seq(Nat) /\ Len(a \o b) = Len(a) + Len(b)
         /\ \A i \in 1 .. Len(a) + Len(b) : (a \o b)[i] = IF i <= Len(a) THEN a[i] ELSE b[i - Len(a)]
    BY <2>10, ConcatProperties
  <2> DEFINE c == a \o b
             n == Len(q)
  <2>12. /\ c \in Seq(Nat) /\ n \in Nat /\ m \in 1 .. n /\ DOMAIN c = 1 .. n - 1 /\ DOMAIN q = 1 .. n
         /\ \A i \in 1 .. n - 1 : c[i] = IF i <= m - 1 THEN q[i] ELSE q[i + 1]
    <3>1. c \in Seq(Nat) /\ n \in Nat /\ m \in 1 .. n /\ Len(c) = n - 1 /\ DOMAIN q = 1 .. n
      BY <2>8, <2>10, <2>11
    <3>2. DOMAIN c = 1 .. n - 1
      BY <3>1
    <3>3. ASSUME NEW i \in 1 .. n - 1 PROVE c[i] = IF i <= m - 1 THEN q[i] ELSE q[i + 1]
      <4>1. i \in 1 .. Len(a) + Len(b) /\ Len(a) = m - 1
        BY <2>10, <3>1
      <4>2. c[i] = IF i <= m - 1 THEN a[i] ELSE b[i - (m - 1)]
        BY <2>11, <4>1
      <4>3. CASE i <= m - 1
        BY <2>10, <3>1, <4>2, <4>3
      <4>4. CASE ~(i <= m - 1)
        <5>1. i - (m - 1) \in 1 .. (Len(q) - m) /\ m + (i - (m - 1)) = i + 1
          BY <3>1, <4>4
        <5> QED
          BY <2>10, <4>2, <4>4, <5>1
      <4> QED
        BY <4>3, <4>4
    <3> QED
      BY <3>1, <3>2, <3>3
  <2> HIDE DEF c, n
  <2>13. ASSUME NEW j \in Range(q), j # k PROVE j \in Range(c)
    <3>1. PICK i \in 1 .. n : q[i] = j
      BY <2>12 DEF Range
    <3>2. i # m
      BY <2>8, <2>13, <3>1
    <3>3. CASE i < m
      <4>1. i \in 1 .. n - 1 /\ c[i] = j
        BY <2>12, <3>1, <3>3
      <4> QED
        BY <2>12, <4>1 DEF Range
    <3>4. CASE i > m
      <4>1. i - 1 \in 1 .. n - 1 /\ c[i - 1] = j
        BY <2>12, <3>1, <3>4
      <4> QED
        BY <2>12, <4>1 DEF Range
    <3> QED
      BY <2>12, <3>1, <3>2, <3>3, <3>4
  <2>14. ASSUME NEW j \in Range(c) PROVE j \in Range(q)
    <3>1. PICK i \in 1 .. n - 1 : c[i] = j
      BY <2>12 DEF Range
    <3>2. i \in 1 .. n /\ i + 1 \in 1 .. n
      BY <2>12, <3>1
    <3>3. c[i] = q[i] \/ c[i] = q[i + 1]
      BY <2>12, <3>1, Zenon
    <3>4. q[i] \in Range(q) /\ q[i + 1] \in Range(q)
      BY <2>12, <3>2 DEF Range
    <3> QED
      BY <3>1, <3>3, <3>4
  <2> QED
    BY <2>9, <2>12, <2>13, <2>14 DEF c
<1> QED
  BY <1>1, <1>2

-----------------------------------------------------------------------------
(* Frames.                                                                 *)

\* The information frames.
Req(s, k) == Info(s, TRUE, k)
Ans(s, k) == Info(s, FALSE, k)

\* What is on its way: from a secondary, to it, to the primary, and what the
\* primary has still to answer.
FromSec(s) == {SIMRequest(s), PollResponse(s), DiscResponse(s)} \cup {Req(s, k) : k \in Nat}
ToSec(s) == {GeneralPoll, DiscRequest, SIMResponse(s)} \cup {Ans(s, k) : k \in Nat}
ToPrimary == {SIMRequest(s) : s \in Sec} \cup {DiscResponse(s) : s \in Sec}
               \cup {Req(s, k) : s \in Sec, k \in Nat} \cup {Ans(s, k) : s \in Sec, k \in Nat}
ToAnswer == {Req(s, k) : s \in Sec, k \in Nat}

\* The fields of the frames.
LEMMA Fields ==
  /\ GeneralPoll.addr = ALL /\ GeneralPoll.ctrl = "RR" /\ GeneralPoll.size = 2
  /\ DiscRequest.addr = ALL /\ DiscRequest.ctrl = "DISC" /\ DiscRequest.size = 2
  /\ \A s : /\ SIMResponse(s).addr = s /\ SIMResponse(s).ctrl = "SIM" /\ SIMResponse(s).size = 3
            /\ SIMRequest(s).addr = s /\ SIMRequest(s).ctrl = "SIM" /\ SIMRequest(s).size = 2
            /\ PollResponse(s).addr = s /\ PollResponse(s).ctrl = "RR" /\ PollResponse(s).size = 2
            /\ DiscResponse(s).addr = s /\ DiscResponse(s).ctrl = "DISC" /\ DiscResponse(s).size = 2
  /\ \A s, k : /\ Req(s, k).addr = s /\ Req(s, k).ctrl = "I"
               /\ Req(s, k).size = 4 /\ Req(s, k).n = k
               /\ Ans(s, k).addr = s /\ Ans(s, k).ctrl = "I"
               /\ Ans(s, k).size = 4 /\ Ans(s, k).n = k
  /\ \A s, k : Req(s, k).request /\ ~Ans(s, k).request
BY DEF GeneralPoll, DiscRequest, SIMResponse, SIMRequest, PollResponse, DiscResponse, Req, Ans, Info, Ctrl

\* The primary and the broadcast address are no secondary's.
LEMMA Addresses ==
  /\ \A s \in Sec : s # ALL /\ s # Primary /\ s \in Stations
  /\ Primary \in Stations
  /\ \A t \in Stations : t = Primary \/ t \in Sec
BY LoopAssumption DEF Sec, Stations, ALL, Primary

\* Control frames that are not the same.
LEMMA Apart ==
  ASSUME NEW s \in Sec, NEW t \in Sec
  PROVE  /\ SIMResponse(s) # GeneralPoll /\ SIMResponse(s) # DiscRequest
         /\ DiscRequest # GeneralPoll
         /\ DiscResponse(s) # SIMRequest(t) /\ DiscResponse(s) # PollResponse(t)
         /\ s # t => DiscResponse(s) # DiscResponse(t)
         /\ s # t => SIMResponse(s) # SIMResponse(t)
  BY Fields

\* Information frames are not control frames, and differ by what they carry.
LEMMA InfoApart ==
  ASSUME NEW s \in Sec, NEW t \in Sec, NEW k \in Nat, NEW j \in Nat
  PROVE  /\ Req(s, k) # SIMRequest(t) /\ Req(s, k) # PollResponse(t) /\ Req(s, k) # DiscResponse(t)
         /\ Ans(s, k) # GeneralPoll /\ Ans(s, k) # DiscRequest /\ Ans(s, k) # SIMResponse(t)
         /\ Ans(s, k) # DiscResponse(t)
         /\ Req(s, k) # Ans(t, j)
         /\ Req(s, k) = Req(t, j) => s = t /\ k = j
         /\ Ans(s, k) = Ans(t, j) => s = t /\ k = j
<1>1. Req(s, k) # Ans(t, j)
  <2>1. Req(s, k).request /\ ~Ans(t, j).request
    BY Fields, Zenon
  <2> QED
    BY <2>1, Zenon
<1> QED
  BY <1>1, Fields

\* Where a frame the primary sends can arrive.
LEMMA FromPrimary ==
  ASSUME NEW box, NEW f
  PROVE  /\ DOMAIN Delivered(box, Primary, f) = Stations
         /\ \A t \in Sec : \/ Delivered(box, Primary, f)[t] = box[t]
                           \/ f.addr \in {t, ALL} /\ Delivered(box, Primary, f)[t] = Append(box[t], f)
         /\ \/ Delivered(box, Primary, f)[Primary] = box[Primary]
            \/ ~PassedOver(f) /\ Delivered(box, Primary, f)[Primary] = Append(box[Primary], f)
<1> DEFINE H == Hears(Primary, f)
<1>1. \A t \in Sec : t \in H => f.addr \in {t, ALL}
  BY Addresses DEF Hears
<1>2. Primary \in H => ~PassedOver(f)
  BY Addresses DEF Hears
<1>3. Delivered(box, Primary, f) = [t \in Stations |-> IF t \in H THEN Append(box[t], f) ELSE box[t]]
  BY DEF Delivered
<1> HIDE DEF H
<1> QED
  BY <1>1, <1>2, <1>3, Addresses

\* A secondary's frame can arrive at the primary only.
LEMMA FromSecondary ==
  ASSUME NEW box, NEW s \in Sec, NEW f, f.addr = s
  PROVE  /\ DOMAIN Delivered(box, s, f) = Stations
         /\ \A t \in Sec : Delivered(box, s, f)[t] = box[t]
         /\ \/ Delivered(box, s, f)[Primary] = box[Primary]
            \/ ~PassedOver(f) /\ Delivered(box, s, f)[Primary] = Append(box[Primary], f)
<1> DEFINE H == Hears(s, f)
<1>1. \A t \in Sec : t > s => t # s
  BY LoopAssumption DEF Sec
<1>2. \A t \in Sec : t \notin H
  BY <1>1, Addresses DEF Hears
<1>3. Primary \in H => ~PassedOver(f)
  BY Addresses DEF Hears
<1>4. Delivered(box, s, f) = [t \in Stations |-> IF t \in H THEN Append(box[t], f) ELSE box[t]]
  BY DEF Delivered
<1> HIDE DEF H
<1> QED
  BY <1>2, <1>3, <1>4, Addresses

\* What the primary's program does not pass over.
LEMMA Kinds ==
  /\ PassedOver(GeneralPoll) /\ PassedOver(DiscRequest)
  /\ \A s \in Sec : PassedOver(SIMResponse(s)) /\ PassedOver(PollResponse(s))
BY Fields DEF PassedOver

-----------------------------------------------------------------------------
(* The invariant.                                                          *)

Shape ==
  /\ DOMAIN inbox = Stations /\ DOMAIN txList = Sec /\ DOMAIN bInitialized = Sec /\ DOMAIN pc = Sec
  /\ queued \in [Sec -> Seq(Nat)] /\ pending \in [Sec -> Seq(Nat)] /\ created \in [Sec -> Nat]

Frames ==
  /\ \A s \in Sec : inbox[s] \in Seq(ToSec(s)) /\ txList[s] \in Seq(FromSec(s))
  /\ inbox[Primary] \in Seq(ToPrimary)
  /\ requests \in Seq(ToAnswer)

\* The primary is disconnecting or off line.
Ending == mode \in {"disc", "off"}

\* s has been told that it is a client; s is taking its leave.
Welcome(s) == bInitialized[s] \/ Has(inbox[s], SIMResponse(s))
Goodbye(s) == Has(txList[s], DiscResponse(s)) \/ Has(inbox[Primary], DiscResponse(s))

Member(s) ==
  /\ Welcome(s) => s \in clients /\ ~Goodbye(s)
  /\ Goodbye(s) \/ Has(inbox[s], DiscRequest) => Ending
  /\ Before(inbox[s], SIMResponse(s), DiscRequest)

\* Transaction k of s: asked for and not sent yet, at the primary, noted by it,
\* answered.
Asked(s, k) == Has(txList[s], Req(s, k))
Heard(s, k) == Has(inbox[Primary], Req(s, k))
Noted(s, k) == Has(requests, Req(s, k))
Answered(s, k) == Has(inbox[s], Ans(s, k))
Underway(s, k) == Asked(s, k) \/ Heard(s, k) \/ Noted(s, k) \/ Answered(s, k)

\* It is in one of these places, and there once.
OnePlace(s, k) ==
  /\ Asked(s, k) => ~Heard(s, k) /\ ~Noted(s, k) /\ ~Answered(s, k)
  /\ Heard(s, k) => ~Noted(s, k) /\ ~Answered(s, k)
  /\ Noted(s, k) => ~Answered(s, k)
OneFrame(s, k) ==
  /\ Once(txList[s], Req(s, k)) /\ Once(inbox[Primary], Req(s, k))
  /\ Once(requests, Req(s, k)) /\ Once(inbox[s], Ans(s, k))

Known(s, k) ==
  /\ Underway(s, k) => k \in Range(pending[s]) /\ k \notin Range(queued[s])
  /\ k \in Range(pending[s]) \/ k \in Range(queued[s]) => k <= created[s]

Match(s) == \A k \in Nat : OnePlace(s, k) /\ OneFrame(s, k) /\ Known(s, k)

Membership == \A s \in Sec : Member(s)
Matching == \A s \in Sec : Match(s)
Responding == \A s \in Sec : pc[s] = "respond" => queued[s] # <<>>

IInv == Shape /\ Frames /\ Membership /\ Matching /\ Responding

-----------------------------------------------------------------------------
(* Steps that change little.                                               *)

\* A queue that lost frames, or gained one of D.
Dull(r, q, D) == Less(r, q) \/ \E f \in D : r = Append(q, f)

\* It holds no other frame than before, and in the same order.
LEMMA DullFacts ==
  ASSUME NEW S, NEW q \in Seq(S), NEW D \in SUBSET S, NEW r, Dull(r, q, D)
  PROVE  /\ r \in Seq(S)
         /\ \A g : g \notin D => (Has(r, g) => Has(q, g))
         /\ \A g : g \notin D => (Once(q, g) => Once(r, g))
         /\ \A a, b : b \notin D => (Before(q, b, a) => Before(r, b, a))
<1>1. CASE Less(r, q)
  BY <1>1, LessFacts
<1>2. CASE \E f \in D : r = Append(q, f)
  <2>1. PICK f \in D : r = Append(q, f)
    BY <1>2
  <2> QED
    BY <2>1, AppendFacts
<1> QED
  BY <1>1, <1>2 DEF Dull

\* s is as much a member as it was.
LEMMA MemberKept ==
  ASSUME NEW s \in Sec, Member(s),
         Has(inbox'[s], SIMResponse(s)) => Has(inbox[s], SIMResponse(s)),
         Has(inbox'[s], DiscRequest) => Has(inbox[s], DiscRequest),
         Has(txList'[s], DiscResponse(s)) => Has(txList[s], DiscResponse(s)),
         Has(inbox'[Primary], DiscResponse(s)) => Goodbye(s),
         Before(inbox[s], SIMResponse(s), DiscRequest) => Before(inbox'[s], SIMResponse(s), DiscRequest),
         bInitialized'[s] => Welcome(s),
         Welcome(s) /\ s \in clients => s \in clients',
         Ending => Ending'
  PROVE  Member(s)'
BY Zenon DEF Member, Welcome, Goodbye, Ending

\* The transactions of s are where they were, or gone.
LEMMA MatchKept ==
  ASSUME NEW s \in Sec, Match(s),
         \A k \in Nat : /\ Has(txList'[s], Req(s, k)) => Has(txList[s], Req(s, k))
                        /\ Has(inbox'[Primary], Req(s, k)) => Has(inbox[Primary], Req(s, k))
                        /\ Has(requests', Req(s, k)) => Has(requests, Req(s, k))
                        /\ Has(inbox'[s], Ans(s, k)) => Has(inbox[s], Ans(s, k)),
         \A k \in Nat : /\ Once(txList[s], Req(s, k)) => Once(txList'[s], Req(s, k))
                        /\ Once(inbox[Primary], Req(s, k)) => Once(inbox'[Primary], Req(s, k))
                        /\ Once(requests, Req(s, k)) => Once(requests', Req(s, k))
                        /\ Once(inbox[s], Ans(s, k)) => Once(inbox'[s], Ans(s, k)),
         queued'[s] = queued[s], pending'[s] = pending[s], created'[s] = created[s]
  PROVE  Match(s)'
<1> SUFFICES ASSUME NEW k \in Nat PROVE OnePlace(s, k)' /\ OneFrame(s, k)' /\ Known(s, k)'
  BY DEF Match
<1>1. OnePlace(s, k) /\ OneFrame(s, k) /\ Known(s, k)
  BY DEF Match
<1>2. OnePlace(s, k)'
  BY <1>1 DEF OnePlace, Asked, Heard, Noted, Answered
<1>3. OneFrame(s, k)'
  BY <1>1 DEF OneFrame
<1>4. Known(s, k)'
  BY <1>1 DEF Known, Underway, Asked, Heard, Noted, Answered
<1> QED
  BY <1>2, <1>3, <1>4

\* Frames nobody keeps account of.
Idle(s) == {SIMRequest(s), PollResponse(s)}
Noise == {SIMRequest(s) : s \in Sec} \cup {Ans(s, k) : s \in Sec, k \in Nat}

\* They are frames the queues may hold, and none of those that matter.
LEMMA NoiseFacts ==
  ASSUME NEW s \in Sec
  PROVE  /\ {GeneralPoll} \subseteq ToSec(s) /\ SIMResponse(s) \notin {GeneralPoll} /\ DiscRequest \notin {GeneralPoll}
         /\ Idle(s) \subseteq FromSec(s) /\ DiscResponse(s) \notin Idle(s)
         /\ Noise \subseteq ToPrimary /\ DiscResponse(s) \notin Noise
         /\ \A k \in Nat : Ans(s, k) \notin {GeneralPoll} /\ Req(s, k) \notin Idle(s) /\ Req(s, k) \notin Noise
<1>1. Idle(s) \subseteq FromSec(s) /\ {GeneralPoll} \subseteq ToSec(s)
  BY DEF Idle, FromSec, ToSec
<1>0. Noise \subseteq ToPrimary
  BY DEF Noise, ToPrimary
<1>2. SIMResponse(s) \notin {GeneralPoll} /\ DiscRequest \notin {GeneralPoll} /\ DiscResponse(s) \notin Idle(s)
  BY Apart DEF Idle
<1>3. DiscResponse(s) \notin Noise
  BY Apart, InfoApart DEF Noise
<1>4. ASSUME NEW k \in Nat PROVE Ans(s, k) \notin {GeneralPoll} /\ Req(s, k) \notin Idle(s) /\ Req(s, k) \notin Noise
  BY InfoApart DEF Idle, Noise
<1> QED
  BY <1>1, <1>0, <1>2, <1>3, <1>4

\* A step that at most takes frames away and sends such frames.
QuietQueues ==
  /\ DOMAIN inbox' = Stations /\ DOMAIN txList' = Sec
  /\ \A s \in Sec : Dull(inbox'[s], inbox[s], {GeneralPoll})
  /\ \A s \in Sec : Dull(txList'[s], txList[s], Idle(s))
  /\ Dull(inbox'[Primary], inbox[Primary], Noise)
  /\ Less(requests', requests)

QuietRest ==
  /\ UNCHANGED <<queued, pending, created>>
  /\ DOMAIN bInitialized' = Sec /\ DOMAIN pc' = Sec
  /\ \A s \in Sec : pc'[s] = "respond" => queued[s] # <<>>
  /\ \A s \in Sec : bInitialized'[s] => Welcome(s)
  /\ \A s \in Sec : Welcome(s) /\ s \in clients => s \in clients'
  /\ Ending => Ending'

\* Such a step keeps the invariant.
LEMMA Quiet ==
  ASSUME IInv, QuietQueues, QuietRest
  PROVE  IInv'
<1> USE DEF IInv
<1>1. ASSUME NEW s \in Sec
      PROVE  /\ inbox'[s] \in Seq(ToSec(s))
             /\ \A g : g \notin {GeneralPoll} => (Has(inbox'[s], g) => Has(inbox[s], g))
             /\ \A g : g \notin {GeneralPoll} => (Once(inbox[s], g) => Once(inbox'[s], g))
             /\ \A a, b : b \notin {GeneralPoll} => (Before(inbox[s], b, a) => Before(inbox'[s], b, a))
  <2>1. inbox[s] \in Seq(ToSec(s)) /\ {GeneralPoll} \in SUBSET ToSec(s) /\ Dull(inbox'[s], inbox[s], {GeneralPoll})
    BY <1>1, NoiseFacts, Zenon DEF QuietQueues, Frames
  <2> QED
    BY <2>1, DullFacts, Zenon
<1>2. ASSUME NEW s \in Sec
      PROVE  /\ txList'[s] \in Seq(FromSec(s))
             /\ \A g : g \notin Idle(s) => (Has(txList'[s], g) => Has(txList[s], g))
             /\ \A g : g \notin Idle(s) => (Once(txList[s], g) => Once(txList'[s], g))
  <2>1. txList[s] \in Seq(FromSec(s)) /\ Idle(s) \in SUBSET FromSec(s) /\ Dull(txList'[s], txList[s], Idle(s))
    BY <1>2, NoiseFacts, Zenon DEF QuietQueues, Frames
  <2> QED
    BY <2>1, DullFacts, Zenon
<1>3. \E s : s \in Sec
  BY LoopAssumption DEF Sec
<1>4. /\ inbox'[Primary] \in Seq(ToPrimary)
      /\ \A g : g \notin Noise => (Has(inbox'[Primary], g) => Has(inbox[Primary], g))
      /\ \A g : g \notin Noise => (Once(inbox[Primary], g) => Once(inbox'[Primary], g))
  BY <1>3, NoiseFacts, DullFacts, Zenon DEF QuietQueues, Frames
<1>5. /\ requests' \in Seq(ToAnswer)
      /\ \A g : Has(requests', g) => Has(requests, g)
      /\ \A g : Once(requests, g) => Once(requests', g)
  BY LessFacts, Zenon DEF QuietQueues, Frames
<1>6. Shape'
  BY DEF Shape, QuietQueues, QuietRest
<1>7. Frames'
  BY <1>1, <1>2, <1>4, <1>5 DEF Frames
<1>8. ASSUME NEW s \in Sec PROVE Member(s)'
  <2>1. Member(s)
    BY DEF Membership
  <2>2. /\ Has(inbox'[s], SIMResponse(s)) => Has(inbox[s], SIMResponse(s))
        /\ Has(inbox'[s], DiscRequest) => Has(inbox[s], DiscRequest)
        /\ Has(txList'[s], DiscResponse(s)) => Has(txList[s], DiscResponse(s))
        /\ Has(inbox'[Primary], DiscResponse(s)) => Goodbye(s)
        /\ Before(inbox[s], SIMResponse(s), DiscRequest) => Before(inbox'[s], SIMResponse(s), DiscRequest)
    BY <1>1, <1>2, <1>4, NoiseFacts, Zenon DEF Goodbye
  <2>3. (bInitialized'[s] => Welcome(s)) /\ (Welcome(s) /\ s \in clients => s \in clients') /\ (Ending => Ending')
    BY Zenon DEF QuietRest
  <2> QED
    BY <2>1, <2>2, <2>3, MemberKept, Zenon
<1>9. ASSUME NEW s \in Sec PROVE Match(s)'
  <2>1. Match(s)
    BY DEF Matching
  <2>2. ASSUME NEW k \in Nat
        PROVE  /\ Has(txList'[s], Req(s, k)) => Has(txList[s], Req(s, k))
               /\ Has(inbox'[Primary], Req(s, k)) => Has(inbox[Primary], Req(s, k))
               /\ Has(requests', Req(s, k)) => Has(requests, Req(s, k))
               /\ Has(inbox'[s], Ans(s, k)) => Has(inbox[s], Ans(s, k))
    BY <1>1, <1>2, <1>4, <1>5, NoiseFacts, Zenon
  <2>3. ASSUME NEW k \in Nat
        PROVE  /\ Once(txList[s], Req(s, k)) => Once(txList'[s], Req(s, k))
               /\ Once(inbox[Primary], Req(s, k)) => Once(inbox'[Primary], Req(s, k))
               /\ Once(requests, Req(s, k)) => Once(requests', Req(s, k))
               /\ Once(inbox[s], Ans(s, k)) => Once(inbox'[s], Ans(s, k))
    BY <1>1, <1>2, <1>4, <1>5, NoiseFacts, Zenon
  <2>4. queued'[s] = queued[s] /\ pending'[s] = pending[s] /\ created'[s] = created[s]
    BY DEF QuietRest
  <2> QED
    BY <2>1, <2>2, <2>3, <2>4, MatchKept
<1>10. Responding'
  BY DEF Responding, QuietRest
<1> QED
  BY <1>6, <1>7, <1>8, <1>9, <1>10 DEF Membership, Matching

\* Changes of a queue that bring nothing.
LEMMA Still ==
  ASSUME NEW q, NEW D
  PROVE  /\ Less(q, q) /\ Dull(q, q, D) /\ Dull(<<>>, q, D)
         /\ q # <<>> => Less(Tail(q), q) /\ Dull(Tail(q), q, D)
         /\ \A f \in D : Dull(Append(q, f), q, D)
BY Zenon DEF Less, Dull

\* The queues of a step that leaves all of them alone.
LEMMA QueuesStay ==
  ASSUME IInv, UNCHANGED <<inbox, txList, requests>>
  PROVE  QuietQueues
BY Still, Zenon DEF QuietQueues, IInv, Shape

\* The queues of a step in which the primary polls.
LEMMA QueuesPoll ==
  ASSUME IInv, inbox' = Delivered(inbox, Primary, GeneralPoll), UNCHANGED <<txList, requests>>
  PROVE  QuietQueues
<1>1. /\ DOMAIN inbox' = Stations
      /\ \A t \in Sec : inbox'[t] = inbox[t] \/ inbox'[t] = Append(inbox[t], GeneralPoll)
      /\ inbox'[Primary] = inbox[Primary]
  BY FromPrimary, Kinds, Zenon
<1>2. ASSUME NEW s \in Sec PROVE Dull(inbox'[s], inbox[s], {GeneralPoll})
  <2>1. GeneralPoll \in {GeneralPoll}
    OBVIOUS
  <2> QED
    BY <1>1, <2>1, Still, Zenon
<1> QED
  BY <1>1, <1>2, Still, Zenon DEF QuietQueues, IInv, Shape

\* The queues of a step that takes a frame from t's.
LEMMA QueuesTake ==
  ASSUME IInv, NEW t \in Stations, Take(t), inbox' = Rest(t), UNCHANGED <<txList, requests>>
  PROVE  QuietQueues
<1>1. DOMAIN inbox' = Stations /\ \A u \in Stations : inbox'[u] = inbox[u] \/ (inbox[u] # <<>> /\ inbox'[u] = Tail(inbox[u]))
  BY DEF IInv, Shape, Take, Rest
<1>2. \A u \in Stations : \A D : Dull(inbox'[u], inbox[u], D)
  BY <1>1, Still, Zenon
<1> QED
  BY <1>1, <1>2, Still, Addresses, Zenon DEF QuietQueues, IInv, Shape

\* The queues of a step that empties t's.
LEMMA QueuesClear ==
  ASSUME IInv, NEW t \in Stations, inbox' = [inbox EXCEPT ![t] = <<>>], UNCHANGED <<txList, requests>>
  PROVE  QuietQueues
<1>1. DOMAIN inbox' = Stations /\ \A u \in Stations : inbox'[u] = inbox[u] \/ inbox'[u] = <<>>
  BY DEF IInv, Shape
<1>2. \A u \in Stations : \A D : Dull(inbox'[u], inbox[u], D)
  BY <1>1, Still, Zenon
<1> QED
  BY <1>1, <1>2, Still, Addresses, Zenon DEF QuietQueues, IInv, Shape

\* The programs' own state in a step of the primary.
LEMMA RestStays ==
  ASSUME IInv, UNCHANGED secondary, Ending => Ending',
         \A s \in Sec : Welcome(s) /\ s \in clients => s \in clients'
  PROVE  QuietRest
<1>1. UNCHANGED <<queued, pending, created, bInitialized, pc>>
  BY DEF secondary
<1>2. \A s \in Sec : bInitialized'[s] => Welcome(s)
  BY <1>1, Zenon DEF Welcome
<1>3. \A s \in Sec : pc'[s] = "respond" => queued[s] # <<>>
  BY <1>1 DEF IInv, Responding
<1>4. DOMAIN bInitialized' = Sec /\ DOMAIN pc' = Sec
  BY <1>1 DEF IInv, Shape
<1> QED
  BY <1>1, <1>2, <1>3, <1>4, Zenon DEF QuietRest

\* SendGeneralPoll, whether or not it succeeds.
LEMMA Poll ==
  ASSUME IInv, SendFrame(GeneralPoll) \/ SendFails, UNCHANGED <<driver, clients, requests, secondary>>, mode' \notin {"disc", "off"} \/ mode' = mode, mode \notin {"disc", "off"}
  PROVE  IInv'
<1>1. UNCHANGED <<txList, requests>> /\ clients' = clients
  BY DEF driver
<1>2. QuietQueues
  <2>1. CASE SendFrame(GeneralPoll)
    BY <1>1, <2>1, QueuesPoll DEF SendFrame, Transmit
  <2>2. CASE SendFails
    BY <1>1, <2>2, QueuesStay DEF SendFails
  <2> QED
    BY <2>1, <2>2
<1>3. QuietRest
  BY <1>1, RestStays DEF Ending
<1> QED
  BY <1>2, <1>3, Quiet

\* CheckTransmit.
LEMMA CheckTransmitStep == IInv /\ PCheckTransmit => IInv'
<1> SUFFICES ASSUME IInv, PCheckTransmit PROVE IInv'
  OBVIOUS
<1>1. CASE requests # <<>>
  <2>1. UNCHANGED <<inbox, txList, requests>> /\ clients' = clients /\ UNCHANGED secondary /\ mode = "run"
    BY <1>1 DEF PCheckTransmit, driver
  <2>2. QuietQueues
    BY <2>1, QueuesStay
  <2>3. QuietRest
    BY <2>1, RestStays DEF Ending
  <2> QED
    BY <2>2, <2>3, Quiet
<1>2. CASE requests = <<>>
  BY <1>2, Poll DEF PCheckTransmit
<1> QED
  BY <1>1, <1>2

\* The poll after the answers.
LEMMA PollStep == IInv /\ PPoll => IInv'
<1> SUFFICES ASSUME IInv, PPoll PROVE IInv'
  OBVIOUS
<1>1. mode' \in {"run", "idle"} /\ mode \in {"poll", "respond"}
  BY DEF PPoll
<1> QED
  BY <1>1, Poll DEF PPoll

\* Steps of the primary that send nothing.
LEMMA SilentSteps == IInv /\ (PIdleOnes \/ PStartDisc \/ PDiscOver) => IInv'
<1> SUFFICES ASSUME IInv, PIdleOnes \/ PStartDisc \/ PDiscOver PROVE IInv'
  OBVIOUS
<1>1. UNCHANGED <<txList, requests>> /\ clients' = clients /\ UNCHANGED secondary
  BY DEF PIdleOnes, PStartDisc, PDiscOver, driver
<1>2. Ending => Ending'
  BY DEF PIdleOnes, PStartDisc, PDiscOver, GoOffline, Ending
<1>3. QuietRest
  BY <1>1, <1>2, RestStays
<1>4. QuietQueues
  <2>1. CASE PIdleOnes \/ PStartDisc
    BY <1>1, <2>1, QueuesStay DEF PIdleOnes, PStartDisc, line
  <2>2. CASE PDiscOver
    BY <1>1, <2>2, QueuesClear, Addresses DEF PDiscOver
  <2> QED
    BY <2>1, <2>2
<1> QED
  BY <1>3, <1>4, Quiet

-----------------------------------------------------------------------------
(* The primary.                                                            *)

\* Frames that are added belong where they are put.
LEMMA FramesStep ==
  ASSUME Frames,
         \A s \in Sec : Dull(inbox'[s], inbox[s], ToSec(s)),
         \A s \in Sec : Dull(txList'[s], txList[s], FromSec(s)),
         Dull(inbox'[Primary], inbox[Primary], ToPrimary),
         Dull(requests', requests, ToAnswer)
  PROVE  Frames'
<1>1. ASSUME NEW S, NEW q \in Seq(S), NEW r, Dull(r, q, S) PROVE r \in Seq(S)
  <2>1. S \in SUBSET S
    OBVIOUS
  <2> QED
    BY <1>1, <2>1, DullFacts, Zenon
<1> QED
  BY <1>1, Zenon DEF Frames

\* The first frame the primary has to read.
LEMMA PrimaryHead ==
  ASSUME IInv, Take(Primary), NEW f, f = Head(inbox[Primary])
  PROVE  /\ Has(inbox[Primary], f) /\ f \in ToPrimary
         /\ f.size = 2 /\ f.ctrl = "SIM" => \E a \in Sec : f = SIMRequest(a) /\ f.addr = a
         /\ IsDisc(f) => \E a \in Sec : f = DiscResponse(a) /\ f.addr = a
         /\ f.ctrl = "I" /\ f.request => \E a \in Sec : \E k \in Nat : f = Req(a, k) /\ f.addr = a
<1>1. Has(inbox[Primary], f) /\ f \in ToPrimary
  BY TailFacts DEF Take, IInv, Frames
<1>2. CASE \E a \in Sec : f = SIMRequest(a)
  <2>1. PICK a \in Sec : f = SIMRequest(a)
    BY <1>2
  <2>2. f.addr = a /\ f.size = 2 /\ f.ctrl = "SIM"
    BY <2>1, Fields
  <2> QED
    BY <1>1, <2>1, <2>2 DEF IsDisc
<1>3. CASE \E a \in Sec : f = DiscResponse(a)
  <2>1. PICK a \in Sec : f = DiscResponse(a)
    BY <1>3
  <2>2. f.addr = a /\ f.size = 2 /\ f.ctrl = "DISC"
    BY <2>1, Fields
  <2> QED
    BY <1>1, <2>1, <2>2 DEF IsDisc
<1>4. CASE \E a \in Sec : \E k \in Nat : f = Req(a, k)
  <2>1. PICK a \in Sec, k \in Nat : f = Req(a, k)
    BY <1>4
  <2>2. f.addr = a /\ f.size = 4 /\ f.ctrl = "I"
    BY <2>1, Fields
  <2> QED
    BY <1>1, <2>1, <2>2 DEF IsDisc
<1>5. CASE \E a \in Sec : \E k \in Nat : f = Ans(a, k)
  <2>1. PICK a \in Sec, k \in Nat : f = Ans(a, k)
    BY <1>5
  <2>2. f.size = 4 /\ f.ctrl = "I"
    BY <2>1, Fields
  <2>3. ~f.request
    <3>1. ~Ans(a, k).request
      BY Fields, Zenon
    <3> QED
      BY <2>1, <3>1, Zenon
  <2>4. ~IsDisc(f) /\ ~(f.size = 2)
    BY <2>2 DEF IsDisc
  <2> QED
    BY <1>1, <2>3, <2>4, Zenon
<1> QED
  BY <1>1, <1>2, <1>3, <1>4, <1>5 DEF ToPrimary

\* While the primary runs nobody is leaving.
LEMMA NobodyLeaves ==
  ASSUME IInv, ~Ending, NEW s \in Sec
  PROVE  ~Goodbye(s) /\ ~Has(inbox[s], DiscRequest)
BY DEF IInv, Membership, Member

\* A SIM request makes its sender a client before it is answered.
LEMMA ReceiveSIMStep == IInv /\ PReceiveSIM => IInv'
<1> SUFFICES ASSUME IInv, PReceiveSIM PROVE IInv'
  OBVIOUS
<1> DEFINE f == Head(inbox[Primary])
           r == SIMResponse(f.addr)
<1>1. /\ mode = "run" /\ Take(Primary) /\ f.size = 2 /\ f.ctrl = "SIM" /\ clients' = clients \cup {f.addr}
      /\ UNCHANGED <<txList, requests, secondary, mode>>
      /\ inbox' = Delivered(Rest(Primary), Primary, r) \/ inbox' = Rest(Primary)
  BY DEF PReceiveSIM, driver, AllocateClient
<1>2. PICK a \in Sec : f = SIMRequest(a) /\ f.addr = a
  BY <1>1, PrimaryHead
<1> HIDE DEF f
<1>3. CASE inbox' = Rest(Primary)
  <2>1. QuietQueues
    BY <1>1, <1>3, QueuesTake, Addresses
  <2>2. QuietRest
    BY <1>1, RestStays DEF Ending
  <2> QED
    BY <2>1, <2>2, Quiet
<1>4. CASE inbox' = Delivered(Rest(Primary), Primary, r)
  <2>1. r = SIMResponse(a) /\ r.addr = a /\ PassedOver(r) /\ r \in ToSec(a)
    BY <1>2, Fields, Kinds DEF ToSec
  <2> HIDE DEF r
  <2>2. Rest(Primary)[Primary] = Tail(inbox[Primary]) /\ \A t \in Sec : Rest(Primary)[t] = inbox[t]
    BY Addresses DEF Rest, IInv, Shape
  <2>3. /\ DOMAIN inbox' = Stations /\ inbox'[Primary] = Tail(inbox[Primary])
        /\ \A t \in Sec : inbox'[t] = inbox[t] \/ (t = a /\ inbox'[t] = Append(inbox[t], r))
    <3>1. /\ DOMAIN inbox' = Stations /\ inbox'[Primary] = Rest(Primary)[Primary]
          /\ \A t \in Sec : inbox'[t] = Rest(Primary)[t] \/ (r.addr \in {t, ALL} /\ inbox'[t] = Append(Rest(Primary)[t], r))
      BY <1>4, <2>1, FromPrimary, Zenon
    <3> QED
      BY <2>1, <2>2, <3>1, Addresses
  <2>4. inbox[Primary] # <<>> /\ inbox[Primary] \in Seq(ToPrimary) /\ \A t \in Sec : inbox[t] \in Seq(ToSec(t))
    BY <1>1 DEF Take, IInv, Frames
  <2>5. Shape'
    BY <1>1, <2>3 DEF IInv, Shape, secondary
  <2>6. Frames'
    <3>1. \A t \in Sec : Dull(inbox'[t], inbox[t], ToSec(t))
      BY <2>1, <2>3, Still, Zenon
    <3>2. Dull(inbox'[Primary], inbox[Primary], ToPrimary)
      BY <2>3, <2>4, Still, Zenon
    <3>3. Dull(requests', requests, ToAnswer) /\ \A t \in Sec : Dull(txList'[t], txList[t], FromSec(t))
      BY <1>1, Still, Zenon
    <3> QED
      BY <3>1, <3>2, <3>3, FramesStep DEF IInv
  <2>7. /\ \A g : Has(inbox'[Primary], g) => Has(inbox[Primary], g)
        /\ \A g : Once(inbox[Primary], g) => Once(inbox'[Primary], g)
    BY <2>3, <2>4, TailFacts
  <2>8. ~Ending
    BY <1>1 DEF Ending
  <2>9. ASSUME NEW t \in Sec
        PROVE  /\ \A g : Has(inbox'[t], g) => Has(inbox[t], g) \/ (g = r /\ t = a)
               /\ \A g : g # r => (Once(inbox[t], g) => Once(inbox'[t], g))
               /\ Before(inbox[t], SIMResponse(t), DiscRequest) => Before(inbox'[t], SIMResponse(t), DiscRequest)
    <3>1. ~Has(inbox[t], DiscRequest)
      BY <2>8, <2>9, NobodyLeaves
    <3>2. SIMResponse(t) # DiscRequest
      BY <2>9, Apart
    <3>3. CASE inbox'[t] = inbox[t]
      BY <3>3
    <3>4. CASE t = a /\ inbox'[t] = Append(inbox[t], r)
      <4>1. r \in ToSec(t) /\ inbox[t] \in Seq(ToSec(t))
        BY <2>1, <2>4, <3>4
      <4>2. /\ \A g : Has(Append(inbox[t], r), g) <=> Has(inbox[t], g) \/ g = r
            /\ \A g : Once(inbox[t], g) /\ (g = r => ~Has(inbox[t], g)) => Once(Append(inbox[t], r), g)
            /\ \A x, b : Before(inbox[t], b, x) /\ (b = r => b # x /\ ~Has(inbox[t], x)) => Before(Append(inbox[t], r), b, x)
        BY <4>1, AppendFacts, Zenon
      <4> QED
        BY <3>1, <3>2, <3>4, <4>2, Zenon
    <3> QED
      BY <2>3, <2>9, <3>3, <3>4
  <2>10. ASSUME NEW t \in Sec PROVE Member(t)'
    <3>1. Member(t) /\ ~Goodbye(t) /\ ~Has(inbox[t], DiscRequest)
      BY <2>8, <2>10, NobodyLeaves DEF IInv, Membership
    <3>2. ~Goodbye(t)'
      BY <1>1, <2>7, <3>1 DEF Goodbye
    <3>3. r # DiscRequest
      BY <2>1, Apart
    <3>4. ~Has(inbox'[t], DiscRequest)
      BY <2>9, <2>10, <3>1, <3>3
    <3>5. bInitialized'[t] = bInitialized[t]
      BY <1>1 DEF secondary
    <3>6. Welcome(t)' => Welcome(t) \/ t = a
      BY <2>9, <2>10, <3>5, Zenon DEF Welcome
    <3>7. Welcome(t)' => t \in clients'
      BY <1>1, <1>2, <3>1, <3>6 DEF Member
    <3>8. Before(inbox'[t], SIMResponse(t), DiscRequest)
      BY <2>9, <2>10, <3>1 DEF Member
    <3> QED
      BY <3>2, <3>4, <3>7, <3>8, Zenon DEF Member
  <2>11. ASSUME NEW t \in Sec PROVE Match(t)'
    <3>1. Match(t)
      BY <2>11 DEF IInv, Matching
    <3>2. \A k \in Nat : Ans(t, k) # r
      BY <2>1, InfoApart
    <3>3. txList' = txList /\ requests' = requests
      BY <1>1
    <3>4. queued'[t] = queued[t] /\ pending'[t] = pending[t] /\ created'[t] = created[t]
      BY <1>1 DEF secondary
    <3> QED
      BY <2>7, <2>9, <3>1, <3>2, <3>3, <3>4, MatchKept
  <2>12. Responding'
    BY <1>1 DEF IInv, Responding, secondary
  <2> QED
    BY <2>5, <2>6, <2>10, <2>11, <2>12 DEF IInv, Membership, Matching
<1> QED
  BY <1>1, <1>3, <1>4

\* A request of a client goes from the primary's input to its list.
LEMMA ReceiveStep == IInv /\ PReceive => IInv'
<1> SUFFICES ASSUME IInv, PReceive PROVE IInv'
  OBVIOUS
<1> DEFINE f == Head(inbox[Primary])
<1>1. /\ mode = "run" /\ Take(Primary) /\ inbox' = Rest(Primary)
      /\ clients' = IF IsDisc(f) THEN DeallocateClient(f.addr) ELSE clients
      /\ requests' = IF f.ctrl = "I" THEN QueueTransaction(f) ELSE requests
      /\ UNCHANGED <<txList, secondary, mode>>
  BY DEF PReceive, driver
<1>2. ~Ending
  BY <1>1 DEF Ending
<1>3. /\ Has(inbox[Primary], f) /\ f \in ToPrimary
      /\ IsDisc(f) => \E a \in Sec : f = DiscResponse(a)
      /\ f.ctrl = "I" /\ f.request => \E a \in Sec : \E k \in Nat : f = Req(a, k) /\ f.addr = a
  BY <1>1, PrimaryHead, Zenon
<1> HIDE DEF f
<1>4. ~IsDisc(f)
  BY <1>2, <1>3, NobodyLeaves DEF Goodbye
<1>5. clients' = clients
  BY <1>1, <1>4
<1>6. CASE requests' = requests
  <2>1. QuietQueues
    BY <1>1, <1>6, QueuesTake, Addresses
  <2>2. QuietRest
    BY <1>1, <1>5, RestStays DEF Ending
  <2> QED
    BY <2>1, <2>2, Quiet
<1>7. CASE requests' # requests
  <2>1. f.ctrl = "I" /\ requests' = QueueTransaction(f)
    BY <1>1, <1>7
  <2>2. f.request /\ requests' = Append(requests, f)
    BY <1>7, <2>1, Zenon DEF QueueTransaction
  <2>3. PICK a \in Sec, k \in Nat : f = Req(a, k)
    BY <1>3, <2>1, <2>2, Zenon
  <2>4. f \in ToAnswer
    BY <2>3 DEF ToAnswer
  <2>5. /\ inbox[Primary] # <<>> /\ inbox[Primary] \in Seq(ToPrimary) /\ requests \in Seq(ToAnswer)
        /\ DOMAIN inbox' = Stations /\ inbox'[Primary] = Tail(inbox[Primary])
        /\ \A t \in Sec : inbox'[t] = inbox[t]
    BY <1>1, Addresses DEF Take, Rest, IInv, Frames, Shape
  <2>6. Shape'
    BY <1>1, <2>5 DEF IInv, Shape, secondary
  <2>7. Frames'
    <3>1. /\ \A t \in Sec : Dull(inbox'[t], inbox[t], ToSec(t))
          /\ \A t \in Sec : Dull(txList'[t], txList[t], FromSec(t))
      BY <1>1, <2>5, Still, Zenon
    <3>2. Dull(inbox'[Primary], inbox[Primary], ToPrimary)
      BY <2>5, Still, Zenon
    <3>3. Dull(requests', requests, ToAnswer)
      BY <2>2, <2>4, Still, Zenon
    <3> QED
      BY <3>1, <3>2, <3>3, FramesStep DEF IInv
  <2>8. /\ \A g : Has(inbox'[Primary], g) => Has(inbox[Primary], g)
        /\ \A g : Once(inbox[Primary], g) => Once(inbox'[Primary], g)
        /\ \A g : Once(inbox[Primary], g) /\ g = f => ~Has(inbox'[Primary], g)
    BY <2>5, TailFacts DEF f
  <2>9. /\ \A g : Has(requests', g) <=> Has(requests, g) \/ g = f
        /\ \A g : Once(requests, g) /\ (g = f => ~Has(requests, g)) => Once(requests', g)
    BY <2>2, <2>4, <2>5, AppendFacts, Zenon
  <2>10. ASSUME NEW t \in Sec PROVE Member(t)'
    <3>1. Member(t) /\ inbox'[t] = inbox[t] /\ txList'[t] = txList[t]
      BY <1>1, <2>5, <2>10 DEF IInv, Membership
    <3>2. bInitialized'[t] => Welcome(t)
      <4>1. bInitialized' = bInitialized
        BY <1>1 DEF secondary
      <4> QED
        BY <4>1, Zenon DEF Welcome
    <3>3. Has(inbox'[Primary], DiscResponse(t)) => Goodbye(t)
      BY <2>8, Zenon DEF Goodbye
    <3>4. Ending => Ending'
      BY <1>2
    <3> QED
      BY <1>5, <3>1, <3>2, <3>3, <3>4, MemberKept
  <2>11. ASSUME NEW t \in Sec PROVE Match(t)'
    <3> SUFFICES ASSUME NEW j \in Nat PROVE OnePlace(t, j)' /\ OneFrame(t, j)' /\ Known(t, j)'
      BY DEF Match
    <3>1. OnePlace(t, j) /\ OneFrame(t, j) /\ Known(t, j)
      BY <2>11 DEF IInv, Matching, Match
    <3>2. inbox'[t] = inbox[t] /\ txList'[t] = txList[t] /\ queued'[t] = queued[t] /\ pending'[t] = pending[t] /\ created'[t] = created[t]
      BY <1>1, <2>5, <2>11 DEF secondary
    <3>3. OneFrame(t, j)'
      <4>1. Req(t, j) = f => ~Has(requests, Req(t, j))
        BY <1>3, <3>1 DEF OnePlace, Heard, Noted
      <4> QED
        BY <2>8, <2>9, <3>1, <3>2, <4>1 DEF OneFrame
    <3>4. /\ Asked(t, j)' = Asked(t, j) /\ Answered(t, j)' = Answered(t, j)
          /\ Heard(t, j)' => Heard(t, j)
          /\ Noted(t, j)' => Noted(t, j) \/ (Req(t, j) = f /\ Heard(t, j) /\ ~Heard(t, j)')
      <4>1. Once(inbox[Primary], Req(t, j))
        BY <3>1 DEF OneFrame
      <4> QED
        BY <1>3, <2>8, <2>9, <3>2, <4>1, Zenon DEF Asked, Answered, Heard, Noted
    <3>5. OnePlace(t, j)'
      BY <3>1, <3>4, Zenon DEF OnePlace
    <3>6. Known(t, j)'
      <4>1. Underway(t, j)' => Underway(t, j)
        BY <3>4, Zenon DEF Underway
      <4> QED
        BY <3>1, <3>2, <4>1 DEF Known
    <3> QED
      BY <3>3, <3>5, <3>6
  <2>12. Responding'
    BY <1>1 DEF IInv, Responding, secondary
  <2> QED
    BY <2>6, <2>7, <2>10, <2>11, <2>12 DEF IInv, Membership, Matching
<1> QED
  BY <1>6, <1>7

\* An answer takes the place of its request.
LEMMA RespondStep == IInv /\ PRespond => IInv'
<1> SUFFICES ASSUME IInv, PRespond PROVE IInv'
  OBVIOUS
<1> DEFINE f == Head(requests)
<1>1. /\ mode = "respond" /\ requests # <<>> /\ UNCHANGED <<txList, secondary, clients>>
      /\ mode' \in {"respond", "poll"}
      /\ \/ inbox' = inbox /\ requests' = Tail(requests)
         \/ inbox' = inbox /\ requests' = requests
         \/ inbox' = Delivered(inbox, Primary, Info(f.addr, FALSE, f.n)) /\ requests' = Tail(requests)
  BY DEF PRespond, driver, line, RemoveRequest, SendFrame, Transmit, SendFails
<1>2. ~Ending
  BY <1>1 DEF Ending
<1>3. requests \in Seq(ToAnswer)
  BY DEF IInv, Frames
<1>4. Has(requests, f) /\ f \in ToAnswer
  BY <1>1, <1>3, TailFacts
<1>5. CASE inbox' = inbox
  <2>1. Less(requests', requests)
    BY <1>1, <1>5, Still, Zenon DEF Less
  <2>2. QuietQueues
    BY <1>1, <1>5, <2>1, Still, Zenon DEF QuietQueues, IInv, Shape
  <2>3. QuietRest
    BY <1>1, <1>2, RestStays
  <2> QED
    BY <2>2, <2>3, Quiet
<1>6. CASE inbox' = Delivered(inbox, Primary, Info(f.addr, FALSE, f.n)) /\ requests' = Tail(requests)
  <2>1. PICK a \in Sec, k \in Nat : f = Req(a, k)
    BY <1>4 DEF ToAnswer
  <2> DEFINE r == Ans(a, k)
  <2>2. f.addr = a /\ f.n = k /\ r.addr = a
    BY <2>1, Fields
  <2>3. inbox' = Delivered(inbox, Primary, r)
    BY <1>6, <2>2, Zenon DEF Ans
  <2>4. r \in ToSec(a) /\ r \in ToPrimary
    BY DEF ToSec, ToPrimary
  <2> HIDE DEF f, r
  <2>5. /\ DOMAIN inbox' = Stations
        /\ \A t \in Sec : inbox'[t] = inbox[t] \/ (t = a /\ inbox'[t] = Append(inbox[t], r))
        /\ inbox'[Primary] = inbox[Primary] \/ inbox'[Primary] = Append(inbox[Primary], r)
    <3>1. /\ DOMAIN inbox' = Stations
          /\ \A t \in Sec : inbox'[t] = inbox[t] \/ (r.addr \in {t, ALL} /\ inbox'[t] = Append(inbox[t], r))
          /\ inbox'[Primary] = inbox[Primary] \/ inbox'[Primary] = Append(inbox[Primary], r)
      BY <2>3, FromPrimary, Zenon
    <3> QED
      BY <2>2, <3>1, Addresses
  <2>6. Shape'
    BY <1>1, <2>5 DEF IInv, Shape, secondary
  <2>7. Frames'
    <3>1. \A t \in Sec : Dull(inbox'[t], inbox[t], ToSec(t))
      BY <2>4, <2>5, Still, Zenon
    <3>2. Dull(inbox'[Primary], inbox[Primary], ToPrimary)
      BY <2>4, <2>5, Still, Zenon
    <3>3. Dull(requests', requests, ToAnswer) /\ \A t \in Sec : Dull(txList'[t], txList[t], FromSec(t))
      BY <1>1, <1>6, Still, Zenon
    <3> QED
      BY <3>1, <3>2, <3>3, FramesStep DEF IInv
  <2>8. /\ \A g : Has(requests', g) => Has(requests, g)
        /\ \A g : Once(requests, g) => Once(requests', g)
        /\ \A g : Once(requests, g) /\ g = f => ~Has(requests', g)
    BY <1>1, <1>3, <1>6, TailFacts DEF f
  <2>9. /\ \A g : g # r => (Has(inbox'[Primary], g) => Has(inbox[Primary], g))
        /\ \A g : g # r => (Once(inbox[Primary], g) => Once(inbox'[Primary], g))
    <3>1. inbox[Primary] \in Seq(ToPrimary)
      BY DEF IInv, Frames
    <3> QED
      <4>1. CASE inbox'[Primary] = inbox[Primary]
        BY <4>1
      <4>2. CASE inbox'[Primary] = Append(inbox[Primary], r)
        BY <2>4, <3>1, <4>2, AppendFacts
      <4> QED
        BY <2>5, <4>1, <4>2
  <2>10. ASSUME NEW t \in Sec
         PROVE  /\ \A g : Has(inbox'[t], g) => Has(inbox[t], g) \/ (g = r /\ t = a)
                /\ \A g : Once(inbox[t], g) /\ (g = r => ~Has(inbox[t], g)) => Once(inbox'[t], g)
                /\ \A x, b : b # r => (Before(inbox[t], b, x) => Before(inbox'[t], b, x))
    <3>1. CASE inbox'[t] = inbox[t]
      BY <3>1
    <3>2. CASE t = a /\ inbox'[t] = Append(inbox[t], r)
      <4>1. r \in ToSec(t) /\ inbox[t] \in Seq(ToSec(t))
        BY <2>4, <3>2 DEF IInv, Frames
      <4> QED
        BY <3>2, <4>1, AppendFacts
    <3> QED
      BY <2>5, <2>10, <3>1, <3>2
  <2>11. ASSUME NEW t \in Sec PROVE Member(t)'
    <3>1. Member(t) /\ txList'[t] = txList[t] /\ clients' = clients
      BY <1>1, <2>11 DEF IInv, Membership
    <3>2. bInitialized'[t] => Welcome(t)
      <4>1. bInitialized' = bInitialized
        BY <1>1 DEF secondary
      <4> QED
        BY <4>1, Zenon DEF Welcome
    <3>3. r # SIMResponse(t) /\ r # DiscRequest /\ r # DiscResponse(t)
      BY <2>11, InfoApart DEF r
    <3>4. /\ Has(inbox'[t], SIMResponse(t)) => Has(inbox[t], SIMResponse(t))
          /\ Has(inbox'[t], DiscRequest) => Has(inbox[t], DiscRequest)
          /\ Before(inbox[t], SIMResponse(t), DiscRequest) => Before(inbox'[t], SIMResponse(t), DiscRequest)
      BY <2>10, <2>11, <3>3
    <3>5. Has(inbox'[Primary], DiscResponse(t)) => Goodbye(t)
      BY <2>9, <3>3 DEF Goodbye
    <3>6. Ending => Ending'
      BY <1>2
    <3> QED
      BY <3>1, <3>2, <3>4, <3>5, <3>6, MemberKept
  <2>12. ASSUME NEW t \in Sec PROVE Match(t)'
    <3> SUFFICES ASSUME NEW j \in Nat PROVE OnePlace(t, j)' /\ OneFrame(t, j)' /\ Known(t, j)'
      BY DEF Match
    <3>1. OnePlace(t, j) /\ OneFrame(t, j) /\ Known(t, j)
      BY <2>12 DEF IInv, Matching, Match
    <3>2. txList'[t] = txList[t] /\ queued'[t] = queued[t] /\ pending'[t] = pending[t] /\ created'[t] = created[t]
      BY <1>1, <2>12 DEF secondary
    <3>3. Ans(t, j) = r => Req(t, j) = f
      BY <2>1, <2>12, InfoApart DEF r
    <3>4. Req(t, j) # r
      BY <2>12, InfoApart DEF r
    <3>5. OneFrame(t, j)'
      <4>1. Ans(t, j) = r => ~Has(inbox[t], Ans(t, j))
        BY <1>4, <3>1, <3>3 DEF OnePlace, Noted, Answered
      <4> QED
        BY <2>8, <2>9, <2>10, <2>12, <3>1, <3>2, <3>4, <4>1 DEF OneFrame
    <3>6. /\ Asked(t, j)' = Asked(t, j)
          /\ Heard(t, j)' => Heard(t, j)
          /\ Noted(t, j)' => Noted(t, j)
          /\ Answered(t, j)' => Answered(t, j) \/ (Noted(t, j) /\ ~Noted(t, j)')
      <4>1. Asked(t, j)' = Asked(t, j) /\ (Heard(t, j)' => Heard(t, j))
        BY <2>9, <3>2, <3>4 DEF Asked, Heard
      <4>2. Noted(t, j)' => Noted(t, j)
        BY <2>8 DEF Noted
      <4>3. ASSUME Req(t, j) = f PROVE Noted(t, j) /\ ~Noted(t, j)'
        BY <1>4, <2>8, <3>1, <4>3 DEF Noted, OneFrame
      <4>4. Answered(t, j)' => Answered(t, j) \/ Ans(t, j) = r
        BY <2>10, <2>12, Zenon DEF Answered
      <4> QED
        BY <3>3, <4>1, <4>2, <4>3, <4>4, Zenon
    <3>7. OnePlace(t, j)'
      BY <3>1, <3>6, Zenon DEF OnePlace
    <3>8. Known(t, j)'
      <4>1. Underway(t, j)' => Underway(t, j)
        BY <3>6, Zenon DEF Underway
      <4> QED
        BY <3>1, <3>2, <4>1 DEF Known
    <3> QED
      BY <3>5, <3>7, <3>8
  <2>13. Responding'
    BY <1>1 DEF IInv, Responding, secondary
  <2> QED
    BY <2>6, <2>7, <2>11, <2>12, <2>13 DEF IInv, Membership, Matching
<1> QED
  BY <1>1, <1>5, <1>6

\* The DISC request comes after any SIM response.
LEMMA DiscStep == IInv /\ PDisc => IInv'
<1> SUFFICES ASSUME IInv, PDisc PROVE IInv'
  OBVIOUS
<1>1. /\ mode = "disc" /\ UNCHANGED <<txList, requests, secondary, clients>>
      /\ mode' \in {"disc", "off"}
      /\ \/ inbox' = Delivered(inbox, Primary, DiscRequest)
         \/ inbox' = [inbox EXCEPT ![Primary] = <<>>]
  BY DEF PDisc, driver, SendFrame, Transmit, GoOffline
<1>2. Ending /\ Ending'
  BY <1>1 DEF Ending
<1>3. CASE inbox' = [inbox EXCEPT ![Primary] = <<>>]
  <2>1. QuietQueues
    BY <1>1, <1>3, QueuesClear, Addresses
  <2>2. QuietRest
    BY <1>1, <1>2, RestStays
  <2> QED
    BY <2>1, <2>2, Quiet
<1>4. CASE inbox' = Delivered(inbox, Primary, DiscRequest)
  <2>1. /\ DOMAIN inbox' = Stations
        /\ \A t \in Sec : inbox'[t] = inbox[t] \/ inbox'[t] = Append(inbox[t], DiscRequest)
        /\ inbox'[Primary] = inbox[Primary]
    BY <1>4, FromPrimary, Kinds, Zenon
  <2>2. \A t \in Sec : DiscRequest \in ToSec(t)
    BY DEF ToSec
  <2>3. Shape'
    BY <1>1, <2>1 DEF IInv, Shape, secondary
  <2>4. Frames'
    <3>1. \A t \in Sec : Dull(inbox'[t], inbox[t], ToSec(t))
      BY <2>1, <2>2, Still, Zenon
    <3>2. Dull(inbox'[Primary], inbox[Primary], ToPrimary)
      BY <2>1, Still, Zenon
    <3>3. Dull(requests', requests, ToAnswer) /\ \A t \in Sec : Dull(txList'[t], txList[t], FromSec(t))
      BY <1>1, Still, Zenon
    <3> QED
      BY <3>1, <3>2, <3>3, FramesStep DEF IInv
  <2>5. ASSUME NEW t \in Sec
        PROVE  /\ \A g : g # DiscRequest => (Has(inbox'[t], g) => Has(inbox[t], g))
               /\ \A g : g # DiscRequest => (Once(inbox[t], g) => Once(inbox'[t], g))
               /\ \A x, b : b # DiscRequest => (Before(inbox[t], b, x) => Before(inbox'[t], b, x))
    <3>1. inbox[t] \in Seq(ToSec(t)) /\ {DiscRequest} \in SUBSET ToSec(t)
      BY <2>2, <2>5 DEF IInv, Frames
    <3>2. Dull(inbox'[t], inbox[t], {DiscRequest})
      <4>1. DiscRequest \in {DiscRequest}
        OBVIOUS
      <4> QED
        BY <2>1, <2>5, <4>1, Still, Zenon
    <3>3. /\ \A g : g \notin {DiscRequest} => (Has(inbox'[t], g) => Has(inbox[t], g))
          /\ \A g : g \notin {DiscRequest} => (Once(inbox[t], g) => Once(inbox'[t], g))
          /\ \A x, b : b \notin {DiscRequest} => (Before(inbox[t], b, x) => Before(inbox'[t], b, x))
      BY <3>1, <3>2, DullFacts, Zenon
    <3> QED
      BY <3>3, Zenon
  <2>6. ASSUME NEW t \in Sec PROVE Member(t)'
    <3>1. Member(t) /\ txList'[t] = txList[t] /\ clients' = clients
      BY <1>1, <2>6 DEF IInv, Membership
    <3>2. SIMResponse(t) # DiscRequest
      BY <2>6, Apart
    <3>3. Goodbye(t)' => Goodbye(t)
      BY <2>1, <3>1 DEF Goodbye
    <3>4. Welcome(t)' => Welcome(t)
      <4>1. bInitialized' = bInitialized
        BY <1>1 DEF secondary
      <4> QED
        BY <2>5, <2>6, <3>2, <4>1, Zenon DEF Welcome
    <3>5. Before(inbox'[t], SIMResponse(t), DiscRequest)
      BY <2>5, <2>6, <3>1, <3>2 DEF Member
    <3> QED
      BY <1>2, <3>1, <3>3, <3>4, <3>5, Zenon DEF Member
  <2>7. ASSUME NEW t \in Sec PROVE Match(t)'
    <3>1. Match(t)
      BY <2>7 DEF IInv, Matching
    <3>2. \A k \in Nat : Ans(t, k) # DiscRequest
      BY <2>7, InfoApart
    <3>3. /\ txList' = txList /\ requests' = requests /\ inbox'[Primary] = inbox[Primary]
          /\ queued'[t] = queued[t] /\ pending'[t] = pending[t] /\ created'[t] = created[t]
      BY <1>1, <2>1 DEF secondary
    <3> QED
      BY <2>5, <3>1, <3>2, <3>3, MatchKept
  <2>8. Responding'
    BY <1>1 DEF IInv, Responding, secondary
  <2> QED
    BY <2>3, <2>4, <2>6, <2>7, <2>8 DEF IInv, Membership, Matching
<1> QED
  BY <1>1, <1>3, <1>4

\* Who answers the DISC request no longer takes itself for a client.
LEMMA ReceiveDiscStep == IInv /\ PReceiveDisc => IInv'
<1> SUFFICES ASSUME IInv, PReceiveDisc PROVE IInv'
  OBVIOUS
<1> DEFINE f == Head(inbox[Primary])
<1>1. /\ mode = "disc" /\ Take(Primary) /\ inbox' = Rest(Primary)
      /\ clients' = IF IsDisc(f) THEN clients \ {f.addr} ELSE clients
      /\ UNCHANGED <<txList, requests, secondary, mode>>
  BY DEF PReceiveDisc, driver, DeallocateClient
<1>2. /\ Has(inbox[Primary], f)
      /\ IsDisc(f) => \E a \in Sec : f = DiscResponse(a) /\ f.addr = a
  BY <1>1, PrimaryHead, Zenon
<1> HIDE DEF f
<1>3. Ending /\ Ending'
  BY <1>1 DEF Ending
<1>4. QuietQueues
  BY <1>1, QueuesTake, Addresses
<1>5. ASSUME NEW s \in Sec, Welcome(s), s \in clients PROVE s \in clients'
  <2>1. CASE ~IsDisc(f)
    BY <1>1, <1>5, <2>1
  <2>2. CASE IsDisc(f)
    <3>1. PICK a \in Sec : f = DiscResponse(a) /\ clients' = clients \ {a}
      BY <1>1, <1>2, <2>2
    <3>2. Goodbye(a)
      BY <1>2, <3>1 DEF Goodbye
    <3>3. ~Goodbye(s)
      BY <1>5 DEF IInv, Membership, Member
    <3> QED
      BY <1>5, <3>1, <3>2, <3>3
  <2> QED
    BY <2>1, <2>2
<1>6. QuietRest
  BY <1>1, <1>3, <1>5, RestStays
<1> QED
  BY <1>4, <1>6, Quiet

-----------------------------------------------------------------------------
(* The secondaries.                                                        *)

\* The first frame a secondary has to read.
LEMMA SecondaryHead ==
  ASSUME IInv, NEW s \in Sec, Take(s), NEW f, f = Head(inbox[s])
  PROVE  /\ Has(inbox[s], f)
         /\ IsDisc(f) => f = DiscRequest
         /\ IsSIMResponse(f) => f = SIMResponse(s)
         /\ f.ctrl = "I" => \E k \in Nat : f = Ans(s, k) /\ f.n = k
<1>1. Has(inbox[s], f) /\ f \in ToSec(s)
  BY TailFacts DEF Take, IInv, Frames
<1>2. CASE f \in {GeneralPoll, DiscRequest, SIMResponse(s)}
  BY <1>1, <1>2, Fields DEF IsDisc, IsSIMResponse
<1>3. CASE \E k \in Nat : f = Ans(s, k)
  <2>1. PICK k \in Nat : f = Ans(s, k)
    BY <1>3
  <2>2. f.size = 4 /\ f.ctrl = "I" /\ f.n = k
    BY <2>1, Fields
  <2> QED
    BY <1>1, <2>1, <2>2 DEF IsDisc, IsSIMResponse
<1> QED
  BY <1>1, <1>2, <1>3 DEF ToSec

\* A frame is read and a frame of no account sent, or none.
LEMMA QueuesReply ==
  ASSUME IInv, NEW s \in Sec, Take(s), inbox' = Rest(s), UNCHANGED requests, NEW f \in Idle(s),
         txList' = txList \/ txList' = [txList EXCEPT ![s] = Append(@, f)]
  PROVE  QuietQueues
<1>1. DOMAIN inbox' = Stations /\ \A u \in Stations : inbox'[u] = inbox[u] \/ (inbox[u] # <<>> /\ inbox'[u] = Tail(inbox[u]))
  BY Addresses DEF IInv, Shape, Take, Rest
<1>2. ASSUME NEW u \in Stations PROVE \A D : Dull(inbox'[u], inbox[u], D)
  <2>1. CASE inbox'[u] = inbox[u]
    BY <2>1, Still, Zenon
  <2>2. CASE inbox[u] # <<>> /\ inbox'[u] = Tail(inbox[u])
    BY <2>2, Still, Zenon
  <2> QED
    BY <1>1, <1>2, <2>1, <2>2
<1>3. DOMAIN txList' = Sec /\ \A t \in Sec : txList'[t] = txList[t] \/ (t = s /\ txList'[t] = Append(txList[t], f))
  BY DEF IInv, Shape
<1>4. ASSUME NEW t \in Sec PROVE Dull(txList'[t], txList[t], Idle(t))
  <2>1. CASE txList'[t] = txList[t]
    BY <2>1, Still, Zenon
  <2>2. CASE t = s /\ txList'[t] = Append(txList[t], f)
    <3>1. f \in Idle(t)
      BY <2>2
    <3> QED
      BY <2>2, <3>1, Still, Zenon
  <2> QED
    BY <1>3, <2>1, <2>2
<1> QED
  BY <1>1, <1>2, <1>3, <1>4, Still, Addresses, Zenon DEF QuietQueues

\* The programs' own state in a step of a secondary that leaves its
\* transactions alone.
LEMMA SecondaryRest ==
  ASSUME IInv, NEW s \in Sec, UNCHANGED <<queued, pending, created, clients, mode>>,
         NEW p, p = "respond" => queued[s] # <<>>,
         pc' = pc \/ pc' = [pc EXCEPT ![s] = p],
         NEW b, b => Welcome(s),
         bInitialized' = bInitialized \/ bInitialized' = [bInitialized EXCEPT ![s] = b]
  PROVE  QuietRest
<1>1. DOMAIN bInitialized' = Sec /\ DOMAIN pc' = Sec
  BY DEF IInv, Shape
<1>2. \A t \in Sec : pc'[t] = "respond" => queued[t] # <<>>
  BY DEF IInv, Shape, Responding
<1>3. \A t \in Sec : bInitialized'[t] = bInitialized[t] \/ (t = s /\ bInitialized'[t] = b)
  BY DEF IInv, Shape
<1>4. \A t \in Sec : bInitialized'[t] => Welcome(t)
  BY <1>3, Zenon DEF Welcome
<1>5. Ending => Ending'
  BY DEF Ending
<1>6. \A t \in Sec : Welcome(t) /\ t \in clients => t \in clients'
  OBVIOUS
<1> QED
  BY <1>1, <1>2, <1>4, <1>5, <1>6, Zenon DEF QuietRest

\* ... and its flag, too.
LEMMA SecondaryPlain ==
  ASSUME IInv, NEW s \in Sec, UNCHANGED <<queued, pending, created, clients, mode, bInitialized>>,
         NEW p, p = "respond" => queued[s] # <<>>, pc' = pc \/ pc' = [pc EXCEPT ![s] = p]
  PROVE  QuietRest
<1>1. FALSE => Welcome(s)
  OBVIOUS
<1> QED
  BY <1>1, SecondaryRest, Zenon

\* The wait for insertion, the end of the program and LoopModeSendLastFrame.
LEMMA PlainSteps ==
  ASSUME NEW s \in Sec, IInv, SInserted(s) \/ SLeave(s) \/ SRelease(s)
  PROVE  IInv'
<1>1. /\ UNCHANGED <<queued, pending, created, clients, mode, bInitialized, requests>>
      /\ pc' = pc \/ pc' = [pc EXCEPT ![s] = "loop"]
  BY DEF SInserted, SLeave, SRelease, primary
<1>2. QuietRest
  <2>1. "loop" = "respond" => queued[s] # <<>>
    OBVIOUS
  <2> QED
    BY <1>1, <2>1, SecondaryPlain, Zenon
<1>3. CASE SInserted(s) \/ SRelease(s)
  <2>1. UNCHANGED <<inbox, txList, requests>>
    BY <1>3 DEF SInserted, SRelease, driver, line, primary, LoopTxDone
  <2> QED
    BY <1>2, <2>1, QueuesStay, Quiet
<1>4. CASE SLeave(s)
  <2>1. /\ DOMAIN inbox' = Stations /\ \A u \in Stations : inbox'[u] = inbox[u] \/ inbox'[u] = <<>>
        /\ DOMAIN txList' = Sec /\ \A u \in Sec : txList'[u] = txList[u] \/ txList'[u] = <<>>
    BY <1>4, Addresses DEF SLeave, ClosePort, IInv, Shape
  <2>2. /\ \A u \in Stations : \A D : Dull(inbox'[u], inbox[u], D)
        /\ \A u \in Sec : \A D : Dull(txList'[u], txList[u], D)
    BY <2>1, Still, Zenon
  <2>3. QuietQueues
    BY <1>1, <2>1, <2>2, Still, Addresses, Zenon DEF QuietQueues
  <2> QED
    BY <1>2, <2>3, Quiet
<1> QED
  BY <1>3, <1>4

\* Joining: the flag is set by a SIM response only.
LEMMA ReceiveJoiningStep ==
  ASSUME NEW s \in Sec, IInv, SReceiveJoining(s)
  PROVE  IInv'
<1> DEFINE f == Head(inbox[s])
           b == IsSIMResponse(f)
<1>1. /\ Take(s) /\ inbox' = Rest(s) /\ pc[s] = "loop"
      /\ UNCHANGED <<queued, pending, created, clients, mode, requests>>
      /\ bInitialized' = [bInitialized EXCEPT ![s] = b]
      /\ \/ pc' = pc /\ txList' = txList
         \/ /\ pc' = [pc EXCEPT ![s] = "release"]
            /\ txList' = txList \/ txList' = [txList EXCEPT ![s] = Append(@, SIMRequest(s))]
  BY DEF SReceiveJoining, Reads, SReply, Sends, Write, SendTimesOut, driver, primary
<1>2. Has(inbox[s], f) /\ (b => f = SIMResponse(s))
  BY <1>1, SecondaryHead, Zenon
<1> HIDE DEF b, f
<1>3. b => Welcome(s)
  BY <1>2, Zenon DEF Welcome
<1>4. QuietQueues
  <2>1. SIMRequest(s) \in Idle(s)
    BY DEF Idle
  <2> QED
    BY <1>1, <2>1, QueuesReply
<1>5. QuietRest
  <2>1. "release" = "respond" => queued[s] # <<>>
    OBVIOUS
  <2> QED
    BY <1>1, <1>3, <2>1, SecondaryRest, Zenon
<1> QED
  BY <1>4, <1>5, Quiet

\* A poll is answered, or the transactions are.
LEMMA ReceivePollStep ==
  ASSUME NEW s \in Sec, IInv, SReceivePoll(s)
  PROVE  IInv'
<1>1. /\ Take(s) /\ inbox' = Rest(s)
      /\ UNCHANGED <<queued, pending, created, clients, mode, requests, bInitialized>>
      /\ \/ pc' = [pc EXCEPT ![s] = "respond"] /\ queued[s] # <<>> /\ txList' = txList
         \/ /\ pc' = [pc EXCEPT ![s] = "release"]
            /\ txList' = txList \/ txList' = [txList EXCEPT ![s] = Append(@, PollResponse(s))]
  BY DEF SReceivePoll, Reads, SReply, Sends, Write, SendTimesOut, driver, primary
<1>2. QuietQueues
  <2>1. PollResponse(s) \in Idle(s)
    BY DEF Idle
  <2> QED
    BY <1>1, <2>1, QueuesReply
<1>3. QuietRest
  <2>1. "release" = "respond" => queued[s] # <<>>
    OBVIOUS
  <2> QED
    BY <1>1, <2>1, SecondaryPlain, Zenon
<1> QED
  BY <1>2, <1>3, Quiet

\* A station that answers the DISC request has no SIM response ahead of it.
LEMMA SReceiveDiscStep ==
  ASSUME NEW s \in Sec, IInv, SReceiveDisc(s)
  PROVE  IInv'
<1> DEFINE f == Head(inbox[s])
           b == ~Room(s)
<1>1. /\ Take(s) /\ inbox' = Rest(s) /\ IsDisc(f)
      /\ UNCHANGED <<queued, pending, created, clients, mode, requests>>
  BY DEF SReceiveDisc, Reads, primary
<1>2. Has(inbox[s], f) /\ f = DiscRequest
  BY <1>1, SecondaryHead, Zenon
<1>3. "release" = "respond" => queued[s] # <<>>
  OBVIOUS
<1>4. CASE ~bInitialized[s]
  <2>1. UNCHANGED <<txList, bInitialized, pc>>
    BY <1>4, Zenon DEF SReceiveDisc, driver
  <2>2. QuietQueues
    BY <1>1, <2>1, QueuesTake, Addresses
  <2>3. QuietRest
    <3>1. /\ UNCHANGED <<queued, pending, created, clients, mode, bInitialized>>
          /\ pc' = pc \/ pc' = [pc EXCEPT ![s] = "release"]
      BY <1>1, <2>1
    <3> QED
      BY <1>3, <3>1, SecondaryPlain, Zenon
  <2> QED
    BY <2>2, <2>3, Quiet
<1>5. CASE bInitialized[s]
  <2>1. /\ SReply(s, DiscResponse(s))
        /\ bInitialized' = [bInitialized EXCEPT ![s] = b]
    BY <1>5, Zenon DEF SReceiveDisc
  <2>2. /\ pc' = [pc EXCEPT ![s] = "release"]
        /\ \/ ~b /\ txList' = [txList EXCEPT ![s] = Append(@, DiscResponse(s))]
           \/ b /\ txList' = txList
    BY <2>1, Zenon DEF SReply, Sends, Write, SendTimesOut, driver
  <2>3. Welcome(s)
    BY <1>5, Zenon DEF Welcome
  <2> HIDE DEF b
  <2>4. CASE b /\ txList' = txList
    <3>1. QuietQueues
      BY <1>1, <2>4, QueuesTake, Addresses
    <3>2. QuietRest
      BY <1>1, <1>3, <2>1, <2>2, <2>3, SecondaryRest, Zenon
    <3> QED
      BY <3>1, <3>2, Quiet
  <2>5. CASE ~b /\ txList' = [txList EXCEPT ![s] = Append(@, DiscResponse(s))]
    <3>1. /\ inbox[s] # <<>> /\ DOMAIN inbox' = Stations /\ inbox'[s] = Tail(inbox[s])
          /\ \A t \in Stations : t # s => inbox'[t] = inbox[t]
          /\ DOMAIN txList' = Sec /\ txList'[s] = Append(txList[s], DiscResponse(s))
          /\ \A t \in Sec : t # s => txList'[t] = txList[t]
          /\ inbox'[Primary] = inbox[Primary]
      BY <1>1, <2>5, Addresses DEF Take, Rest, IInv, Shape
    <3>2. /\ inbox[s] \in Seq(ToSec(s)) /\ txList[s] \in Seq(FromSec(s)) /\ DiscResponse(s) \in FromSec(s)
      BY DEF IInv, Frames, FromSec
    <3>3. /\ \A g : Has(inbox'[s], g) => Has(inbox[s], g)
          /\ \A g : Once(inbox[s], g) => Once(inbox'[s], g)
          /\ \A x, c : Before(inbox[s], c, x) => Before(inbox'[s], c, x)
          /\ \A x, c : Before(inbox[s], c, x) /\ x = f => ~Has(inbox[s], c)
      BY <3>1, <3>2, TailFacts
    <3>4. /\ \A g : Has(txList'[s], g) <=> Has(txList[s], g) \/ g = DiscResponse(s)
          /\ \A g : Once(txList[s], g) /\ (g = DiscResponse(s) => ~Has(txList[s], g)) => Once(txList'[s], g)
      <4>1. /\ \A g : Has(Append(txList[s], DiscResponse(s)), g) <=> Has(txList[s], g) \/ g = DiscResponse(s)
            /\ \A g : Once(txList[s], g) /\ (g = DiscResponse(s) => ~Has(txList[s], g)) => Once(Append(txList[s], DiscResponse(s)), g)
        BY <3>2, AppendFacts, Zenon
      <4> QED
        BY <3>1, <4>1, Zenon
    <3>5. Shape'
      BY <1>1, <2>1, <2>2, <3>1 DEF IInv, Shape
    <3>6. Frames'
      <4>1. \A t \in Sec : Dull(inbox'[t], inbox[t], ToSec(t))
        BY <3>1, Still, Addresses, Zenon
      <4>2. \A t \in Sec : Dull(txList'[t], txList[t], FromSec(t))
        BY <3>1, <3>2, Still, Zenon
      <4>3. Dull(requests', requests, ToAnswer) /\ Dull(inbox'[Primary], inbox[Primary], ToPrimary)
        BY <1>1, <3>1, Still, Zenon
      <4> QED
        BY <4>1, <4>2, <4>3, FramesStep DEF IInv
    <3>7. Member(s) /\ Ending
      BY <1>2 DEF IInv, Membership, Member
    <3>8. Member(s)'
      <4>1. ~Has(inbox[s], SIMResponse(s))
        BY <1>2, <3>3, <3>7, Zenon DEF Member
      <4>2. ~bInitialized'[s]
        <5>1. bInitialized'[s] = b
          BY <2>1 DEF IInv, Shape
        <5> QED
          BY <2>5, <5>1, Zenon
      <4>3. ~Welcome(s)'
        BY <3>3, <4>1, <4>2, Zenon DEF Welcome
      <4>4. Ending'
        BY <1>1, <3>7 DEF Ending
      <4>5. Before(inbox'[s], SIMResponse(s), DiscRequest)
        BY <3>3, <3>7, Zenon DEF Member
      <4> QED
        BY <4>3, <4>4, <4>5, Zenon DEF Member
    <3>9. ASSUME NEW t \in Sec, t # s PROVE Member(t)'
      <4>1. /\ inbox'[t] = inbox[t] /\ txList'[t] = txList[t] /\ clients' = clients /\ mode' = mode
            /\ bInitialized'[t] = bInitialized[t]
        BY <1>1, <2>1, <3>1, <3>9, Addresses DEF IInv, Shape
      <4>2. Member(t) /\ (bInitialized'[t] => Welcome(t))
        BY <3>9, <4>1, Zenon DEF IInv, Membership, Welcome
      <4>3. (Has(inbox'[Primary], DiscResponse(t)) => Goodbye(t)) /\ (Ending => Ending')
        BY <1>1, <3>1 DEF Goodbye, Ending
      <4> QED
        BY <4>1, <4>2, <4>3, MemberKept
    <3>10. ASSUME NEW t \in Sec PROVE Match(t)'
      <4>1. Match(t) /\ requests' = requests /\ inbox'[Primary] = inbox[Primary]
        BY <1>1, <3>1, <3>10 DEF IInv, Matching
      <4>2. queued'[t] = queued[t] /\ pending'[t] = pending[t] /\ created'[t] = created[t]
        BY <1>1
      <4>3. CASE t # s
        <5>1. inbox'[t] = inbox[t] /\ txList'[t] = txList[t]
          BY <3>1, <3>10, <4>3, Addresses
        <5> QED
          BY <4>1, <4>2, <5>1, MatchKept
      <4>4. CASE t = s
        <5>1. \A k \in Nat : Req(s, k) # DiscResponse(s)
          BY InfoApart
        <5> QED
          BY <3>3, <3>4, <4>1, <4>2, <4>4, <5>1, MatchKept
      <4> QED
        BY <4>3, <4>4
    <3>11. Responding'
      BY <1>1, <2>2 DEF IInv, Responding, Shape
    <3> QED
      BY <3>5, <3>6, <3>8, <3>9, <3>10, <3>11 DEF IInv, Membership, Matching
  <2> QED
    BY <2>2, <2>4, <2>5
<1> QED
  BY <1>4, <1>5, Zenon

\* An answer takes its transaction, and no other, off the pending list.
LEMMA ReceiveInfoStep ==
  ASSUME NEW s \in Sec, IInv, SReceiveInfo(s)
  PROVE  IInv'
<1> DEFINE f == Head(inbox[s])
<1>1. /\ Take(s) /\ inbox' = Rest(s)
      /\ UNCHANGED <<queued, created, clients, mode, requests, txList, bInitialized, pc>>
      /\ pending' = pending \/ (f.ctrl = "I" /\ pending' = [pending EXCEPT ![s] = RemoveFirst(@, f.n)])
  BY DEF SReceiveInfo, Reads, primary, driver, ReconcileTransaction
<1>2. Has(inbox[s], f) /\ (f.ctrl = "I" => \E k \in Nat : f = Ans(s, k) /\ f.n = k)
  BY <1>1, SecondaryHead, Zenon
<1>3. CASE pending' = pending
  <2>1. QuietQueues
    BY <1>1, QueuesTake, Addresses
  <2>2. "loop" = "respond" => queued[s] # <<>>
    OBVIOUS
  <2>3. QuietRest
    BY <1>1, <1>3, <2>2, SecondaryPlain, Zenon
  <2> QED
    BY <2>1, <2>3, Quiet
<1>4. CASE f.ctrl = "I" /\ pending' = [pending EXCEPT ![s] = RemoveFirst(@, f.n)]
  <2>1. PICK k \in Nat : f = Ans(s, k) /\ f.n = k
    BY <1>2, <1>4
  <2>2. /\ inbox[s] # <<>> /\ DOMAIN inbox' = Stations /\ inbox'[s] = Tail(inbox[s])
        /\ \A t \in Stations : t # s => inbox'[t] = inbox[t]
        /\ inbox'[Primary] = inbox[Primary] /\ inbox[s] \in Seq(ToSec(s))
    BY <1>1, Addresses DEF Take, Rest, IInv, Shape, Frames
  <2>3. /\ \A g : Has(inbox'[s], g) => Has(inbox[s], g)
        /\ \A g : Once(inbox[s], g) => Once(inbox'[s], g)
        /\ \A g : Once(inbox[s], g) /\ g = f => ~Has(inbox'[s], g)
        /\ \A x, c : Before(inbox[s], c, x) => Before(inbox'[s], c, x)
    BY <2>2, TailFacts
  <2> HIDE DEF f
  <2>4. pending[s] \in Seq(Nat)
    BY DEF IInv, Shape
  <2>5. /\ RemoveFirst(pending[s], k) \in Seq(Nat)
        /\ \A j \in Range(pending[s]) : j # k => j \in Range(RemoveFirst(pending[s], k))
        /\ Range(RemoveFirst(pending[s], k)) \subseteq Range(pending[s])
    BY <2>4, RemoveFacts, Zenon
  <2>6. /\ pending' \in [Sec -> Seq(Nat)] /\ pending'[s] = RemoveFirst(pending[s], k)
        /\ \A t \in Sec : t # s => pending'[t] = pending[t]
    BY <1>4, <2>1, <2>5 DEF IInv, Shape
  <2>7. Shape'
    BY <1>1, <2>2, <2>6 DEF IInv, Shape
  <2>8. Frames'
    <3>1. \A t \in Sec : Dull(inbox'[t], inbox[t], ToSec(t)) /\ Dull(txList'[t], txList[t], FromSec(t))
      BY <1>1, <2>2, Still, Addresses, Zenon
    <3>2. Dull(requests', requests, ToAnswer) /\ Dull(inbox'[Primary], inbox[Primary], ToPrimary)
      BY <1>1, <2>2, Still, Zenon
    <3> QED
      BY <3>1, <3>2, FramesStep DEF IInv
  <2>9. ASSUME NEW t \in Sec PROVE Member(t)'
    <3>1. Member(t) /\ txList'[t] = txList[t] /\ clients' = clients /\ (Ending => Ending')
      BY <1>1, <2>9 DEF IInv, Membership, Ending
    <3>2. bInitialized'[t] => Welcome(t)
      BY <1>1, Zenon DEF Welcome
    <3>3. Has(inbox'[Primary], DiscResponse(t)) => Goodbye(t)
      BY <2>2 DEF Goodbye
    <3>4. CASE t # s
      <4>1. inbox'[t] = inbox[t]
        BY <2>2, <2>9, <3>4, Addresses
      <4> QED
        BY <3>1, <3>2, <3>3, <4>1, MemberKept
    <3>5. CASE t = s
      BY <2>3, <3>1, <3>2, <3>3, <3>5, MemberKept
    <3> QED
      BY <3>4, <3>5
  <2>10. ASSUME NEW t \in Sec, t # s PROVE Match(t)'
    <3>1. /\ Match(t) /\ inbox'[t] = inbox[t] /\ txList'[t] = txList[t] /\ requests' = requests
          /\ queued'[t] = queued[t] /\ pending'[t] = pending[t] /\ created'[t] = created[t]
      BY <1>1, <2>2, <2>6, <2>10, Addresses DEF IInv, Matching
    <3> QED
      BY <2>2, <3>1, MatchKept
  <2>11. Match(s)'
    <3> SUFFICES ASSUME NEW j \in Nat PROVE OnePlace(s, j)' /\ OneFrame(s, j)' /\ Known(s, j)'
      BY DEF Match
    <3>1. OnePlace(s, j) /\ OneFrame(s, j) /\ Known(s, j)
      BY DEF IInv, Matching, Match
    <3>2. /\ Asked(s, j)' = Asked(s, j) /\ Heard(s, j)' = Heard(s, j) /\ Noted(s, j)' = Noted(s, j)
          /\ Answered(s, j)' => Answered(s, j)
      BY <1>1, <2>2, <2>3 DEF Asked, Heard, Noted, Answered
    <3>3. j = k => Answered(s, j) /\ ~Answered(s, j)'
      BY <1>2, <2>1, <2>3, <3>1 DEF Answered, OneFrame
    <3>4. OneFrame(s, j)'
      BY <1>1, <2>2, <2>3, <3>1 DEF OneFrame
    <3>5. OnePlace(s, j)'
      BY <3>1, <3>2, Zenon DEF OnePlace
    <3>6. Underway(s, j)' => Underway(s, j) /\ j # k
      BY <3>1, <3>2, <3>3, Zenon DEF Underway, OnePlace
    <3>7. Known(s, j)'
      <4>1. queued'[s] = queued[s] /\ created'[s] = created[s]
        BY <1>1
      <4>2. Underway(s, j)' => j \in Range(pending'[s]) /\ j \notin Range(queued'[s])
        BY <2>5, <2>6, <3>1, <3>6, <4>1 DEF Known
      <4>3. j \in Range(pending'[s]) \/ j \in Range(queued'[s]) => j <= created'[s]
        BY <2>5, <2>6, <3>1, <4>1 DEF Known
      <4> QED
        BY <4>2, <4>3 DEF Known
    <3> QED
      BY <3>4, <3>5, <3>7
  <2>12. Responding'
    BY <1>1 DEF IInv, Responding
  <2> QED
    BY <2>7, <2>8, <2>9, <2>10, <2>11, <2>12 DEF IInv, Membership, Matching
<1> QED
  BY <1>1, <1>3, <1>4

\* A transaction that is sent was waiting and is pending from then on.
LEMMA SRespondStep ==
  ASSUME NEW s \in Sec, IInv, SRespond(s)
  PROVE  IInv'
<1> DEFINE k == Head(queued[s])
<1>1. /\ pc[s] = "respond" /\ UNCHANGED <<inbox, clients, mode, requests, bInitialized, created>>
      /\ \/ /\ txList' = [txList EXCEPT ![s] = Append(@, Info(s, TRUE, k))]
            /\ queued' = [queued EXCEPT ![s] = <<>>]
            /\ pending' = [pending EXCEPT ![s] = Append(@, k)]
            /\ pc' = [pc EXCEPT ![s] = IF Len(queued[s]) = 1 THEN "release"
                                       ELSE IF queued'[s] # <<>> THEN "respond" ELSE "loop"]
         \/ /\ UNCHANGED <<txList, queued, pending>>
            /\ pc' = [pc EXCEPT ![s] = IF Len(queued[s]) = 1 THEN "release" ELSE "loop"]
  BY DEF SRespond, Sends, Write, MoveToPending, RemoveQueuedTransationListHead, SendTimesOut, driver, primary
<1>2. CASE /\ UNCHANGED <<txList, queued, pending>>
           /\ pc' = [pc EXCEPT ![s] = IF Len(queued[s]) = 1 THEN "release" ELSE "loop"]
  <2> DEFINE p == IF Len(queued[s]) = 1 THEN "release" ELSE "loop"
  <2>1. p = "respond" => queued[s] # <<>>
    OBVIOUS
  <2>2. QuietQueues
    BY <1>1, <1>2, QueuesStay
  <2>3. UNCHANGED <<queued, pending, created, clients, mode, bInitialized>> /\ pc' = [pc EXCEPT ![s] = p]
    BY <1>1, <1>2
  <2> HIDE DEF p
  <2>4. QuietRest
    BY <2>1, <2>3, SecondaryPlain, Zenon
  <2> QED
    BY <2>2, <2>4, Quiet
<1>3. CASE /\ txList' = [txList EXCEPT ![s] = Append(@, Info(s, TRUE, k))]
           /\ queued' = [queued EXCEPT ![s] = <<>>]
           /\ pending' = [pending EXCEPT ![s] = Append(@, k)]
           /\ pc' = [pc EXCEPT ![s] = IF Len(queued[s]) = 1 THEN "release"
                                      ELSE IF queued'[s] # <<>> THEN "respond" ELSE "loop"]
  <2>1. queued[s] \in Seq(Nat) /\ queued[s] # <<>> /\ pending[s] \in Seq(Nat)
    BY <1>1 DEF IInv, Shape, Responding
  <2>2. k \in Nat /\ k \in Range(queued[s])
    <3>1. k = queued[s][1] /\ 1 \in DOMAIN queued[s] /\ k \in Nat
      BY <2>1
    <3> QED
      BY <3>1 DEF Range
  <2> DEFINE f == Req(s, k)
  <2>3. /\ txList' = [txList EXCEPT ![s] = Append(@, f)]
        /\ pending' = [pending EXCEPT ![s] = Append(@, k)] /\ queued' = [queued EXCEPT ![s] = <<>>]
    BY <1>3, Zenon DEF Req
  <2>4. f \in FromSec(s) /\ txList[s] \in Seq(FromSec(s))
    BY <2>2 DEF FromSec, IInv, Frames
  <2> HIDE DEF k, f
  <2>5. /\ DOMAIN txList' = Sec /\ txList'[s] = Append(txList[s], f)
        /\ \A t \in Sec : t # s => txList'[t] = txList[t]
    BY <2>3 DEF IInv, Shape
  <2>6. /\ pending' \in [Sec -> Seq(Nat)] /\ pending'[s] = Append(pending[s], k)
        /\ \A t \in Sec : t # s => pending'[t] = pending[t]
        /\ queued' \in [Sec -> Seq(Nat)] /\ queued'[s] = <<>>
        /\ \A t \in Sec : t # s => queued'[t] = queued[t]
    BY <2>1, <2>2, <2>3 DEF IInv, Shape
  <2>7. /\ \A j : j \in Range(pending'[s]) <=> j \in Range(pending[s]) \/ j = k
        /\ \A j : j \notin Range(queued'[s])
    <3>1. Len(pending[s]) \in Nat /\ DOMAIN pending[s] = 1 .. Len(pending[s])
      BY <2>1
    <3> DEFINE q == pending[s]
    <3> HIDE DEF q
    <3>q. q \in Seq(Nat) /\ k \in Nat
      BY <2>1, <2>2 DEF q
    <3>a. /\ DOMAIN Append(q, k) = 1 .. (Len(q) + 1)
          /\ \A i \in 1 .. Len(q) : Append(q, k)[i] = q[i]
          /\ Append(q, k)[Len(q) + 1] = k
      BY <3>q
    <3>2. /\ DOMAIN pending'[s] = 1 .. (Len(pending[s]) + 1)
          /\ \A i \in 1 .. Len(pending[s]) : pending'[s][i] = pending[s][i]
          /\ pending'[s][Len(pending[s]) + 1] = k
      BY <2>6, <3>a, Zenon DEF q
    <3>3. \A i \in 1 .. (Len(pending[s]) + 1) : i \in 1 .. Len(pending[s]) \/ i = Len(pending[s]) + 1
      BY <3>1
    <3>4. \A i \in 1 .. Len(pending[s]) : i \in 1 .. (Len(pending[s]) + 1)
      BY <3>1
    <3>5. Len(pending[s]) + 1 \in 1 .. (Len(pending[s]) + 1)
      BY <3>1
    <3>6. \A j : j \notin Range(queued'[s])
      BY <2>6 DEF Range
    <3> HIDE DEF Range
    <3>7. ASSUME NEW j, j \in Range(pending'[s]) PROVE j \in Range(pending[s]) \/ j = k
      BY <3>1, <3>2, <3>3, <3>7 DEF Range
    <3>8. ASSUME NEW j, j \in Range(pending[s]) \/ j = k PROVE j \in Range(pending'[s])
      BY <3>1, <3>2, <3>4, <3>5, <3>8 DEF Range
    <3> QED
      BY <3>6, <3>7, <3>8
  <2>8. /\ \A g : Has(txList'[s], g) <=> Has(txList[s], g) \/ g = f
        /\ \A g : Once(txList[s], g) /\ (g = f => ~Has(txList[s], g)) => Once(txList'[s], g)
    <3>1. /\ \A g : Has(Append(txList[s], f), g) <=> Has(txList[s], g) \/ g = f
          /\ \A g : Once(txList[s], g) /\ (g = f => ~Has(txList[s], g)) => Once(Append(txList[s], f), g)
      BY <2>4, AppendFacts, Zenon
    <3> QED
      BY <2>5, <3>1, Zenon
  <2>9. DOMAIN pc' = Sec
    BY <1>3 DEF IInv, Shape
  <2>10. Shape'
    BY <1>1, <2>5, <2>6, <2>9 DEF IInv, Shape
  <2>11. Frames'
    <3>1. \A t \in Sec : Dull(inbox'[t], inbox[t], ToSec(t))
      BY <1>1, Still, Zenon
    <3>2. \A t \in Sec : Dull(txList'[t], txList[t], FromSec(t))
      BY <2>4, <2>5, Still, Zenon
    <3>3. Dull(requests', requests, ToAnswer) /\ Dull(inbox'[Primary], inbox[Primary], ToPrimary)
      BY <1>1, Still, Zenon
    <3> QED
      BY <3>1, <3>2, <3>3, FramesStep DEF IInv
  <2>12. ASSUME NEW t \in Sec PROVE Member(t)'
    <3>1. Member(t) /\ inbox' = inbox /\ clients' = clients /\ (Ending => Ending')
      BY <1>1, <2>12 DEF IInv, Membership, Ending
    <3>2. bInitialized'[t] => Welcome(t)
      BY <1>1, Zenon DEF Welcome
    <3>3. f # DiscResponse(t)
      BY <2>2, <2>12, InfoApart DEF f
    <3>4. Has(txList'[t], DiscResponse(t)) => Has(txList[t], DiscResponse(t))
      BY <2>5, <2>8, <2>12, <3>3
    <3>5. Has(inbox'[Primary], DiscResponse(t)) => Goodbye(t)
      BY <3>1 DEF Goodbye
    <3> QED
      BY <3>1, <3>2, <3>4, <3>5, MemberKept
  <2>13. ASSUME NEW t \in Sec, t # s PROVE Match(t)'
    <3>1. /\ Match(t) /\ inbox'[t] = inbox[t] /\ txList'[t] = txList[t] /\ requests' = requests
          /\ queued'[t] = queued[t] /\ pending'[t] = pending[t] /\ created'[t] = created[t]
          /\ inbox'[Primary] = inbox[Primary]
      BY <1>1, <2>5, <2>6, <2>13 DEF IInv, Matching
    <3> QED
      BY <3>1, MatchKept
  <2>14. Match(s)'
    <3> SUFFICES ASSUME NEW j \in Nat PROVE OnePlace(s, j)' /\ OneFrame(s, j)' /\ Known(s, j)'
      BY DEF Match
    <3>1. OnePlace(s, j) /\ OneFrame(s, j) /\ Known(s, j)
      BY DEF IInv, Matching, Match
    <3>2. /\ Heard(s, j)' = Heard(s, j) /\ Noted(s, j)' = Noted(s, j) /\ Answered(s, j)' = Answered(s, j)
          /\ Asked(s, j)' => Asked(s, j) \/ j = k
      <4>1. Req(s, j) = f => j = k
        BY <2>2, InfoApart DEF f
      <4> QED
        BY <1>1, <2>8, <4>1 DEF Asked, Heard, Noted, Answered
    <3>3. j = k => ~Underway(s, j)
      BY <2>2, <3>1 DEF Known
    <3>4. OneFrame(s, j)'
      <4>1. Req(s, j) = f => ~Has(txList[s], Req(s, j))
        <5>1. Req(s, j) = f => j = k
          BY <2>2, InfoApart DEF f
        <5> QED
          BY <3>3, <5>1 DEF Underway, Asked
      <4> QED
        BY <1>1, <2>8, <3>1, <4>1 DEF OneFrame
    <3>5. OnePlace(s, j)'
      BY <3>1, <3>2, <3>3, Zenon DEF OnePlace, Underway
    <3>6. Known(s, j)'
      <4>1. Underway(s, j)' => Underway(s, j) \/ j = k
        BY <3>2, Zenon DEF Underway
      <4>2. j = k => j <= created'[s]
        BY <1>1, <2>2, <3>1 DEF Known
      <4>3. j \in Range(pending[s]) => j <= created'[s]
        BY <1>1, <3>1 DEF Known
      <4>4. Underway(s, j) => j \in Range(pending[s])
        BY <3>1 DEF Known
      <4> QED
        BY <2>7, <4>1, <4>2, <4>3, <4>4 DEF Known
    <3> QED
      BY <3>4, <3>5, <3>6
  <2>15. Responding'
    <3>1. pc'[s] # "respond"
      BY <1>3, <2>6 DEF IInv, Shape
    <3>2. \A t \in Sec : t # s => pc'[t] = pc[t]
      BY <1>3 DEF IInv, Shape
    <3> QED
      BY <2>6, <3>1, <3>2 DEF IInv, Responding
  <2> QED
    BY <2>10, <2>11, <2>12, <2>13, <2>14, <2>15 DEF IInv, Membership, Matching
<1> QED
  BY <1>1, <1>2, <1>3

\* A new transaction has a number nobody has used.
LEMMA SNewTransactionStep ==
  ASSUME NEW s \in Sec, IInv, SNewTransaction(s)
  PROVE  IInv'
<1> DEFINE k == created[s] + 1
<1>1. /\ UNCHANGED <<inbox, txList, clients, mode, requests, bInitialized, pc, pending>>
      /\ created' = [created EXCEPT ![s] = @ + 1]
      /\ queued' = [queued EXCEPT ![s] = Append(@, k)]
  BY DEF SNewTransaction, driver, line, primary
<1>2. created[s] \in Nat /\ k \in Nat /\ queued[s] \in Seq(Nat)
  BY DEF IInv, Shape
<1>3. /\ created' \in [Sec -> Nat] /\ created'[s] = k
      /\ \A t \in Sec : t # s => created'[t] = created[t]
      /\ queued' \in [Sec -> Seq(Nat)] /\ queued'[s] = Append(queued[s], k)
      /\ \A t \in Sec : t # s => queued'[t] = queued[t]
  BY <1>1, <1>2 DEF IInv, Shape
<1>4. \A j : j \in Range(queued'[s]) => j \in Range(queued[s]) \/ j = k
  <2>1. Len(queued[s]) \in Nat /\ DOMAIN queued[s] = 1 .. Len(queued[s])
    BY <1>2
  <2> HIDE DEF k
  <2>2. /\ DOMAIN queued'[s] = 1 .. (Len(queued[s]) + 1)
        /\ \A i \in 1 .. Len(queued[s]) : queued'[s][i] = queued[s][i]
        /\ queued'[s][Len(queued[s]) + 1] = k
    BY <1>2, <1>3
  <2>3. \A i \in 1 .. (Len(queued[s]) + 1) : i \in 1 .. Len(queued[s]) \/ i = Len(queued[s]) + 1
    BY <2>1
  <2> QED
    BY <2>1, <2>2, <2>3 DEF Range
<1>5. Shape'
  BY <1>1, <1>3 DEF IInv, Shape
<1>6. Frames'
  BY <1>1 DEF IInv, Frames
<1>7. ASSUME NEW t \in Sec PROVE Member(t)'
  <2>1. Member(t) /\ inbox' = inbox /\ txList' = txList /\ clients' = clients /\ (Ending => Ending')
    BY <1>1, <1>7 DEF IInv, Membership, Ending
  <2>2. bInitialized'[t] => Welcome(t)
    BY <1>1, Zenon DEF Welcome
  <2>3. Has(inbox'[Primary], DiscResponse(t)) => Goodbye(t)
    BY <2>1 DEF Goodbye
  <2> QED
    BY <2>1, <2>2, <2>3, MemberKept
<1>8. ASSUME NEW t \in Sec, t # s PROVE Match(t)'
  <2>1. /\ Match(t) /\ UNCHANGED <<inbox, txList, requests>>
        /\ queued'[t] = queued[t] /\ pending'[t] = pending[t] /\ created'[t] = created[t]
    BY <1>1, <1>3, <1>8 DEF IInv, Matching
  <2> QED
    BY <2>1, MatchKept
<1>9. Match(s)'
  <2> SUFFICES ASSUME NEW j \in Nat PROVE OnePlace(s, j)' /\ OneFrame(s, j)' /\ Known(s, j)'
    BY DEF Match
  <2>1. OnePlace(s, j) /\ OneFrame(s, j) /\ Known(s, j)
    BY DEF IInv, Matching, Match
  <2>2. inbox' = inbox /\ txList' = txList /\ requests' = requests /\ pending' = pending
    BY <1>1
  <2>3. OnePlace(s, j)' /\ OneFrame(s, j)'
    BY <2>1, <2>2 DEF OnePlace, OneFrame, Asked, Heard, Noted, Answered
  <2>4. Underway(s, j)' = Underway(s, j)
    BY <2>2 DEF Underway, Asked, Heard, Noted, Answered
  <2>5. Underway(s, j) => j # k
    BY <1>2, <2>1 DEF Known
  <2>6. Known(s, j)'
    BY <1>2, <1>3, <1>4, <2>1, <2>2, <2>4, <2>5 DEF Known
  <2> QED
    BY <2>3, <2>6
<1>10. Responding'
  <2>1. queued'[s] # <<>>
    BY <1>2, <1>3
  <2> QED
    BY <1>1, <1>3, <2>1 DEF IInv, Responding
<1> QED
  BY <1>5, <1>6, <1>7, <1>8, <1>9, <1>10 DEF IInv, Membership, Matching

-----------------------------------------------------------------------------
(* The driver.                                                             *)

\* A frame in progress is the first of the line discipline's.
Loaded == /\ DOMAIN tx_active = Sec /\ DOMAIN txList = Sec
          /\ \A s \in Sec : tx_active[s] => txList[s] # <<>>

\* A frame leaves the line discipline and may come to the primary.
LEMMA FrameSentStep ==
  ASSUME NEW s \in Sec, IInv, Loaded, IsrFrameSent(s), UNCHANGED <<primary, secondary>>
  PROVE  IInv'
<1> DEFINE f == Head(txList[s])
<1>1. /\ inbox' = Delivered(inbox, s, f) /\ txList' = [txList EXCEPT ![s] = Tail(@)]
      /\ UNCHANGED <<mode, clients, requests, bInitialized, queued, pending, created, pc>>
  BY DEF IsrFrameSent, Transmit, primary, secondary
<1>2. txList[s] # <<>>
  BY Zenon DEF IsrFrameSent, Loaded
<1>3. txList[s] \in Seq(FromSec(s)) /\ inbox[Primary] \in Seq(ToPrimary)
  BY DEF IInv, Frames
<1>4. Has(txList[s], f) /\ f \in FromSec(s)
  BY <1>2, <1>3, TailFacts
<1>5. /\ DOMAIN txList' = Sec /\ txList'[s] = Tail(txList[s])
      /\ \A t \in Sec : t # s => txList'[t] = txList[t]
  BY <1>1 DEF IInv, Shape
<1>6. /\ \A g : Has(txList'[s], g) => Has(txList[s], g)
      /\ \A g : Once(txList[s], g) => Once(txList'[s], g)
      /\ \A g : Once(txList[s], g) /\ g = f => ~Has(txList'[s], g)
  BY <1>2, <1>3, <1>5, TailFacts
<1> HIDE DEF f
<1>7. f.addr = s /\ (PassedOver(f) \/ f \in ToPrimary)
  <2>1. CASE f = SIMRequest(s) \/ f = DiscResponse(s)
    BY <2>1, Fields DEF ToPrimary
  <2>2. CASE f = PollResponse(s)
    BY <2>2, Fields, Kinds
  <2>3. CASE \E k \in Nat : f = Req(s, k)
    BY <2>3, Fields DEF ToPrimary
  <2> QED
    BY <1>4, <2>1, <2>2, <2>3 DEF FromSec
<1>8. /\ DOMAIN inbox' = Stations
      /\ \A t \in Sec : inbox'[t] = inbox[t]
      /\ inbox'[Primary] = inbox[Primary] \/ (f \in ToPrimary /\ inbox'[Primary] = Append(inbox[Primary], f))
  <2>1. /\ DOMAIN Delivered(inbox, s, f) = Stations
        /\ \A t \in Sec : Delivered(inbox, s, f)[t] = inbox[t]
        /\ \/ Delivered(inbox, s, f)[Primary] = inbox[Primary]
           \/ ~PassedOver(f) /\ Delivered(inbox, s, f)[Primary] = Append(inbox[Primary], f)
    BY <1>7, FromSecondary
  <2> QED
    BY <1>1, <1>7, <2>1, Zenon
<1>9. /\ \A g : Has(inbox'[Primary], g) => Has(inbox[Primary], g) \/ g = f
      /\ \A g : Once(inbox[Primary], g) /\ (g = f => ~Has(inbox[Primary], g)) => Once(inbox'[Primary], g)
  <2>1. CASE inbox'[Primary] = inbox[Primary]
    BY <2>1
  <2>2. CASE f \in ToPrimary /\ inbox'[Primary] = Append(inbox[Primary], f)
    BY <1>3, <2>2, AppendFacts
  <2> QED
    BY <1>8, <2>1, <2>2
<1>10. Shape'
  BY <1>1, <1>5, <1>8 DEF IInv, Shape
<1>11. Frames'
  <2>1. \A t \in Sec : Dull(inbox'[t], inbox[t], ToSec(t))
    BY <1>8, Still, Zenon
  <2>2. \A t \in Sec : Dull(txList'[t], txList[t], FromSec(t))
    BY <1>2, <1>5, Still, Zenon
  <2>3. Dull(requests', requests, ToAnswer)
    BY <1>1, Still, Zenon
  <2>4. Dull(inbox'[Primary], inbox[Primary], ToPrimary)
    BY <1>8, Still, Zenon
  <2> QED
    BY <2>1, <2>2, <2>3, <2>4, FramesStep DEF IInv
<1>12. ASSUME NEW t \in Sec PROVE Member(t)'
  <2>1. Member(t) /\ inbox'[t] = inbox[t] /\ clients' = clients /\ (Ending => Ending')
    BY <1>1, <1>8, <1>12 DEF IInv, Membership, Ending
  <2>2. bInitialized'[t] => Welcome(t)
    BY <1>1, Zenon DEF Welcome
  <2>3. Has(txList'[t], DiscResponse(t)) => Has(txList[t], DiscResponse(t))
    BY <1>5, <1>6, <1>12
  <2>4. DiscResponse(t) = f => t = s
    BY <1>7, Fields
  <2>5. Has(inbox'[Primary], DiscResponse(t)) => Goodbye(t)
    BY <1>4, <1>9, <2>4 DEF Goodbye
  <2> QED
    BY <2>1, <2>2, <2>3, <2>5, MemberKept
<1>13. ASSUME NEW t \in Sec PROVE Match(t)'
  <2> SUFFICES ASSUME NEW j \in Nat PROVE OnePlace(t, j)' /\ OneFrame(t, j)' /\ Known(t, j)'
    BY DEF Match
  <2>1. OnePlace(t, j) /\ OneFrame(t, j) /\ Known(t, j)
    BY <1>13 DEF IInv, Matching, Match
  <2>2. /\ inbox'[t] = inbox[t] /\ requests' = requests
        /\ queued'[t] = queued[t] /\ pending'[t] = pending[t] /\ created'[t] = created[t]
    BY <1>1, <1>8, <1>13
  <2>3. Req(t, j) = f => t = s
    BY <1>7, Fields
  <2>4. Req(t, j) = f => Asked(t, j) /\ ~Asked(t, j)'
    BY <1>4, <1>6, <2>1, <2>3 DEF Asked, OneFrame
  <2>5. /\ Asked(t, j)' => Asked(t, j)
        /\ Heard(t, j)' => Heard(t, j) \/ (Asked(t, j) /\ ~Asked(t, j)')
        /\ Noted(t, j)' = Noted(t, j) /\ Answered(t, j)' = Answered(t, j)
    <3>1. Asked(t, j)' => Asked(t, j)
      BY <1>5, <1>6, <1>13 DEF Asked
    <3>2. Heard(t, j)' => Heard(t, j) \/ Req(t, j) = f
      BY <1>9 DEF Heard
    <3>3. Noted(t, j)' = Noted(t, j) /\ Answered(t, j)' = Answered(t, j)
      BY <2>2 DEF Noted, Answered
    <3> QED
      BY <2>4, <3>1, <3>2, <3>3, Zenon
  <2>6. OneFrame(t, j)'
    <3>1. Req(t, j) = f => ~Has(inbox[Primary], Req(t, j))
      BY <2>1, <2>4 DEF OnePlace, Heard
    <3>2. Once(txList'[t], Req(t, j))
      BY <1>5, <1>6, <1>13, <2>1 DEF OneFrame
    <3> QED
      BY <1>9, <2>1, <2>2, <3>1, <3>2 DEF OneFrame
  <2>7. OnePlace(t, j)'
    BY <2>1, <2>5, Zenon DEF OnePlace
  <2>8. Known(t, j)'
    <3>1. Underway(t, j)' => Underway(t, j)
      BY <2>5, Zenon DEF Underway
    <3> QED
      BY <2>1, <2>2, <3>1 DEF Known
  <2> QED
    BY <2>6, <2>7, <2>8
<1>14. Responding'
  BY <1>1 DEF IInv, Responding
<1> QED
  BY <1>10, <1>11, <1>12, <1>13, <1>14 DEF IInv, Membership, Matching

\* The other interrupts and the timer bring no frame anywhere.
LEMMA DriverSteps ==
  ASSUME NEW s \in Sec, IInv, Loaded, UNCHANGED <<primary, secondary>>,
         IsrInserted(s) \/ BhTransmit(s) \/ AbortedFrame(s) \/ TxTimeout(s)
  PROVE  IInv'
<1>1. UNCHANGED <<inbox, requests, clients, mode, secondary>>
  BY DEF IsrInserted, BhTransmit, AbortedFrame, TxTimeout, line, primary
<1>2. Ending => Ending'
  BY <1>1 DEF Ending
<1>3. QuietRest
  BY <1>1, <1>2, RestStays
<1>4. CASE IsrInserted(s) \/ BhTransmit(s) \/ AbortedFrame(s)
  <2>1. txList' = txList
    BY <1>4 DEF IsrInserted, BhTransmit, AbortedFrame
  <2> QED
    BY <1>1, <1>3, <2>1, QueuesStay, Quiet
<1>5. CASE TxTimeout(s)
  <2>1. txList[s] # <<>>
    BY <1>5, Zenon DEF TxTimeout, Loaded
  <2>2. DOMAIN txList' = Sec /\ \A t \in Sec : txList'[t] = txList[t] \/ (txList[t] # <<>> /\ txList'[t] = Tail(txList[t]))
    BY <1>5, <2>1 DEF TxTimeout, IInv, Shape
  <2>3. \A t \in Sec : Dull(txList'[t], txList[t], Idle(t))
    BY <2>2, Still, Zenon
  <2>4. DOMAIN inbox' = Stations
    BY <1>1 DEF IInv, Shape
  <2>5. QuietQueues
    BY <1>1, <2>2, <2>3, <2>4, Still, Zenon DEF QuietQueues
  <2> QED
    BY <1>3, <2>5, Quiet
<1> QED
  BY <1>4, <1>5

\* A frame in progress is there.
LEMMA LoadedStep == IInv /\ Loaded /\ [Next]_vars => Loaded'
<1> SUFFICES ASSUME IInv, Loaded, [Next]_vars PROVE Loaded'
  OBVIOUS
<1>1. CASE UNCHANGED <<txList, tx_active>>
  BY <1>1 DEF Loaded
<1>2. ASSUME NEW s \in Sec, NEW v, v => txList'[s] # <<>>,
             tx_active' = [tx_active EXCEPT ![s] = v],
             DOMAIN txList' = Sec, \A t \in Sec : t # s => txList'[t] = txList[t]
      PROVE  Loaded'
  <2>1. DOMAIN tx_active' = Sec /\ tx_active'[s] = v /\ \A t \in Sec : t # s => tx_active'[t] = tx_active[t]
    BY <1>2 DEF Loaded
  <2>2. \A t \in Sec : tx_active[t] => txList[t] # <<>>
    BY DEF Loaded
  <2>3. ASSUME NEW t \in Sec, tx_active'[t] PROVE txList'[t] # <<>>
    <3>1. CASE t = s
      BY <1>2, <2>1, <2>3, <3>1, Zenon
    <3>2. CASE t # s
      BY <1>2, <2>1, <2>2, <2>3, <3>2, Zenon
    <3> QED
      BY <3>1, <3>2
  <2> QED
    BY <1>2, <2>1, <2>3, Zenon DEF Loaded
<1>3. ASSUME NEW s \in Sec, NEW f, f \in FromSec(s), Write(s, f) PROVE Loaded'
  <2> DEFINE v == Loads(s, txList'[s], tx_active[s])
  <2>1. /\ tx_active' = [tx_active EXCEPT ![s] = v]
        /\ txList' = [txList EXCEPT ![s] = Append(@, f)]
    BY <1>3 DEF Write
  <2> HIDE DEF v
  <2>2. txList[s] \in Seq(FromSec(s)) /\ DOMAIN txList = Sec
    BY <1>3 DEF IInv, Frames, Shape
  <2>3. DOMAIN txList' = Sec /\ txList'[s] = Append(txList[s], f) /\ \A t \in Sec : t # s => txList'[t] = txList[t]
    BY <2>1, <2>2
  <2>4. txList'[s] # <<>>
    BY <1>3, <2>2, <2>3
  <2> QED
    BY <1>2, <1>3, <2>1, <2>3, <2>4, Zenon
<1>4. ASSUME NEW s \in Sec, IsrFrameSent(s) PROVE Loaded'
  <2>1. tx_active' = [tx_active EXCEPT ![s] = FALSE] /\ DOMAIN txList' = Sec /\ \A t \in Sec : t # s => txList'[t] = txList[t]
    BY <1>4 DEF IsrFrameSent, Loaded
  <2> QED
    BY <1>2, <1>4, <2>1, Zenon
<1>5. ASSUME NEW s \in Sec, BhTransmit(s) PROVE Loaded'
  <2> DEFINE v == Loads(s, txList[s], tx_active[s])
  <2>1. tx_active' = [tx_active EXCEPT ![s] = v] /\ txList' = txList /\ DOMAIN txList' = Sec
    BY <1>5 DEF BhTransmit, Loaded
  <2>2. v => txList'[s] # <<>>
    BY <1>5, <2>1, Zenon DEF Loads, Loaded
  <2> HIDE DEF v
  <2> QED
    BY <1>2, <1>5, <2>1, <2>2, Zenon
<1>6. ASSUME NEW s \in Sec, TxTimeout(s) PROVE Loaded'
  <2> DEFINE v == Loads(s, txList'[s], FALSE)
  <2>1. tx_active' = [tx_active EXCEPT ![s] = v] /\ txList' = [txList EXCEPT ![s] = Tail(@)]
    BY <1>6 DEF TxTimeout
  <2>2. v => txList'[s] # <<>>
    BY Zenon DEF Loads
  <2>3. DOMAIN txList' = Sec /\ \A t \in Sec : t # s => txList'[t] = txList[t]
    BY <2>1 DEF Loaded
  <2> HIDE DEF v
  <2> QED
    BY <1>2, <1>6, <2>1, <2>2, <2>3, Zenon
<1>7. ASSUME NEW s \in Sec, ClosePort(s) PROVE Loaded'
  <2>1. tx_active' = [tx_active EXCEPT ![s] = FALSE] /\ DOMAIN txList' = Sec /\ \A t \in Sec : t # s => txList'[t] = txList[t]
    BY <1>7 DEF ClosePort, Loaded
  <2> QED
    BY <1>2, <1>7, <2>1, Zenon
<1>8. ASSUME NEW s \in Sec PROVE SIMRequest(s) \in FromSec(s) /\ PollResponse(s) \in FromSec(s) /\ DiscResponse(s) \in FromSec(s)
  BY DEF FromSec
<1>9. ASSUME NEW s \in Sec, SReceive(s) PROVE Loaded'
  <2>1. CASE UNCHANGED driver
    BY <1>1, <2>1 DEF driver
  <2>2. CASE \E f \in FromSec(s) : SReply(s, f)
    <3>1. PICK f \in FromSec(s) : SReply(s, f)
      BY <2>2
    <3>2. Write(s, f) \/ UNCHANGED driver
      BY <3>1 DEF SReply, Sends, SendTimesOut
    <3> QED
      BY <1>3, <1>9, <2>1, <3>2
  <2>3. UNCHANGED driver \/ SReply(s, DiscResponse(s)) \/ SReply(s, SIMRequest(s)) \/ SReply(s, PollResponse(s))
    BY <1>9, Zenon DEF SReceive, SReceiveDisc, SReceiveJoining, SReceivePoll, SReceiveInfo, driver
  <2> QED
    BY <1>8, <1>9, <2>1, <2>2, <2>3
<1>10. ASSUME NEW s \in Sec, SRespond(s) PROVE Loaded'
  <2>1. Write(s, Info(s, TRUE, Head(queued[s]))) \/ UNCHANGED driver
    BY <1>10, Zenon DEF SRespond, Sends, SendTimesOut
  <2>2. Info(s, TRUE, Head(queued[s])) \in FromSec(s)
    <3>1. queued[s] \in Seq(Nat) /\ queued[s] # <<>>
      BY <1>10 DEF SRespond, IInv, Shape, Responding
    <3>2. Head(queued[s]) \in Nat
      BY <3>1
    <3>3. Req(s, Head(queued[s])) \in FromSec(s)
      BY <3>2 DEF FromSec
    <3> QED
      BY <3>3, Zenon DEF Req
  <2> QED
    BY <1>1, <1>3, <1>10, <2>1, <2>2 DEF driver
<1>11. CASE PStep \/ PStartDisc \/ PDiscGivenUp
  <2>1. UNCHANGED driver
    BY <1>11 DEF PStep, PReceiveSIM, PReceive, PCheckTransmit, PRespond, PPoll, PIdleOnes, PDisc, PReceiveDisc, PDiscDone,
         PStartDisc, PDiscGivenUp, PDiscOver
  <2> QED
    BY <1>1, <2>1 DEF driver
<1>12. ASSUME NEW s \in Sec, SInserted(s) \/ SRelease(s) \/ SNewTransaction(s) \/ IsrInserted(s) \/ AbortedFrame(s) PROVE Loaded'
  <2>1. UNCHANGED <<txList, tx_active>>
    BY <1>12 DEF SInserted, SRelease, SNewTransaction, IsrInserted, AbortedFrame, driver, LoopTxDone
  <2> QED
    BY <1>1, <2>1
<1>13. CASE UNCHANGED vars
  BY <1>1, <1>13 DEF vars, driver
<1> QED
  BY <1>4, <1>5, <1>6, <1>7, <1>9, <1>10, <1>11, <1>12, <1>13 DEF Next, Running, SStep, SLeave, DriverStep, DriverFault

-----------------------------------------------------------------------------
(* The sample programs.                                                    *)

\* The loop starts with nobody on it and nothing sent.
LEMMA SampleInit == Init => IInv /\ Loaded
<1> SUFFICES ASSUME Init PROVE IInv /\ Loaded
  OBVIOUS
<1>1. /\ DOMAIN inbox = Stations /\ \A t \in Stations : inbox[t] = <<>>
      /\ DOMAIN txList = Sec /\ \A s \in Sec : txList[s] = <<>>
      /\ requests = <<>> /\ DOMAIN bInitialized = Sec /\ DOMAIN pc = Sec /\ \A s \in Sec : pc[s] = "loop"
      /\ DOMAIN tx_active = Sec
      /\ queued = [s \in Sec |-> <<>>] /\ pending = [s \in Sec |-> <<>>] /\ created = [s \in Sec |-> 0]
  BY DEF Init, DriverInit
<1>2. \A s \in Sec : bInitialized[s] = FALSE /\ tx_active[s] = FALSE
  BY DEF Init, DriverInit
<1>3. \A S : <<>> \in Seq(S)
  BY EmptyFacts, Zenon
<1>4. Shape
  BY <1>1, <1>3 DEF Shape
<1>5. inbox[Primary] = <<>> /\ \A s \in Sec : inbox[s] = <<>>
  BY <1>1, Addresses
<1>6. Frames
  BY <1>1, <1>3, <1>5, Zenon DEF Frames
<1>7. Membership
  BY <1>1, <1>2, <1>5, EmptyFacts, Zenon DEF Membership, Member, Welcome, Goodbye
<1>8. ASSUME NEW s \in Sec, NEW k \in Nat PROVE OnePlace(s, k) /\ OneFrame(s, k) /\ Known(s, k)
  <2>1. ~Asked(s, k) /\ ~Heard(s, k) /\ ~Noted(s, k) /\ ~Answered(s, k)
    BY <1>1, <1>5, <1>8, EmptyFacts, Zenon DEF Asked, Heard, Noted, Answered
  <2>2. OneFrame(s, k)
    BY <1>1, <1>5, <1>8, EmptyFacts, Zenon DEF OneFrame
  <2>3. \A j : j \notin Range(<<>>)
    BY DEF Range
  <2>4. pending[s] = <<>> /\ queued[s] = <<>>
    BY <1>1, <1>8
  <2> QED
    BY <2>1, <2>2, <2>3, <2>4, Zenon DEF OnePlace, Known, Underway
<1>9. Matching
  BY <1>8 DEF Matching, Match
<1>10. Responding
  BY <1>1 DEF Responding
<1>11. Loaded
  BY <1>1, <1>2, Zenon DEF Loaded
<1> QED
  BY <1>4, <1>6, <1>7, <1>9, <1>10, <1>11 DEF IInv

\* Every step keeps the account of members and transactions.
LEMMA SampleStep == IInv /\ Loaded /\ [Next]_vars => IInv'
<1> SUFFICES ASSUME IInv, Loaded, [Next]_vars PROVE IInv'
  OBVIOUS
<1>1. CASE PStep \/ PStartDisc \/ PDiscGivenUp
  BY <1>1, ReceiveSIMStep, ReceiveStep, CheckTransmitStep, RespondStep, PollStep, DiscStep, ReceiveDiscStep, SilentSteps
     DEF PStep, PDiscDone, PDiscGivenUp
<1>2. ASSUME NEW s \in Sec, SStep(s) \/ SNewTransaction(s) \/ SLeave(s) PROVE IInv'
  BY <1>2, PlainSteps, SReceiveDiscStep, ReceiveJoiningStep, ReceivePollStep, ReceiveInfoStep, SRespondStep,
     SNewTransactionStep DEF SStep, SReceive
<1>3. ASSUME NEW s \in Sec, DriverStep(s) \/ DriverFault(s), UNCHANGED <<primary, secondary>> PROVE IInv'
  BY <1>3, FrameSentStep, DriverSteps DEF DriverStep, DriverFault
<1>4. CASE UNCHANGED vars
  <2>1. UNCHANGED <<inbox, txList, requests, clients, mode, secondary>>
    BY <1>4 DEF vars, driver, line, primary
  <2>2. Ending => Ending'
    BY <2>1 DEF Ending
  <2> QED
    BY <2>1, <2>2, QueuesStay, RestStays, Quiet
<1> QED
  BY <1>1, <1>2, <1>3, <1>4 DEF Next, Running

\* In every reachable state of the sample the queues hold only frames that
\* their stations write, no DISC passes a SIM response, each transaction is in
\* one place, and the frame the driver is sending is the first of n_hdlc's
\* list: whatever is lost, and whenever the poll timer runs out (the main
\* loops of primary.c and secondary.c over the loop mode of route56.c).
THEOREM SampleInvariant == Spec => [](IInv /\ Loaded)
<1>1. IInv /\ Loaded /\ [Next]_vars => (IInv /\ Loaded)'
  BY SampleStep, LoadedStep
<1> QED
  BY <1>1, SampleInit, PTL DEF Spec

\* For any number of stations: a secondary whose bInitialized is set has a
\* client record at the primary.  The primary allocates the client before it
\* answers the SIM, and deallocates it for a DISC response alone, which the
\* secondary sends when it clears the flag.
THEOREM SampleInitializedIsKnown == Spec => []InitializedIsKnown
<1>1. IInv => InitializedIsKnown
  BY Zenon DEF IInv, Membership, Member, Welcome, InitializedIsKnown
<1> QED
  BY <1>1, SampleInvariant, PTL

\* For any number of stations and transactions: whatever ReconcileTransaction
\* is given, now or later, is the number of a transaction in the pending list,
\* and no number is given to it twice: a request is queued once at the primary
\* and answered once, and leaves the pending list only with its answer.
THEOREM SampleResponsesMatch == Spec => []ResponsesMatch
<1>1. IInv => ResponsesMatch
  <2> SUFFICES ASSUME IInv, NEW s \in Sec
               PROVE  /\ \A i \in Answers(s) : inbox[s][i].n \in Range(pending[s])
                      /\ \A i, j \in Answers(s) : inbox[s][i].n = inbox[s][j].n => i = j
    BY DEF ResponsesMatch
  <2>1. inbox[s] \in Seq(ToSec(s))
    BY DEF IInv, Frames
  <2>2. ASSUME NEW i \in Answers(s)
        PROVE  i \in 1 .. Len(inbox[s]) /\ inbox[s][i].n \in Nat /\ inbox[s][i] = Ans(s, inbox[s][i].n)
    <3>1. i \in 1 .. Len(inbox[s]) /\ inbox[s][i] \in ToSec(s) /\ inbox[s][i].ctrl = "I"
      BY <2>1, <2>2 DEF Answers
    <3>2. inbox[s][i] \notin {GeneralPoll, DiscRequest, SIMResponse(s)}
      BY <3>1, Fields
    <3>3. PICK k \in Nat : inbox[s][i] = Ans(s, k)
      BY <3>1, <3>2 DEF ToSec
    <3>4. inbox[s][i].n = k
      BY <3>3, Fields
    <3> QED
      BY <3>1, <3>3, <3>4
  <2>3. ASSUME NEW k \in Nat PROVE OneFrame(s, k) /\ Known(s, k)
    BY <2>3 DEF IInv, Matching, Match
  <2>4. ASSUME NEW i \in Answers(s) PROVE inbox[s][i].n \in Range(pending[s])
    <3> DEFINE k == inbox[s][i].n
    <3>1. k \in Nat /\ Answered(s, k)
      BY <2>2, <2>4 DEF Answered, Has
    <3> HIDE DEF k
    <3>2. k \in Range(pending[s])
      BY <2>3, <3>1 DEF Known, Underway
    <3> QED
      BY <3>2 DEF k
  <2>5. ASSUME NEW i \in Answers(s), NEW j \in Answers(s), inbox[s][i].n = inbox[s][j].n PROVE i = j
    <3> DEFINE k == inbox[s][i].n
    <3>1. k \in Nat /\ inbox[s][i] = Ans(s, k) /\ inbox[s][j] = Ans(s, k) /\ i \in 1 .. Len(inbox[s]) /\ j \in 1 .. Len(inbox[s])
      BY <2>2, <2>5
    <3> HIDE DEF k
    <3>2. Once(inbox[s], Ans(s, k))
      BY <2>3, <3>1 DEF OneFrame
    <3> QED
      BY <3>1, <3>2 DEF Once
  <2> QED
    BY <2>4, <2>5
<1> QED
  BY <1>1, SampleInvariant, PTL
=============================================================================
