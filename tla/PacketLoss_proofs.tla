------------------------ MODULE PacketLoss_proofs ------------------------
(***************************************************************************)
(* What a receiver does about lost packets: the reorder window in its two  *)
(* callers, proved for every space of sequence numbers, every capacity and *)
(* every stream shorter than half of that space, on networks that reorder  *)
(* within the window; and forward error correction, for every size of its  *)
(* groups and of the history, on networks no later than the history is     *)
(* long.                                                                   *)
(*                                                                         *)
(* The window knows sequence numbers, its callers' account is one of       *)
(* places in the stream.  Both arguments tie the two together, packets     *)
(* being less than half of the space apart, and say which place the window *)
(* waits for; what a call queues leads the caller there.  Error correction *)
(* comes last, from FecFits on.                                            *)
(***************************************************************************)
EXTENDS MCPacketLoss, StreamBus,
        FiniteSetTheorems, SequenceTheorems, WellFoundedInduction, TLAPS

-----------------------------------------------------------------------------
(* Numbers and sequences.                                                  *)

LEMMA Least ==
  ASSUME NEW T \in SUBSET Nat, T # {}
  PROVE  \E x \in T : \A y \in T : x <= y
  <1> DEFINE R == {ss \in Nat \X Nat : ss[1] < ss[2]}
  <1>1. IsWellFoundedOn(R, Nat)
    BY NatLessThanWellFounded DEF OpToRel
  <1>2. \A x, y \in Nat : <<y, x>> \in R <=> y < x
    OBVIOUS
  <1> HIDE DEF R
  <1>3. PICK x \in T : \A y \in T : ~ (<<y, x>> \in R)
    BY <1>1, WFMin
  <1>4. \A y \in T : ~ (y < x) /\ y \in Nat /\ x \in Nat
    BY <1>2, <1>3
  <1> QED BY <1>3, <1>4

LEMMA SeqFacts ==
  ASSUME NEW a \in SeqNums, NEW n \in 0 .. SeqSpace - 1
  PROVE  Advance(a, n) \in SeqNums /\ Distance(Advance(a, n), a) = n
  BY WindowAssumption DEF SeqNums, SeqSpace, Advance, Distance

LEMMA DistanceFacts ==
  ASSUME NEW a \in SeqNums, NEW b \in SeqNums
  PROVE  /\ Distance(a, b) \in 0 .. SeqSpace - 1
         /\ Distance(a, b) = 0 <=> a = b
         /\ Advance(b, Distance(a, b)) = a
  BY WindowAssumption DEF SeqNums, SeqSpace, Advance, Distance

LEMMA Nearby ==
  ASSUME NEW a \in SeqNums, NEW b \in SeqNums, NEW c \in SeqNums,
         Distance(a, b) >= Distance(c, b)
  PROVE  Distance(a, c) = Distance(a, b) - Distance(c, b)
  BY WindowAssumption DEF SeqNums, SeqSpace, Distance

LEMMA Places ==
  ASSUME NEW x \in SeqNums, NEW p \in SeqNums, NEW e \in SeqNums,
         Distance(x, p) < Half, Distance(x, e) < Half, Distance(p, e) <= Half
  PROVE  Distance(x, e) = Distance(x, p) + Distance(p, e)
  BY WindowAssumption DEF SeqNums, SeqSpace, Distance

LEMMA RunLengthFacts ==
  ASSUME NEW b, NEW s, \E n \in 0 .. SeqSpace - 1 : Advance(s, n) \notin DOMAIN b
  PROVE  /\ RunLength(b, s) \in 0 .. SeqSpace - 1
         /\ Advance(s, RunLength(b, s)) \notin DOMAIN b
         /\ \A i \in 0 .. RunLength(b, s) - 1 : Advance(s, i) \in DOMAIN b
  <1> DEFINE T == {n \in 0 .. SeqSpace - 1 : Advance(s, n) \notin DOMAIN b}
  <1>1. SeqSpace \in Nat
    BY WindowAssumption DEF SeqSpace
  <1>2. T \in SUBSET Nat /\ T # {}
    BY <1>1
  <1>3. PICK n \in T : \A m \in T : n <= m
    BY <1>2, Least
  <1>4. \A i \in 0 .. n - 1 : Advance(s, i) \in DOMAIN b
    BY <1>1, <1>3
  <1>5. \E m \in 0 .. SeqSpace - 1 : /\ Advance(s, m) \notin DOMAIN b
                                     /\ \A i \in 0 .. m - 1 : Advance(s, i) \in DOMAIN b
    BY <1>3, <1>4
  <1> QED BY <1>5 DEF RunLength

LEMMA AdvanceTwice ==
  ASSUME NEW a \in SeqNums, NEW m \in Nat, NEW n \in Nat, m + n < SeqSpace
  PROVE  Advance(Advance(a, m), n) = Advance(a, m + n)
  BY WindowAssumption DEF SeqNums, SeqSpace, Advance

LEMMA AdvanceBoth ==
  ASSUME NEW a \in SeqNums, NEW b \in SeqNums
  PROVE  /\ Distance(a, b) < SeqSpace - 1 => Distance(Advance(a, 1), b) = Distance(a, b) + 1
         /\ Distance(a, b) > 0 => Distance(a, Advance(b, 1)) = Distance(a, b) - 1
  BY WindowAssumption DEF SeqNums, SeqSpace, Advance, Distance

LEMMA UpTo ==
  ASSUME NEW n \in Nat, NEW Good, 0 \in Good, \A i \in 0 .. n - 1 : i \in Good => i + 1 \in Good
  PROVE  \A i \in 0 .. n : i \in Good
  <1> SUFFICES ASSUME NEW b \in 0 .. n, b \notin Good PROVE FALSE
    OBVIOUS
  <1> DEFINE T == {i \in 0 .. n : i \notin Good}
  <1>1. T \in SUBSET Nat /\ b \in T
    OBVIOUS
  <1>2. PICK x \in T : \A y \in T : x <= y
    BY <1>1, Least
  <1>3. x # 0 /\ x \in 1 .. n
    BY <1>2
  <1>4. x - 1 \in Good /\ x - 1 \in 0 .. n - 1
    BY <1>2, <1>3
  <1> QED BY <1>2, <1>4

LEMMA RunIsSeq ==
  ASSUME NEW S, NEW n \in Nat, NEW f \in [1 .. n -> S]
  PROVE  f \in Seq(S) /\ Len(f) = n
  <1>1. Seq(S) = UNION {[1 .. k -> S] : k \in Nat}
    BY SeqDef
  <1>2. f \in Seq(S)
    BY <1>1
  <1>3. DOMAIN f = 1 .. n /\ DOMAIN f = 1 .. Len(f) /\ Len(f) \in Nat
    BY <1>2, LenProperties
  <1> QED BY <1>2, <1>3

-----------------------------------------------------------------------------
(* StreamReceiver.  A packet lies as far behind the publisher in numbers   *)
(* as in places (Numbered).  `Turn' is the place the window waits for; the *)
(* events it queued lead the application there.                            *)

Packets == [pos : Nat, seq : SeqNums]
Events == {PacketEvent(p) : p \in Packets} \cup {DroppedEvent(n) : n \in Nat}

(* Every variable keeps to its range.                                      *)
StreamTypes ==
  /\ nextExpected \in SeqNums \cup {NoSeq}
  /\ pubSeq \in SeqNums
  /\ IsFiniteSet(sent) /\ Cardinality(sent) <= MaxSent /\ sent \subseteq Packets
  /\ eventQueue \in Seq(Events)
  /\ cursor \in Nat \cup {NotStarted}

(* Numbers and places of the packets sent agree.                           *)
Numbered ==
  \A p \in sent :
    /\ p.pos < Cardinality(sent)
    /\ Distance(pubSeq, p.seq) = Cardinality(sent) - p.pos

Turn == Cardinality(sent) - Distance(pubSeq, nextExpected)

(* What a held packet is, and where it lies.                               *)
Kept(b, from) ==
  \A k \in DOMAIN b :
    /\ k \in SeqNums /\ b[k] \in sent /\ b[k].seq = k
    /\ Distance(k, from) \in 1 .. Capacity

HeldKnown ==
  /\ nextExpected = NoSeq => Held = {}
  /\ nextExpected # NoSeq =>
       Kept(buffer, nextExpected) /\ Distance(pubSeq, nextExpected) <= Cardinality(sent)

IsPacket(i) == eventQueue[i].type = "Packet"

(* The events queued lead the application to the window's turn: a report   *)
(* of loss, if any, comes first, and then packets, place by place.         *)
Leading ==
  /\ \A i \in 1 .. Len(eventQueue) :
       IsPacket(i) => eventQueue[i].packet.pos = Turn - 1 - (Len(eventQueue) - i)
  /\ \A i \in 2 .. Len(eventQueue) : IsPacket(i)
  /\ cursor # NotStarted =>
       /\ eventQueue = << >> => cursor = Turn
       /\ eventQueue # << >> /\ IsPacket(1) => cursor = Turn - Len(eventQueue)
       /\ eventQueue # << >> /\ ~ IsPacket(1) =>
            /\ eventQueue[1].count > 0
            /\ cursor + eventQueue[1].count = Turn - Len(eventQueue) + 1

Accounted ==
  /\ nextExpected = NoSeq => eventQueue = << >> /\ cursor = NotStarted
  /\ nextExpected # NoSeq => Leading
  /\ cursor = NotStarted =>
       /\ played = {}
       /\ nextExpected # NoSeq => Len(eventQueue) = 1 /\ IsPacket(1)

Sound == StreamTypes /\ Numbered /\ HeldKnown /\ Accounted

(* Nothing is promised where the network reorders more than the window.    *)
StreamIInv == skew \in Nat /\ (skew <= Capacity => Sound)

-----------------------------------------------------------------------------
(* Facts every step needs.                                                 *)

LEMMA SentFacts ==
  ASSUME StreamTypes, Numbered, NEW p \in sent
  PROVE  /\ p.pos \in Nat /\ p.seq \in SeqNums /\ p \in Packets
         /\ Cardinality(sent) \in Nat /\ Cardinality(sent) < Half
         /\ p.pos < Cardinality(sent)
         /\ Distance(pubSeq, p.seq) = Cardinality(sent) - p.pos
         /\ Distance(pubSeq, p.seq) < Half
  <1>1. Cardinality(sent) \in Nat
    BY FS_CardinalityType DEF StreamTypes
  <1>2. p \in Packets
    BY DEF StreamTypes
  <1> QED BY <1>1, <1>2, WindowAssumption, StreamAssumption DEF StreamTypes, Packets, Numbered

(* A packet ahead of another in numbers is so in places.                   *)
LEMMA AheadInPlace ==
  ASSUME StreamTypes, Numbered, NEW p \in sent, NEW q \in sent,
         Distance(q.seq, p.seq) <= Half
  PROVE  q.pos = p.pos + Distance(q.seq, p.seq)
  <1>1. /\ p.pos \in Nat /\ q.pos \in Nat /\ Cardinality(sent) \in Nat
        /\ p.seq \in SeqNums /\ q.seq \in SeqNums /\ pubSeq \in SeqNums
        /\ Distance(pubSeq, p.seq) = Cardinality(sent) - p.pos
        /\ Distance(pubSeq, q.seq) = Cardinality(sent) - q.pos
        /\ Distance(pubSeq, p.seq) < Half /\ Distance(pubSeq, q.seq) < Half
    BY SentFacts DEF StreamTypes
  <1>2. Distance(pubSeq, p.seq) = Distance(pubSeq, q.seq) + Distance(q.seq, p.seq)
    BY <1>1, Places
  <1>3. Distance(q.seq, p.seq) \in Int
    BY <1>1, DistanceFacts DEF SeqSpace
  <1> QED BY <1>1, <1>2, <1>3

-----------------------------------------------------------------------------
(* The drain loop: from a packet delivered on, all that follow it without  *)
(* gap leave, place by place, and what stays lies behind the new turn.     *)
LEMMA DrainFacts ==
  ASSUME StreamTypes, Numbered, NEW p \in sent, NEW b, Kept(b, p.seq)
  PROVE  LET front == Advance(p.seq, 1)
             n == RunLength(b, front)
             next == Advance(front, n)
         IN  /\ n \in Nat /\ n <= Capacity
             /\ next \in SeqNums
             /\ p.pos + 1 + n <= Cardinality(sent)
             /\ Distance(pubSeq, next) = Cardinality(sent) - (p.pos + 1 + n)
             /\ \A i \in 1 .. n : /\ b[Advance(front, i - 1)] \in sent
                                   /\ b[Advance(front, i - 1)].pos = p.pos + i
             /\ Kept(Without(b, Run(b, front)), next)
  <1> DEFINE front == Advance(p.seq, 1)
             n == RunLength(b, front)
             next == Advance(front, n)
  <1>1. /\ p.pos \in Nat /\ p.seq \in SeqNums /\ Cardinality(sent) \in Nat
        /\ p.pos < Cardinality(sent) /\ pubSeq \in SeqNums
        /\ Distance(pubSeq, p.seq) = Cardinality(sent) - p.pos
    BY SentFacts DEF StreamTypes
  <1>2. /\ Capacity \in Nat /\ SeqSpace \in Nat /\ Half \in Nat
        /\ Capacity + 1 < Half /\ SeqSpace = 2 * Half
    BY WindowAssumption DEF SeqSpace
  <1>3. \A i \in 0 .. Capacity :
          /\ Advance(front, i) = Advance(p.seq, i + 1)
          /\ Advance(p.seq, i + 1) \in SeqNums
          /\ Distance(Advance(p.seq, i + 1), p.seq) = i + 1
    <2> TAKE i \in 0 .. Capacity
    <2>1. i \in Nat /\ 1 + i = i + 1 /\ 1 + i < SeqSpace /\ i + 1 \in 0 .. SeqSpace - 1
      BY <1>2
    <2>2. Advance(front, i) = Advance(p.seq, 1 + i)
      BY <1>1, <2>1, AdvanceTwice
    <2> QED BY <1>1, <2>1, <2>2, SeqFacts
  <1>4. Advance(front, Capacity) \notin DOMAIN b
    BY <1>2, <1>3 DEF Kept
  <1>5. /\ n \in 0 .. SeqSpace - 1 /\ next \notin DOMAIN b
        /\ \A i \in 0 .. n - 1 : Advance(front, i) \in DOMAIN b
    <2>1. Capacity \in 0 .. SeqSpace - 1
      BY <1>2
    <2> QED BY <1>4, <2>1, RunLengthFacts
  <1>6. n \in Nat /\ n <= Capacity
    <2>1. n \in Nat
      BY <1>2, <1>5
    <2>2. ~ (Capacity \in 0 .. n - 1)
      BY <1>4, <1>5
    <2> QED BY <1>2, <2>1, <2>2
  <1>7. /\ next = Advance(p.seq, n + 1) /\ next \in SeqNums
        /\ Distance(next, p.seq) = n + 1
    BY <1>2, <1>3, <1>6
  <1>8. \A i \in 1 .. n :
          LET k == Advance(front, i - 1)
          IN  /\ k = Advance(p.seq, i) /\ k \in DOMAIN b /\ b[k] \in sent
              /\ b[k].seq = k /\ b[k].pos = p.pos + i
    <2> TAKE i \in 1 .. n
    <2> DEFINE k == Advance(front, i - 1)
    <2>1. i - 1 \in 0 .. n - 1 /\ i - 1 \in 0 .. Capacity /\ (i - 1) + 1 = i
      BY <1>2, <1>6
    <2>2. k = Advance(p.seq, i) /\ Distance(k, p.seq) = i /\ k \in DOMAIN b
      BY <1>3, <1>5, <2>1
    <2>3. b[k] \in sent /\ b[k].seq = k
      BY <2>2 DEF Kept
    <2>4. i <= Half
      BY <1>2, <1>6
    <2>5. b[k].pos = p.pos + i
      BY <2>2, <2>3, <2>4, AheadInPlace
    <2> QED BY <2>2, <2>3, <2>5
  (* The last packet of the run is one the publisher sent.                 *)
  <1>9. /\ p.pos + 1 + n <= Cardinality(sent)
        /\ Distance(pubSeq, next) = Cardinality(sent) - (p.pos + 1 + n)
    <2>1. \E q \in sent : q.pos = p.pos + n /\ q.seq = Advance(p.seq, n)
      <3>1. CASE n = 0
        <4>1. Advance(p.seq, 0) = p.seq
          BY <1>1, <1>2 DEF Advance, SeqNums
        <4> QED BY <1>1, <3>1, <4>1
      <3>2. CASE n # 0
        <4>1. n \in 1 .. n
          BY <1>6, <3>2
        <4> QED BY <1>8, <4>1
      <3> QED BY <3>1, <3>2
    <2>2. PICK q \in sent : q.pos = p.pos + n /\ q.seq = Advance(p.seq, n)
      BY <2>1
    <2>3. next = Advance(q.seq, 1)
      <3>1. n + 1 < SeqSpace
        BY <1>2, <1>6
      <3> QED BY <1>1, <1>6, <1>7, <2>2, <3>1, AdvanceTwice
    <2>4. /\ q.pos < Cardinality(sent) /\ q.seq \in SeqNums
          /\ Distance(pubSeq, q.seq) = Cardinality(sent) - q.pos
      BY SentFacts
    <2>5. Distance(pubSeq, next) = Distance(pubSeq, q.seq) - 1
      BY <1>1, <1>6, <2>2, <2>3, <2>4, AdvanceBoth
    <2> QED BY <1>1, <1>6, <2>2, <2>4, <2>5
  <1>10. Kept(Without(b, Run(b, front)), next)
    <2> SUFFICES ASSUME NEW k \in DOMAIN b, k \notin Run(b, front)
                 PROVE  /\ k \in SeqNums /\ b[k] \in sent /\ b[k].seq = k
                        /\ Distance(k, next) \in 1 .. Capacity
      BY DEF Kept, Without
    <2> DEFINE d == Distance(k, p.seq)
    <2>1. /\ k \in SeqNums /\ b[k] \in sent /\ b[k].seq = k /\ d \in 1 .. Capacity
      BY DEF Kept
    <2>2. k = Advance(p.seq, d)
      BY <1>1, <2>1, DistanceFacts
    <2>3. k = Advance(front, d - 1)
      <3>1. d - 1 \in 0 .. Capacity /\ (d - 1) + 1 = d
        BY <1>2, <2>1
      <3> QED BY <1>3, <2>2, <3>1
    <2>4. d > n + 1
      <3>1. ~ (d - 1 \in 0 .. n - 1)
        BY <2>3 DEF Run
      <3>2. d - 1 # n
        BY <1>5, <2>3
      <3> QED BY <1>2, <1>6, <2>1, <3>1, <3>2
    <2>5. Distance(k, next) = d - (n + 1)
      BY <1>1, <1>2, <1>6, <1>7, <2>1, <2>4, Nearby
    <2> QED BY <1>2, <1>6, <2>1, <2>4, <2>5
  <1> QED BY <1>6, <1>7, <1>8, <1>9, <1>10

(* What one delivery returns, and where it leaves the window.              *)
LEMMA DeliverFacts ==
  ASSUME StreamTypes, Numbered, NEW p \in sent, NEW b, Kept(b, p.seq),
         NEW reported \in Seq(Events), DeliverAndDrain(p, b, reported)
  PROVE  \E n \in Nat :
           /\ nextExpected' \in SeqNums
           /\ p.pos + 1 + n <= Cardinality(sent)
           /\ Distance(pubSeq, nextExpected') = Cardinality(sent) - (p.pos + 1 + n)
           /\ Kept(buffer', nextExpected')
           /\ events' \in Seq(Events) /\ Len(events') = Len(reported) + 1 + n
           /\ \A i \in 1 .. Len(reported) : events'[i] = reported[i]
           /\ \A i \in 1 .. n + 1 :
                /\ events'[Len(reported) + i].type = "Packet"
                /\ events'[Len(reported) + i].packet.pos = p.pos + i - 1
  <1> DEFINE front == Advance(p.seq, 1)
             n == RunLength(b, front)
             next == Advance(front, n)
             run == [i \in 1 .. n |-> PacketEvent(b[Advance(front, i - 1)])]
             head == reported \o <<PacketEvent(p)>>
  <1>1. /\ n \in Nat /\ next \in SeqNums
        /\ p.pos + 1 + n <= Cardinality(sent)
        /\ Distance(pubSeq, next) = Cardinality(sent) - (p.pos + 1 + n)
        /\ \A i \in 1 .. n : /\ b[Advance(front, i - 1)] \in sent
                              /\ b[Advance(front, i - 1)].pos = p.pos + i
        /\ Kept(Without(b, Run(b, front)), next)
    BY DrainFacts
  <1>2. /\ nextExpected' = next /\ buffer' = Without(b, Run(b, front))
        /\ events' = head \o run
    BY DEF DeliverAndDrain
  <1>3. \A q \in sent : PacketEvent(q) \in Events
    BY DEF StreamTypes, Events
  <1>4. \A i \in 1 .. n : PacketEvent(b[Advance(front, i - 1)]) \in Events
    BY <1>1, <1>3
  <1>5. run \in Seq(Events) /\ Len(run) = n
    <2>1. run \in [1 .. n -> Events]
      BY <1>4
    <2> HIDE DEF run
    <2> QED BY <1>1, <2>1, RunIsSeq
  <1>6. /\ head \in Seq(Events) /\ Len(head) = Len(reported) + 1
        /\ \A i \in 1 .. Len(reported) : head[i] = reported[i]
        /\ head[Len(reported) + 1] = PacketEvent(p) /\ Len(reported) \in Nat
    <2>1. PacketEvent(p) \in Events
      BY <1>3
    <2>2. Append(reported, PacketEvent(p)) = head
      BY <2>1, AppendIsConcat
    <2> QED BY <2>1, <2>2, AppendProperties, LenProperties
  <1>7. \A i \in 1 .. n : run[i].type = "Packet" /\ run[i].packet.pos = p.pos + i
    BY <1>1 DEF PacketEvent
  <1>8. p.pos \in Nat
    BY SentFacts
  <1> HIDE DEF run, head
  <1>9. /\ events' \in Seq(Events) /\ Len(events') = Len(head) + n
        /\ \A i \in 1 .. Len(head) + n :
             events'[i] = IF i <= Len(head) THEN head[i] ELSE run[i - Len(head)]
    <2>1. /\ head \o run \in Seq(Events) /\ Len(head \o run) = Len(head) + Len(run)
          /\ \A i \in 1 .. Len(head) + Len(run) :
               (head \o run)[i] = IF i <= Len(head) THEN head[i] ELSE run[i - Len(head)]
      BY <1>5, <1>6, ConcatProperties
    <2> QED BY <1>2, <1>5, <2>1
  <1>10. \A i \in 1 .. Len(reported) : events'[i] = reported[i]
    <2> TAKE i \in 1 .. Len(reported)
    <2>1. i \in 1 .. Len(head) + n /\ i <= Len(head)
      BY <1>1, <1>6
    <2> QED BY <1>6, <1>9, <2>1
  <1>11. \A i \in 1 .. n + 1 :
           /\ events'[Len(reported) + i].type = "Packet"
           /\ events'[Len(reported) + i].packet.pos = p.pos + i - 1
    <2> TAKE i \in 1 .. n + 1
    <2>1. CASE i = 1
      <3>1. events'[Len(reported) + 1] = PacketEvent(p)
        BY <1>1, <1>6, <1>9
      <3> QED BY <1>8, <2>1, <3>1 DEF PacketEvent
    <2>2. CASE i > 1
      <3>1. i - 1 \in 1 .. n /\ Len(reported) + i \in 1 .. Len(head) + n
            /\ ~ (Len(reported) + i <= Len(head)) /\ Len(reported) + i - Len(head) = i - 1
        BY <1>1, <1>6, <2>2
      <3>2. events'[Len(reported) + i] = run[i - 1]
        <4>1. (Len(reported) + i) - Len(head) = i - 1
          BY <1>6, <2>2
        <4> QED BY <1>9, <3>1, <4>1
      <3>3. p.pos + i - 1 = p.pos + (i - 1)
        BY <1>8
      <3> QED BY <1>7, <3>1, <3>2, <3>3
    <2> QED BY <1>1, <2>1, <2>2
  <1> QED BY <1>1, <1>2, <1>6, <1>9, <1>10, <1>11

-----------------------------------------------------------------------------
LEMMA StreamInitInv == Init => StreamIInv
  <1> SUFFICES ASSUME Init PROVE StreamIInv
    OBVIOUS
  <1>1. /\ nextExpected = NoSeq /\ Held = {} /\ sent = {} /\ eventQueue = << >>
        /\ cursor = NotStarted /\ played = {} /\ pubSeq \in SeqNums /\ skew \in Nat
    BY StreamAssumption DEF Init, WindowInit, Held
  <1>2. IsFiniteSet({}) /\ Cardinality({}) = 0
    BY FS_EmptySet
  <1>3. StreamTypes
    BY <1>1, <1>2, StreamAssumption DEF StreamTypes
  <1>4. Numbered /\ HeldKnown /\ Accounted
    BY <1>1 DEF Numbered, HeldKnown, Accounted
  <1> QED BY <1>1, <1>3, <1>4 DEF StreamIInv, Sound

(* A packet more: everybody's distance from the publisher grows by one.    *)
LEMMA PublishInv ==
  ASSUME Sound, Publish
  PROVE  Sound'
  <1> DEFINE n == Cardinality(sent)
             new == [pos |-> n, seq |-> pubSeq]
  <1>1. /\ n < MaxSent /\ sent' = sent \cup {new} /\ pubSeq' = Advance(pubSeq, 1)
        /\ UNCHANGED <<windowVars, arrived, eventQueue, skew, cursor, played>>
    BY DEF Publish
  <1>2. /\ StreamTypes /\ Numbered /\ HeldKnown /\ Accounted /\ pubSeq \in SeqNums
        /\ n \in Nat /\ MaxSent \in Nat /\ MaxSent < Half /\ SeqSpace = 2 * Half
        /\ Half \in Nat
    BY FS_CardinalityType, WindowAssumption, StreamAssumption DEF Sound, StreamTypes, SeqSpace
  <1>3. new \notin sent /\ new \in Packets
    BY <1>2 DEF Numbered, Packets
  <1>4. IsFiniteSet(sent') /\ Cardinality(sent') = n + 1
    BY <1>1, <1>2, <1>3, FS_AddElement DEF StreamTypes
  <1>5. pubSeq' \in SeqNums /\ Distance(pubSeq', pubSeq) = 1
    <2>1. 1 \in 0 .. SeqSpace - 1
      BY <1>1, <1>2
    <2> QED BY <1>1, <1>2, <2>1, SeqFacts
  <1>6. \A s \in SeqNums : Distance(pubSeq, s) <= n => Distance(pubSeq', s) = Distance(pubSeq, s) + 1
    <2> SUFFICES ASSUME NEW s \in SeqNums, Distance(pubSeq, s) <= n
                 PROVE  Distance(pubSeq', s) = Distance(pubSeq, s) + 1
      OBVIOUS
    <2>1. Distance(pubSeq, s) \in Int
      BY <1>2, DistanceFacts
    <2>2. Distance(pubSeq, s) < SeqSpace - 1
      BY <1>1, <1>2, <2>1
    <2> QED BY <1>1, <1>2, <2>2, AdvanceBoth
  <1>7. StreamTypes'
    BY <1>1, <1>2, <1>3, <1>4, <1>5 DEF StreamTypes, windowVars
  <1>8. Numbered'
    <2>1. ASSUME NEW p \in sent
          PROVE  p.pos < n + 1 /\ Distance(pubSeq', p.seq) = (n + 1) - p.pos
      <3>1. /\ p.pos \in Nat /\ p.seq \in SeqNums /\ p.pos < n
            /\ Distance(pubSeq, p.seq) = n - p.pos
        BY <1>2, SentFacts
      <3> QED BY <1>2, <1>6, <3>1
    <2>2. new.pos < n + 1 /\ Distance(pubSeq', new.seq) = (n + 1) - new.pos
      BY <1>2, <1>5
    <2>3. ASSUME NEW p \in sent'
          PROVE  p.pos < Cardinality(sent') /\ Distance(pubSeq', p.seq) = Cardinality(sent') - p.pos
      <3>1. CASE p \in sent
        BY <1>4, <2>1, <3>1
      <3>2. CASE p = new
        BY <1>4, <2>2, <3>2
      <3> QED BY <1>1, <3>1, <3>2
    <2> QED BY <2>3 DEF Numbered
  <1>9. HeldKnown'
    <2>1. nextExpected # NoSeq =>
            Kept(buffer, nextExpected)' /\ Distance(pubSeq', nextExpected) <= n + 1
      <3> SUFFICES ASSUME nextExpected # NoSeq
                   PROVE  Kept(buffer, nextExpected)' /\ Distance(pubSeq', nextExpected) <= n + 1
        OBVIOUS
      <3>1. nextExpected \in SeqNums /\ Distance(pubSeq, nextExpected) <= n
            /\ Distance(pubSeq, nextExpected) \in Int
        BY <1>2, DistanceFacts DEF StreamTypes, HeldKnown
      <3>2. Kept(buffer, nextExpected)'
        BY <1>1, <1>2 DEF HeldKnown, Kept, windowVars
      <3> QED BY <1>2, <1>6, <3>1, <3>2
    <2> QED BY <1>1, <1>2, <1>4, <2>1 DEF HeldKnown, Held, windowVars
  <1>10. nextExpected # NoSeq => Turn' = Turn
    <2> SUFFICES ASSUME nextExpected # NoSeq PROVE Turn' = Turn
      OBVIOUS
    <2>1. nextExpected \in SeqNums /\ Distance(pubSeq, nextExpected) <= n
          /\ Distance(pubSeq, nextExpected) \in Int /\ nextExpected' = nextExpected
      BY <1>1, <1>2, DistanceFacts DEF StreamTypes, HeldKnown, windowVars
    <2> QED BY <1>2, <1>4, <1>6, <2>1 DEF Turn
  <1>11. Accounted'
    BY <1>1, <1>2, <1>10 DEF Accounted, Leading, IsPacket, windowVars
  <1> QED BY <1>7, <1>8, <1>9, <1>11 DEF Sound

-----------------------------------------------------------------------------
(* The calls of the window.  The receiver makes one only while no event is *)
(* queued, and queues what it returns.                                     *)
Called ==
  /\ Idle /\ eventQueue' = events'
  /\ UNCHANGED <<pubSeq, sent, skew, cursor, played>>

(* A call that returns nothing and leaves the turn where it is.            *)
LEMMA QuietInv ==
  ASSUME Sound, Called, events' = << >>, nextExpected' = nextExpected, HeldKnown'
  PROVE  Sound'
  <1>1. /\ eventQueue = << >> /\ eventQueue' = << >> /\ nextExpected' = nextExpected
        /\ UNCHANGED <<pubSeq, sent, skew, cursor, played>>
    BY DEF Called, Idle
  <1>2. StreamTypes' /\ Numbered'
    BY <1>1 DEF Sound, StreamTypes, Numbered
  <1>3. Accounted'
    BY <1>1 DEF Sound, Accounted, Leading, IsPacket, Turn
  <1> QED BY <1>2, <1>3 DEF Sound

(* The first packet of all fixes the turn.                                 *)
LEMMA FirstInv ==
  ASSUME Sound, Called, NEW p \in sent, PushFirst(p)
  PROVE  Sound'
  <1>1. /\ nextExpected = NoSeq /\ nextExpected' = Advance(p.seq, 1)
        /\ eventQueue' = <<PacketEvent(p)>> /\ UNCHANGED buffer
        /\ UNCHANGED <<pubSeq, sent, skew, cursor, played>>
    BY DEF PushFirst, Called
  <1>2. /\ StreamTypes /\ Numbered /\ HeldKnown /\ Accounted
        /\ p.pos \in Nat /\ p.seq \in SeqNums /\ p \in Packets /\ pubSeq \in SeqNums
        /\ Cardinality(sent) \in Nat /\ p.pos < Cardinality(sent)
        /\ Distance(pubSeq, p.seq) = Cardinality(sent) - p.pos
    BY SentFacts DEF Sound, StreamTypes
  <1>3. nextExpected' \in SeqNums
    <2>1. 1 \in 0 .. SeqSpace - 1
      BY WindowAssumption DEF SeqSpace
    <2> QED BY <1>1, <1>2, <2>1, SeqFacts
  <1>4. Distance(pubSeq, nextExpected') = Cardinality(sent) - p.pos - 1
    BY <1>1, <1>2, AdvanceBoth
  <1>5. eventQueue' \in Seq(Events) /\ Len(eventQueue') = 1 /\ eventQueue'[1] = PacketEvent(p)
    BY <1>1, <1>2 DEF Events
  <1>6. nextExpected' # NoSeq
    BY <1>3 DEF SeqNums, NoSeq
  <1>7. StreamTypes' /\ Numbered'
    BY <1>1, <1>2, <1>3, <1>5 DEF StreamTypes, Numbered
  <1>8. HeldKnown'
    BY <1>1, <1>2, <1>4, <1>6 DEF HeldKnown, Held, Kept
  <1>9. Turn' = p.pos + 1
    BY <1>1, <1>2, <1>4 DEF Turn
  <1>10. IsPacket(1)' /\ eventQueue'[1].packet = p
    BY <1>5 DEF IsPacket, PacketEvent
  <1>11. cursor' = NotStarted /\ played' = {}
    BY <1>1, <1>2 DEF Accounted
  <1>12. Leading'
    BY <1>2, <1>5, <1>9, <1>10, <1>11 DEF Leading
  <1>13. Accounted'
    BY <1>5, <1>6, <1>10, <1>11, <1>12 DEF Accounted
  <1> QED BY <1>7, <1>8, <1>13 DEF Sound

(* A packet m places past the turn is delivered, and m reported as lost.   *)
LEMMA DeliverInv ==
  ASSUME Sound, Called, nextExpected # NoSeq, NEW p \in sent, NEW b, Kept(b, p.seq),
         NEW m \in Nat, p.pos = Turn + m,
         DeliverAndDrain(p, b, IF m > 0 THEN <<DroppedEvent(m)>> ELSE << >>)
  PROVE  Sound'
  <1> DEFINE reported == IF m > 0 THEN <<DroppedEvent(m)>> ELSE << >>
             l == IF m > 0 THEN 1 ELSE 0
  <1>1. /\ reported \in Seq(Events) /\ Len(reported) = l /\ l \in {0, 1}
        /\ m > 0 => reported[1] = DroppedEvent(m)
    <2>1. CASE m > 0
      <3>1. DroppedEvent(m) \in Events
        BY DEF Events
      <3>2. reported = <<DroppedEvent(m)>> /\ l = 1
        BY <2>1
      <3> QED BY <3>1, <3>2
    <2>2. CASE ~ (m > 0)
      BY <2>2
    <2> QED BY <2>1, <2>2
  <1>2. /\ StreamTypes /\ Numbered /\ HeldKnown /\ Accounted
        /\ p.pos \in Nat /\ Cardinality(sent) \in Nat
        /\ eventQueue = << >> /\ eventQueue' = events'
        /\ UNCHANGED <<pubSeq, sent, skew, cursor, played>>
    BY SentFacts DEF Sound, Called, Idle
  <1>3. PICK n \in Nat :
          /\ nextExpected' \in SeqNums
          /\ p.pos + 1 + n <= Cardinality(sent)
          /\ Distance(pubSeq, nextExpected') = Cardinality(sent) - (p.pos + 1 + n)
          /\ Kept(buffer', nextExpected')
          /\ events' \in Seq(Events) /\ Len(events') = Len(reported) + 1 + n
          /\ \A i \in 1 .. Len(reported) : events'[i] = reported[i]
          /\ \A i \in 1 .. n + 1 :
               /\ events'[Len(reported) + i].type = "Packet"
               /\ events'[Len(reported) + i].packet.pos = p.pos + i - 1
    <2> HIDE DEF reported
    <2> QED BY <1>1, <1>2, DeliverFacts DEF reported
  <1>4. nextExpected' # NoSeq
    BY <1>3 DEF SeqNums, NoSeq
  <1>5. StreamTypes' /\ Numbered'
    BY <1>2, <1>3 DEF StreamTypes, Numbered
  <1>6. HeldKnown'
    <2>1. Kept(buffer, nextExpected)'
      BY <1>2, <1>3 DEF Kept
    <2> QED BY <1>2, <1>3, <1>4, <2>1 DEF HeldKnown
  <1>7. Turn' = p.pos + 1 + n /\ Turn' \in Nat
    BY <1>2, <1>3 DEF Turn
  <1>8. Len(eventQueue') = l + 1 + n
    BY <1>1, <1>2, <1>3
  <1>9. \A i \in l + 1 .. Len(eventQueue') :
          IsPacket(i)' /\ eventQueue'[i].packet.pos = Turn' - 1 - (Len(eventQueue') - i)
    <2> TAKE i \in l + 1 .. Len(eventQueue')
    <2>1. i - l \in 1 .. n + 1 /\ Len(reported) + (i - l) = i
      BY <1>1, <1>3, <1>8
    <2>2. events'[i].type = "Packet" /\ events'[i].packet.pos = p.pos + (i - l) - 1
      BY <1>3, <2>1
    <2>3. p.pos + (i - l) - 1 = Turn' - 1 - (Len(eventQueue') - i)
      BY <1>1, <1>2, <1>7, <1>8
    <2> QED BY <1>2, <2>2, <2>3 DEF IsPacket
  <1>10. m > 0 => ~ IsPacket(1)' /\ eventQueue'[1].count = m
    BY <1>1, <1>2, <1>3 DEF IsPacket, DroppedEvent
  <1>11. cursor' # NotStarted /\ cursor' = p.pos - m
    <2>1. cursor # NotStarted
      BY <1>2 DEF Accounted
    <2>2. cursor = Turn /\ Turn \in Int
      <3>1. nextExpected \in SeqNums /\ pubSeq \in SeqNums
        BY <1>2 DEF StreamTypes
      <3>2. Distance(pubSeq, nextExpected) \in Int
        BY <3>1, DistanceFacts
      <3> QED BY <1>2, <2>1, <3>2 DEF Accounted, Leading, Turn
    <2> QED BY <1>2, <2>1, <2>2
  <1>12. Leading'
    <2>1. \A i \in 1 .. Len(eventQueue') : IsPacket(i)' =>
            eventQueue'[i].packet.pos = Turn' - 1 - (Len(eventQueue') - i)
      BY <1>1, <1>8, <1>9, <1>10
    <2>2. \A i \in 2 .. Len(eventQueue') : IsPacket(i)'
      BY <1>1, <1>8, <1>9
    <2>3. eventQueue' # << >>
      BY <1>1, <1>3, <1>8
    <2>4. IsPacket(1)' => cursor' = Turn' - Len(eventQueue')
      BY <1>2, <1>3, <1>7, <1>8, <1>10, <1>11
    <2>5. ~ IsPacket(1)' =>
            eventQueue'[1].count > 0 /\ cursor' + eventQueue'[1].count = Turn' - Len(eventQueue') + 1
      <3> SUFFICES ASSUME ~ IsPacket(1)'
                   PROVE  /\ eventQueue'[1].count > 0
                          /\ cursor' + eventQueue'[1].count = Turn' - Len(eventQueue') + 1
        OBVIOUS
      <3>1. l # 0
        BY <1>3, <1>8, <1>9
      <3>2. m > 0 /\ l = 1 /\ eventQueue'[1].count = m
        BY <1>10, <3>1
      <3>3. cursor' + m = p.pos /\ Len(eventQueue') = 2 + n
        <4>1. p.pos \in Nat
          BY <1>2
        <4> QED BY <1>8, <1>11, <3>2, <4>1
      <3>4. cursor' + m = Turn' - Len(eventQueue') + 1
        <4>1. p.pos \in Nat
          BY <1>2
        <4> QED BY <1>7, <3>3, <4>1
      <3> QED BY <3>2, <3>4
    <2> QED BY <2>1, <2>2, <2>3, <2>4, <2>5 DEF Leading, IsPacket
  <1>13. Accounted'
    BY <1>4, <1>11, <1>12 DEF Accounted
  <1> QED BY <1>5, <1>6, <1>13 DEF Sound

(* A packet ahead of the turn, within the window, is held.                 *)
LEMMA HoldKeeps ==
  ASSUME Sound, Called, NEW p \in sent, WithinWindow(p), buffer' = With(buffer, p),
         nextExpected' = nextExpected
  PROVE  HeldKnown'
  <1>1. /\ nextExpected # NoSeq /\ p.seq # nextExpected
        /\ Distance(p.seq, nextExpected) <= Capacity
    BY DEF WithinWindow, Ahead
  <1>2. /\ StreamTypes /\ Numbered /\ HeldKnown /\ p.seq \in SeqNums
        /\ nextExpected \in SeqNums /\ UNCHANGED <<pubSeq, sent>>
    BY <1>1, SentFacts DEF Sound, StreamTypes, Called
  <1>3. Distance(p.seq, nextExpected) \in 1 .. Capacity
    <2>1. Distance(p.seq, nextExpected) \in 0 .. SeqSpace - 1 /\ Distance(p.seq, nextExpected) # 0
      BY <1>1, <1>2, DistanceFacts
    <2> QED BY <1>1, <2>1, WindowAssumption DEF SeqSpace
  <1>4. Kept(With(buffer, p), nextExpected)
    BY <1>1, <1>2, <1>3 DEF HeldKnown, Kept, With
  <1>5. Kept(buffer, nextExpected)'
    BY <1>2, <1>4 DEF Kept
  <1> QED BY <1>1, <1>2, <1>5 DEF HeldKnown

(* The window cannot overflow: what it holds has different distances.      *)
LEMMA NoOverflow ==
  ASSUME Sound, NEW p \in sent, WithinWindow(p)
  PROVE  ~ (Excess(With(buffer, p)) > 0)
  <1> DEFINE D == DOMAIN With(buffer, p)
             f == [k \in D |-> Distance(k, nextExpected)]
  <1>1. /\ nextExpected # NoSeq /\ p.seq # nextExpected
        /\ Distance(p.seq, nextExpected) <= Capacity
    BY DEF WithinWindow, Ahead
  <1>2. /\ StreamTypes /\ Numbered /\ HeldKnown /\ p.seq \in SeqNums
        /\ nextExpected \in SeqNums /\ Capacity \in Nat /\ SeqSpace \in Nat
    BY <1>1, SentFacts, WindowAssumption DEF Sound, StreamTypes, SeqSpace
  <1>3. \A k \in D : k \in SeqNums /\ Distance(k, nextExpected) \in 1 .. Capacity
    <2>1. Distance(p.seq, nextExpected) \in 0 .. SeqSpace - 1 /\ Distance(p.seq, nextExpected) # 0
      BY <1>1, <1>2, DistanceFacts
    <2>2. Distance(p.seq, nextExpected) \in 1 .. Capacity
      BY <1>1, <1>2, <2>1
    <2>3. \A k \in DOMAIN buffer : k \in SeqNums /\ Distance(k, nextExpected) \in 1 .. Capacity
      BY <1>1, <1>2 DEF HeldKnown, Kept
    <2> QED BY <1>2, <2>2, <2>3 DEF With
  <1>4. IsFiniteSet(D)
    <2>1. IsFiniteSet(SeqNums)
      BY <1>2, FS_Interval DEF SeqNums
    <2> QED BY <1>3, <2>1, FS_Subset
  <1>5. f \in [D -> 1 .. Capacity]
    BY <1>3
  <1>6. \A x, y \in D : f[x] = f[y] => x = y
    <2> SUFFICES ASSUME NEW x \in D, NEW y \in D,
                        Distance(x, nextExpected) = Distance(y, nextExpected)
                 PROVE  x = y
      OBVIOUS
    <2> QED BY <1>2, <1>3, DistanceFacts
  <1>7. IsFiniteSet(1 .. Capacity) /\ Cardinality(1 .. Capacity) = Capacity
    BY <1>2, FS_Interval
  <1> HIDE DEF D, f
  <1>8. ~ (Capacity < Cardinality(D))
    <2> SUFFICES ASSUME Capacity < Cardinality(D) PROVE FALSE
      OBVIOUS
    <2>1. Cardinality(1 .. Capacity) < Cardinality(D)
      BY <1>7
    <2>2. \E x, y \in D : x # y /\ f[x] = f[y]
      BY <1>4, <1>5, <1>7, <2>1, FS_PigeonHole
    <2> QED BY <1>6, <2>2
  <1>9. Cardinality(D) \in Nat
    BY <1>4, FS_CardinalityType
  <1>10. ~ (Cardinality(D) - Capacity > 0)
    BY <1>2, <1>8, <1>9
  <1> QED BY <1>10 DEF D, Excess

-----------------------------------------------------------------------------
(* One step for each way to call the window.                               *)

LEMMA InOrderInv ==
  ASSUME Sound, Called, NEW p \in sent, PushInOrder(p)
  PROVE  Sound'
  <1>1. nextExpected # NoSeq /\ p.seq = nextExpected /\ DeliverAndDrain(p, buffer, << >>)
    BY DEF PushInOrder
  <1>2. Kept(buffer, p.seq)
    BY <1>1 DEF Sound, HeldKnown
  <1>3. p.pos = Turn + 0
    <2>1. /\ p.pos \in Nat /\ Cardinality(sent) \in Nat
          /\ Distance(pubSeq, p.seq) = Cardinality(sent) - p.pos
      BY SentFacts DEF Sound
    <2> QED BY <1>1, <2>1 DEF Turn
  <1>4. DeliverAndDrain(p, buffer, IF 0 > 0 THEN <<DroppedEvent(0)>> ELSE << >>)
    BY <1>1
  <1> QED BY <1>1, <1>2, <1>3, <1>4, DeliverInv

LEMMA UnchangedWindow ==
  ASSUME Sound, Called, events' = << >>, UNCHANGED <<nextExpected, buffer>>
  PROVE  Sound'
  <1>1. HeldKnown'
    BY DEF Sound, HeldKnown, Held, Kept, Called
  <1> QED BY <1>1, QuietInv

LEMMA ReceiveInv ==
  ASSUME Sound, skew \in Nat, skew <= Capacity, NEW p \in sent, Receive(p)
  PROVE  Sound'
  <1>1. Called /\ InReach(p) /\ Push(p)
    BY DEF Receive, Called
  <1>2. CASE PushFirst(p)
    BY <1>1, <1>2, FirstInv
  <1>3. CASE PushInOrder(p)
    BY <1>1, <1>3, InOrderInv
  <1>4. CASE PushLate(p)
    BY <1>1, <1>4, UnchangedWindow DEF PushLate
  <1>5. CASE PushHold(p)
    <2>1. HeldKnown'
      BY <1>1, <1>5, HoldKeeps DEF PushHold
    <2> QED BY <1>1, <1>5, <2>1, QuietInv DEF PushHold
  (* Such a network never delivers what would make it jump.                *)
  <1>6. CASE PushResync(p) \/ PushJump(p)
    <2>1. /\ nextExpected # NoSeq /\ Distance(p.seq, nextExpected) <= Half
          /\ Distance(p.seq, nextExpected) > Capacity
          /\ Distance(p.seq, nextExpected) \in Int
      <3>1. nextExpected # NoSeq /\ Distance(p.seq, nextExpected) <= Half
        BY <1>6 DEF PushResync, PushJump, Ahead
      <3>2. Distance(p.seq, nextExpected) \in Int
        BY <3>1, SentFacts, DistanceFacts DEF Sound, StreamTypes
      <3> QED BY <1>6, <3>1, <3>2, WindowAssumption DEF PushResync, PushJump
    <2> QED BY <1>1, <2>1, WindowAssumption DEF InReach
  <1>7. CASE PushOverflow(p)
    BY <1>7, NoOverflow DEF PushOverflow
  <1> QED BY <1>1, <1>2, <1>3, <1>4, <1>5, <1>6, <1>7 DEF Push

LEMMA ReceiveFecInv ==
  ASSUME Sound, NEW p \in sent, ReceiveFec(p)
  PROVE  Sound'
  <1>1. Called /\ PushRecovered(p)
    BY DEF ReceiveFec, Called
  <1>2. CASE PushFirst(p)
    BY <1>1, <1>2, FirstInv
  <1>3. CASE PushInOrder(p)
    BY <1>1, <1>3, InOrderInv
  <1>4. CASE RecoverHold(p)
    <2>1. HeldKnown'
      BY <1>1, <1>4, HoldKeeps DEF RecoverHold
    <2> QED BY <1>1, <1>4, <2>1, QuietInv DEF RecoverHold
  <1>5. CASE RecoverIgnore(p)
    BY <1>1, <1>5, UnchangedWindow DEF RecoverIgnore
  <1> QED BY <1>1, <1>2, <1>3, <1>4, <1>5 DEF PushRecovered

(* The nearest held packet is delivered; the others lie behind it.         *)
LEMMA FlushInv ==
  ASSUME Sound, Flush
  PROVE  Sound'
  <1>1. Called
    BY DEF Flush, Called
  <1>2. /\ StreamTypes /\ Numbered /\ HeldKnown /\ Cardinality(sent) \in Nat
        /\ Cardinality(sent) < Half
    BY FS_CardinalityType, StreamAssumption, WindowAssumption DEF Sound, StreamTypes
  <1>3. CASE FlushStale
    <2>1. HeldKnown'
      BY <1>1, <1>2, <1>3 DEF FlushStale, HeldKnown, Held, Kept, Called
    <2> QED BY <1>1, <1>3, <2>1, QuietInv DEF FlushStale
  <1>4. CASE FlushGap
    <2> DEFINE front == CHOOSE k \in Nearer :
                 \A j \in Nearer : Distance(k, nextExpected) <= Distance(j, nextExpected)
               m == Distance(front, nextExpected)
               p == buffer[front]
               b == Without(buffer, {front})
    <2>1. /\ nextExpected # NoSeq /\ Nearer # {}
          /\ DeliverAndDrain(p, b, IF m > 0 THEN <<DroppedEvent(m)>> ELSE << >>)
      BY <1>4 DEF FlushGap
    <2>2. /\ nextExpected \in SeqNums /\ pubSeq \in SeqNums
          /\ Distance(pubSeq, nextExpected) <= Cardinality(sent)
      BY <1>2, <2>1 DEF StreamTypes, HeldKnown
    <2>3. \A k \in DOMAIN buffer :
            /\ k \in SeqNums /\ buffer[k] \in sent /\ buffer[k].seq = k
            /\ Distance(k, nextExpected) \in 1 .. Capacity /\ k \in Nearer
      BY <1>2, <2>1, WindowAssumption DEF HeldKnown, Kept, Nearer, Held
    <2>4. /\ front \in Nearer
          /\ \A j \in Nearer : Distance(front, nextExpected) <= Distance(j, nextExpected)
      <3> DEFINE T == {Distance(k, nextExpected) : k \in Nearer}
      <3>1. T \in SUBSET Nat /\ T # {}
        BY <2>1, <2>3 DEF Nearer, Held
      <3>2. \E x \in T : \A y \in T : x <= y
        BY <3>1, Least
      <3>3. \E k \in Nearer :
              \A j \in Nearer : Distance(k, nextExpected) <= Distance(j, nextExpected)
        BY <3>2
      <3> QED BY <3>3
    <2> HIDE DEF front
    <2>5. /\ front \in SeqNums /\ p \in sent /\ p.seq = front /\ m \in 1 .. Capacity
      BY <2>3, <2>4 DEF Nearer, Held
    <2>6. Kept(b, p.seq)
      <3> SUFFICES ASSUME NEW k \in DOMAIN buffer, k # front
                   PROVE  /\ k \in SeqNums /\ buffer[k] \in sent /\ buffer[k].seq = k
                          /\ Distance(k, front) \in 1 .. Capacity
        BY <2>5 DEF Kept, Without
      <3>1. /\ k \in SeqNums /\ buffer[k] \in sent /\ buffer[k].seq = k
            /\ Distance(k, nextExpected) \in 1 .. Capacity /\ k \in Nearer
        BY <2>3
      <3>2. Distance(front, nextExpected) <= Distance(k, nextExpected)
        BY <2>4, <3>1
      <3>3. Distance(k, front) = Distance(k, nextExpected) - Distance(front, nextExpected)
        BY <2>2, <2>5, <3>1, <3>2, WindowAssumption, Nearby
      <3>4. Distance(k, front) # 0
        BY <2>5, <3>1, DistanceFacts
      <3> QED BY <2>5, <3>1, <3>2, <3>3, <3>4, WindowAssumption
    <2>7. m \in Nat /\ p.pos = Turn + m
      <3>1. /\ p.pos \in Nat /\ Distance(pubSeq, front) = Cardinality(sent) - p.pos
            /\ Distance(pubSeq, front) < Half
        BY <1>2, <2>5, SentFacts
      <3>2. Distance(pubSeq, nextExpected) \in Int /\ m \in Nat /\ m <= Half
        BY <2>2, <2>5, DistanceFacts, WindowAssumption
      <3>3. Distance(pubSeq, nextExpected) < Half
        BY <1>2, <2>2, <3>2, WindowAssumption
      <3>4. Distance(pubSeq, nextExpected) = Distance(pubSeq, front) + m
        BY <2>2, <2>5, <3>1, <3>2, <3>3, Places
      <3> QED BY <1>2, <3>1, <3>2, <3>4 DEF Turn
    <2> HIDE DEF m, p, b
    <2> QED BY <1>1, <2>1, <2>5, <2>6, <2>7, DeliverInv
  <1> QED BY <1>3, <1>4 DEF Flush, FlushExpiredGap

-----------------------------------------------------------------------------
(* The application takes an event: that is a step of OrderedPlayback.      *)

LEMMA EventFacts ==
  ASSUME Sound, ~ Idle
  PROVE  /\ nextExpected # NoSeq /\ Turn \in Int
         /\ Len(eventQueue) \in Nat \ {0} /\ Head(eventQueue) = eventQueue[1]
         /\ Tail(eventQueue) \in Seq(Events) /\ Len(Tail(eventQueue)) = Len(eventQueue) - 1
         /\ \A i \in 1 .. Len(eventQueue) - 1 : Tail(eventQueue)[i] = eventQueue[i + 1]
         /\ IsPacket(1) => eventQueue[1].packet.pos \in Nat
         /\ eventQueue[1].type = "Dropped" => eventQueue[1].count \in Nat
  <1>1. eventQueue \in Seq(Events) /\ eventQueue # << >>
    BY DEF Sound, StreamTypes, Idle
  <1>2. nextExpected # NoSeq
    BY <1>1 DEF Sound, Accounted
  <1>3. Turn \in Int
    <2>1. nextExpected \in SeqNums /\ pubSeq \in SeqNums /\ Cardinality(sent) \in Nat
      BY <1>2, FS_CardinalityType DEF Sound, StreamTypes
    <2>2. Distance(pubSeq, nextExpected) \in Int
      BY <2>1, DistanceFacts
    <2> QED BY <2>1, <2>2 DEF Turn
  <1>4. /\ Len(eventQueue) \in Nat \ {0} /\ Head(eventQueue) = eventQueue[1]
        /\ eventQueue[1] \in Events
        /\ Tail(eventQueue) \in Seq(Events) /\ Len(Tail(eventQueue)) = Len(eventQueue) - 1
        /\ \A i \in 1 .. Len(Tail(eventQueue)) : Tail(eventQueue)[i] = eventQueue[i + 1]
    BY <1>1, HeadTailProperties, LenProperties
  <1>5. /\ IsPacket(1) => eventQueue[1].packet.pos \in Nat
        /\ eventQueue[1].type = "Dropped" => eventQueue[1].count \in Nat
    BY <1>4 DEF IsPacket, Events, PacketEvent, DroppedEvent, Packets
  <1> QED BY <1>2, <1>3, <1>4, <1>5

(* Behind the event taken the others lead from there to the turn.          *)
LEMMA TailLeads ==
  ASSUME Sound, ~ Idle, eventQueue' = Tail(eventQueue),
         cursor' = Turn - (Len(eventQueue) - 1), cursor' \in Nat,
         UNCHANGED <<windowVars, pubSeq, sent, skew>>
  PROVE  Sound'
  <1>1. /\ nextExpected # NoSeq /\ Turn \in Int
        /\ Len(eventQueue) \in Nat \ {0}
        /\ eventQueue' \in Seq(Events) /\ Len(eventQueue') = Len(eventQueue) - 1
        /\ \A i \in 1 .. Len(eventQueue) - 1 : eventQueue'[i] = eventQueue[i + 1]
    BY EventFacts
  <1>2. /\ StreamTypes /\ Numbered /\ HeldKnown /\ Leading /\ Turn' = Turn
        /\ nextExpected' = nextExpected /\ cursor' # NotStarted
    BY <1>1, StreamAssumption DEF Sound, Accounted, Turn, windowVars
  <1>3. StreamTypes' /\ Numbered' /\ HeldKnown'
    BY <1>1, <1>2 DEF StreamTypes, Numbered, HeldKnown, Held, Kept, windowVars
  <1>4. \A i \in 1 .. Len(eventQueue') :
          /\ i + 1 \in 2 .. Len(eventQueue) /\ eventQueue'[i] = eventQueue[i + 1]
    BY <1>1
  <1>5. \A i \in 1 .. Len(eventQueue') : IsPacket(i)'
    BY <1>1, <1>2, <1>4 DEF Leading, IsPacket
  <1>6. \A i \in 1 .. Len(eventQueue') :
          eventQueue'[i].packet.pos = Turn' - 1 - (Len(eventQueue') - i)
    <2> TAKE i \in 1 .. Len(eventQueue')
    <2>1. eventQueue[i + 1].packet.pos = Turn - 1 - (Len(eventQueue) - (i + 1))
      BY <1>1, <1>2, <1>4 DEF Leading
    <2>2. Turn - 1 - (Len(eventQueue) - (i + 1)) = Turn' - 1 - (Len(eventQueue') - i)
      BY <1>1, <1>2
    <2> QED BY <1>4, <2>1, <2>2
  <1>7. eventQueue' # << >> => IsPacket(1)'
    <2>1. eventQueue' # << >> => 1 \in 1 .. Len(eventQueue')
      BY <1>1
    <2> QED BY <1>5, <2>1
  <1>8. cursor' = Turn' - Len(eventQueue')
    BY <1>1, <1>2
  <1>9. eventQueue' = << >> => Len(eventQueue') = 0
    BY <1>1
  <1>10. Leading'
    <2>1. \A i \in 2 .. Len(eventQueue') : IsPacket(i)'
      BY <1>1, <1>5
    <2>2. eventQueue' = << >> => cursor' = Turn'
      <3>1. Len(eventQueue') = 0 => cursor' = Turn'
        BY <1>1, <1>2, <1>8
      <3> QED BY <1>9, <3>1, Zenon
    <2> QED BY <1>6, <1>7, <1>8, <2>1, <2>2 DEF Leading
  <1>11. Accounted'
    BY <1>1, <1>2, <1>10 DEF Accounted
  <1> QED BY <1>3, <1>11 DEF Sound

LEMMA ConsumeInv ==
  ASSUME Sound, Consume
  PROVE  Sound' /\ Playback!Next
  <1>1. /\ ~ Idle /\ eventQueue' = Tail(eventQueue)
        /\ UNCHANGED <<windowVars, pubSeq, sent, skew>>
    BY DEF Consume, ConsumePacket, ConsumeDropped
  <1>2. /\ nextExpected # NoSeq /\ Turn \in Int
        /\ Len(eventQueue) \in Nat \ {0} /\ Head(eventQueue) = eventQueue[1]
        /\ IsPacket(1) => eventQueue[1].packet.pos \in Nat
        /\ eventQueue[1].type = "Dropped" => eventQueue[1].count \in Nat
    BY <1>1, EventFacts
  <1>3. Leading /\ eventQueue # << >> /\ cursor \in Nat \cup {NotStarted}
    BY <1>1, <1>2 DEF Sound, Accounted, StreamTypes, Idle
  <1>4. CASE ConsumePacket
    <2> DEFINE pos == eventQueue[1].packet.pos
    <2>1. /\ IsPacket(1) /\ pos \in Nat /\ played' = played \cup {pos}
          /\ cursor' = IF cursor = NotStarted THEN pos + 1 ELSE cursor + 1
      BY <1>2, <1>4 DEF ConsumePacket, IsPacket
    <2>2. pos = Turn - Len(eventQueue)
      <3>1. 1 \in 1 .. Len(eventQueue)
        BY <1>2
      <3>2. pos = Turn - 1 - (Len(eventQueue) - 1)
        BY <1>3, <2>1, <3>1 DEF Leading
      <3> QED BY <1>2, <3>2
    <2>3. cursor # NotStarted => cursor = pos
      BY <1>3, <2>1, <2>2 DEF Leading
    <2>4. cursor' = pos + 1 /\ cursor' \in Nat
      BY <2>1, <2>3
    <2>5. cursor' = Turn - (Len(eventQueue) - 1)
      BY <1>2, <2>2, <2>4
    <2>6. Sound'
      BY <1>1, <2>4, <2>5, TailLeads
    <2>7. CASE cursor = NotStarted
      <3>1. played = {}
        BY <2>7 DEF Sound, Accounted
      <3>2. played' = {cursor' - 1}
        BY <2>1, <2>4, <3>1
      <3> QED BY <2>4, <2>6, <2>7, <3>2 DEF Playback!Next, Playback!Start
    <2>8. CASE cursor # NotStarted
      BY <2>1, <2>3, <2>4, <2>6, <2>8 DEF Playback!Next, Playback!PlayNext
    <2> QED BY <2>7, <2>8
  <1>5. CASE ConsumeDropped
    <2> DEFINE amount == eventQueue[1].count
    <2>1. /\ ~ IsPacket(1) /\ amount \in Nat /\ played' = played /\ cursor' = cursor + amount
      BY <1>2, <1>5 DEF ConsumeDropped, IsPacket
    <2>2. cursor # NotStarted
      BY <1>2, <2>1 DEF Sound, Accounted
    <2>3. amount > 0 /\ cursor + amount = Turn - Len(eventQueue) + 1
      BY <1>3, <2>1, <2>2 DEF Leading
    <2>4. cursor \in Nat /\ cursor' \in Nat /\ cursor' > cursor
      BY <1>3, <2>1, <2>2, <2>3
    <2>5. cursor' = Turn - (Len(eventQueue) - 1)
      BY <1>2, <2>1, <2>3
    <2>6. Sound'
      BY <1>1, <2>4, <2>5, TailLeads
    <2> QED BY <2>1, <2>2, <2>4, <2>6 DEF Playback!Next, Playback!SkipLost
  <1> QED BY <1>4, <1>5 DEF Consume

-----------------------------------------------------------------------------
LEMMA StreamStep ==
  ASSUME StreamIInv, [Next]_vars
  PROVE  /\ StreamIInv'
         /\ (skew <= Capacity => Playback!Next) \/ UNCHANGED <<cursor, played>>
  <1>1. skew' = skew /\ skew \in Nat
    BY DEF StreamIInv, Next, vars, streamVars, Publish, Receive, ReceiveFec, Flush, Consume,
           ConsumePacket, ConsumeDropped
  <1>2. ASSUME skew <= Capacity
        PROVE  Sound' /\ (Playback!Next \/ UNCHANGED <<cursor, played>>)
    <2>1. Sound
      BY <1>2 DEF StreamIInv
    <2>2. CASE Publish
      BY <2>1, <2>2, PublishInv DEF Publish
    <2>3. ASSUME NEW p \in sent, Receive(p) PROVE Sound' /\ UNCHANGED <<cursor, played>>
      BY <1>1, <1>2, <2>1, <2>3, ReceiveInv DEF Receive
    <2>4. ASSUME NEW p \in sent, ReceiveFec(p) PROVE Sound' /\ UNCHANGED <<cursor, played>>
      BY <2>1, <2>4, ReceiveFecInv DEF ReceiveFec
    <2>5. CASE Flush
      BY <2>1, <2>5, FlushInv DEF Flush
    <2>6. CASE Consume
      BY <2>1, <2>6, ConsumeInv
    <2>7. CASE UNCHANGED vars
      <3>1. UNCHANGED <<nextExpected, buffer, pubSeq, sent, eventQueue, cursor, played>>
        BY <2>7 DEF vars, windowVars, streamVars
      <3>2. Sound'
        BY <2>1, <3>1 DEF Sound, StreamTypes, Numbered, HeldKnown, Held, Kept, Accounted,
                          Leading, IsPacket, Turn
      <3> QED BY <3>1, <3>2
    <2> QED BY <2>2, <2>3, <2>4, <2>5, <2>6, <2>7 DEF Next
  <1> QED BY <1>1, <1>2 DEF StreamIInv

LEMMA StreamInvariant == Spec => []StreamIInv
  BY StreamInitInv, StreamStep, PTL DEF Spec

(* PacketReorderWindow holds only packets it still waits to deliver, each  *)
(* within the capacity of next_expected_seq (receiver.rs): the wrap of the *)
(* sequence numbers never confuses it, and it never overflows.             *)
THEOREM WindowAhead == Spec => []HeldAhead
  <1>1. StreamIInv => HeldAhead
    BY DEF StreamIInv, Sound, HeldKnown, Kept, HeldAhead, Held
  <1> QED BY <1>1, StreamInvariant, PTL

(* The window implements OrderedPlayback: the application plays each       *)
(* packet once and in its turn, and every packet that is missing is covered*)
(* by a Dropped report of exactly the right size.                          *)
THEOREM ImplementsPlayback == Spec => PlaybackOrdered
  <1>1. Init => Playback!Init
    BY DEF Init, Playback!Init
  <1>2. StreamIInv /\ [Next]_vars =>
          [skew <= Capacity => Playback!Next]_(Playback!playbackVars)
    BY StreamStep DEF Playback!playbackVars
  <1> QED BY <1>1, <1>2, StreamInvariant, PTL DEF Spec, PlaybackOrdered

-----------------------------------------------------------------------------
(* The stream bus with one stream.  The clock of place t is where the      *)
(* resampler stands when the packets before t are converted.  What is      *)
(* queued leads to the clock of the place the window waits for (Paced):    *)
(* every event adds what the window goes ahead, but for what it alters.    *)
(* Only a packet read trims the queue, and SinceTrim says how far it can   *)
(* have grown since the last.                                              *)

(* The stream the caller named, and the places of its packets.             *)
TheStream == CHOOSE s \in Streams : TRUE
OneStream == Streams = {TheStream}
Count == Len(published[TheStream])
At(i) == StartOf(TheStream, i)
Place(i) == PacketOf(TheStream, i)
NumberAt(i) == Advance(start[TheStream], i)

(* A packet of place i, as published or rebuilt in another length.         *)
FrameCounts == MinFrames .. MaxFrames
IsPlace(p, i) ==
  /\ p.stream = TheStream /\ p.pos = i /\ p.seq = NumberAt(i) /\ p.at = At(i)
  /\ p.frames \in FrameCounts

(* Packets last as long as their lengths allow.                            *)
Lasting ==
  \A i, j \in 0 .. Count :
    i <= j => At(j) - At(i) \in (j - i) * MinFrames .. (j - i) * MaxFrames

(* What is held lies after place t, within the capacity.                   *)
AheadOf(b, t) ==
  \A k \in DOMAIN b : \E i \in t + 1 .. t + Capacity :
    i < Count /\ k = NumberAt(i) /\ IsPlace(b[k], i)

Sounds == [kind : {"audio"}, after : Nat, time : Int]
Units == Sounds \cup {Primer, Concealment}

(* The queue of the stream, if it has one yet.                             *)
QueueIn(q) == IF TheStream \in DOMAIN q THEN q[TheStream] ELSE << >>
QueueOf(pl) == QueueIn(pl.queues)
Queue == QueueOf(player)

(* Where a resampler may stand after a packet.                             *)
Carried(o) ==
  /\ - OutputRate < o /\ (o <= 0 \/ o <= inputRate - OutputRate)
  /\ inputRate = OutputRate => o = 0

Plays(pl) ==
  /\ pl = [queues |-> pl.queues, offset |-> pl.offset, last |-> pl.last, altered |-> pl.altered]
  /\ DOMAIN pl.queues \subseteq Streams /\ QueueOf(pl) \in Seq(Units)
  /\ pl.offset \in [Streams -> Int] /\ Carried(pl.offset[TheStream])
  /\ pl.last \in {0} \cup FrameCounts /\ pl.altered \in Nat

ClockOf(pl, t) == At(t) * OutputRate + pl.offset[TheStream]

(* From one time to a later one it is as far as so many frames of the      *)
(* output last, but for what the packets altered in between are out by.    *)
Leads(time, before, later, after, frames) ==
  /\ after - before \in Nat
  /\ later - time - frames * inputRate \in - (Slack * (after - before)) .. Slack * (after - before)

(* Audio leads to what is queued after it, and to the clock at the end.    *)
Paced(units, clock, altered) ==
  \A i \in 1 .. Len(units) : units[i].kind = "audio" =>
    /\ Leads(units[i].time, units[i].after, clock, altered, Len(units) + 1 - i)
    /\ \A j \in i .. Len(units) : units[j].kind = "audio" =>
         Leads(units[i].time, units[i].after, units[j].time, units[j].after, j - i)

(* Audio that goes on from a clock.                                        *)
GoesOn(units, clock, altered) ==
  \A k \in 1 .. Len(units) : units[k].kind = "audio" =>
    units[k].time = clock + (k - 1) * inputRate /\ units[k].after = altered

(* When the queue was last trimmed the window waited for place m.  No      *)
(* packet was read since, so all there is to play lies within the capacity *)
(* of m, but for the one that parity may add: beyond all that was recorded *)
(* it can only be the last of its group.                                   *)
Horizon(m, i) == i <= m + Capacity \/ (i = m + Capacity + 1 /\ (i + 1) % BusGroup = 0)
ToPlay == recorded \cup {buffer[k] : k \in Held}
SinceTrim(t) ==
  \E m \in 0 .. t :
    /\ t <= m + Capacity + 2
    /\ Len(Queue) <= MaxQueue + (t - m) * Longest
    /\ \A p \in ToPlay : Horizon(m, p.pos)

BusTypes ==
  /\ start \in [Streams -> SeqNums]
  /\ headless \in BOOLEAN /\ inputRate \in Nat \ {0} /\ deviceRate \in Nat \ {0}
  /\ published \in [Streams -> Seq(Nat)] /\ Count <= MaxPublished /\ Lasting
  /\ recorded \subseteq {Place(i) : i \in 0 .. Count - 1}
  /\ Plays(player)

(* The window waits for place t, and what is queued leads there.           *)
Waits(t) ==
  /\ nextExpected = NumberAt(t) /\ AheadOf(buffer, t)
  /\ Paced(Queue, ClockOf(player, t), player.altered) /\ SinceTrim(t)

BusSound ==
  /\ BusTypes
  /\ phase = "waiting" => Queue = << >>
  /\ nextExpected = NoSeq =>
       /\ Held = {} /\ recorded = {}
       /\ Len(Queue) <= MaxQueue + Longest /\ \A i \in 1 .. Len(Queue) : Queue[i].kind # "audio"
  /\ nextExpected # NoSeq =>
       phase \notin {"waiting", "opening", "priming"} /\ \E t \in 1 .. Count : Waits(t)

(* Nothing is promised of several streams, nor where the network reorders  *)
(* more than the window.                                                   *)
BusIInv == OneStream /\ Skew <= Capacity => BusSound

-----------------------------------------------------------------------------
(* Places up to the size of the space have numbers of their own.           *)
LEMMA NumberFacts ==
  ASSUME NEW a \in SeqNums, NEW i \in 0 .. SeqSpace - 1, NEW j \in 0 .. SeqSpace - 1
  PROVE  /\ Advance(a, i) \in SeqNums
         /\ Distance(Advance(a, i), Advance(a, j)) = IF i >= j THEN i - j ELSE i - j + SeqSpace
         /\ Advance(a, i) = Advance(a, j) => i = j
  BY WindowAssumption DEF SeqNums, SeqSpace, Advance, Distance

LEMMA Sizes ==
  /\ Half \in Nat /\ Capacity \in Nat \ {0} /\ ResyncDistance \in Nat /\ SeqSpace = 2 * Half
  /\ Capacity + 1 < Half /\ ResyncDistance < Half /\ Capacity < ResyncDistance
  /\ MaxPublished \in Nat /\ MaxPublished < Half /\ BusGroup \in Nat \ {0, 1}
  /\ PrimeTarget \in Nat /\ MaxQueue \in Nat /\ PrimeTarget <= MaxQueue /\ Skew \in Nat
  /\ MinFrames \in Nat \ {0} /\ MaxFrames \in Nat \ {0} /\ MinFrames <= MaxFrames
  BY WindowAssumption, BusAssumption DEF SeqSpace

LEMMA TheFacts ==
  ASSUME OneStream, BusTypes
  PROVE  /\ Count \in 0 .. MaxPublished /\ start[TheStream] \in SeqNums
         /\ Published = {Place(i) : i \in 0 .. Count - 1}
         /\ TheStream \in Streams /\ \A s \in Streams : s = TheStream
         /\ \A i \in 0 .. Count : At(i) \in Nat
  <1>1. TheStream \in Streams /\ \A s \in Streams : s = TheStream
    BY DEF OneStream
  <1>2. published[TheStream] \in Seq(Nat) /\ start[TheStream] \in SeqNums
    BY <1>1 DEF BusTypes
  <1>3. Count \in 0 .. MaxPublished
    BY <1>2, LenProperties DEF BusTypes, Count
  <1>4. Published = {Place(i) : i \in 0 .. Count - 1}
    BY DEF OneStream, Count, Published, Place
  <1>5. ASSUME NEW i \in 0 .. Count PROVE At(i) \in Nat
    <2>1. i # 0 => i \in 1 .. Len(published[TheStream])
      BY <1>3 DEF Count
    <2> QED BY <1>2, <2>1, ElementOfSeq DEF At, StartOf
  <1> QED BY <1>1, <1>2, <1>3, <1>4, <1>5

LEMMA PlaceFacts ==
  ASSUME NEW i
  PROVE  /\ Place(i).stream = TheStream /\ Place(i).pos = i /\ Place(i).seq = NumberAt(i)
         /\ Place(i).at = At(i) /\ Place(i).frames = At(i + 1) - At(i)
  BY DEF Place, PacketOf, NumberAt, At

(* A packet that was published is one of its place.                        *)
LEMMA PlacesLast ==
  ASSUME OneStream, BusTypes, NEW i \in 0 .. Count - 1
  PROVE  IsPlace(Place(i), i)
  <1>1. i \in 0 .. Count /\ i + 1 \in 0 .. Count /\ i <= i + 1 /\ (i + 1) - i = 1
    BY TheFacts
  <1>2. At(i + 1) - At(i) \in 1 * MinFrames .. 1 * MaxFrames
    BY <1>1 DEF BusTypes, Lasting
  <1>3. 1 * MinFrames = MinFrames /\ 1 * MaxFrames = MaxFrames
    BY Sizes
  <1> QED BY <1>2, <1>3, PlaceFacts DEF IsPlace, FrameCounts

(* The numbers of the places a call can meet.                              *)
LEMMA NumbersApart ==
  ASSUME OneStream, BusTypes,
         NEW i \in 0 .. MaxPublished + Capacity, NEW j \in 0 .. MaxPublished + Capacity
  PROVE  /\ NumberAt(i) \in SeqNums
         /\ Distance(NumberAt(i), NumberAt(j)) = IF i >= j THEN i - j ELSE i - j + SeqSpace
         /\ NumberAt(i) = NumberAt(j) => i = j
  <1>1. start[TheStream] \in SeqNums
    BY TheFacts
  <1>2. i \in 0 .. SeqSpace - 1 /\ j \in 0 .. SeqSpace - 1
    BY Sizes
  <1> QED BY <1>1, <1>2, NumberFacts DEF NumberAt

-----------------------------------------------------------------------------
(* What a packet is converted to, and what one that is altered is out by.  *)

LEMMA QuotientFacts ==
  ASSUME NEW a \in Nat, NEW b \in Nat \ {0}
  PROVE  /\ a \div b \in Nat
         /\ b * (a \div b) \in Nat /\ b * (a \div b) <= a /\ a < b * (a \div b) + b
  OBVIOUS

LEMMA ProductFacts ==
  ASSUME NEW n \in Nat, NEW a \in Int, NEW b \in Int
  PROVE  /\ n * a \in Int /\ n * b \in Int /\ (a \in Nat => n * a \in Nat)
         /\ a <= b => n * a <= n * b
         /\ n * (a + b) = n * a + n * b /\ n * (a - b) = n * a - n * b
  <1>1. /\ n * a \in Int /\ n * b \in Int /\ (a \in Nat => n * a \in Nat)
        /\ n * (a + b) = n * a + n * b /\ n * (a - b) = n * a - n * b
    OBVIOUS
  <1>2. ASSUME a <= b PROVE n * a <= n * b
    <2>1. b - a \in Nat
      BY <1>2
    <2>2. n * (b - a) \in Nat
      BY <2>1
    <2>3. n * (b - a) = n * b - n * a
      OBVIOUS
    <2> QED BY <1>1, <2>2, <2>3
  <1> QED BY <1>1, <1>2

(* A division of no less gives no less.                                    *)
LEMMA QuotientGrows ==
  ASSUME NEW a \in Nat, NEW c \in Nat, NEW b \in Nat \ {0}, a <= c
  PROVE  a \div b <= c \div b
  <1>1. PICK q \in Nat : q = a \div b
    BY QuotientFacts
  <1>2. PICK r \in Nat : r = c \div b
    BY QuotientFacts
  <1>3. b * q <= a /\ c < b * r + b
    BY <1>1, <1>2, QuotientFacts
  <1>4. ASSUME r + 1 <= q PROVE FALSE
    <2>1. b * (r + 1) <= b * q
      BY <1>4, ProductFacts
    <2>2. b * (r + 1) = b * r + b
      OBVIOUS
    <2>3. b * r \in Nat /\ b * q \in Nat
      OBVIOUS
    <2> QED BY <1>3, <2>1, <2>2, <2>3
  <1> QED BY <1>1, <1>2, <1>4

(* What the position of a resampler that is replaced may be out by.        *)
Misplaced == IF inputRate = OutputRate THEN 0 ELSE Largest(inputRate, OutputRate) - 1

LEMMA RateFacts ==
  ASSUME BusTypes
  PROVE  /\ inputRate \in Nat \ {0} /\ OutputRate \in Nat \ {0}
         /\ Slack \in Nat /\ Longest \in Nat \ {0} /\ MaxFrames <= Longest
         /\ Misplaced \in Nat
         /\ MaxFrames * OutputRate - MinFrames * inputRate + Misplaced <= Slack
         /\ MaxFrames * inputRate - MinFrames * OutputRate + Misplaced <= Slack
         /\ (MaxFrames - MinFrames) * OutputRate <= Slack
         /\ \A o \in Int : Carried(o) => o \in - Misplaced .. Misplaced
  <1>1. PICK a \in Nat \ {0}, b \in Nat \ {0} : a = inputRate /\ b = OutputRate
    BY DEF BusTypes, OutputRate
  <1>2. PICK x \in Nat \ {0}, n \in Nat \ {0} : x = MaxFrames /\ n = MinFrames /\ n <= x
    BY Sizes
  <1>3. PICK xa \in Nat, xb \in Nat, na \in Nat, nb \in Nat :
          xa = x * a /\ xb = x * b /\ na = n * a /\ nb = n * b
    BY <1>1, <1>2, ProductFacts
  <1>4. PICK e \in Nat : e = Misplaced
    BY <1>1 DEF Misplaced, Largest
  <1>5. /\ na <= xa /\ nb <= xb
        /\ a <= b => na <= nb /\ xa <= xb
        /\ b <= a => nb <= na /\ xb <= xa
    <2>1. na <= xa /\ nb <= xb
      <3>1. a * n <= a * x /\ b * n <= b * x
        BY <1>1, <1>2, ProductFacts
      <3> QED BY <1>1, <1>2, <1>3, <3>1
    <2> QED BY <1>1, <1>2, <1>3, <2>1, ProductFacts
  <1>6. PICK most \in Int : most = Largest(xb - na, xa - nb)
    BY <1>3 DEF Largest
  <1>7. xb - na <= most /\ xa - nb <= most /\ most >= 0
    BY <1>3, <1>5, <1>6 DEF Largest
  <1>8. Slack = most + e
    BY <1>1, <1>2, <1>3, <1>4, <1>6 DEF Slack, Misplaced
  <1>9. (MaxFrames - MinFrames) * OutputRate = xb - nb
    BY <1>1, <1>2, <1>3
  <1>10. xb - nb <= most
    BY <1>1, <1>3, <1>5, <1>7
  <1>11. ASSUME NEW o \in Int, Carried(o) PROVE o \in - e .. e
    <2>1. CASE a = b
      BY <1>1, <1>4, <1>11, <2>1 DEF Carried
    <2>2. CASE a # b
      <3>1. e = Largest(a, b) - 1
        BY <1>1, <1>4, <2>2 DEF Misplaced
      <3>2. a - 1 <= e /\ b - 1 <= e
        BY <1>1, <3>1 DEF Largest
      <3>3. - b < o /\ (o <= 0 \/ o <= a - b)
        BY <1>1, <1>11 DEF Carried
      <3> QED BY <1>1, <1>4, <3>2, <3>3
    <2> QED BY <2>1, <2>2
  <1>12. Longest \in Nat \ {0} /\ MaxFrames <= Longest
    <2>1. xb >= 1
      <3>1. x * 1 <= x * b
        BY <1>1, <1>2, ProductFacts
      <3> QED BY <1>2, <1>3, <3>1
    <2>2. (xb - 1) \div a \in Nat
      BY <1>1, <1>3, <2>1, QuotientFacts
    <2>3. PICK q \in Nat : q = (xb - 1) \div a
      BY <2>2
    <2>4. Longest = Largest(x, q + 1)
      BY <1>1, <1>2, <1>3, <2>3 DEF Longest
    <2> QED BY <1>2, <2>3, <2>4 DEF Largest
  <1>13. Slack \in Nat
    BY <1>4, <1>7, <1>8
  <1>14. /\ MaxFrames * OutputRate = xb /\ MinFrames * inputRate = na
         /\ MaxFrames * inputRate = xa /\ MinFrames * OutputRate = nb
    BY <1>1, <1>2, <1>3
  <1>15. xb - na + e <= most + e /\ xa - nb + e <= most + e /\ xb - nb <= most + e
    BY <1>3, <1>4, <1>7, <1>10
  <1> QED BY <1>1, <1>4, <1>8, <1>9, <1>11, <1>12, <1>13, <1>14, <1>15

(* A packet becomes no more frames than the longest one does, and leaves   *)
(* the resampler short of the next one's second frame.                     *)
LEMMA Conversion ==
  ASSUME BusTypes, NEW f \in FrameCounts, NEW o \in Int, Carried(o)
  PROVE  /\ Outputs(f, o) \in Nat /\ Outputs(f, o) <= Longest
         /\ o + Outputs(f, o) * inputRate - f * OutputRate \in Int
         /\ Carried(o + Outputs(f, o) * inputRate - f * OutputRate)
  <1>1. PICK a \in Nat \ {0}, b \in Nat \ {0} : a = inputRate /\ b = OutputRate
    BY RateFacts
  <1>2. f \in Nat \ {0} /\ f <= MaxFrames
    BY Sizes DEF FrameCounts
  <1>3. PICK fb \in Nat : fb = f * b
    BY <1>2, ProductFacts
  <1>4. PICK end \in Nat : end = (f - 1) * b /\ end = fb - b
    <2>1. (f - 1) * b \in Nat /\ (f - 1) * b = f * b - b
      BY <1>2
    <2> QED BY <1>3, <2>1
  <1>5. /\ - b < o /\ (o <= 0 \/ o <= a - b) /\ (a = b => o = 0)
    BY <1>1 DEF Carried
  <1>6. CASE o > end
    <2>1. Outputs(f, o) = 0
      BY <1>1, <1>4, <1>6 DEF Outputs
    <2>2. o + Outputs(f, o) * inputRate - f * OutputRate = o - fb
      BY <1>1, <1>3, <2>1
    <2>3. - b < o - fb /\ (o - fb <= 0 \/ o - fb <= a - b) /\ a # b
      BY <1>1, <1>4, <1>5, <1>6
    <2> QED BY <1>1, <2>1, <2>2, <2>3, RateFacts DEF Carried
  <1>7. CASE ~ (o > end)
    <2>1. end - o \in Nat
      BY <1>4, <1>7
    <2>2. PICK d \in Nat : d = end - o
      BY <2>1
    <2>3. PICK q \in Nat : q = d \div a
      BY <1>1, QuotientFacts
    <2>4. PICK aq \in Nat : aq = a * q /\ aq <= d /\ d < aq + a
      BY <1>1, <2>2, <2>3, QuotientFacts
    <2>5. Outputs(f, o) = q + 1
      BY <1>1, <1>4, <1>7, <2>2, <2>3 DEF Outputs
    <2>6. (q + 1) * a = aq + a
      BY <1>1, <2>3, <2>4
    <2>7. o + Outputs(f, o) * inputRate - f * OutputRate = o + aq + a - fb
      BY <1>1, <1>3, <2>5, <2>6
    <2>8. - b < o + aq + a - fb /\ o + aq + a - fb <= a - b
      BY <1>1, <1>4, <2>2, <2>4
    <2>9. a = b => o + aq + a - fb = 0
      <3> SUFFICES ASSUME a = b PROVE o + aq + a - fb = 0
        OBVIOUS
      <3>1. o = 0 /\ d = (f - 1) * a
        BY <1>4, <1>5, <2>2
      <3>2. q = f - 1
        <4>1. q <= f - 2 => a * q <= a * (f - 2)
          BY <1>1, <1>2, ProductFacts
        <4>2. q >= f => a * f <= a * q
          BY <1>1, <1>2, ProductFacts
        <4>3. a * (f - 2) = d - a /\ a * f = d + a
          BY <1>1, <1>2, <3>1
        <4> QED BY <1>1, <1>2, <2>2, <2>4, <4>1, <4>2, <4>3
      <3>3. aq = d
        BY <1>1, <1>2, <2>4, <3>1, <3>2
      <3> QED BY <1>1, <1>4, <2>2, <3>1, <3>3
    <2>10. q + 1 <= Longest
      <3>1. PICK xb \in Nat : xb = MaxFrames * b
        BY <1>1, Sizes, ProductFacts
      <3>2. fb <= xb
        <4>1. b * f <= b * MaxFrames
          BY <1>1, <1>2, Sizes, ProductFacts
        <4> QED BY <1>1, <1>2, <1>3, <3>1, <4>1, Sizes
      <3>3. xb - 1 \in Nat /\ d <= xb - 1
        BY <1>1, <1>4, <1>5, <2>2, <3>2
      <3>4. PICK r \in Nat : r = (xb - 1) \div a
        BY <1>1, <3>3, QuotientFacts
      <3>5. q <= r
        BY <1>1, <2>3, <3>3, <3>4, QuotientGrows
      <3>6. Longest = Largest(MaxFrames, r + 1)
        BY <1>1, <3>1, <3>4 DEF Longest
      <3> QED BY <3>5, <3>6, Sizes DEF Largest
    <2>11. o + aq + a - fb \in Int
      BY <1>1
    <2> QED BY <1>1, <2>5, <2>7, <2>8, <2>9, <2>10, <2>11 DEF Carried
  <1> QED BY <1>6, <1>7

-----------------------------------------------------------------------------
(* What becomes of a queue that keeps time.                                *)

LEMMA AudioFacts ==
  ASSUME NEW units \in Seq(Units), NEW i \in 1 .. Len(units)
  PROVE  /\ units[i] \in Units
         /\ units[i].kind = "audio" => units[i].after \in Nat /\ units[i].time \in Int
  <1>1. units[i] \in Units
    BY ElementOfSeq
  <1> QED BY <1>1 DEF Units, Sounds, Primer, Concealment

LEMMA LeadsOn ==
  ASSUME BusTypes, NEW t1 \in Int, NEW t2 \in Int, NEW t3 \in Int,
         NEW a1 \in Nat, NEW a2 \in Nat, NEW a3 \in Nat, NEW n \in Int, NEW m \in Int, NEW k \in Int, k = n + m,
         Leads(t1, a1, t2, a2, n), Leads(t2, a2, t3, a3, m)
  PROVE  Leads(t1, a1, t3, a3, k)
  <1>1. PICK r \in Nat, s \in Nat : r = inputRate /\ s = Slack
    BY RateFacts
  <1>2. /\ a2 - a1 \in Nat /\ t2 - t1 - n * r \in - (s * (a2 - a1)) .. s * (a2 - a1)
        /\ a3 - a2 \in Nat /\ t3 - t2 - m * r \in - (s * (a3 - a2)) .. s * (a3 - a2)
    BY <1>1 DEF Leads
  <1>3. PICK x \in Int, y \in Int : x = s * (a2 - a1) /\ y = s * (a3 - a2)
    BY <1>1
  <1>4. PICK v \in Int, w \in Int : v = n * r /\ w = m * r
    BY <1>1
  <1>5. s * (a3 - a1) = x + y
    <2>1. a3 - a1 = (a2 - a1) + (a3 - a2)
      OBVIOUS
    <2>2. s * ((a2 - a1) + (a3 - a2)) = s * (a2 - a1) + s * (a3 - a2)
      BY <1>1
    <2> QED BY <1>3, <2>1, <2>2
  <1>6. (n + m) * r = v + w
    BY <1>1, <1>4
  <1>7. t3 - t1 - (v + w) \in - (x + y) .. x + y /\ a3 - a1 \in Nat
    BY <1>2, <1>3, <1>4
  <1> QED BY <1>1, <1>5, <1>6, <1>7 DEF Leads

LEMMA LeadsExactly ==
  ASSUME BusTypes, NEW t \in Int, NEW a \in Nat, NEW n \in Int
  PROVE  t + n * inputRate \in Int /\ Leads(t, a, t + n * inputRate, a, n)
  <1>1. PICK r \in Nat, s \in Nat : r = inputRate /\ s = Slack
    BY RateFacts
  <1>2. PICK x \in Int : x = n * r
    BY <1>1
  <1>3. a - a = 0 /\ s * 0 = 0 /\ (t + x) - t - x = 0
    BY <1>1
  <1> QED BY <1>1, <1>2, <1>3 DEF Leads

LEMMA LeadsBack ==
  ASSUME BusTypes, NEW t \in Int, NEW a \in Nat, NEW n \in Int
  PROVE  Leads(t + n * inputRate, a, t, a, - n)
  <1>1. PICK r \in Nat : r = inputRate
    BY RateFacts
  <1>2. PICK x \in Int : x = n * r
    BY <1>1
  <1>3. (- n) * r = - x
    BY <1>1, <1>2
  <1>4. (t + x) + (- n) * r = t
    BY <1>2, <1>3
  <1>5. Leads(t + x, a, (t + x) + (- n) * inputRate, a, - n)
    BY <1>2, LeadsExactly
  <1> QED BY <1>1, <1>2, <1>4, <1>5

(* The oldest units are taken.                                             *)
LEMMA SuffixPaced ==
  ASSUME NEW units \in Seq(Units), NEW rest \in Seq(Units), NEW d \in Nat,
         Len(rest) = Len(units) - d, \A i \in 1 .. Len(rest) : rest[i] = units[i + d],
         NEW clock, NEW altered, Paced(units, clock, altered)
  PROVE  Paced(rest, clock, altered)
  <1>1. PICK n \in Nat, m \in Nat : n = Len(units) /\ m = Len(rest) /\ m = n - d
    BY LenProperties
  <1> SUFFICES ASSUME NEW i \in 1 .. m, rest[i].kind = "audio"
               PROVE  /\ Leads(rest[i].time, rest[i].after, clock, altered, m + 1 - i)
                      /\ \A j \in i .. m : rest[j].kind = "audio" =>
                           Leads(rest[i].time, rest[i].after, rest[j].time, rest[j].after, j - i)
    BY <1>1 DEF Paced
  <1>2. rest[i] = units[i + d] /\ i + d \in 1 .. n /\ n + 1 - (i + d) = m + 1 - i
    <2>1. i + d \in 1 .. n /\ n + 1 - (i + d) = m + 1 - i
      <3>1. m = n - d
        BY <1>1
      <3> QED BY ONLY <3>1, n \in Nat, m \in Nat, d \in Nat, i \in 1 .. m
    <2>2. rest[i] = units[i + d]
      BY <1>1
    <2> QED BY <2>1, <2>2
  <1>3. /\ Leads(rest[i].time, rest[i].after, clock, altered, m + 1 - i)
        /\ \A j \in i + d .. n : units[j].kind = "audio" =>
             Leads(rest[i].time, rest[i].after, units[j].time, units[j].after, j - (i + d))
    <2>1. units[i + d].kind = "audio"
      BY <1>2
    <2>2. /\ Leads(units[i + d].time, units[i + d].after, clock, altered, n + 1 - (i + d))
          /\ \A j \in i + d .. n : units[j].kind = "audio" =>
               Leads(units[i + d].time, units[i + d].after, units[j].time, units[j].after,
                     j - (i + d))
      BY <1>1, <1>2, <2>1 DEF Paced
    <2> QED BY <1>2, <2>2
  <1>4. ASSUME NEW j \in i .. m, rest[j].kind = "audio"
        PROVE  Leads(rest[i].time, rest[i].after, rest[j].time, rest[j].after, j - i)
    <2>1. j + d \in i + d .. n /\ rest[j] = units[j + d] /\ (j + d) - (i + d) = j - i
      BY <1>1
    <2>2. Leads(rest[i].time, rest[i].after, units[j + d].time, units[j + d].after,
                (j + d) - (i + d))
      BY <1>3, <1>4, <2>1
    <2> QED BY <2>1, <2>2
  <1> QED BY <1>3, <1>4

(* Units are queued, of which the audio goes on from the clock.            *)
LEMMA AppendPaced ==
  ASSUME BusTypes, NEW units \in Seq(Units), NEW more \in Seq(Units),
         NEW clock \in Int, NEW altered \in Nat, Paced(units, clock, altered),
         GoesOn(more, clock, altered),
         NEW later \in Int, NEW after \in Nat,
         NEW m \in Nat, m = Len(more), Leads(clock, altered, later, after, m)
  PROVE  /\ units \o more \in Seq(Units) /\ Len(units \o more) = Len(units) + Len(more)
         /\ Paced(units \o more, later, after)
  <1> DEFINE all == units \o more
  <1>1. PICK n \in Nat : n = Len(units)
    BY LenProperties
  <1>2. /\ all \in Seq(Units) /\ Len(all) = n + m
        /\ \A i \in 1 .. n : all[i] = units[i]
        /\ \A i \in n + 1 .. n + m : all[i] = more[i - n]
    <2>1. /\ all \in Seq(Units) /\ Len(all) = Len(units) + Len(more)
          /\ \A i \in 1 .. Len(units) + Len(more) :
               all[i] = IF i <= Len(units) THEN units[i] ELSE more[i - Len(units)]
      BY ConcatProperties
    <2>2. /\ \A i \in 1 .. n : i \in 1 .. n + m /\ i <= n
          /\ \A i \in n + 1 .. n + m : i \in 1 .. n + m /\ ~ (i <= n)
      BY ONLY n \in Nat, m \in Nat
    <2> HIDE DEF all
    <2>3. /\ all \in Seq(Units) /\ Len(all) = n + m
          /\ \A i \in 1 .. n + m : all[i] = IF i <= n THEN units[i] ELSE more[i - n]
      BY <1>1, <2>1
    <2> QED BY <2>2, <2>3
  <1> HIDE DEF all
  <1>2a. /\ BusTypes /\ clock \in Int /\ altered \in Nat /\ later \in Int /\ after \in Nat
         /\ n \in Int /\ m \in Int /\ Leads(clock, altered, later, after, m)
    OBVIOUS
  <1>3. ASSUME NEW i \in 1 .. n, all[i].kind = "audio"
        PROVE  /\ all[i].after \in Nat /\ all[i].time \in Int
               /\ Leads(all[i].time, all[i].after, clock, altered, n + 1 - i)
               /\ \A j \in i .. n : all[j].kind = "audio" =>
                    Leads(all[i].time, all[i].after, all[j].time, all[j].after, j - i)
    <2>1. i \in 1 .. Len(units) /\ all[i] = units[i] /\ \A j \in i .. n : all[j] = units[j]
      BY <1>1, <1>2
    <2> QED BY <1>1, <1>3, <2>1, AudioFacts DEF Paced
  <1>4. ASSUME NEW k \in n + 1 .. n + m, all[k].kind = "audio"
        PROVE  \E x \in Int : /\ x = k - n - 1 /\ all[k].after = altered
                              /\ all[k].time = clock + x * inputRate
    <2>1. k - n \in 1 .. Len(more) /\ all[k] = more[k - n] /\ k - n - 1 \in Int
      BY <1>1, <1>2
    <2> QED BY <1>4, <2>1 DEF GoesOn
  <1>5. ASSUME NEW i \in 1 .. n, all[i].kind = "audio"
        PROVE  /\ Leads(all[i].time, all[i].after, later, after, n + m + 1 - i)
               /\ \A j \in i .. n + m : all[j].kind = "audio" =>
                    Leads(all[i].time, all[i].after, all[j].time, all[j].after, j - i)
    <2>1. PICK t \in Int, a \in Nat, y \in Int :
            t = all[i].time /\ a = all[i].after /\ y = n + 1 - i
      BY <1>3, <1>5
    <2>2. Leads(t, a, clock, altered, y)
      BY <1>3, <1>5, <2>1
    <2>3. Leads(all[i].time, all[i].after, later, after, n + m + 1 - i)
      <3>1. t \in Int /\ a \in Nat /\ y \in Int /\ i \in Int /\ y = n + 1 - i
        BY <2>1
      <3>2. PICK k \in Int : k = n + m + 1 - i /\ k = y + m
        BY ONLY <1>2a, <3>1
      <3>3. Leads(t, a, later, after, k)
        <4>1. t \in Int /\ a \in Nat /\ y \in Int /\ k \in Int /\ k = y + m
          BY <3>1, <3>2
        <4> QED BY ONLY <1>2a, <2>2, <4>1, LeadsOn
      <3> QED BY <2>1, <3>2, <3>3
    <2>4. ASSUME NEW j \in i .. n + m, all[j].kind = "audio"
          PROVE  Leads(all[i].time, all[i].after, all[j].time, all[j].after, j - i)
      <3>1. CASE j \in i .. n
        BY <1>3, <1>5, <2>4, <3>1
      <3>2. CASE j \in n + 1 .. n + m
        <4>1. PICK x \in Int : /\ x = j - n - 1 /\ all[j].after = altered
                               /\ all[j].time = clock + x * inputRate
          BY <1>4, <2>4, <3>2
        <4>2. /\ clock + x * inputRate \in Int
              /\ Leads(clock, altered, clock + x * inputRate, altered, x)
          BY LeadsExactly
        <4>3. PICK u \in Int : u = clock + x * inputRate
          BY <4>2
        <4>4. x = j - n - 1 /\ y = n + 1 - i
          BY <2>1, <4>1
        <4>5. PICK k \in Int : k = j - i /\ k = y + x
          BY <4>4
        <4>6. Leads(t, a, u, altered, k)
          BY <2>2, <4>2, <4>3, <4>5, LeadsOn
        <4> QED BY <2>1, <4>1, <4>3, <4>5, <4>6
      <3>3. j \in i .. n \/ j \in n + 1 .. n + m
        OBVIOUS
      <3> QED BY <3>1, <3>2, <3>3
    <2> QED BY <2>3, <2>4
  <1>6. ASSUME NEW i \in n + 1 .. n + m, all[i].kind = "audio"
        PROVE  /\ Leads(all[i].time, all[i].after, later, after, n + m + 1 - i)
               /\ \A j \in i .. n + m : all[j].kind = "audio" =>
                    Leads(all[i].time, all[i].after, all[j].time, all[j].after, j - i)
    <2>1. PICK x \in Int : /\ x = i - n - 1 /\ all[i].after = altered
                           /\ all[i].time = clock + x * inputRate
      BY <1>4, <1>6
    <2>2. clock + x * inputRate \in Int
      BY LeadsExactly
    <2>3. PICK t \in Int : t = clock + x * inputRate
      BY <2>2
    <2>4. Leads(t, altered, clock, altered, - x) /\ - x \in Int
      BY <2>3, LeadsBack
    <2>5. Leads(all[i].time, all[i].after, later, after, n + m + 1 - i)
      <3>1. t \in Int /\ x \in Int /\ i \in Int /\ x = i - n - 1
        BY <2>1
      <3>2. PICK k \in Int : k = n + m + 1 - i /\ k = - x + m
        BY ONLY <1>2a, <3>1
      <3>3. Leads(t, altered, later, after, k)
        <4>1. t \in Int /\ - x \in Int /\ k \in Int /\ k = - x + m
          BY <3>1, <3>2
        <4> QED BY ONLY <1>2a, <2>4, <4>1, LeadsOn
      <3> QED BY <2>1, <2>3, <3>2, <3>3
    <2>6. ASSUME NEW j \in i .. n + m, all[j].kind = "audio"
          PROVE  Leads(all[i].time, all[i].after, all[j].time, all[j].after, j - i)
      <3>1. PICK y \in Int : /\ y = j - n - 1 /\ all[j].after = altered
                             /\ all[j].time = clock + y * inputRate
        BY <1>4, <2>6
      <3>2. /\ clock + y * inputRate \in Int
            /\ Leads(clock, altered, clock + y * inputRate, altered, y)
        BY LeadsExactly
      <3>3. PICK u \in Int : u = clock + y * inputRate
        BY <3>2
      <3>4. x = i - n - 1 /\ y = j - n - 1
        BY <2>1, <3>1
      <3>5. PICK k \in Int : k = j - i /\ k = - x + y
        BY <3>4
      <3>6. Leads(t, altered, u, altered, k)
        BY <2>4, <3>2, <3>3, <3>5, LeadsOn
      <3> QED BY <2>1, <2>3, <3>1, <3>3, <3>5, <3>6
    <2> QED BY <2>5, <2>6
  <1>7. Paced(all, later, after)
    <2> SUFFICES ASSUME NEW i \in 1 .. n + m, all[i].kind = "audio"
                 PROVE  /\ Leads(all[i].time, all[i].after, later, after, n + m + 1 - i)
                        /\ \A j \in i .. n + m : all[j].kind = "audio" =>
                             Leads(all[i].time, all[i].after, all[j].time, all[j].after, j - i)
      BY <1>2 DEF Paced
    <2>1. i \in 1 .. n \/ i \in n + 1 .. n + m
      OBVIOUS
    <2> QED BY <1>5, <1>6, <2>1
  <1> QED BY <1>1, <1>2, <1>7 DEF all

-----------------------------------------------------------------------------
(* What becomes of the queue when the events of a call are handled.        *)

(* A packet in another length is out by no more than the slack.            *)
LEMMA RebuiltTime ==
  ASSUME BusTypes, NEW f \in FrameCounts, NEW g \in FrameCounts
  PROVE  (g - f) * OutputRate \in - Slack .. Slack
  <1>1. PICK b \in Nat, s \in Nat : b = OutputRate /\ s = Slack
    BY RateFacts
  <1>2. PICK d \in Nat : d = MaxFrames - MinFrames
    BY Sizes
  <1>3. g - f \in Int /\ - d <= g - f /\ g - f <= d
    BY <1>2, Sizes DEF FrameCounts
  <1>4. d * b <= s
    BY <1>1, <1>2, RateFacts
  <1>5. PICK e \in Int : e = g - f
    BY <1>3
  <1>6. b * (- d) <= b * e /\ b * e <= b * d
    BY <1>1, <1>2, <1>3, <1>5, ProductFacts
  <1>7. PICK x \in Int, y \in Nat : x = e * b /\ y = d * b
    BY <1>1, <1>2, <1>5, ProductFacts
  <1>8. b * e = x /\ b * d = y /\ b * (- d) = - y
    BY <1>1, <1>2, <1>5, <1>7
  <1>9. x \in - s .. s
    BY <1>1, <1>4, <1>6, <1>7, <1>8
  <1> QED BY <1>1, <1>5, <1>7, <1>9

(* So is concealment, for each packet that it stands for.                  *)
LEMMA ConcealedTime ==
  ASSUME BusTypes, NEW c \in Nat \ {0}, NEW f \in FrameCounts, NEW o \in Int, Carried(o),
         NEW g \in Int, g \in c * MinFrames .. c * MaxFrames
  PROVE  /\ g * OutputRate - o - c * f * inputRate \in - (Slack * c) .. Slack * c
         /\ c * f \in Nat /\ c * f <= c * Longest
  <1>1. PICK a \in Nat, b \in Nat, s \in Nat, e \in Nat :
          a = inputRate /\ b = OutputRate /\ s = Slack /\ e = Misplaced
    BY RateFacts
  <1>2. PICK x \in Nat, n \in Nat : x = MaxFrames /\ n = MinFrames
    BY Sizes
  <1>3. f \in Nat /\ n <= f /\ f <= x
    BY <1>2, Sizes DEF FrameCounts
  <1>4. PICK cn \in Nat, cf \in Nat, cx \in Nat : cn = c * n /\ cf = c * f /\ cx = c * x
    BY <1>2, <1>3, ProductFacts
  <1>5. cn <= cf /\ cf <= cx /\ cn <= g /\ g <= cx
    <2>1. c * n <= c * f /\ c * f <= c * x
      BY <1>2, <1>3, ProductFacts
    <2> QED BY <1>2, <1>4, <2>1
  <1>6. PICK gb \in Int, fa \in Int : gb = g * b /\ fa = cf * a
    BY <1>1, <1>4
  <1>7. PICK xa \in Int, xb \in Int, na \in Int, nb \in Int :
          xa = x * a /\ xb = x * b /\ na = n * a /\ nb = n * b
    BY <1>1, <1>2
  <1>8. /\ c * nb <= gb /\ gb <= c * xb /\ c * na <= fa /\ fa <= c * xa
    <2>1. b * cn <= b * g /\ b * g <= b * cx /\ a * cn <= a * cf /\ a * cf <= a * cx
      BY <1>1, <1>4, <1>5, ProductFacts
    <2>2. b * g = gb /\ a * cf = fa
      BY <1>1, <1>4, <1>6
    <2>3. b * cn = c * nb /\ a * cn = c * na
      BY <1>1, <1>2, <1>4, <1>7
    <2>4. b * cx = c * xb /\ a * cx = c * xa
      BY <1>1, <1>2, <1>4, <1>7
    <2> QED BY <2>1, <2>2, <2>3, <2>4
  <1>9. xb - na + e <= s /\ xa - nb + e <= s
    BY <1>1, <1>2, <1>7, RateFacts
  <1>10. o \in - e .. e
    BY <1>1, RateFacts
  <1>11. PICK v \in Int, w \in Int, z \in Int : v = c * (xb - na) /\ w = c * (xa - nb) /\ z = c * s
    BY <1>1, <1>7
  <1>12. v + e <= z /\ w + e <= z
    <2>1. c * (xb - na + e) <= c * s /\ c * (xa - nb + e) <= c * s
      BY <1>1, <1>7, <1>9, ProductFacts
    <2>2. c * 1 <= c
      OBVIOUS
    <2>3. e * 1 <= e * c
      BY <1>1, ProductFacts
    <2>4. PICK ce \in Nat : ce = c * e /\ e <= ce
      BY <1>1, <2>3, ProductFacts
    <2>5. c * (xb - na + e) = v + ce /\ c * (xa - nb + e) = w + ce
      BY <1>1, <1>7, <1>11, <2>4
    <2> QED BY <1>1, <1>11, <2>1, <2>4, <2>5
  <1>13. gb - fa <= v /\ fa - gb <= w
    <2>1. PICK cxb \in Int, cna \in Int, cxa \in Int, cnb \in Int :
            cxb = c * xb /\ cna = c * na /\ cxa = c * xa /\ cnb = c * nb
      BY <1>7
    <2>2. v = cxb - cna /\ w = cxa - cnb
      BY <1>7, <1>11, <2>1
    <2> QED BY <1>6, <1>8, <2>1, <2>2
  <1>14. gb - o - fa \in - z .. z
    BY <1>1, <1>6, <1>10, <1>11, <1>12, <1>13
  <1>15. g * OutputRate - o - c * f * inputRate = gb - o - fa /\ Slack * c = z
    BY <1>1, <1>4, <1>6, <1>11
  <1>16. c * f <= c * Longest
    <2>1. f <= Longest /\ Longest \in Nat
      BY <1>2, <1>3, RateFacts
    <2> QED BY <1>3, <2>1, ProductFacts
  <1> QED BY <1>4, <1>14, <1>15, <1>16

LEMMA PushedIs ==
  ASSUME OneStream, BusTypes, NEW pl, Plays(pl),
         NEW p, p.stream = TheStream, p.frames \in FrameCounts,
         NEW units \in Seq(Units), Len(units) = Outputs(p.frames, pl.offset[TheStream])
  PROVE  LET new == Pushed(p, units, pl)
         IN  /\ Plays(new) /\ QueueOf(new) = QueueOf(pl) \o units
             /\ new.offset[TheStream] =
                  pl.offset[TheStream] + Len(units) * inputRate - p.frames * OutputRate
             /\ new.last = pl.last /\ new.altered = pl.altered
             /\ Len(units) \in Nat /\ Len(units) <= Longest
  <1> DEFINE o == pl.offset[TheStream]
             o2 == o + Len(units) * inputRate - p.frames * OutputRate
             q2 == Extended(pl.queues, p.stream, units)
             new == Pushed(p, units, pl)
  <1>1. o \in Int /\ Carried(o) /\ TheStream \in Streams
    BY DEF Plays, OneStream
  <1>2. o2 \in Int /\ Carried(o2) /\ Len(units) \in Nat /\ Len(units) <= Longest
    BY <1>1, Conversion
  <1>3. new = [pl EXCEPT !.queues = q2, !.offset[TheStream] = o2]
    BY DEF Pushed
  <1> HIDE DEF o2, q2
  <1>4. /\ new = [queues |-> new.queues, offset |-> new.offset,
                  last |-> new.last, altered |-> new.altered]
        /\ new.queues = q2 /\ new.offset = [pl.offset EXCEPT ![TheStream] = o2]
        /\ new.last = pl.last /\ new.altered = pl.altered
    BY <1>3 DEF Plays
  <1>5. new.offset \in [Streams -> Int] /\ new.offset[TheStream] = o2
    BY <1>1, <1>2, <1>4 DEF Plays
  <1>6. /\ DOMAIN q2 = DOMAIN pl.queues \cup {TheStream}
        /\ q2[TheStream] = IF TheStream \in DOMAIN pl.queues THEN pl.queues[TheStream] \o units
                           ELSE units
    BY DEF q2, Extended
  <1>7. QueueIn(q2) = QueueOf(pl) \o units
    <2>1. << >> \o units = units
      BY ConcatEmptySeq
    <2> QED BY <1>6, <2>1 DEF QueueOf, QueueIn
  <1>8. QueueOf(pl) \o units \in Seq(Units)
    BY ConcatProperties DEF Plays
  <1>9. DOMAIN q2 \subseteq Streams
    BY <1>1, <1>6 DEF Plays
  <1>10. QueueOf(new) = QueueOf(pl) \o units
    BY <1>4, <1>7 DEF QueueOf
  <1> HIDE DEF new
  <1>11. Plays(new)
    BY <1>2, <1>4, <1>5, <1>8, <1>9, <1>10 DEF Plays
  <1> QED BY <1>2, <1>4, <1>5, <1>10, <1>11 DEF new, o2

LEMMA PlayedKeeps ==
  ASSUME OneStream, BusTypes, NEW pl, Plays(pl), NEW t \in 0 .. Count - 1,
         NEW p, IsPlace(p, t), Paced(QueueOf(pl), ClockOf(pl, t), pl.altered)
  PROVE  LET new == Played(p, pl)
         IN  /\ Plays(new) /\ Paced(QueueOf(new), ClockOf(new, t + 1), new.altered)
             /\ Len(QueueOf(new)) <= Len(QueueOf(pl)) + Longest
  <1> DEFINE units == Audio(p, pl)
             mid == Pushed(p, units, pl)
             new == Played(p, pl)
             old == QueueOf(pl)
  <1>1. PICK o \in Int, a \in Nat : o = pl.offset[TheStream] /\ a = pl.altered /\ Carried(o)
    BY DEF Plays, OneStream
  <1>2. /\ p.stream = TheStream /\ p.at = At(t) /\ p.pos = t /\ p.frames \in FrameCounts
        /\ old \in Seq(Units)
    BY DEF IsPlace, Plays
  <1>3. PICK made \in Nat : made = Outputs(p.frames, o) /\ made = Made(p, pl)
    BY <1>1, <1>2, Conversion DEF Made
  <1>4. PICK r \in Nat, b \in Nat, s \in Nat : r = inputRate /\ b = OutputRate /\ s = Slack
    BY RateFacts
  <1>5. PICK t1 \in Nat, t2 \in Nat, f \in FrameCounts :
          t1 = At(t) /\ t2 = At(t + 1) /\ f = p.frames /\ t2 - t1 \in FrameCounts
    <2>1. t \in 0 .. Count /\ t + 1 \in 0 .. Count
      BY TheFacts
    <2>2. IsPlace(Place(t), t)
      BY PlacesLast
    <2>3. At(t + 1) - At(t) \in FrameCounts
      BY <2>2, PlaceFacts DEF IsPlace
    <2>4. At(t) \in Nat /\ At(t + 1) \in Nat
      BY <2>1, TheFacts
    <2> QED BY <1>2, <2>3, <2>4
  <1>6. f \in Nat
    BY Sizes DEF FrameCounts
  <1>7. PICK clock \in Int : clock = t1 * b + o /\ clock = ClockOf(pl, t)
    <2>1. t1 * b \in Nat
      BY <1>4, <1>5
    <2> QED BY <1>1, <1>4, <1>5, <2>1 DEF ClockOf
  <1>8. /\ units \in Seq(Units) /\ Len(units) = made
        /\ GoesOn(units, clock, a)
    <2>1. units = [k \in 1 .. made |-> [kind |-> "audio", after |-> a,
                                        time |-> clock + (k - 1) * r]]
      BY <1>1, <1>2, <1>3, <1>4, <1>5, <1>7 DEF Audio
    <2>2. \A k \in 1 .. made : clock + (k - 1) * r \in Int
      BY <1>4
    <2>3. units \in [1 .. made -> Units]
      <3>1. ASSUME NEW k \in 1 .. made PROVE units[k] \in Units
        <4>1. PICK x \in Int : x = clock + (k - 1) * r
          BY <2>2
        <4>2. units[k] = [kind |-> "audio", after |-> a, time |-> x]
          BY <2>1, <4>1
        <4> QED BY <4>2 DEF Units, Sounds
      <3> HIDE DEF units
      <3> QED BY <2>1, <3>1
    <2> HIDE DEF units
    <2>4. units \in Seq(Units) /\ Len(units) = made
      BY <2>3, RunIsSeq
    <2> QED BY <1>4, <2>1, <2>4 DEF GoesOn
  <1> HIDE DEF units
  <1>9. /\ Plays(mid) /\ QueueOf(mid) = old \o units
        /\ mid.offset[TheStream] = o + made * r - f * b
        /\ mid.altered = a /\ made <= Longest
    <2>1. p.frames \in FrameCounts /\ Len(units) = Outputs(p.frames, pl.offset[TheStream])
      BY <1>1, <1>2, <1>3, <1>8
    <2>2. /\ Plays(mid) /\ QueueOf(mid) = QueueOf(pl) \o units
          /\ mid.offset[TheStream] =
               pl.offset[TheStream] + Len(units) * inputRate - p.frames * OutputRate
          /\ mid.altered = pl.altered /\ Len(units) <= Longest
      BY <1>2, <1>8, <2>1, PushedIs
    <2> HIDE DEF mid
    <2> QED BY <1>1, <1>3, <1>4, <1>5, <1>8, <2>2
  <1>10. PICK x \in {0, 1} : /\ new = [mid EXCEPT !.last = f, !.altered = a + x]
                             /\ x = 0 => p = Place(t)
    <2>2. new = [mid EXCEPT !.last = f, !.altered = mid.altered + (IF p = Place(t) THEN 0 ELSE 1)]
      BY <1>2, <1>5 DEF Played, Place, units
    <2> HIDE DEF mid, new
    <2>3. CASE p = Place(t)
      <3>1. new = [mid EXCEPT !.last = f, !.altered = a + 0]
        BY <1>9, <2>2, <2>3
      <3> QED BY <2>3, <3>1
    <2>4. CASE p # Place(t)
      <3>1. new = [mid EXCEPT !.last = f, !.altered = a + 1]
        BY <1>9, <2>2, <2>4
      <3> QED BY <3>1
    <2> QED BY <2>3, <2>4
  <1> HIDE DEF mid
  <1>11. /\ new = [queues |-> new.queues, offset |-> new.offset,
                   last |-> new.last, altered |-> new.altered]
         /\ new.queues = mid.queues /\ new.offset = mid.offset
         /\ new.last = f /\ new.altered = a + x
    BY <1>9, <1>10 DEF Plays
  <1> HIDE DEF new
  <1>12. Plays(new) /\ QueueOf(new) = old \o units /\ new.offset[TheStream] = o + made * r - f * b
    <2>1. QueueOf(new) = QueueOf(mid)
      BY <1>11 DEF QueueOf
    <2>2. new.offset \in [Streams -> Int] /\ Carried(new.offset[TheStream])
      BY <1>9, <1>11 DEF Plays
    <2>3. DOMAIN new.queues \subseteq Streams /\ QueueOf(new) \in Seq(Units)
      BY <1>9, <1>11, <2>1 DEF Plays
    <2>4. new.last \in {0} \cup FrameCounts /\ new.altered \in Nat
      BY <1>11
    <2>5. Plays(new)
      BY <1>11, <2>2, <2>3, <2>4 DEF Plays
    <2> QED BY <1>9, <1>11, <2>1, <2>5
  <1>13. PICK fb \in Int, mr \in Int, y1 \in Int, y2 \in Int :
           fb = f * b /\ mr = made * r /\ y1 = t1 * b /\ y2 = t2 * b
    BY <1>4, <1>6
  <1>14. PICK later \in Int : later = y2 + o + mr - fb /\ later = ClockOf(new, t + 1)
    <2>1. ClockOf(new, t + 1) = y2 + (o + mr - fb)
      BY <1>4, <1>5, <1>12, <1>13 DEF ClockOf
    <2> QED BY <1>13, <2>1
  <1>15. Leads(clock, a, later, a + x, made)
    <2>1. later - clock - mr = (t2 - t1 - f) * b
      <3>1. (t2 - t1 - f) * b = y2 - y1 - fb
        BY <1>4, <1>6, <1>13
      <3> QED BY <1>7, <1>13, <1>14, <3>1
    <2>2. (t2 - t1 - f) * b \in - (s * x) .. s * x
      <3>1. CASE x = 0
        <4>1. t2 - t1 = f
          BY <1>5, <1>10, <3>1, PlaceFacts
        <4>2. t2 - t1 - f = 0 /\ 0 * b = 0 /\ s * 0 = 0
          BY <1>4, <1>6, <4>1
        <4> QED BY <3>1, <4>2
      <3>2. CASE x = 1
        <4>1. PICK g \in FrameCounts : g = t2 - t1
          BY <1>5
        <4>2. (g - f) * b \in - s .. s
          BY <1>4, RebuiltTime
        <4>3. s * 1 = s
          BY <1>4
        <4> QED BY <3>2, <4>1, <4>2, <4>3
      <3> QED BY <3>1, <3>2
    <2>3. (a + x) - a = x /\ x \in Nat
      OBVIOUS
    <2> QED BY <1>4, <1>13, <2>1, <2>2, <2>3 DEF Leads
  <1>16. /\ old \o units \in Seq(Units) /\ Len(old \o units) = Len(old) + made
         /\ Paced(old \o units, later, a + x)
    <2>1. Paced(old, clock, a) /\ a + x \in Nat
      BY <1>1, <1>7
    <2> HIDE DEF old
    <2> QED BY <1>2, <1>8, <1>15, <2>1, AppendPaced
  <1>17. Len(QueueOf(new)) <= Len(old) + Longest
    <2>1. PICK n \in Nat : n = Len(old)
      BY <1>2, LenProperties
    <2>2. PICK l \in Nat : l = Longest
      BY RateFacts
    <2> QED BY <1>9, <1>12, <1>16, <2>1, <2>2
  <1> QED BY <1>11, <1>12, <1>14, <1>16, <1>17 DEF new

LEMMA ConcealedKeeps ==
  ASSUME OneStream, BusTypes, NEW pl, Plays(pl), NEW t \in Nat, NEW c \in Nat \ {0},
         t + c <= Count, Paced(QueueOf(pl), ClockOf(pl, t), pl.altered)
  PROVE  LET new == Concealed(c, pl)
         IN  /\ Plays(new) /\ Paced(QueueOf(new), ClockOf(new, t + c), new.altered)
             /\ Len(QueueOf(new)) <= Len(QueueOf(pl)) + c * Longest
  <1> DEFINE new == Concealed(c, pl)
             old == QueueOf(pl)
  <1>1. PICK o \in Int, a \in Nat : o = pl.offset[TheStream] /\ a = pl.altered /\ Carried(o)
    BY DEF Plays, OneStream
  <1>2. PICK f \in FrameCounts : f = IF pl.last > 0 THEN pl.last ELSE MaxFrames
    <2>1. pl.last \in {0} \cup FrameCounts
      BY DEF Plays
    <2>2. MaxFrames \in FrameCounts /\ (pl.last > 0 => pl.last # 0)
      BY Sizes DEF FrameCounts
    <2> QED BY <2>1, <2>2
  <1> DEFINE more == [k \in 1 .. c * f |-> Concealment]
  <1>3. PICK r \in Nat, b \in Nat, s \in Nat : r = inputRate /\ b = OutputRate /\ s = Slack
    BY RateFacts
  <1>4. PICK t1 \in Nat, t2 \in Nat :
          /\ t1 = At(t) /\ t2 = At(t + c) /\ t2 - t1 \in c * MinFrames .. c * MaxFrames
    <2>1. t \in 0 .. Count /\ t + c \in 0 .. Count /\ t <= t + c /\ (t + c) - t = c
      BY TheFacts
    <2> QED BY <2>1, TheFacts DEF BusTypes, Lasting
  <1>5. PICK g \in Int : g = t2 - t1
    BY <1>4
  <1>6. /\ g * b - o - c * f * r \in - (s * c) .. s * c
        /\ c * f \in Nat /\ c * f <= c * Longest
    BY <1>1, <1>3, <1>4, <1>5, ConcealedTime
  <1>7. PICK m \in Nat : m = c * f
    BY <1>6
  <1>8. /\ new = [pl EXCEPT !.queues = [z \in DOMAIN pl.queues |-> pl.queues[z] \o more],
                            !.offset = [z \in Streams |-> 0], !.altered = a + c]
    BY <1>1, <1>2 DEF Concealed
  <1>9. more \in Seq(Units) /\ Len(more) = m /\ \A k \in 1 .. m : more[k] = Concealment
    <2>1. more \in [1 .. m -> Units] /\ \A k \in 1 .. m : more[k] = Concealment
      BY <1>7 DEF Units
    <2> HIDE DEF more
    <2> QED BY <2>1, RunIsSeq
  <1> HIDE DEF more
  <1>10. /\ new = [queues |-> new.queues, offset |-> new.offset,
                   last |-> new.last, altered |-> new.altered]
         /\ new.queues = [z \in DOMAIN pl.queues |-> pl.queues[z] \o more]
         /\ new.offset = [z \in Streams |-> 0]
         /\ new.last = pl.last /\ new.altered = a + c
    BY <1>8 DEF Plays
  <1> HIDE DEF new
  <1>11. old \in Seq(Units) /\ Len(old) \in Nat
    BY LenProperties DEF Plays
  <1>11a. DOMAIN new.queues \subseteq Streams
    <2>1. DOMAIN new.queues = DOMAIN pl.queues
      BY ONLY <1>10
    <2> QED BY ONLY <2>1, Plays(pl) DEF Plays
  <1>12. new.offset \in [Streams -> Int] /\ new.offset[TheStream] = 0 /\ Carried(0)
    <2>1. TheStream \in Streams
      BY DEF OneStream
    <2>2. Carried(0)
      BY RateFacts DEF Carried
    <2> QED BY <1>10, <2>1, <2>2
  <1>13. Paced(old, ClockOf(pl, t), a)
    BY <1>1
  <1>14. PICK y1 \in Int, y2 \in Int : y1 = t1 * b /\ y2 = t2 * b
    BY <1>3
  <1>15. PICK clock \in Int, later \in Int : /\ clock = y1 + o /\ clock = ClockOf(pl, t)
                                             /\ later = y2 /\ later = ClockOf(new, t + c)
    <2>1. ClockOf(pl, t) = y1 + o
      BY <1>1, <1>3, <1>4, <1>14 DEF ClockOf
    <2>2. ClockOf(new, t + c) = y2 + 0
      BY <1>3, <1>4, <1>12, <1>14 DEF ClockOf
    <2> QED BY <2>1, <2>2
  <1>16. Leads(clock, a, later, a + c, m)
    <2>1. PICK mr \in Int, gb \in Int, sc \in Int : mr = m * r /\ gb = g * b /\ sc = s * c
      BY <1>3
    <2>2. gb = y2 - y1
      BY <1>3, <1>5, <1>14, <2>1
    <2>3. gb - o - mr \in - sc .. sc
      BY <1>6, <1>7, <2>1
    <2>4. later - clock - mr \in - sc .. sc
      <3>1. later - clock - mr = gb - o - mr
        BY <1>14, <1>15, <2>1, <2>2
      <3> QED BY <2>3, <3>1
    <2>5. (a + c) - a = c /\ c \in Nat
      OBVIOUS
    <2> QED BY <1>3, <2>1, <2>4, <2>5 DEF Leads
  <1>17. /\ QueueOf(new) \in Seq(Units)
         /\ Paced(QueueOf(new), later, a + c)
         /\ Len(QueueOf(new)) <= Len(old) + m
    <2>1. CASE TheStream \in DOMAIN pl.queues
      <3>1. QueueOf(new) = old \o more
        BY <1>10, <2>1 DEF QueueOf, QueueIn
      <3>2. GoesOn(more, clock, a)
        BY <1>9 DEF GoesOn, Concealment
      <3>3. a + c \in Nat /\ Paced(old, clock, a)
        BY <1>13, <1>15
      <3> HIDE DEF old
      <3>4. /\ old \o more \in Seq(Units) /\ Len(old \o more) = Len(old) + Len(more)
            /\ Paced(old \o more, later, a + c)
        BY <1>9, <1>11, <1>16, <3>2, <3>3, AppendPaced
      <3> QED BY <1>9, <1>11, <3>1, <3>4
    <2>2. CASE TheStream \notin DOMAIN pl.queues
      <3>1. QueueOf(new) = << >> /\ old = << >>
        BY <1>10, <2>2 DEF QueueOf, QueueIn
      <3>2. << >> \in Seq(Units) /\ Len(<< >>) = 0
        OBVIOUS
      <3>3. Paced(<< >>, later, a + c)
        BY <3>2 DEF Paced
      <3> QED BY <3>1, <3>2, <3>3
    <2> QED BY <2>1, <2>2
  <1>18. Plays(new)
    <2>1. new.last \in {0} \cup FrameCounts /\ new.altered \in Nat
      <3>1. pl.last \in {0} \cup FrameCounts
        BY ONLY Plays(pl) DEF Plays
      <3>2. a + c \in Nat
        OBVIOUS
      <3> QED BY ONLY <1>10, <3>1, <3>2
    <2> QED BY <1>10, <1>11a, <1>12, <1>17, <2>1 DEF Plays
  <1>19. Len(QueueOf(new)) <= Len(old) + c * Longest
    <2>1. Len(QueueOf(new)) \in Nat
      BY <1>17, LenProperties
    <2>2. PICK n1 \in Nat, n2 \in Nat : n1 = Len(old) /\ n2 = Len(QueueOf(new))
      BY <1>11, <2>1
    <2>3. PICK l \in Nat : l = c * Longest
      BY RateFacts, ProductFacts
    <2>4. m <= l
      BY <1>6, <1>7, <2>3
    <2>5. n2 <= n1 + m
      BY <1>17, <2>2
    <2>6. n2 <= n1 + l
      BY <2>4, <2>5
    <2> QED BY <2>2, <2>3, <2>6
  <1> QED BY <1>10, <1>15, <1>17, <1>18, <1>19 DEF new

LEMMA HandlingFacts ==
  ASSUME NEW q, NEW es, Len(es) \in Nat
  PROVE  LET after == Handling(q, es)
         IN  /\ after[0] = q
             /\ \A i \in 1 .. Len(es) : after[i] = Handle(after[i - 1], es[i])
  <1> DEFINE Step(t, i) == IF i = 0 THEN q ELSE Handle(t[i - 1], es[i])
             Is(t, n) == t = [i \in 0 .. n |-> Step(t, i)]
             Good == {n \in Nat : \E t : Is(t, n)}
             len == Len(es)
  <1>1. 0 \in Good
    <2> DEFINE t == [i \in 0 .. 0 |-> q]
    <2>1. Is(t, 0)
      OBVIOUS
    <2> QED BY <2>1
  <1>2. ASSUME NEW n \in 0 .. len - 1, n \in Good
        PROVE  n + 1 \in Good
    <2>1. PICK t : Is(t, n)
      BY <1>2
    <2> DEFINE h == [i \in 0 .. n + 1 |-> IF i = n + 1 THEN Step(t, n + 1) ELSE t[i]]
    <2>2. \A i \in 0 .. n + 1 : h[i] = Step(h, i)
      <3> SUFFICES ASSUME NEW i \in 0 .. n + 1 PROVE h[i] = Step(h, i)
        OBVIOUS
      <3>1. i - 1 \in 0 .. n => h[i - 1] = t[i - 1]
        OBVIOUS
      <3>2. CASE i = n + 1
        BY <3>1, <3>2
      <3>3. CASE i \in 0 .. n
        <4>1. t[i] = Step(t, i)
          BY <2>1, <3>3
        <4>2. h[i] = t[i]
          BY <3>3
        <4> QED BY <3>1, <3>3, <4>1, <4>2
      <3> QED BY <3>2, <3>3
    <2>3. Is(h, n + 1)
      BY <2>2
    <2>4. \E g : Is(g, n + 1)
      BY <2>3
    <2> HIDE DEF Is
    <2> QED BY <2>4
  <1> HIDE DEF Good
  <1>3. len \in Good
    <2>1. \A i \in 0 .. len - 1 : i \in Good => i + 1 \in Good
      BY <1>2
    <2>2. \A i \in 0 .. len : i \in Good
      BY <1>1, <2>1, UpTo
    <2> QED BY <2>2
  <1> USE DEF Good
  <1>4. PICK t : Is(t, len)
    BY <1>3
  <1> DEFINE after == Handling(q, es)
  <1>5. Is(after, len)
    BY <1>4 DEF Handling
  <1>6. \A i \in 0 .. len : after[i] = Step(after, i)
    BY <1>5
  <1> QED BY <1>6

(* One event, which takes playback from place t to place u.                *)
Advances(event, t, u) ==
  /\ u <= Count
  /\ \/ u = t + 1 /\ \E p : IsPlace(p, t) /\ event = PacketEvent(p)
     \/ event.type = "Dropped" /\ event.count \in Nat \ {0} /\ u = t + event.count

LEMMA HandleKeeps ==
  ASSUME OneStream, BusTypes, NEW pl, Plays(pl), NEW t \in Nat, NEW u \in Nat, NEW event,
         Advances(event, t, u), Paced(QueueOf(pl), ClockOf(pl, t), pl.altered)
  PROVE  LET new == Handle(pl, event)
         IN  /\ Plays(new) /\ Paced(QueueOf(new), ClockOf(new, u), new.altered)
             /\ Len(QueueOf(new)) <= Len(QueueOf(pl)) + (u - t) * Longest
  <1> DEFINE new == Handle(pl, event)
  <1>1. CASE u = t + 1 /\ \E p : IsPlace(p, t) /\ event = PacketEvent(p)
    <2>1. PICK p : IsPlace(p, t) /\ event = PacketEvent(p)
      BY <1>1
    <2>2. new = Played(p, pl)
      BY <2>1 DEF Handle, PacketEvent
    <2>3. t \in 0 .. Count - 1
      BY <1>1, TheFacts DEF Advances
    <2>4. (u - t) * Longest = Longest
      <3>1. u - t = 1
        BY <1>1
      <3> QED BY <3>1, RateFacts
    <2> HIDE DEF new
    <2> QED BY <1>1, <2>1, <2>2, <2>3, <2>4, PlayedKeeps DEF new
  <1>2. CASE event.type = "Dropped" /\ event.count \in Nat \ {0} /\ u = t + event.count
    <2>1. PICK c \in Nat \ {0} : c = event.count
      BY <1>2
    <2>2. new = Concealed(c, pl)
      BY <1>2, <2>1 DEF Handle
    <2>3. t + c <= Count /\ u = t + c /\ u - t = c
      BY <1>2, <2>1 DEF Advances
    <2> HIDE DEF new
    <2> QED BY <2>2, <2>3, ConcealedKeeps DEF new
  <1> QED BY <1>1, <1>2 DEF Advances

(* The events of a call, which take playback along the clock c.            *)
LEMMA HandleAllKeeps ==
  ASSUME OneStream, BusTypes, NEW pl, Plays(pl), NEW es, NEW n \in Nat, Len(es) = n,
         NEW c \in [0 .. n -> Nat], \A i \in 1 .. n : Advances(es[i], c[i - 1], c[i]),
         Paced(QueueOf(pl), ClockOf(pl, c[0]), pl.altered)
  PROVE  LET new == HandleAll(pl, es)
         IN  /\ Plays(new) /\ Paced(QueueOf(new), ClockOf(new, c[n]), new.altered)
             /\ Len(QueueOf(new)) <= Len(QueueOf(pl)) + (c[n] - c[0]) * Longest
  <1> DEFINE after == Handling(pl, es)
             SoFar(i) == /\ Plays(after[i])
                         /\ Paced(QueueOf(after[i]), ClockOf(after[i], c[i]), after[i].altered)
                         /\ Len(QueueOf(after[i])) <= Len(QueueOf(pl)) + (c[i] - c[0]) * Longest
             Good == {i \in 0 .. n : SoFar(i)}
  <1>1. after[0] = pl /\ \A i \in 1 .. n : after[i] = Handle(after[i - 1], es[i])
    <2>1. Len(es) \in Nat
      OBVIOUS
    <2>2. after[0] = pl /\ \A i \in 1 .. Len(es) : after[i] = Handle(after[i - 1], es[i])
      BY ONLY <2>1, HandlingFacts
    <2> QED BY <2>2
  <1>2. Len(QueueOf(pl)) \in Nat
    BY LenProperties DEF Plays
  <1> HIDE DEF after
  <1>3. 0 \in Good
    <2>1. (c[0] - c[0]) * Longest = 0
      <3>1. c[0] - c[0] = 0
        OBVIOUS
      <3> QED BY <3>1, RateFacts
    <2> QED BY <1>1, <1>2, <2>1
  <1>4. ASSUME NEW i \in 0 .. n - 1, i \in Good
        PROVE  i + 1 \in Good
    <2>1. /\ i + 1 \in 1 .. n /\ i \in 0 .. n /\ (i + 1) - 1 = i
          /\ c[i] \in Nat /\ c[i + 1] \in Nat /\ c[0] \in Nat
      BY <1>4
    <2>2. PICK t \in Nat : t = c[i]
      BY <2>1
    <2>3. PICK u \in Nat : u = c[i + 1]
      BY <2>1
    <2>4. SoFar(i)
      BY <1>4
    <2> DEFINE old == after[i]
               new == after[i + 1]
    <2>5. new = Handle(old, es[i + 1]) /\ Advances(es[i + 1], t, u)
      BY <1>1, <2>1, <2>2, <2>3
    <2>6. /\ Plays(old) /\ Paced(QueueOf(old), ClockOf(old, t), old.altered)
          /\ Len(QueueOf(old)) <= Len(QueueOf(pl)) + (t - c[0]) * Longest
      BY <2>2, <2>4
    <2> HIDE DEF old, new
    <2>7. /\ Plays(new) /\ Paced(QueueOf(new), ClockOf(new, u), new.altered)
          /\ Len(QueueOf(new)) <= Len(QueueOf(old)) + (u - t) * Longest
      <3>1. t \in Nat /\ u \in Nat /\ OneStream /\ BusTypes
        OBVIOUS
      <3> QED BY ONLY <3>1, <2>5, <2>6, HandleKeeps
    <2>8. Len(QueueOf(new)) \in Nat /\ Len(QueueOf(old)) \in Nat
      BY <2>6, <2>7, LenProperties DEF Plays
    <2>9. Len(QueueOf(new)) <= Len(QueueOf(pl)) + (u - c[0]) * Longest
      <3>1. PICK x \in Nat : x = c[0]
        BY <2>1
      <3>2. PICK n0 \in Nat : n0 = Len(QueueOf(pl))
        BY <1>2
      <3>3. PICK n1 \in Nat : n1 = Len(QueueOf(old))
        BY <2>8
      <3>4. PICK n2 \in Nat : n2 = Len(QueueOf(new))
        BY <2>8
      <3>5. PICK l \in Nat : l = Longest
        BY RateFacts
      <3>6. PICK y1 \in Int, y2 \in Int : y1 = (t - x) * l /\ y2 = (u - t) * l
        BY <3>1, <3>5
      <3>7. n1 <= n0 + y1 /\ n2 <= n1 + y2
        BY <2>6, <2>7, <3>1, <3>2, <3>3, <3>4, <3>5, <3>6
      <3>8. (u - x) * l = y1 + y2
        BY <3>1, <3>5, <3>6
      <3>9. n2 <= n0 + (y1 + y2)
        BY <3>7
      <3> QED BY <3>1, <3>2, <3>4, <3>5, <3>8, <3>9
    <2> QED BY <2>1, <2>3, <2>7, <2>9 DEF new
  <1> HIDE DEF Good
  <1>5. \A i \in 0 .. n : i \in Good
    BY <1>3, <1>4, UpTo
  <1>6. n \in Good
    BY <1>5
  <1> USE DEF Good
  <1>7. SoFar(n)
    BY <1>6
  <1> QED BY <1>7 DEF HandleAll, after

-----------------------------------------------------------------------------
(* The drain loop: all that follow the packet of place i without a gap     *)
(* leave, and what stays lies behind the new place.                        *)
LEMMA DrainPlaces ==
  ASSUME OneStream, BusTypes, NEW i \in 0 .. Count - 1, NEW b, AheadOf(b, i)
  PROVE  LET front == Advance(NumberAt(i), 1)
             n == RunLength(b, front)
             rest == Without(b, Run(b, front))
         IN  /\ n \in Nat /\ i + 1 + n <= Count
             /\ Advance(front, n) = NumberAt(i + 1 + n)
             /\ \A j \in 1 .. n : IsPlace(b[Advance(front, j - 1)], i + j)
             /\ AheadOf(rest, i + 1 + n)
             /\ DOMAIN rest \subseteq DOMAIN b /\ \A k \in DOMAIN rest : rest[k] = b[k]
             /\ n > 0 => \E k \in DOMAIN b : IsPlace(b[k], i + n)
  <1> DEFINE front == Advance(NumberAt(i), 1)
             n == RunLength(b, front)
             rest == Without(b, Run(b, front))
  <1>1. /\ Count \in 0 .. MaxPublished /\ start[TheStream] \in SeqNums /\ i \in Nat
        /\ MaxPublished + Capacity < SeqSpace /\ Capacity \in Nat /\ Capacity > 0
        /\ MaxPublished \in Nat /\ SeqSpace \in Nat
    BY TheFacts, Sizes
  <1>2. \A j \in 0 .. Capacity : Advance(front, j) = NumberAt(i + 1 + j)
    <2> TAKE j \in 0 .. Capacity
    <2> DEFINE a == start[TheStream]
    <2>1. Advance(Advance(a, i), 1) = Advance(a, i + 1)
      BY <1>1, AdvanceTwice
    <2>2. Advance(Advance(a, i + 1), j) = Advance(a, i + 1 + j)
      <3>1. i + 1 \in Nat /\ j \in Nat /\ (i + 1) + j < SeqSpace
        BY <1>1
      <3> QED BY <1>1, <3>1, AdvanceTwice
    <2> QED BY <2>1, <2>2 DEF NumberAt
  <1>3. ASSUME NEW x \in 0 .. MaxPublished + Capacity, NumberAt(x) \in DOMAIN b
        PROVE  x \in i + 1 .. i + Capacity /\ x < Count /\ IsPlace(b[NumberAt(x)], x)
    <2>1. PICK y \in i + 1 .. i + Capacity :
                 y < Count /\ NumberAt(x) = NumberAt(y) /\ IsPlace(b[NumberAt(x)], y)
      BY <1>3 DEF AheadOf
    <2>2. y \in 0 .. MaxPublished + Capacity
      BY <1>1, <2>1
    <2>3. x = y
      BY <2>1, <2>2, NumbersApart
    <2> QED BY <2>1, <2>3
  <1>4. NumberAt(i + 1 + Capacity) \notin DOMAIN b
    <2>1. i + 1 + Capacity \in 0 .. MaxPublished + Capacity
      BY <1>1
    <2>2. i + 1 + Capacity \notin i + 1 .. i + Capacity
      BY <1>1
    <2> QED BY <1>3, <2>1, <2>2
  <1>5. /\ n \in 0 .. SeqSpace - 1 /\ Advance(front, n) \notin DOMAIN b
        /\ \A j \in 0 .. n - 1 : Advance(front, j) \in DOMAIN b
    <2>1. Capacity \in 0 .. SeqSpace - 1 /\ Advance(front, Capacity) \notin DOMAIN b
      BY <1>1, <1>2, <1>4
    <2> QED BY <2>1, RunLengthFacts
  <1>6. n \in Nat /\ n <= Capacity
    <2>1. n \in Nat
      BY <1>1, <1>5
    <2>2. ~ (Capacity \in 0 .. n - 1)
      BY <1>1, <1>2, <1>4, <1>5
    <2> QED BY <1>1, <2>1, <2>2
  <1>7. Advance(front, n) = NumberAt(i + 1 + n)
    BY <1>1, <1>2, <1>6
  <1>8. \A j \in 1 .. n : /\ Advance(front, j - 1) \in DOMAIN b
                          /\ IsPlace(b[Advance(front, j - 1)], i + j) /\ i + j < Count
    <2> TAKE j \in 1 .. n
    <2>1. j - 1 \in 0 .. n - 1 /\ j - 1 \in 0 .. Capacity /\ i + 1 + (j - 1) = i + j
          /\ i + j \in 0 .. MaxPublished + Capacity
      BY <1>1, <1>6
    <2>2. Advance(front, j - 1) = NumberAt(i + j) /\ Advance(front, j - 1) \in DOMAIN b
      BY <1>2, <1>5, <2>1
    <2> QED BY <1>3, <2>1, <2>2
  <1>9. i + 1 + n <= Count /\ (n > 0 => \E k \in DOMAIN b : IsPlace(b[k], i + n))
    <2>1. CASE n = 0
      BY <1>1, <2>1
    <2>2. CASE n # 0
      <3>1. n \in 1 .. n /\ n > 0
        BY <1>6, <2>2
      <3> QED BY <1>1, <1>8, <3>1
    <2> QED BY <2>1, <2>2
  <1>10. AheadOf(rest, i + 1 + n)
    <2> DEFINE e == i + 1 + n
    <2> SUFFICES ASSUME NEW k \in DOMAIN b, k \notin Run(b, front)
                 PROVE  \E x \in e + 1 .. e + Capacity : x < Count /\ k = NumberAt(x) /\ IsPlace(b[k], x)
      BY DEF AheadOf, Without
    <2>1. PICK x \in i + 1 .. i + Capacity : x < Count /\ k = NumberAt(x) /\ IsPlace(b[k], x)
      BY DEF AheadOf
    <2>2. x - (i + 1) \in 0 .. Capacity /\ i + 1 + (x - (i + 1)) = x
      BY <1>1
    <2>3. k = Advance(front, x - (i + 1))
      BY <1>2, <2>1, <2>2
    <2>4. ~ (x - (i + 1) \in 0 .. n - 1)
      BY <2>3 DEF Run
    <2>5. x - (i + 1) # n
      BY <1>5, <2>3
    <2>6. x \in e + 1 .. e + Capacity
      BY <1>1, <1>6, <2>2, <2>4, <2>5
    <2> QED BY <2>1, <2>6
  <1>11. DOMAIN rest \subseteq DOMAIN b /\ \A k \in DOMAIN rest : rest[k] = b[k]
    BY DEF Without
  <1> QED BY <1>6, <1>7, <1>8, <1>9, <1>10, <1>11

(* A delivery of the packet of place i: where it leaves the window, and    *)
(* what it adds to the queue that led to place t.                          *)
LEMMA Delivered ==
  ASSUME OneStream, BusTypes, NEW t \in Nat, NEW i \in t .. Count - 1, NEW p, IsPlace(p, i),
         NEW b, AheadOf(b, i), Paced(Queue, ClockOf(player, t), player.altered),
         DeliverAndDrain(p, b, IF i > t THEN <<DroppedEvent(i - t)>> ELSE << >>)
  PROVE  \E e \in i + 1 .. Count :
           /\ nextExpected' = NumberAt(e) /\ AheadOf(buffer', e)
           /\ DOMAIN buffer' \subseteq DOMAIN b /\ \A k \in DOMAIN buffer' : buffer'[k] = b[k]
           /\ e - 1 = i \/ \E k \in DOMAIN b : IsPlace(b[k], e - 1)
           /\ LET new == HandleAll(player, events')
              IN  /\ Plays(new) /\ Paced(QueueOf(new), ClockOf(new, e), new.altered)
                  /\ Len(QueueOf(new)) <= Len(Queue) + (e - t) * Longest
  <1> DEFINE front == Advance(NumberAt(i), 1)
             n == RunLength(b, front)
             rest == Without(b, Run(b, front))
             reported == IF i > t THEN <<DroppedEvent(i - t)>> ELSE << >>
             l == IF i > t THEN 1 ELSE 0
             run == [j \in 1 .. n |-> PacketEvent(b[Advance(front, j - 1)])]
             head == reported \o <<PacketEvent(p)>>
             e == i + 1 + n
  <1>1. i \in 0 .. Count - 1 /\ i \in Nat /\ Count \in Nat /\ i >= t
    BY TheFacts
  <1>2. /\ n \in Nat /\ e <= Count /\ Advance(front, n) = NumberAt(e)
        /\ \A j \in 1 .. n : IsPlace(b[Advance(front, j - 1)], i + j)
        /\ AheadOf(rest, e)
        /\ DOMAIN rest \subseteq DOMAIN b /\ \A k \in DOMAIN rest : rest[k] = b[k]
        /\ n > 0 => \E k \in DOMAIN b : IsPlace(b[k], i + n)
    BY <1>1, DrainPlaces
  <1>3. nextExpected' = NumberAt(e) /\ buffer' = rest /\ events' = head \o run
    BY <1>2 DEF DeliverAndDrain, IsPlace
  <1>4. l \in {0, 1} /\ (l = 1 => i > t) /\ (l = 0 => i = t)
    BY <1>1
  <1> DEFINE Any == {PacketEvent(p), DroppedEvent(i - t)}
                    \cup {PacketEvent(b[Advance(front, j - 1)]) : j \in 1 .. n}
  <1>5. /\ reported \in Seq(Any) /\ Len(reported) = l
        /\ l = 1 => reported[1] = DroppedEvent(i - t)
    <2>1. CASE i > t
      <3> DEFINE loss == DroppedEvent(i - t)
      <3>1. reported = <<loss>> /\ l = 1 /\ loss \in Any
        BY <2>1
      <3> HIDE DEF loss, reported, Any, l
      <3>2. <<loss>> \in Seq(Any) /\ Len(<<loss>>) = 1 /\ <<loss>>[1] = loss
        BY <3>1
      <3> QED BY <3>1, <3>2 DEF loss
    <2>2. CASE ~ (i > t)
      BY <2>2
    <2> QED BY <2>1, <2>2
  <1>6. /\ head \in Seq(Any) /\ Len(head) = l + 1
        /\ \A x \in 1 .. l : head[x] = reported[x]
        /\ head[l + 1] = PacketEvent(p)
    <2>1. PacketEvent(p) \in Any
      BY <1>1
    <2>2. Append(reported, PacketEvent(p)) = head
      <3> HIDE DEF reported, Any
      <3> QED BY <1>5, <2>1, AppendIsConcat
    <2> HIDE DEF reported, Any, head
    <2> QED BY <1>4, <1>5, <2>1, <2>2, AppendProperties
  <1>7. run \in Seq(Any) /\ Len(run) = n /\ \A j \in 1 .. n : \E q : IsPlace(q, i + j) /\ run[j] = PacketEvent(q)
    <2>1. \A j \in 1 .. n : \E q : IsPlace(q, i + j) /\ run[j] = PacketEvent(q)
      BY <1>2
    <2>2. run \in [1 .. n -> Any]
      BY <2>1
    <2> HIDE DEF run, Any
    <2> QED BY <1>2, <2>1, <2>2, RunIsSeq
  <1> DEFINE len == l + 1 + n
  <1>8. /\ Len(events') = len
        /\ \A x \in 1 .. len : events'[x] = IF x <= l + 1 THEN head[x] ELSE run[x - (l + 1)]
    <2> HIDE DEF head, run, Any, l
    <2>1. /\ Len(head \o run) = Len(head) + Len(run)
          /\ \A x \in 1 .. Len(head) + Len(run) :
               (head \o run)[x] = IF x <= Len(head) THEN head[x] ELSE run[x - Len(head)]
      BY <1>6, <1>7, ConcatProperties
    <2> QED BY <1>3, <1>6, <1>7, <2>1
  <1> HIDE DEF head, run, reported, Any, front, n, rest
  <1> DEFINE c == [x \in 0 .. len |-> IF x < l THEN t ELSE i + (x - l)]
  <1>9. c \in [0 .. len -> Nat] /\ c[0] = t /\ c[len] = e /\ len \in Nat
    BY <1>1, <1>2, <1>4
  <1>10. \A x \in 1 .. len : Advances(events'[x], c[x - 1], c[x])
    <2> TAKE x \in 1 .. len
    <2>1. x \in Nat /\ x - 1 \in 0 .. len /\ x \in 0 .. len /\ l \in Nat
      BY <1>2, <1>4
    <2>2. CASE x <= l
      <3>1. x = 1 /\ l = 1
        BY <1>4, <2>1, <2>2
      <3>2. c[x - 1] = t /\ c[x] = i
        BY <1>1, <2>1, <3>1
      <3>3. events'[x] = DroppedEvent(i - t)
        BY <1>5, <1>6, <1>8, <3>1
      <3>4. i = t + (i - t) /\ i - t \in Nat \ {0} /\ i <= Count
        BY <1>1, <1>4, <3>1
      <3>5. events'[x].type = "Dropped" /\ events'[x].count = i - t
        BY <3>3 DEF DroppedEvent
      <3>6. c[x] = c[x - 1] + events'[x].count
        BY <3>2, <3>4, <3>5
      <3> QED BY <3>2, <3>4, <3>5, <3>6 DEF Advances
    <2>3. CASE x > l
      <3> DEFINE j == i + (x - 1 - l)
      <3>1. c[x] = j + 1
        <4>1. c[x] = i + (x - l)
          BY <2>1, <2>3
        <4> QED BY <1>1, <2>1, <4>1
      <3>2. c[x - 1] = j
        <4>1. ~ (x - 1 < l)
          BY <2>1, <2>3
        <4> QED BY <2>1, <4>1
      <3>3. \E q : IsPlace(q, j) /\ events'[x] = PacketEvent(q)
        <4>1. CASE x = l + 1
          <5>1. events'[x] = head[l + 1] /\ j = i
            BY <1>1, <1>8, <2>1, <4>1
          <5> QED BY <1>6, <5>1
        <4>2. CASE x > l + 1
          <5>1. x - (l + 1) \in 1 .. n /\ i + (x - (l + 1)) = j
            BY <1>1, <1>2, <2>1, <4>2
          <5>2. events'[x] = run[x - (l + 1)]
            BY <1>8, <2>1, <4>2
          <5>3. \E q : IsPlace(q, i + (x - (l + 1))) /\ run[x - (l + 1)] = PacketEvent(q)
            BY <1>7, <5>1
          <5> QED BY <5>1, <5>2, <5>3
        <4> QED BY <2>1, <2>3, <4>1, <4>2
      <3>4. j + 1 <= Count
        BY <1>1, <1>2, <2>1, <2>3
      <3> HIDE DEF c, j
      <3> QED BY <3>1, <3>2, <3>3, <3>4 DEF Advances
    <2> QED BY <2>1, <2>2, <2>3
  <1> HIDE DEF c, len
  <1>11. LET new == HandleAll(player, events')
         IN  /\ Plays(new) /\ Paced(QueueOf(new), ClockOf(new, c[len]), new.altered)
             /\ Len(QueueOf(new)) <= Len(Queue) + (c[len] - c[0]) * Longest
    <2>1. /\ Plays(player) /\ Paced(QueueOf(player), ClockOf(player, c[0]), player.altered)
          /\ Queue = QueueOf(player)
      BY <1>9 DEF BusTypes, Queue
    <2> QED BY <1>8, <1>9, <1>10, <2>1, HandleAllKeeps
  <1>12. e \in i + 1 .. Count
    BY <1>1, <1>2
  <1>13. e - 1 = i \/ \E k \in DOMAIN b : IsPlace(b[k], e - 1)
    <2>1. e - 1 = i + n
      BY <1>1, <1>2
    <2>2. n = 0 \/ n > 0
      BY <1>2
    <2>3. n = 0 => e - 1 = i
      BY <1>1, <2>1
    <2> QED BY <1>2, <2>1, <2>2, <2>3
  <1>14. e - t = c[len] - c[0]
    BY <1>9
  <1> HIDE DEF e
  <1> QED BY <1>2, <1>3, <1>9, <1>11, <1>12, <1>13, <1>14

-----------------------------------------------------------------------------
(* Before the window is called: packets are queued as they come.           *)

LEMMA SumOfOne ==
  ASSUME NEW x, NEW f, DOMAIN f = {x}, f[x] \in Nat
  PROVE  SumFunction(f) = f[x]
  <1> DEFINE term(s, u) == IF u = {} THEN 0
                           ELSE LET y == CHOOSE z \in u : TRUE IN f[y] + s[u \ {y}]
             iter[u \in SUBSET {x}] ==
               IF u = {} THEN 0 ELSE LET y == CHOOSE z \in u : TRUE IN f[y] + iter[u \ {y}]
             Is(g) == g = [u \in SUBSET {x} |-> term(g, u)]
             sum == [u \in SUBSET {x} |-> IF u = {} THEN 0 ELSE f[x]]
  <1>1. SumFunction(f) = iter[{x}]
    BY DEF SumFunction, SumFunctionOnSet, FoldFunctionOnSet, MapThenFoldSet
  <1>2. \A u \in SUBSET {x} : sum[u] = term(sum, u)
    <2> SUFFICES ASSUME NEW u \in SUBSET {x} PROVE sum[u] = term(sum, u)
      OBVIOUS
    <2>1. u = {} \/ u = {x}
      OBVIOUS
    <2>2. CASE u = {}
      BY <2>2
    <2>3. CASE u = {x}
      <3>1. (CHOOSE z \in u : TRUE) = x /\ u \ {x} = {} /\ u # {}
        BY <2>3
      <3>2. sum[u] = f[x] /\ sum[{}] = 0
        BY <2>3
      <3>3. term(sum, u) = f[x] + sum[u \ {x}]
        BY <3>1
      <3> QED BY <3>1, <3>2, <3>3
    <2> QED BY <2>1, <2>2, <2>3
  <1>3. Is(sum)
    BY <1>2
  <1>4. Is(iter)
    <2>1. iter = CHOOSE g : Is(g)
      OBVIOUS
    <2> HIDE DEF Is, iter, sum
    <2> QED BY <1>3, <2>1
  <1>5. iter[{x}] = f[x] + iter[{}]
    <2>1. iter[{x}] = term(iter, {x})
      BY <1>4
    <2>2. (CHOOSE z \in {x} : TRUE) = x /\ {x} \ {x} = {} /\ {x} # {}
      OBVIOUS
    <2> HIDE DEF iter
    <2> QED BY <2>1, <2>2
  <1>6. iter[{}] = 0
    <2> HIDE DEF iter
    <2> QED BY <1>4
  <1> HIDE DEF iter
  <1> QED BY <1>1, <1>5, <1>6

LEMMA BusInitInv == BusInit => BusIInv
  <1> SUFFICES ASSUME BusInit, OneStream PROVE BusSound
    BY DEF BusIInv
  <1>1. /\ Streams = {TheStream} /\ FirstNumbers \subseteq SeqNums /\ Rates \subseteq Nat \ {0}
        /\ player = [queues |-> << >>, offset |-> [s \in Streams |-> 0], last |-> 0, altered |-> 0]
    BY BusAssumption DEF OneStream, BusInit
  <1>2. << >> \in Seq(Units) /\ Len(<< >>) = 0 /\ << >> \in Seq(Nat) /\ DOMAIN << >> = {}
    OBVIOUS
  <1>3. Queue = << >>
    BY <1>1, <1>2 DEF Queue, QueueOf, QueueIn
  <1>4. /\ headless \in BOOLEAN /\ inputRate \in Nat \ {0} /\ deviceRate \in Nat \ {0}
        /\ OutputRate \in Nat \ {0}
    BY <1>1 DEF BusInit, OutputRate
  <1>5. Plays(player)
    <2>1. player.offset \in [Streams -> Int] /\ player.offset[TheStream] = 0
      BY <1>1
    <2>2. Carried(0)
      BY <1>4 DEF Carried
    <2>3. DOMAIN player.queues \subseteq Streams /\ QueueOf(player) \in Seq(Units)
      BY <1>1, <1>2, <1>3 DEF Queue
    <2>4. /\ player = [queues |-> player.queues, offset |-> player.offset,
                       last |-> player.last, altered |-> player.altered]
          /\ player.last \in {0} \cup FrameCounts /\ player.altered \in Nat
      BY <1>1
    <2> QED BY <2>1, <2>2, <2>3, <2>4 DEF Plays
  <1>6. /\ start \in [Streams -> SeqNums] /\ published \in [Streams -> Seq(Nat)] /\ Count = 0
    <2>1. published = [s \in Streams |-> << >>] /\ start \in [Streams -> FirstNumbers]
      BY DEF BusInit
    <2> QED BY <1>1, <1>2, <2>1 DEF Count
  <1>7. Lasting
    <2>1. 0 * MinFrames = 0 /\ 0 * MaxFrames = 0 /\ At(0) = 0 /\ 0 \in 0 .. 0
      BY Sizes DEF At, StartOf
    <2> SUFFICES ASSUME NEW i \in 0 .. 0, NEW j \in 0 .. 0
                 PROVE  At(j) - At(i) \in (j - i) * MinFrames .. (j - i) * MaxFrames
      BY <1>6 DEF Lasting
    <2>2. i = 0 /\ j = 0 /\ j - i = 0
      OBVIOUS
    <2> QED BY <2>1, <2>2
  <1>8. BusTypes
    BY <1>4, <1>5, <1>6, <1>7, Sizes DEF BusTypes, BusInit
  <1>9. nextExpected = NoSeq /\ Held = {} /\ recorded = {}
    BY DEF BusInit, WindowInit, Held
  <1>10. Len(Queue) <= MaxQueue + Longest
    BY <1>2, <1>3, <1>8, RateFacts, Sizes
  <1> QED BY <1>2, <1>3, <1>8, <1>9, <1>10 DEF BusSound

(* The setting never changes, nor what is said of queues and times by it.  *)
LEMMA SameRates ==
  ASSUME UNCHANGED setting
  PROVE  /\ OutputRate' = OutputRate /\ Slack' = Slack /\ Longest' = Longest
         /\ \A units, clock, altered : Paced(units, clock, altered)' <=> Paced(units, clock, altered)
         /\ \A pl : Plays(pl)' <=> Plays(pl)
  <1>1. UNCHANGED <<headless, inputRate, deviceRate, start>>
    BY DEF setting
  <1>2. OutputRate' = OutputRate /\ Slack' = Slack /\ Longest' = Longest
    BY <1>1 DEF OutputRate, Slack, Longest
  <1>3. \A t1, a1, t2, a2, n : Leads(t1, a1, t2, a2, n)' <=> Leads(t1, a1, t2, a2, n)
    BY <1>1, <1>2 DEF Leads
  <1>4. \A units, clock, altered : Paced(units, clock, altered)' <=> Paced(units, clock, altered)
    BY <1>3 DEF Paced
  <1>5. \A o : Carried(o)' <=> Carried(o)
    BY <1>1, <1>2 DEF Carried
  <1>6. \A pl : Plays(pl)' <=> Plays(pl)
    BY <1>5 DEF Plays, QueueOf, QueueIn
  <1> QED BY <1>2, <1>4, <1>6

(* What there is of the stream, while it does not grow.                    *)
LEMMA SamePlaces ==
  ASSUME UNCHANGED <<setting, published>>
  PROVE  /\ Count' = Count /\ Lasting' = Lasting
         /\ \A i : Place(i)' = Place(i) /\ NumberAt(i)' = NumberAt(i) /\ At(i)' = At(i)
         /\ \A p, i : IsPlace(p, i)' <=> IsPlace(p, i)
         /\ \A b, t : AheadOf(b, t)' <=> AheadOf(b, t)
         /\ \A pl, t : ClockOf(pl, t)' = ClockOf(pl, t)
  <1>1. UNCHANGED <<start, published>> /\ OutputRate' = OutputRate
    BY SameRates DEF setting
  <1>2. /\ Count' = Count
        /\ \A i : Place(i)' = Place(i) /\ NumberAt(i)' = NumberAt(i) /\ At(i)' = At(i)
    BY <1>1 DEF Count, Place, NumberAt, PacketOf, At, StartOf
  <1>3. Lasting' = Lasting
    BY <1>2 DEF Lasting
  <1>4. \A p, i : IsPlace(p, i)' <=> IsPlace(p, i)
    BY <1>2 DEF IsPlace
  <1>5. \A b, t : AheadOf(b, t)' <=> AheadOf(b, t)
    BY <1>2, <1>4 DEF AheadOf
  <1>6. \A pl, t : ClockOf(pl, t)' = ClockOf(pl, t)
    BY <1>1, <1>2 DEF ClockOf
  <1> QED BY <1>2, <1>3, <1>4, <1>5, <1>6

LEMMA PublishNextInv ==
  ASSUME OneStream, BusSound, NEW s \in Streams, PublishNext(s)
  PROVE  BusSound'
  <1>1. BusTypes /\ s = TheStream
    BY TheFacts DEF BusSound
  <1>2. PICK n \in Nat : n = Count /\ Len(published[TheStream]) = n
    BY <1>1, TheFacts DEF Count
  <1>3. PICK frames \in FrameCounts :
          published' = [published EXCEPT ![TheStream] = Append(@, At(n) + frames)]
    BY <1>1, <1>2 DEF PublishNext, FrameCounts, At
  <1>4. /\ n < MaxPublished /\ n + 1 <= MaxPublished /\ frames \in Nat
        /\ MinFrames <= frames /\ frames <= MaxFrames
        /\ TheStream \in Streams /\ \A i \in 0 .. n : At(i) \in Nat
    BY <1>1, <1>2, TheFacts, Sizes DEF PublishNext, FrameCounts
  <1>5. /\ UNCHANGED <<nextExpected, buffer, phase, recorded, player, setting>>
        /\ UNCHANGED <<start, headless, inputRate, deviceRate>>
    BY DEF PublishNext, windowVars, setting
  <1>6. /\ published' \in [Streams -> Seq(Nat)] /\ Count' = n + 1
        /\ \A i \in 0 .. n : At(i)' = At(i)
        /\ At(n + 1)' = At(n) + frames
    <2>1. /\ published \in [Streams -> Seq(Nat)] /\ published[TheStream] \in Seq(Nat)
          /\ At(n) + frames \in Nat
      BY <1>1, <1>4 DEF BusTypes
    <2>2. published'[TheStream] = Append(published[TheStream], At(n) + frames)
      BY <1>3, <1>4, <2>1
    <2>3. /\ published'[TheStream] \in Seq(Nat) /\ Len(published'[TheStream]) = n + 1
          /\ \A i \in 1 .. n : published'[TheStream][i] = published[TheStream][i]
          /\ published'[TheStream][n + 1] = At(n) + frames
      BY <1>2, <2>1, <2>2, AppendProperties
    <2>4. published' \in [Streams -> Seq(Nat)]
      BY <1>3, <2>1, <2>2, <2>3
    <2>5. ASSUME NEW i \in 0 .. n PROVE At(i)' = At(i)
      BY <2>3 DEF At, StartOf
    <2>6. At(n + 1)' = At(n) + frames
      BY <2>3 DEF At, StartOf
    <2> QED BY <2>3, <2>4, <2>5, <2>6 DEF Count
  <1>7. \A i : NumberAt(i)' = NumberAt(i)
    BY <1>5 DEF NumberAt
  <1>8. Lasting'
    <2> SUFFICES ASSUME NEW i \in 0 .. n + 1, NEW j \in 0 .. n + 1, i <= j
                 PROVE  At(j)' - At(i)' \in (j - i) * MinFrames .. (j - i) * MaxFrames
      BY <1>6 DEF Lasting
    <2>1. CASE j <= n
      <3>1. i \in 0 .. n /\ j \in 0 .. n
        BY <2>1
      <3>2. At(j)' = At(j) /\ At(i)' = At(i)
        BY <1>6, <3>1
      <3> QED BY <1>1, <1>2, <3>1, <3>2 DEF BusTypes, Lasting
    <2>2. CASE i = n + 1
      <3>1. j = i /\ j - i = 0
        BY <2>2
      <3>2. At(j)' - At(i)' = 0 /\ 0 * MinFrames = 0 /\ 0 * MaxFrames = 0
        BY <1>4, <1>6, <2>2, <3>1, Sizes
      <3> QED BY <3>1, <3>2
    <2>3. CASE i <= n /\ j = n + 1
      <3>1. i \in 0 .. n /\ n \in 0 .. n /\ i <= n /\ n - i \in Nat
        BY <2>3
      <3>2. At(n) - At(i) \in (n - i) * MinFrames .. (n - i) * MaxFrames
        BY <1>1, <1>2, <3>1 DEF BusTypes, Lasting
      <3>3. At(j)' - At(i)' = (At(n) - At(i)) + frames
        BY <1>4, <1>6, <2>3, <3>1
      <3>4. PICK k \in Nat : k = n - i /\ j - i = k + 1
        BY <2>3, <3>1
      <3>5. PICK x \in Nat, y \in Nat : x = k * MinFrames /\ y = k * MaxFrames
        BY Sizes
      <3>6. (k + 1) * MinFrames = x + MinFrames /\ (k + 1) * MaxFrames = y + MaxFrames
        BY <3>5, Sizes
      <3>7. At(n) - At(i) \in x .. y
        BY <3>2, <3>4, <3>5
      <3>8. (At(n) - At(i)) + frames \in x + MinFrames .. y + MaxFrames
        BY <1>4, <3>7, Sizes
      <3> QED BY <3>3, <3>4, <3>6, <3>8
    <2> QED BY <2>1, <2>2, <2>3
  <1>9. /\ \A p : \A i \in 0 .. n - 1 : IsPlace(p, i) => IsPlace(p, i)'
        /\ \A i \in 0 .. n - 1 : Place(i)' = Place(i)
    <2>1. \A i \in 0 .. n - 1 : i \in 0 .. n /\ i + 1 \in 0 .. n
      OBVIOUS
    <2>2. \A p : \A i \in 0 .. n - 1 : IsPlace(p, i) => IsPlace(p, i)'
      BY <1>6, <1>7, <2>1 DEF IsPlace
    <2>3. ASSUME NEW i \in 0 .. n - 1 PROVE Place(i)' = Place(i)
      <3>1. At(i)' = At(i) /\ At(i + 1)' = At(i + 1) /\ NumberAt(i)' = NumberAt(i)
        BY <1>6, <1>7, <2>1
      <3> QED BY <3>1 DEF Place, PacketOf, At, NumberAt
    <2> QED BY <2>2, <2>3
  <1>10. Queue' = Queue /\ Held' = Held /\ ToPlay' = ToPlay
    BY <1>5 DEF Queue, QueueOf, QueueIn, Held, ToPlay
  <1>11. BusTypes'
    <2>1. recorded' \subseteq {Place(i)' : i \in 0 .. Count' - 1}
      <3>1. recorded \subseteq {Place(i) : i \in 0 .. n - 1}
        BY <1>1, <1>2 DEF BusTypes
      <3> QED BY <1>5, <1>6, <1>9, <3>1
    <2>2. Plays(player)'
      BY <1>1, <1>5, SameRates DEF BusTypes
    <2>3. Count' <= MaxPublished
      BY <1>4, <1>6
    <2> QED BY <1>1, <1>5, <1>6, <1>8, <2>1, <2>2, <2>3 DEF BusTypes
  <1>12. ASSUME NEW t \in 1 .. n, Waits(t)
         PROVE  Waits(t)'
    <2>1. AheadOf(buffer, t)'
      <3>1. AheadOf(buffer, t)
        BY <1>12 DEF Waits
      <3>2. \A x \in t + 1 .. t + Capacity : x < Count => x < Count' /\ x \in 0 .. n - 1
        BY <1>2, <1>6, Sizes
      <3> QED BY <1>5, <1>7, <1>9, <3>1, <3>2 DEF AheadOf
    <2>2. SinceTrim(t)'
      BY <1>5, <1>10, <1>12, SameRates DEF Waits, SinceTrim
    <2>3. ClockOf(player, t)' = ClockOf(player, t)
      <3>1. t \in 0 .. n
        OBVIOUS
      <3> QED BY <1>5, <1>6, <3>1, SameRates DEF ClockOf
    <2>4. Paced(Queue, ClockOf(player, t), player.altered)'
      BY <1>5, <1>10, <1>12, <2>3, SameRates DEF Waits
    <2> QED BY <1>5, <1>7, <1>12, <2>1, <2>2, <2>4 DEF Waits
  <1>13. ASSUME nextExpected # NoSeq
         PROVE  \E t \in 1 .. Count' : Waits(t)'
    <2>1. PICK t \in 1 .. n : Waits(t)
      BY <1>2, <1>13 DEF BusSound
    <2> QED BY <1>6, <1>12, <2>1
  <1>14. Longest' = Longest
    BY <1>5, SameRates
  <1> QED BY <1>5, <1>10, <1>11, <1>13, <1>14 DEF BusSound

(* Steps between the phases touch neither window nor queue.                *)
LEMMA PhaseInv ==
  ASSUME OneStream, BusSound,
         UNCHANGED <<windowVars, setting, published, recorded, player>>,
         \/ phase' = phase
         \/ phase' \notin {"waiting", "opening", "priming"}
         \/ phase = "opening" /\ phase' # "waiting"
  PROVE  BusSound'
  <1>1. UNCHANGED <<nextExpected, buffer, recorded, player, setting, published>>
    BY DEF windowVars
  <1>2. Queue' = Queue /\ Held' = Held /\ ToPlay' = ToPlay
    BY <1>1 DEF Queue, QueueOf, QueueIn, Held, ToPlay
  <1>3. BusTypes'
    BY <1>1, SamePlaces, SameRates DEF BusSound, BusTypes, setting
  <1>4. \A t : Waits(t) => Waits(t)'
    <2> SUFFICES ASSUME NEW t, Waits(t) PROVE Waits(t)'
      OBVIOUS
    <2>1. AheadOf(buffer, t)'
      BY <1>1, SamePlaces DEF Waits
    <2>2. Paced(Queue, ClockOf(player, t), player.altered)'
      <3>1. ClockOf(player, t)' = ClockOf(player, t)
        BY <1>1, SamePlaces
      <3> QED BY <1>1, <1>2, <3>1, SameRates DEF Waits
    <2>3. SinceTrim(t)'
      BY <1>1, <1>2, SameRates DEF Waits, SinceTrim
    <2> QED BY <1>1, <2>1, <2>2, <2>3, SamePlaces DEF Waits
  <1> QED BY <1>1, <1>2, <1>3, <1>4, SamePlaces, SameRates DEF BusSound

(* A packet queued past the window.                                        *)
LEMMA PrimedInv ==
  ASSUME OneStream, BusSound, NEW p \in Published, phase \in {"waiting", "priming"},
         phase' \in {"opening", "priming"}, Len(Queue) <= MaxQueue,
         player' = PrimedWith(p, player),
         UNCHANGED <<windowVars, setting, published, recorded>>
  PROVE  BusSound'
  <1> DEFINE units == [k \in 1 .. Made(p, player) |-> Primer]
  <1>1. BusTypes /\ nextExpected = NoSeq /\ Plays(player)
    BY DEF BusSound, BusTypes
  <1>2. PICK i \in 0 .. Count - 1 : p = Place(i)
    BY <1>1, TheFacts
  <1>3. p.stream = TheStream /\ p.frames \in FrameCounts
    BY <1>1, <1>2, PlacesLast DEF IsPlace
  <1>4. PICK n \in Nat : n = Made(p, player) /\ n = Outputs(p.frames, player.offset[TheStream])
    <2>1. player.offset[TheStream] \in Int /\ Carried(player.offset[TheStream])
      BY <1>1 DEF Plays, OneStream
    <2> QED BY <1>1, <1>3, <2>1, Conversion DEF Made
  <1>5. units \in Seq(Units) /\ Len(units) = n /\ \A j \in 1 .. n : units[j] = Primer
    <2>1. units \in [1 .. n -> Units]
      BY <1>4 DEF Units
    <2>2. \A j \in 1 .. n : units[j] = Primer
      BY <1>4
    <2> HIDE DEF units
    <2> QED BY <2>1, <2>2, RunIsSeq
  <1>6. player' = Pushed(p, units, player)
    BY DEF PrimedWith
  <1> HIDE DEF units
  <1>7. /\ Plays(player') /\ Queue' = Queue \o units
        /\ Len(units) \in Nat /\ Len(units) <= Longest
    <2>1. Queue' = QueueOf(player')
      BY DEF Queue, QueueOf
    <2> QED BY <1>1, <1>3, <1>4, <1>5, <1>6, <2>1, PushedIs DEF Queue
  <1>8. PICK l \in Nat : l = Len(Queue)
    BY <1>1, LenProperties DEF Queue, Plays
  <1>9. /\ Len(Queue') = l + n
        /\ \A j \in 1 .. l : Queue'[j] = Queue[j]
        /\ \A j \in 1 .. n : Queue'[l + j] = units[j]
    <2>1. Queue \in Seq(Units)
      BY <1>1 DEF Queue, Plays
    <2>2. /\ Len(Queue \o units) = Len(Queue) + Len(units)
          /\ \A x \in 1 .. Len(Queue) + Len(units) :
               (Queue \o units)[x] = IF x <= Len(Queue) THEN Queue[x] ELSE units[x - Len(Queue)]
      BY <1>5, <2>1, ConcatProperties
    <2>3. \A j \in 1 .. n : l + j \in 1 .. l + n /\ ~ (l + j <= l) /\ (l + j) - l = j
      OBVIOUS
    <2>4. \A j \in 1 .. l : j \in 1 .. l + n /\ j <= l
      OBVIOUS
    <2> QED BY <1>5, <1>7, <1>8, <2>2, <2>3, <2>4
  <1>10. \A j \in 1 .. Len(Queue') : Queue'[j].kind # "audio"
    <2> TAKE j \in 1 .. Len(Queue')
    <2>1. j \in 1 .. l + n
      BY <1>9
    <2>2. CASE j <= l
      <3>1. j \in 1 .. l
        BY <2>1, <2>2
      <3> QED BY <1>1, <1>8, <1>9, <3>1 DEF BusSound
    <2>3. CASE ~ (j <= l)
      <3>1. j - l \in 1 .. n /\ l + (j - l) = j
        BY <2>1, <2>3
      <3>2. Queue'[j] = Primer
        BY <1>5, <1>9, <3>1
      <3> QED BY <3>2 DEF Primer
    <2> QED BY <2>2, <2>3
  <1>11. UNCHANGED <<nextExpected, buffer, recorded>>
    BY DEF windowVars
  <1>12. BusTypes'
    <2>1. Plays(player)'
      BY <1>7, SameRates
    <2> QED BY <1>1, <1>11, <2>1, SamePlaces DEF BusTypes, setting
  <1>13. Len(Queue') <= MaxQueue + Longest /\ Longest' = Longest
    <2>1. PICK x \in Nat, y \in Nat : x = MaxQueue /\ y = Longest
      BY <1>1, RateFacts, Sizes
    <2>2. n <= y /\ l <= x
      BY <1>5, <1>7, <1>8, <2>1
    <2>3. l + n <= x + y
      BY ONLY <2>2, l \in Nat, n \in Nat, x \in Nat, y \in Nat
    <2> QED BY <1>9, <2>1, <2>3, SameRates
  <1>14. Held' = {} /\ recorded' = {}
    BY <1>1, <1>11 DEF BusSound, Held
  <1> QED BY <1>1, <1>10, <1>11, <1>12, <1>13, <1>14 DEF BusSound

LEMMA FirstPacketInv ==
  ASSUME OneStream, BusSound, NEW p \in Published, FirstPacket(p)
  PROVE  BusSound'
  <1>1. Len(Queue) <= MaxQueue
    <2>1. Queue = << >> /\ Len(<< >>) = 0
      BY DEF FirstPacket, BusSound
    <2> QED BY <2>1, Sizes
  <1> QED BY <1>1, PrimedInv DEF FirstPacket

LEMMA PrimeInv ==
  ASSUME OneStream, BusSound, NEW p \in Published, Prime(p)
  PROVE  BusSound'
  <1> DEFINE f == [s \in DOMAIN player.queues |-> Len(player.queues[s])]
  <1>1. BusTypes /\ Queue \in Seq(Units) /\ Len(Queue) \in Nat
    BY LenProperties DEF BusSound, BusTypes, Plays, Queue
  <1>2. Len(Queue) <= MaxQueue
    <2>1. CASE TheStream \in DOMAIN player.queues
      <3>1. DOMAIN f = {TheStream} /\ f[TheStream] = Len(Queue)
        BY <1>1, <2>1 DEF BusTypes, Plays, OneStream, Queue, QueueOf, QueueIn
      <3> HIDE DEF f
      <3>2. SumFunction(f) = Len(Queue)
        BY <1>1, <3>1, SumOfOne
      <3>3. SumFunction(f) < PrimeTarget
        BY DEF Prime, f
      <3> QED BY <1>1, <3>2, <3>3, Sizes
    <2>2. CASE TheStream \notin DOMAIN player.queues
      <3>1. Queue = << >> /\ Len(<< >>) = 0
        BY <2>2 DEF Queue, QueueOf, QueueIn
      <3> QED BY <3>1, Sizes
    <2> QED BY <2>1, <2>2
  <1> QED BY <1>2, PrimedInv DEF Prime

(* The callback shortens the queue from its head.                          *)
LEMMA CallbackInv ==
  ASSUME OneStream, BusSound, Callback
  PROVE  BusSound'
  <1>1. BusTypes /\ Plays(player) /\ Queue \in Seq(Units)
    BY DEF BusSound, BusTypes, Plays, Queue
  <1>2. PICK l \in Nat : l = Len(Queue)
    BY <1>1, LenProperties
  <1>3. /\ player' = [player EXCEPT !.queues =
                        [s \in DOMAIN @ |-> IF @[s] = << >> THEN << >> ELSE Tail(@[s])]]
        /\ UNCHANGED <<nextExpected, buffer, phase, recorded, setting, published>>
        /\ phase \in {"top", "reading"}
    BY DEF Callback, windowVars
  <1>4. /\ player'.offset = player.offset /\ player'.altered = player.altered
        /\ player'.last = player.last /\ DOMAIN player'.queues = DOMAIN player.queues
        /\ player' = [queues |-> player'.queues, offset |-> player'.offset,
                      last |-> player'.last, altered |-> player'.altered]
        /\ Queue' = IF Queue = << >> THEN << >> ELSE Tail(Queue)
    <2>1. player = [queues |-> player.queues, offset |-> player.offset,
                    last |-> player.last, altered |-> player.altered]
      BY <1>1 DEF Plays
    <2> DEFINE old == player.queues
               new == [s \in DOMAIN old |-> IF old[s] = << >> THEN << >> ELSE Tail(old[s])]
    <2>2. player' = [queues |-> new, offset |-> player.offset,
                     last |-> player.last, altered |-> player.altered]
      BY <1>3, <2>1
    <2>3. QueueIn(new) = IF QueueIn(old) = << >> THEN << >> ELSE Tail(QueueIn(old))
      BY DEF QueueIn
    <2> HIDE DEF new, old
    <2>4. player'.queues = new /\ player.queues = old
      BY <2>2 DEF old
    <2>5. DOMAIN new = DOMAIN old
      BY DEF new
    <2>6. Queue' = QueueIn(new) /\ Queue = QueueIn(old)
      BY <2>4 DEF Queue, QueueOf, QueueIn
    <2> QED BY <2>2, <2>3, <2>4, <2>5, <2>6
  <1>5. PICK d \in {0, 1}, r \in Nat :
          /\ Queue' \in Seq(Units) /\ r = Len(Queue') /\ r = l - d
          /\ \A i \in 1 .. r : Queue'[i] = Queue[i + d]
    <2>1. CASE Queue = << >>
      <3>1. Queue' = Queue
        BY <1>4, <2>1
      <3>2. \A i \in 1 .. l : i + 0 = i
        OBVIOUS
      <3>3. l = l - 0 /\ 0 \in {0, 1}
        OBVIOUS
      <3> QED BY <1>1, <1>2, <3>1, <3>2, <3>3
    <2>2. CASE Queue # << >>
      <3>1. l # 0
        BY <1>1, <1>2, <2>2, EmptySeq
      <3>2. /\ Queue' \in Seq(Units) /\ Len(Queue') = l - 1 /\ l - 1 \in Nat
            /\ \A i \in 1 .. l - 1 : Queue'[i] = Queue[i + 1]
        BY <1>1, <1>2, <1>4, <2>2, <3>1, HeadTailProperties
      <3> QED BY <3>2
    <2> QED BY <2>1, <2>2
  <1>6. Held' = Held /\ ToPlay' = ToPlay
    BY <1>3 DEF Held, ToPlay
  <1>7. Plays(player')
    <2>1. QueueOf(player') \in Seq(Units)
      BY <1>5 DEF Queue, QueueOf
    <2> QED BY <1>1, <1>4, <2>1 DEF Plays
  <1>8. BusTypes'
    <2>1. Plays(player)'
      BY <1>3, <1>7, SameRates
    <2> QED BY <1>1, <1>3, <2>1, SamePlaces DEF BusTypes, setting
  <1>9. ASSUME NEW t \in 1 .. Count, Waits(t)
        PROVE  Waits(t)'
    <2>1. Paced(Queue', ClockOf(player, t), player.altered)
      <3>1. Paced(Queue, ClockOf(player, t), player.altered)
        BY <1>9 DEF Waits
      <3>2. d \in Nat
        OBVIOUS
      <3> QED BY <1>1, <1>2, <1>5, <3>1, <3>2, SuffixPaced
    <2>2. Paced(Queue, ClockOf(player, t), player.altered)'
      <3>1. ClockOf(player, t)' = ClockOf(player', t)
        BY <1>3, SamePlaces
      <3>2. ClockOf(player', t) = ClockOf(player, t)
        BY <1>4 DEF ClockOf
      <3> QED BY <1>3, <1>4, <2>1, <3>1, <3>2, SameRates
    <2>3. SinceTrim(t)'
      <3>1. PICK m \in 0 .. t : /\ t <= m + Capacity + 2
                                /\ Len(Queue) <= MaxQueue + (t - m) * Longest
                                /\ \A p \in ToPlay : Horizon(m, p.pos)
        BY <1>9 DEF Waits, SinceTrim
      <3>2. PICK x \in Int : x = MaxQueue + (t - m) * Longest
        <4>1. t - m \in Int /\ Longest \in Nat /\ MaxQueue \in Nat
          BY <1>1, TheFacts, RateFacts, Sizes
        <4> QED BY <4>1
      <3>3. l <= x
        BY <1>2, <3>1, <3>2
      <3>4. r <= x
        BY ONLY <1>5, <3>3, l \in Nat, r \in Nat, x \in Int
      <3>5. Len(Queue') <= MaxQueue + (t - m) * Longest
        BY <1>5, <3>2, <3>4
      <3> QED BY <1>3, <1>6, <3>1, <3>5, SameRates DEF SinceTrim
    <2>4. AheadOf(buffer, t)'
      BY <1>3, <1>9, SamePlaces DEF Waits
    <2> QED BY <1>3, <1>9, <2>2, <2>3, <2>4, SamePlaces DEF Waits
  <1>10. CASE nextExpected = NoSeq
    <2>1. Len(Queue) <= MaxQueue + Longest /\ \A i \in 1 .. Len(Queue) : Queue[i].kind # "audio"
      BY <1>10 DEF BusSound
    <2>2. Len(Queue') <= MaxQueue + Longest
      <3>1. Longest \in Nat /\ MaxQueue \in Nat
        BY <1>1, RateFacts, Sizes
      <3> QED BY <1>2, <1>5, <2>1, <3>1
    <2>3. \A i \in 1 .. Len(Queue') : Queue'[i].kind # "audio"
      <3>1. \A i \in 1 .. r : i + d \in 1 .. l
        BY <1>5
      <3> QED BY <1>2, <1>5, <2>1, <3>1
    <2> QED BY <1>3, <1>6, <1>8, <1>10, <2>2, <2>3, SameRates DEF BusSound
  <1>11. CASE nextExpected # NoSeq
    <2>1. PICK t \in 1 .. Count : Waits(t)
      BY <1>11 DEF BusSound
    <2>2. Waits(t)' /\ t \in 1 .. Count'
      BY <1>3, <1>9, <2>1, SamePlaces
    <2> QED BY <1>3, <1>8, <1>11, <2>2 DEF BusSound
  <1> QED BY <1>10, <1>11

-----------------------------------------------------------------------------
(* The loop's calls of the window.                                         *)

LEMMA HandleNothing ==
  ASSUME NEW pl PROVE HandleAll(pl, << >>) = pl
  <1>1. Len(<< >>) = 0
    OBVIOUS
  <1>2. Handling(pl, << >>)[0] = pl
    BY <1>1, HandlingFacts
  <1> QED BY <1>1, <1>2 DEF HandleAll

(* What a step of the loop has to leave behind.                            *)
LEMMA NowWaits ==
  ASSUME OneStream, BusTypes, UNCHANGED <<setting, published>>,
         recorded' \subseteq {Place(i) : i \in 0 .. Count - 1}, Plays(player'),
         NEW e \in 1 .. Count, nextExpected' = NumberAt(e), AheadOf(buffer', e),
         Paced(QueueOf(player'), ClockOf(player', e), player'.altered),
         NEW m \in 0 .. e, e <= m + Capacity + 2,
         Len(QueueOf(player')) <= MaxQueue + (e - m) * Longest,
         \A p \in recorded' : Horizon(m, p.pos),
         \A k \in DOMAIN buffer' : Horizon(m, buffer'[k].pos),
         phase' \notin {"waiting", "opening", "priming"}
  PROVE  BusSound'
  <1>1. Queue' = QueueOf(player')
    BY DEF Queue, QueueOf
  <1>2. BusTypes'
    <2>1. Plays(player)'
      BY SameRates
    <2> QED BY <2>1, SamePlaces DEF BusTypes, setting
  <1>3. AheadOf(buffer, e)'
    BY SamePlaces
  <1>4. Paced(Queue, ClockOf(player, e), player.altered)'
    <2>1. ClockOf(player, e)' = ClockOf(player', e)
      BY SamePlaces
    <2> QED BY <1>1, <2>1, SameRates
  <1>5. \A p \in ToPlay' : Horizon(m, p.pos)
    BY DEF ToPlay, Held
  <1>6. SinceTrim(e)'
    BY <1>1, <1>5, SameRates DEF SinceTrim
  <1>7. Waits(e)' /\ e \in 1 .. Count'
    BY <1>3, <1>4, <1>6, SamePlaces DEF Waits
  <1>8. nextExpected' # NoSeq
    <2>1. e \in 0 .. MaxPublished + Capacity
      BY TheFacts, Sizes
    <2>2. NumberAt(e) \in SeqNums
      BY <2>1, NumbersApart
    <2> QED BY <2>2 DEF SeqNums, NoSeq
  <1> QED BY <1>2, <1>7, <1>8 DEF BusSound

(* What is thrown away is nothing: the window holds no packet then.        *)
LEMMA FlushStaleInv ==
  ASSUME OneStream, BusSound, phase = "top", phase' = "reading", FlushStale,
         player' = HandleAll(player, events'), UNCHANGED <<setting, published, recorded>>
  PROVE  BusSound'
  <1>1. BusTypes /\ player' = player /\ nextExpected' = nextExpected /\ buffer' = << >>
    BY HandleNothing DEF FlushStale, BusSound
  <1>2. DOMAIN buffer' = {} /\ Queue' = Queue
    BY <1>1 DEF Queue, QueueOf
  <1>3. CASE nextExpected = NoSeq
    <2>1. BusTypes'
      <3>1. Plays(player)'
        BY <1>1, SameRates DEF BusTypes
      <3> QED BY <1>1, <3>1, SamePlaces DEF BusTypes, setting
    <2>2. Held' = {}
      BY <1>2 DEF Held
    <2> QED BY <1>1, <1>2, <1>3, <2>1, <2>2, SameRates DEF BusSound
  <1>4. CASE nextExpected # NoSeq
    <2>1. PICK t \in 1 .. Count : Waits(t)
      BY <1>4 DEF BusSound
    <2>2. PICK m \in 0 .. t : /\ t <= m + Capacity + 2
                              /\ Len(Queue) <= MaxQueue + (t - m) * Longest
                              /\ \A p \in ToPlay : Horizon(m, p.pos)
      BY <2>1 DEF Waits, SinceTrim
    <2>3. AheadOf(buffer', t)
      BY <1>2 DEF AheadOf
    <2>4. Plays(player') /\ QueueOf(player') = Queue
      BY <1>1 DEF BusTypes, Queue
    <2>5. /\ recorded' \subseteq {Place(i) : i \in 0 .. Count - 1}
          /\ \A p \in recorded' : Horizon(m, p.pos)
      BY <1>1, <2>2 DEF BusTypes, ToPlay
    <2>6. nextExpected' = NumberAt(t) /\ Paced(Queue, ClockOf(player', t), player'.altered)
      BY <1>1, <2>1 DEF Waits
    <2> QED BY <1>1, <1>2, <2>2, <2>3, <2>4, <2>5, <2>6, NowWaits
  <1> QED BY <1>3, <1>4

(* How far ahead of place t a packet lies.                                 *)
LEMMA PlacesAhead ==
  ASSUME OneStream, BusTypes, NEW t \in 1 .. Count, NEW i \in 0 .. MaxPublished + Capacity
  PROVE  /\ i >= t => Distance(NumberAt(i), NumberAt(t)) = i - t
         /\ i < t => Distance(NumberAt(i), NumberAt(t)) > Half
         /\ NumberAt(i) = NumberAt(t) <=> i = t
         /\ Distance(NumberAt(i), NumberAt(t)) \in Nat
  <1>1. /\ t \in 0 .. MaxPublished + Capacity /\ t \in Nat /\ t <= MaxPublished
    BY TheFacts, Sizes
  <1>2. Distance(NumberAt(i), NumberAt(t)) = IF i >= t THEN i - t ELSE i - t + SeqSpace
    BY <1>1, NumbersApart
  <1>3. NumberAt(i) = NumberAt(t) <=> i = t
    BY <1>1, NumbersApart
  <1> QED BY <1>1, <1>2, <1>3, Sizes

LEMMA HorizonFacts ==
  ASSUME NEW m \in Nat, NEW i \in Nat, Horizon(m, i)
  PROVE  i <= m + Capacity + 1 /\ \A e \in Nat : e >= m => Horizon(e, i)
  <1>1. Capacity \in Nat
    BY Sizes
  <1>2. i <= m + Capacity + 1
    BY <1>1 DEF Horizon
  <1>3. ASSUME NEW e \in Nat, e >= m PROVE Horizon(e, i)
    <2>1. CASE e = m
      BY <2>1
    <2>2. CASE e # m
      <3>1. i <= e + Capacity
        BY <1>1, <1>2, <1>3, <2>2
      <3> QED BY <3>1 DEF Horizon
    <2> QED BY <2>1, <2>2
  <1> QED BY <1>2, <1>3

(* What a delivery adds is within what the places it passed allow.         *)
LEMMA StillBounded ==
  ASSUME BusTypes, NEW m \in Nat, NEW t \in Nat, NEW e \in Nat, m <= t, t <= e,
         NEW l \in Nat, l <= MaxQueue + (t - m) * Longest,
         NEW r \in Nat, r <= l + (e - t) * Longest
  PROVE  r <= MaxQueue + (e - m) * Longest
  <1>1. PICK x \in Nat, y \in Nat : x = MaxQueue /\ y = Longest
    BY RateFacts, Sizes
  <1>2. PICK v \in Int, w \in Int : v = (t - m) * y /\ w = (e - t) * y
    BY <1>1
  <1>3. (e - m) * y = v + w
    BY <1>1, <1>2
  <1>4. l <= x + v /\ r <= l + w
    BY <1>1, <1>2
  <1>5. r <= x + (v + w)
    BY ONLY <1>4, r \in Nat, l \in Nat, x \in Nat, v \in Int, w \in Int
  <1> QED BY <1>1, <1>3, <1>5

(* What is left when the nearest packet leaves.                            *)
LEMMA FlushGapInv ==
  ASSUME OneStream, BusSound, phase' = "reading", FlushGap,
         player' = HandleAll(player, events'), UNCHANGED <<setting, published, recorded>>
  PROVE  BusSound'
  <1> DEFINE front == CHOOSE k \in Nearer :
                        \A j \in Nearer : Distance(k, nextExpected) <= Distance(j, nextExpected)
             b == Without(buffer, {front})
             missing == Distance(front, nextExpected)
             new == HandleAll(player, events')
  <1>1. BusTypes /\ nextExpected # NoSeq /\ Nearer # {}
    BY DEF FlushGap, BusSound
  <1>2. PICK t \in 1 .. Count : Waits(t)
    BY <1>1 DEF BusSound
  <1>3. PICK m \in 0 .. t : /\ t <= m + Capacity + 2
                            /\ Len(Queue) <= MaxQueue + (t - m) * Longest
                            /\ \A p \in ToPlay : Horizon(m, p.pos)
    BY <1>2 DEF Waits, SinceTrim
  <1>4. /\ nextExpected = NumberAt(t) /\ AheadOf(buffer, t)
        /\ Paced(Queue, ClockOf(player, t), player.altered)
        /\ t \in Nat /\ Count \in 0 .. MaxPublished /\ Len(Queue) \in Nat /\ m \in Nat
    BY <1>1, <1>2, <1>3, TheFacts, LenProperties DEF Waits, BusTypes, Plays, Queue
  <1>5. \A k \in Held : \E i \in t + 1 .. t + Capacity :
          /\ i < Count /\ k = NumberAt(i) /\ IsPlace(buffer[k], i)
          /\ Distance(k, nextExpected) = i - t
    <2> TAKE k \in Held
    <2>1. PICK i \in t + 1 .. t + Capacity : i < Count /\ k = NumberAt(i) /\ IsPlace(buffer[k], i)
      BY <1>4 DEF Held, AheadOf
    <2>2. i \in 0 .. MaxPublished + Capacity /\ i >= t
      BY <1>4, <2>1, Sizes
    <2> QED BY <1>1, <1>4, <2>1, <2>2, PlacesAhead
  <1>6. front \in Nearer /\ \A j \in Nearer : Distance(front, nextExpected) <= Distance(j, nextExpected)
    <2> DEFINE T == {Distance(k, nextExpected) : k \in Nearer}
    <2>1. T \in SUBSET Nat /\ T # {}
      <3>1. \A k \in Nearer : Distance(k, nextExpected) \in Nat
        BY <1>4, <1>5, Sizes DEF Nearer
      <3> QED BY <1>1, <3>1
    <2>2. PICK d \in T : \A y \in T : d <= y
      BY <2>1, Least
    <2>3. \E k \in Nearer : \A j \in Nearer : Distance(k, nextExpected) <= Distance(j, nextExpected)
      BY <2>2
    <2> QED BY <2>3
  <1> HIDE DEF front
  <1>7. PICK i \in t + 1 .. t + Capacity :
          /\ i < Count /\ front = NumberAt(i) /\ IsPlace(buffer[front], i) /\ missing = i - t
    BY <1>5, <1>6 DEF Nearer
  <1>8. i \in t .. Count - 1 /\ i \in Nat /\ i > t
    BY <1>4, <1>7, Sizes
  <1>9. AheadOf(b, i)
    <2> SUFFICES ASSUME NEW k \in Held, k # front
                 PROVE  \E x \in i + 1 .. i + Capacity :
                          x < Count /\ k = NumberAt(x) /\ IsPlace(buffer[k], x)
      BY DEF AheadOf, Without, Held
    <2>1. PICK x \in t + 1 .. t + Capacity :
            /\ x < Count /\ k = NumberAt(x) /\ IsPlace(buffer[k], x)
            /\ Distance(k, nextExpected) = x - t
      BY <1>5
    <2>2. x # i
      BY <1>7, <2>1
    <2>3. k \in Nearer
      BY <1>4, <2>1, Sizes DEF Nearer
    <2>4. i - t <= x - t
      BY <1>6, <1>7, <2>1, <2>3
    <2>5. x \in i + 1 .. i + Capacity
      BY <1>4, <1>8, <2>1, <2>2, <2>4, Sizes
    <2> QED BY <2>1, <2>5
  <1>10. DeliverAndDrain(buffer[front], b, IF i > t THEN <<DroppedEvent(i - t)>> ELSE << >>)
    <2>1. DeliverAndDrain(buffer[front], b, IF missing > 0 THEN <<DroppedEvent(missing)>> ELSE << >>)
      BY DEF FlushGap, front
    <2>2. missing > 0
      BY <1>4, <1>7, <1>8
    <2> HIDE DEF b, missing
    <2> QED BY <1>7, <1>8, <2>1, <2>2
  <1>11. /\ DOMAIN b \subseteq Held /\ \A k \in DOMAIN b : b[k] = buffer[k]
         /\ front \in Held /\ IsPlace(buffer[front], i)
    BY <1>6, <1>7 DEF Without, Held, Nearer
  <1> HIDE DEF b
  <1>12. PICK e \in i + 1 .. Count :
           /\ nextExpected' = NumberAt(e) /\ AheadOf(buffer', e)
           /\ DOMAIN buffer' \subseteq DOMAIN b /\ \A k \in DOMAIN buffer' : buffer'[k] = b[k]
           /\ e - 1 = i \/ \E k \in DOMAIN b : IsPlace(b[k], e - 1)
           /\ Plays(new) /\ Paced(QueueOf(new), ClockOf(new, e), new.altered)
           /\ Len(QueueOf(new)) <= Len(Queue) + (e - t) * Longest
    <2> DEFINE p == buffer[front]
    <2>1. IsPlace(p, i) /\ DeliverAndDrain(p, b, IF i > t THEN <<DroppedEvent(i - t)>> ELSE << >>)
      BY <1>7, <1>10
    <2> HIDE DEF p
    <2> QED BY <1>1, <1>4, <1>8, <1>9, <2>1, Delivered
  <1>13. \E p \in ToPlay : p.pos = e - 1
    <2>1. \E k \in Held : IsPlace(buffer[k], e - 1)
      BY <1>11, <1>12
    <2> QED BY <2>1 DEF ToPlay, IsPlace
  <1>14. /\ e \in 1 .. Count /\ m \in 0 .. e /\ e <= m + Capacity + 2
         /\ Len(QueueOf(new)) <= MaxQueue + (e - m) * Longest
    <2>1. /\ e \in Nat /\ e - 1 \in Nat /\ e > t /\ Capacity \in Nat
          /\ m \in Nat /\ t \in Nat /\ m <= t /\ e \in 1 .. Count
      BY ONLY <1>4, <1>8, Sizes, e \in i + 1 .. Count, m \in 0 .. t
    <2>2. Horizon(m, e - 1)
      BY <1>3, <1>13
    <2>3. e - 1 <= m + Capacity + 1
      BY <1>4, <2>1, <2>2, HorizonFacts
    <2>4. Len(QueueOf(new)) \in Nat
      BY <1>12, LenProperties DEF Plays
    <2>5. Len(QueueOf(new)) <= MaxQueue + (e - m) * Longest
      <3>1. m <= t /\ t <= e
        BY ONLY <2>1
      <3> HIDE DEF new
      <3> QED BY <1>1, <1>3, <1>4, <1>12, <2>1, <2>4, <3>1, StillBounded
    <2>6. m \in 0 .. e /\ e <= m + Capacity + 2
      BY ONLY <2>1, <2>3
    <2> QED BY <2>1, <2>5, <2>6
  <1>15. /\ recorded' \subseteq {Place(x) : x \in 0 .. Count - 1}
         /\ \A p \in recorded' : Horizon(m, p.pos)
         /\ \A k \in DOMAIN buffer' : Horizon(m, buffer'[k].pos)
    BY <1>1, <1>3, <1>11, <1>12 DEF BusTypes, ToPlay
  <1>16. player' = new
    OBVIOUS
  <1> HIDE DEF new
  <1> QED BY <1>1, <1>12, <1>14, <1>15, <1>16, NowWaits

LEMMA FlushFirstInv ==
  ASSUME OneStream, BusSound, FlushFirst
  PROVE  BusSound'
  <1>1. /\ phase = "top" /\ phase' = "reading" /\ (FlushGap \/ FlushStale)
        /\ player' = HandleAll(player, events') /\ UNCHANGED <<setting, published, recorded>>
    BY DEF FlushFirst, FlushExpiredGap
  <1> QED BY <1>1, FlushGapInv, FlushStaleInv

-----------------------------------------------------------------------------
(* A packet read.                                                          *)

LEMMA TrimKeeps ==
  ASSUME NEW units \in Seq(Units), NEW clock, NEW altered, Paced(units, clock, altered)
  PROVE  /\ Trimmed(units) \in Seq(Units) /\ Paced(Trimmed(units), clock, altered)
         /\ Len(Trimmed(units)) <= MaxQueue
  <1> DEFINE n == Len(units)
             tail == SubSeq(units, n - MaxQueue + 1, n)
  <1>1. n \in Nat /\ MaxQueue \in Nat
    BY LenProperties, Sizes
  <1>2. CASE n <= MaxQueue
    BY <1>2 DEF Trimmed
  <1>3. CASE n > MaxQueue
    <2>1. \A i \in n - MaxQueue + 1 .. n : units[i] \in Units
      <3>1. \A i \in n - MaxQueue + 1 .. n : i \in 1 .. n
        BY <1>1, <1>3
      <3> QED BY <3>1, ElementOfSeq
    <2>2. /\ tail \in Seq(Units)
          /\ Len(tail) = MaxQueue
          /\ \A i \in 1 .. MaxQueue : tail[i] = units[i + (n - MaxQueue)]
      <3> DEFINE front == n - MaxQueue + 1
      <3>1. front \in Int /\ n \in Int /\ n - front + 1 = MaxQueue
        BY <1>1
      <3>2. \A i \in front .. n : units[i] \in Units
        BY <2>1
      <3> HIDE DEF front
      <3> DEFINE part == SubSeq(units, front, n)
      <3>3. /\ part \in Seq(Units)
            /\ Len(part) = IF front <= n THEN n - front + 1 ELSE 0
            /\ \A i \in 1 .. n - front + 1 : part[i] = units[front + i - 1]
        BY <3>1, <3>2, SubSeqProperties
      <3>4. Len(part) = MaxQueue /\ \A i \in 1 .. MaxQueue : front + i - 1 = i + (n - MaxQueue)
        BY <1>1, <3>1, <3>3
      <3> HIDE DEF part
      <3>5. \A i \in 1 .. MaxQueue : part[i] = units[i + (n - MaxQueue)]
        BY <3>1, <3>3, <3>4
      <3> QED BY <3>3, <3>4, <3>5 DEF part, front
    <2>3. Trimmed(units) = tail
      BY <1>1, <1>3 DEF Trimmed
    <2>4. Paced(tail, clock, altered)
      <3>1. PICK d \in Nat : d = n - MaxQueue
        BY <1>1, <1>3
      <3>2. Len(tail) = Len(units) - d /\ \A i \in 1 .. Len(tail) : tail[i] = units[i + d]
        BY <1>1, <2>2, <3>1
      <3> HIDE DEF tail
      <3> QED BY <2>2, <3>2, SuffixPaced
    <2> QED BY <1>1, <2>2, <2>3, <2>4
  <1> QED BY <1>1, <1>2, <1>3

(* The queue of the packet's stream is trimmed, whatever the packet led to.*)
AfterTrimming(pl) ==
  [pl EXCEPT !.queues = [s \in DOMAIN @ |-> IF s = TheStream THEN Trimmed(@[s]) ELSE @[s]]]

LEMMA AfterTrim ==
  ASSUME OneStream, BusTypes, UNCHANGED <<setting, published>>, phase' = "top",
         NEW j \in 0 .. Count - 1, recorded' \subseteq recorded \cup {Place(j)},
         NEW pl, Plays(pl), player' = AfterTrimming(pl),
         NEW e \in 1 .. Count, nextExpected' = NumberAt(e), AheadOf(buffer', e),
         Paced(QueueOf(pl), ClockOf(pl, e), pl.altered),
         j <= e + Capacity, \A p \in recorded : Horizon(e, p.pos)
  PROVE  BusSound'
  <1> DEFINE old == pl.queues
             new == [s \in DOMAIN old |-> IF s = TheStream THEN Trimmed(old[s]) ELSE old[s]]
  <1>1. e \in Nat /\ Capacity \in Nat /\ MaxQueue \in Nat /\ Count \in Nat
    BY TheFacts, Sizes
  <1>2. player' = [queues |-> new, offset |-> pl.offset, last |-> pl.last, altered |-> pl.altered]
    <2>1. pl = [queues |-> pl.queues, offset |-> pl.offset, last |-> pl.last, altered |-> pl.altered]
      BY DEF Plays
    <2> QED BY <2>1 DEF AfterTrimming
  <1>3. QueueIn(new) = Trimmed(QueueIn(old)) /\ DOMAIN new = DOMAIN old
    <2>1. Len(<< >>) = 0 /\ Trimmed(<< >>) = << >>
      BY <1>1 DEF Trimmed
    <2>2. CASE TheStream \in DOMAIN old
      BY <2>2 DEF QueueIn
    <2>3. CASE TheStream \notin DOMAIN old
      BY <2>1, <2>3 DEF QueueIn
    <2> QED BY <2>2, <2>3
  <1> HIDE DEF new
  <1>4. /\ QueueOf(player') = Trimmed(QueueOf(pl))
        /\ player'.queues = new /\ player'.offset = pl.offset /\ player'.last = pl.last
        /\ player'.altered = pl.altered /\ ClockOf(player', e) = ClockOf(pl, e)
    BY <1>2, <1>3 DEF QueueOf, ClockOf
  <1>5. /\ QueueOf(player') \in Seq(Units)
        /\ Paced(QueueOf(player'), ClockOf(player', e), player'.altered)
        /\ Len(QueueOf(player')) <= MaxQueue
    <2>1. QueueOf(pl) \in Seq(Units)
      BY DEF Plays
    <2> QED BY <1>4, <2>1, TrimKeeps
  <1>6. Plays(player')
    BY <1>2, <1>3, <1>4, <1>5 DEF Plays
  <1>7. Len(QueueOf(player')) <= MaxQueue + (e - e) * Longest
    <2>1. (e - e) * Longest = 0
      <3>1. PICK y \in Nat : y = Longest
        BY RateFacts
      <3>2. e - e = 0 /\ 0 * y = 0
        BY <1>1
      <3> QED BY <3>1, <3>2
    <2>2. MaxQueue + 0 = MaxQueue
      BY <1>1
    <2> QED BY <1>5, <2>1, <2>2
  <1>8. Horizon(e, j)
    BY DEF Horizon
  <1>9. /\ recorded' \subseteq {Place(i) : i \in 0 .. Count - 1}
        /\ \A p \in recorded' : Horizon(e, p.pos)
    BY <1>8, PlaceFacts DEF BusTypes
  <1>10. \A k \in DOMAIN buffer' : Horizon(e, buffer'[k].pos)
    <2> TAKE k \in DOMAIN buffer'
    <2>1. PICK i \in e + 1 .. e + Capacity : IsPlace(buffer'[k], i)
      BY DEF AheadOf
    <2>2. i <= e + Capacity
      BY <1>1, <2>1
    <2> QED BY <2>1, <2>2 DEF Horizon, IsPlace
  <1>11. e \in 0 .. e /\ e <= e + Capacity + 2
    BY <1>1
  <1> QED BY <1>5, <1>6, <1>7, <1>9, <1>10, <1>11, NowWaits

(* The very first packet the window sees.                                  *)
LEMMA ReadFirstInv ==
  ASSUME OneStream, BusSound, nextExpected = NoSeq, NEW j \in 0 .. Count - 1,
         PushFirst(Place(j)), recorded' \subseteq recorded \cup {Place(j)}, phase' = "top",
         player' = AfterTrimming(HandleAll(player, events')),
         UNCHANGED <<setting, published>>
  PROVE  BusSound'
  <1> DEFINE pl == HandleAll(player, events')
             c == [x \in 0 .. 1 |-> j + x]
  <1>1. /\ BusTypes /\ Held = {} /\ recorded = {} /\ Plays(player)
        /\ \A i \in 1 .. Len(Queue) : Queue[i].kind # "audio"
    BY DEF BusSound, BusTypes
  <1>2. j \in Nat /\ j + 1 \in 1 .. Count /\ Count \in 0 .. MaxPublished /\ start[TheStream] \in SeqNums
    BY <1>1, TheFacts
  <1>3. nextExpected' = NumberAt(j + 1) /\ AheadOf(buffer', j + 1)
    <2>1. Advance(Advance(start[TheStream], j), 1) = Advance(start[TheStream], j + 1)
      BY <1>2, AdvanceTwice, Sizes
    <2>2. DOMAIN buffer' = {}
      BY <1>1 DEF PushFirst, Held
    <2> QED BY <2>1, <2>2, PlaceFacts DEF PushFirst, AheadOf, NumberAt
  <1>4. events' = <<PacketEvent(Place(j))>> /\ Len(events') = 1 /\ events'[1] = PacketEvent(Place(j))
    <2> DEFINE event == PacketEvent(Place(j))
    <2>1. events' = <<event>>
      BY DEF PushFirst
    <2> HIDE DEF event
    <2>2. Len(<<event>>) = 1 /\ <<event>>[1] = event
      OBVIOUS
    <2> QED BY <2>1, <2>2 DEF event
  <1>5. c \in [0 .. 1 -> Nat] /\ c[0] = j /\ c[1] = j + 1
    BY <1>2
  <1>6. \A x \in 1 .. 1 : Advances(events'[x], c[x - 1], c[x])
    <2>1. Advances(events'[1], j, j + 1)
      BY <1>1, <1>2, <1>4, PlacesLast DEF Advances
    <2>2. \A x \in 1 .. 1 : x = 1 /\ x - 1 = 0
      OBVIOUS
    <2> HIDE DEF c
    <2> QED BY <1>5, <2>1, <2>2
  <1>7. Paced(QueueOf(player), ClockOf(player, c[0]), player.altered)
    BY <1>1 DEF Paced, Queue
  <1> HIDE DEF c
  <1>8. Plays(pl) /\ Paced(QueueOf(pl), ClockOf(pl, j + 1), pl.altered)
    BY <1>1, <1>4, <1>5, <1>6, <1>7, HandleAllKeeps
  <1>9. j <= j + 1 + Capacity /\ \A p \in recorded : Horizon(j + 1, p.pos)
    BY <1>1, <1>2, Sizes
  <1> QED BY <1>1, <1>2, <1>3, <1>8, <1>9, AfterTrim

(* A packet ahead of its turn is held, and the window never overflows.     *)
LEMMA HoldsAhead ==
  ASSUME OneStream, BusTypes, NEW t \in 1 .. Count, AheadOf(buffer, t),
         NEW j \in t + 1 .. t + Capacity, j < Count, NEW p, IsPlace(p, j)
  PROVE  AheadOf(With(buffer, p), t) /\ ~ (Excess(With(buffer, p)) > 0)
  <1> DEFINE b == With(buffer, p)
             D == DOMAIN b
             f == [k \in D |-> Distance(k, NumberAt(t))]
  <1>1. b = [k \in DOMAIN buffer \cup {NumberAt(j)} |-> IF k = NumberAt(j) THEN p ELSE buffer[k]]
    BY DEF With, IsPlace
  <1>2. AheadOf(b, t)
    BY <1>1 DEF AheadOf
  <1>3. t \in Nat /\ Count \in 0 .. MaxPublished /\ Capacity \in Nat
    BY TheFacts, Sizes
  <1> HIDE DEF b
  <1>4. \A k \in D : \E i \in t + 1 .. t + Capacity :
          k = NumberAt(i) /\ k \in SeqNums /\ Distance(k, NumberAt(t)) = i - t
    <2> TAKE k \in D
    <2>1. PICK i \in t + 1 .. t + Capacity : i < Count /\ k = NumberAt(i)
      BY <1>2 DEF AheadOf
    <2>2. i \in 0 .. MaxPublished + Capacity /\ i >= t /\ t \in 0 .. MaxPublished + Capacity
      BY <1>3, <2>1, Sizes
    <2>3. k \in SeqNums
      BY <2>1, <2>2, NumbersApart
    <2> QED BY <2>1, <2>2, <2>3, PlacesAhead
  <1>5. IsFiniteSet(D)
    <2>1. IsFiniteSet(SeqNums)
      BY FS_Interval, Sizes DEF SeqNums
    <2>2. D \subseteq SeqNums
      BY <1>4
    <2> QED BY <2>1, <2>2, FS_Subset
  <1>6. f \in [D -> 1 .. Capacity]
    <2>1. \A k \in D : Distance(k, NumberAt(t)) \in 1 .. Capacity
      BY <1>3, <1>4
    <2> QED BY <2>1
  <1>7. \A x, y \in D : f[x] = f[y] => x = y
    <2> SUFFICES ASSUME NEW x \in D, NEW y \in D,
                        Distance(x, NumberAt(t)) = Distance(y, NumberAt(t))
                 PROVE  x = y
      OBVIOUS
    <2>1. PICK i \in t + 1 .. t + Capacity : x = NumberAt(i) /\ Distance(x, NumberAt(t)) = i - t
      BY <1>4
    <2>2. PICK k \in t + 1 .. t + Capacity : y = NumberAt(k) /\ Distance(y, NumberAt(t)) = k - t
      BY <1>4
    <2>3. i = k
      BY <1>3, <2>1, <2>2
    <2> QED BY <2>1, <2>2, <2>3
  <1>8. IsFiniteSet(1 .. Capacity) /\ Cardinality(1 .. Capacity) = Capacity
    BY ONLY Sizes, FS_Interval
  <1> HIDE DEF D, f
  <1>9. ~ (Capacity < Cardinality(D))
    <2> SUFFICES ASSUME Capacity < Cardinality(D) PROVE FALSE
      OBVIOUS
    <2>1. \E x, y \in D : x # y /\ f[x] = f[y]
      BY <1>5, <1>6, <1>8, FS_PigeonHole
    <2> QED BY <1>7, <2>1
  <1>10. Cardinality(D) \in Nat
    BY <1>5, FS_CardinalityType
  <1>11. ~ (Cardinality(D) - Capacity > 0)
    BY <1>3, <1>9, <1>10
  <1> QED BY <1>2, <1>11 DEF b, D, Excess

LEMMA ReadAudioInv ==
  ASSUME OneStream, Skew <= Capacity, BusSound, NEW p \in Published, ReadAudio(p)
  PROVE  BusSound'
  <1> DEFINE pl == HandleAll(player, events')
  <1>1. BusTypes /\ phase' = "top" /\ UNCHANGED <<setting, published>> /\ MayArrive(p) /\ Push(p)
    BY DEF ReadAudio, BusSound
  <1>2. PICK j \in 0 .. Count - 1 : p = Place(j)
    BY <1>1, TheFacts
  <1>3. /\ p.stream = TheStream /\ p.seq = NumberAt(j) /\ IsPlace(p, j)
        /\ recorded' \subseteq recorded \cup {Place(j)}
        /\ player' = AfterTrimming(pl)
    <2>1. p.stream = TheStream /\ p.seq = NumberAt(j) /\ IsPlace(p, j)
      BY <1>1, <1>2, PlaceFacts, PlacesLast
    <2>2. recorded' \subseteq recorded \cup {Place(j)}
      BY <1>2 DEF ReadAudio
    <2> HIDE DEF pl
    <2>3. player' = [pl EXCEPT !.queues =
                       [s \in DOMAIN @ |-> IF s = p.stream THEN Trimmed(@[s]) ELSE @[s]]]
      BY DEF ReadAudio, pl
    <2> QED BY <2>1, <2>2, <2>3 DEF AfterTrimming
  <1> HIDE DEF pl
  <1>4. CASE nextExpected = NoSeq
    <2>1. PushFirst(Place(j))
      BY <1>1, <1>2, <1>4
      DEF Push, PushInOrder, PushLate, PushResync, PushJump, PushHold, PushOverflow,
          WithinWindow, Ahead
    <2> QED BY <1>1, <1>3, <1>4, <2>1, ReadFirstInv DEF pl
  <1>5. CASE nextExpected # NoSeq
    <2>1. PICK t \in 1 .. Count : Waits(t)
      BY <1>5 DEF BusSound
    <2>2. PICK m \in 0 .. t : \A r \in ToPlay : Horizon(m, r.pos)
      BY <2>1 DEF Waits, SinceTrim
    <2>3. /\ nextExpected = NumberAt(t) /\ AheadOf(buffer, t)
          /\ Paced(Queue, ClockOf(player, t), player.altered)
          /\ t \in Nat /\ m \in Nat /\ j \in Nat /\ Count \in 0 .. MaxPublished
          /\ j \in 0 .. MaxPublished + Capacity
      BY <1>1, <2>1, <2>2, TheFacts, Sizes DEF Waits
    <2>4. /\ j >= t => Distance(p.seq, nextExpected) = j - t
          /\ j < t => Distance(p.seq, nextExpected) > Half
          /\ p.seq = nextExpected <=> j = t
      BY <1>1, <1>3, <2>3, PlacesAhead
    <2>5. \A e \in Nat : e >= t => \A r \in recorded : Horizon(e, r.pos)
      <3> SUFFICES ASSUME NEW e \in Nat, e >= t, NEW r \in recorded PROVE Horizon(e, r.pos)
        OBVIOUS
      <3>1. Horizon(m, r.pos) /\ r.pos \in Nat
        <4>1. PICK x \in 0 .. Count - 1 : r = Place(x)
          BY <1>1 DEF BusTypes
        <4>2. r.pos \in Nat
          BY <2>3, <4>1, PlaceFacts
        <4> QED BY <2>2, <4>2 DEF ToPlay
      <3>2. e >= m
        BY <2>2, <2>3
      <3> QED BY <2>3, <3>1, <3>2, HorizonFacts
    <2>6. Plays(player) /\ QueueOf(player) = Queue
      BY <1>1 DEF BusTypes, Queue
    <2>7. CASE j = t
      <3>1. PushInOrder(p)
        <4>1. ~ PushLate(p)
          BY <2>3, <2>4, <2>7, Sizes DEF PushLate
        <4> QED BY <1>1, <1>5, <2>4, <2>7, <4>1
            DEF Push, PushFirst, PushResync, PushJump, PushHold, PushOverflow, WithinWindow, Ahead
      <3>2. DeliverAndDrain(p, buffer, IF j > t THEN <<DroppedEvent(j - t)>> ELSE << >>)
        <4>1. ~ (j > t)
          BY <2>3, <2>7
        <4> QED BY <3>1, <4>1 DEF PushInOrder
      <3>3. j \in t .. Count - 1
        BY <2>3, <2>7
      <3>4. AheadOf(buffer, j)
        BY <2>3, <2>7
      <3>5. PICK e \in j + 1 .. Count :
              /\ nextExpected' = NumberAt(e) /\ AheadOf(buffer', e)
              /\ Plays(pl) /\ Paced(QueueOf(pl), ClockOf(pl, e), pl.altered)
        BY <1>1, <1>3, <2>3, <3>2, <3>3, <3>4, Delivered DEF pl
      <3>6. e \in 1 .. Count /\ e \in Nat /\ e >= t /\ j <= e + Capacity
        BY <2>3, <2>7, <3>5, Sizes
      <3>7. \A r \in recorded : Horizon(e, r.pos)
        BY <2>5, <3>6
      <3> QED BY <1>1, <1>3, <3>5, <3>6, <3>7, AfterTrim
    <2>8. CASE j < t
      <3>1. PushLate(p)
        <4>1. p.seq # nextExpected /\ ~ (Distance(p.seq, nextExpected) <= Half)
          BY <1>1, <1>3, <2>3, <2>4, <2>8, Sizes, NumbersApart
        <4> QED BY <1>1, <1>5, <4>1
            DEF Push, PushFirst, PushInOrder, PushResync, PushJump, PushHold, PushOverflow,
                WithinWindow, Ahead
      <3>2. pl = player /\ nextExpected' = NumberAt(t) /\ AheadOf(buffer', t)
        BY <2>3, <3>1, HandleNothing DEF PushLate, pl
      <3>3. j <= t + Capacity /\ \A r \in recorded : Horizon(t, r.pos)
        BY <2>3, <2>5, <2>8, Sizes
      <3> QED BY <1>1, <1>3, <2>3, <2>6, <3>2, <3>3, AfterTrim
    <2>9. CASE j > t
      <3>1. Distance(p.seq, nextExpected) = j - t /\ j - t \in 1 .. Capacity
        <4>1. Distance(p.seq, nextExpected) = j - t
          BY <2>3, <2>4, <2>9
        <4>2. j - t <= Half /\ j - t \in Nat /\ j - t > 0
          BY <2>3, <2>9, Sizes
        <4>3. j - t <= Skew
          BY <1>1, <1>5, <4>1, <4>2, Sizes DEF MayArrive
        <4> QED BY <4>1, <4>2, <4>3, Sizes
      <3>2. j \in t + 1 .. t + Capacity /\ j < Count
        BY <2>3, <2>9, <3>1, Sizes
      <3>3. AheadOf(With(buffer, p), t) /\ ~ (Excess(With(buffer, p)) > 0)
        BY <1>1, <1>3, <2>3, <3>2, HoldsAhead
      <3>4. PushHold(p)
        <4>1. ~ PushFirst(p) /\ ~ PushInOrder(p)
          BY <1>5, <2>3, <2>4, <2>9 DEF PushFirst, PushInOrder
        <4>2. ~ PushLate(p) /\ ~ PushResync(p) /\ ~ PushJump(p)
          BY <3>1, Sizes DEF PushLate, PushResync, PushJump
        <4>3. ~ PushOverflow(p)
          BY <3>3 DEF PushOverflow
        <4> QED BY <1>1, <4>1, <4>2, <4>3 DEF Push
      <3>5. pl = player /\ nextExpected' = NumberAt(t) /\ AheadOf(buffer', t)
        BY <2>3, <3>3, <3>4, HandleNothing DEF PushHold, pl
      <3>6. j <= t + Capacity /\ \A r \in recorded : Horizon(t, r.pos)
        BY <2>3, <2>5, <3>2
      <3> QED BY <1>1, <1>3, <2>3, <2>6, <3>5, <3>6, AfterTrim
    <2> QED BY <2>3, <2>7, <2>8, <2>9
  <1> QED BY <1>4, <1>5

-----------------------------------------------------------------------------
LEMMA GroupBounds ==
  ASSUME NEW j \in Nat, NEW size \in Nat, size > 1
  PROVE  LET low == size * (j \div size)
             last == low + size - 1
         IN  /\ low \in Nat /\ last \in Nat /\ low <= j /\ j <= last
             /\ (last + 1) % size = 0 /\ last % size # 0
  <1> DEFINE d == j \div size
             r == j % size
             low == size * d
             last == low + size - 1
  <1>1. d \in Nat
    OBVIOUS
  <1>2. r = j - low
    OBVIOUS
  <1>3. r \in 0 .. size - 1
    OBVIOUS
  <1> HIDE DEF d, r
  <1>4. low \in Nat
    BY <1>1
  <1>5. (size * (d + 1)) % size = 0
    BY <1>1
  <1>6. (size * d + (size - 1)) % size = size - 1
    BY <1>1
  <1>7. last + 1 = size * (d + 1)
    BY <1>1
  <1>8. last = size * d + (size - 1)
    BY <1>1
  <1>9. (last + 1) % size = 0 /\ last % size = size - 1
    BY <1>5, <1>6, <1>7, <1>8
  <1> HIDE DEF low
  <1>10. last \in Nat /\ low <= j /\ j <= last
    BY <1>2, <1>3, <1>4
  <1> QED BY <1>4, <1>9, <1>10 DEF low, d

(* A packet rebuilt: as the others of its group were recorded, it lies     *)
(* within the horizon they have, and if beyond them all it ends its group. *)
(* It is as long as the first packet of the group.                         *)
LEMMA RebuiltNear ==
  ASSUME OneStream, BusTypes, NEW j \in 0 .. Count - 1, NEW m \in Nat,
         \A r \in recorded : Horizon(m, r.pos),
         FirstOf(j) + BusGroup <= Count,
         LET numbers == {r.seq : r \in recorded}
         IN  {q \in GroupOf(TheStream, j) : q.seq \notin numbers} = {Place(j)}
  PROVE  Horizon(m, j) /\ recorded # {} /\ IsPlace(Rebuilt(Place(j)), j)
  <1> DEFINE numbers == {r.seq : r \in recorded}
             low == FirstOf(j)
             last == low + BusGroup - 1
  <1>1. /\ j \in Nat /\ Count \in 0 .. MaxPublished /\ BusGroup \in Nat /\ BusGroup > 1
        /\ Capacity \in Nat
    BY TheFacts, Sizes
  <1>2. GroupOf(TheStream, j) = {Place(i) : i \in low .. last}
    BY DEF GroupOf, Place
  <1>3. /\ low \in Nat /\ last \in Nat /\ low <= j /\ j <= last /\ last = low + BusGroup - 1
        /\ (last + 1) % BusGroup = 0 /\ last % BusGroup # 0
    BY <1>1, GroupBounds DEF FirstOf
  <1>3a. low + BusGroup <= Count
    OBVIOUS
  <1> HIDE DEF low, last
  <1>4. ASSUME NEW x \in low .. last, x # j
        PROVE  Place(x) \in recorded /\ Horizon(m, x)
    <2>1. x \in 0 .. Count - 1 /\ x \in 0 .. MaxPublished + Capacity
      <3>1. PICK n \in Nat : n = Count /\ n <= MaxPublished
        BY <1>1
      <3>2. low + BusGroup <= n
        BY <1>3a, <3>1
      <3>3. x \in Nat /\ x <= n - 1
        BY ONLY <1>1, <1>3, <3>1, <3>2, x \in low .. last
      <3> QED BY <1>1, <3>1, <3>3, Sizes
    <2>2. Place(x) # Place(j)
      BY <1>4, PlaceFacts
    <2>3. Place(x).seq \in numbers
      BY <1>2, <2>2
    <2>4. PICK r \in recorded : r.seq = NumberAt(x)
      BY <2>3, PlaceFacts
    <2>5. PICK y \in 0 .. Count - 1 : r = Place(y)
      BY DEF BusTypes
    <2>6. y \in 0 .. MaxPublished + Capacity /\ NumberAt(y) = NumberAt(x)
      BY <1>1, <2>4, <2>5, PlaceFacts, Sizes
    <2>7. x = y
      BY <2>1, <2>6, NumbersApart
    <2>8. Place(x) \in recorded
      BY <2>5, <2>7
    <2> QED BY <2>8, PlaceFacts
  <1>5. recorded # {}
    <2>1. PICK x \in low .. last : x # j
      <3>1. low \in low .. last /\ last \in low .. last /\ low # last
        BY <1>1, <1>3
      <3> QED BY <3>1
    <2> QED BY <1>4, <2>1
  <1>6. IsPlace(Rebuilt(Place(j)), j)
    <2>1. low \in 0 .. Count - 1
      BY <1>1, <1>3, <1>3a
    <2>2. IsPlace(Place(low), low) /\ IsPlace(Place(j), j)
      BY <2>1, PlacesLast
    <2>3. Rebuilt(Place(j)) = [Place(j) EXCEPT !.frames = Place(low).frames]
      BY <1>1, PlaceFacts DEF Rebuilt, Place, low
    <2>4. Place(j) = [stream |-> TheStream, pos |-> j, seq |-> NumberAt(j), at |-> At(j),
                      frames |-> At(j + 1) - At(j)]
      BY DEF Place, PacketOf, NumberAt, At
    <2> QED BY <2>2, <2>3, <2>4 DEF IsPlace
  <1>7. CASE j # last
    <2>1. Horizon(m, last)
      <3>1. last \in low .. last
        BY <1>1, <1>3
      <3> QED BY <1>4, <1>7, <3>1
    <2>2. last <= m + Capacity + 1
      BY <1>3, <2>1, HorizonFacts
    <2>3. j <= m + Capacity
      BY <1>1, <1>3, <1>7, <2>2
    <2> QED BY <1>5, <1>6, <2>3 DEF Horizon
  <1>8. CASE j = last
    <2>1. last - 1 \in low .. last /\ last - 1 # j
      BY <1>1, <1>3, <1>8
    <2>2. Horizon(m, last - 1)
      BY <1>4, <2>1
    <2>3. (last - 1) + 1 = last
      BY <1>3
    <2>4. last - 1 <= m + Capacity
      BY <1>3, <2>2, <2>3 DEF Horizon
    <2>5. j <= m + Capacity \/ j = m + Capacity + 1
      BY <1>1, <1>3, <1>8, <2>4
    <2>6. (j + 1) % BusGroup = 0
      BY <1>3, <1>8
    <2> QED BY <1>5, <1>6, <2>5, <2>6 DEF Horizon
  <1> QED BY <1>7, <1>8

LEMMA ReadParityInv ==
  ASSUME OneStream, BusSound, NEW p \in Published, ReadParity(p)
  PROVE  BusSound'
  <1> DEFINE whole == Rebuilt(p)
             new == HandleAll(player, events')
  <1>1. /\ BusTypes /\ phase' = "top" /\ UNCHANGED <<setting, published>> /\ PushRecovered(whole)
        /\ player' = new /\ recorded' = recorded \cup {p}
    BY DEF ReadParity, BusSound
  <1>2. PICK j \in 0 .. Count - 1 : p = Place(j)
    BY <1>1, TheFacts
  <1>3. p.stream = TheStream /\ p.pos = j
    BY <1>2, PlaceFacts
  <1>4. /\ FirstOf(j) + BusGroup <= Count
        /\ LET numbers == {r.seq : r \in recorded}
           IN  {q \in GroupOf(TheStream, j) : q.seq \notin numbers} = {Place(j)}
    BY <1>2, <1>3 DEF ReadParity, Count
  <1>5. j \in Nat /\ Count \in 0 .. MaxPublished /\ j \in 0 .. MaxPublished + Capacity
    BY <1>1, TheFacts, Sizes
  <1>6. nextExpected # NoSeq
    <2> SUFFICES ASSUME nextExpected = NoSeq PROVE FALSE
      OBVIOUS
    <2>1. recorded = {}
      BY DEF BusSound
    <2>2. \A r \in recorded : Horizon(0, r.pos)
      BY <2>1
    <2> HIDE DEF new, whole
    <2> QED BY <1>1, <1>4, <2>1, <2>2, RebuiltNear
  <1>7. PICK t \in 1 .. Count : Waits(t)
    BY <1>6 DEF BusSound
  <1>8. PICK m \in 0 .. t : /\ t <= m + Capacity + 2
                            /\ Len(Queue) <= MaxQueue + (t - m) * Longest
                            /\ \A r \in ToPlay : Horizon(m, r.pos)
    BY <1>7 DEF Waits, SinceTrim
  <1>9. /\ nextExpected = NumberAt(t) /\ AheadOf(buffer, t)
        /\ Paced(Queue, ClockOf(player, t), player.altered)
        /\ t \in Nat /\ m \in Nat /\ Len(Queue) \in Nat
    BY <1>1, <1>7, <1>8, TheFacts, LenProperties DEF Waits, BusTypes, Plays, Queue
  <1>10. Horizon(m, j) /\ IsPlace(whole, j)
    <2>1. \A r \in recorded : Horizon(m, r.pos)
      BY <1>8 DEF ToPlay
    <2> HIDE DEF new
    <2> QED BY <1>1, <1>2, <1>4, <1>9, <2>1, RebuiltNear
  <1> HIDE DEF new, whole
  <1>11. /\ recorded' \subseteq {Place(i) : i \in 0 .. Count - 1}
         /\ \A r \in recorded' : Horizon(m, r.pos)
         /\ \A k \in DOMAIN buffer : Horizon(m, buffer[k].pos)
    BY <1>1, <1>2, <1>3, <1>8, <1>10 DEF BusTypes, ToPlay, Held
  <1>12. /\ j >= t => Distance(whole.seq, nextExpected) = j - t
         /\ j < t => Distance(whole.seq, nextExpected) > Half
         /\ whole.seq = nextExpected <=> j = t
         /\ Distance(whole.seq, nextExpected) \in Nat
    BY <1>1, <1>5, <1>9, <1>10, PlacesAhead DEF IsPlace
  <1>13. Plays(player) /\ QueueOf(player) = Queue
    BY <1>1 DEF BusTypes, Queue
  <1>14. CASE PushInOrder(whole)
    <2>1. j = t /\ ~ (j > t) /\ j \in t .. Count - 1 /\ AheadOf(buffer, j)
      BY <1>5, <1>9, <1>12, <1>14 DEF PushInOrder
    <2>2. DeliverAndDrain(whole, buffer, IF j > t THEN <<DroppedEvent(j - t)>> ELSE << >>)
      BY <1>14, <2>1 DEF PushInOrder
    <2>3. PICK e \in j + 1 .. Count :
            /\ nextExpected' = NumberAt(e) /\ AheadOf(buffer', e)
            /\ DOMAIN buffer' \subseteq DOMAIN buffer
            /\ \A k \in DOMAIN buffer' : buffer'[k] = buffer[k]
            /\ e - 1 = j \/ \E k \in DOMAIN buffer : IsPlace(buffer[k], e - 1)
            /\ Plays(new) /\ Paced(QueueOf(new), ClockOf(new, e), new.altered)
            /\ Len(QueueOf(new)) <= Len(Queue) + (e - t) * Longest
      BY <1>1, <1>9, <1>10, <2>1, <2>2, Delivered DEF new
    <2>4. /\ e \in Nat /\ e - 1 \in Nat /\ e > t /\ e \in 1 .. Count /\ Capacity \in Nat
          /\ m <= t /\ t <= e
      BY ONLY <1>5, <1>9, <2>1, Sizes, e \in j + 1 .. Count, m \in 0 .. t
    <2>5. Horizon(m, e - 1)
      <3>1. CASE e - 1 = j
        BY <1>10, <3>1
      <3>2. CASE \E k \in DOMAIN buffer : IsPlace(buffer[k], e - 1)
        BY <1>11, <3>2 DEF IsPlace
      <3> QED BY <2>3, <3>1, <3>2
    <2>6. e - 1 <= m + Capacity + 1
      BY <1>9, <2>4, <2>5, HorizonFacts
    <2>7. Len(QueueOf(new)) \in Nat
      BY <2>3, LenProperties DEF Plays
    <2>8. m \in 0 .. e /\ e <= m + Capacity + 2
      BY ONLY <1>9, <2>4, <2>6
    <2>9. Len(QueueOf(new)) <= MaxQueue + (e - m) * Longest
      BY <1>1, <1>8, <1>9, <2>3, <2>4, <2>7, StillBounded
    <2>10. \A k \in DOMAIN buffer' : Horizon(m, buffer'[k].pos)
      BY <1>11, <2>3
    <2> QED BY <1>1, <1>11, <2>3, <2>4, <2>8, <2>9, <2>10, NowWaits
  <1>15. CASE RecoverHold(whole)
    <2>1. j > t /\ j <= t + Capacity
      <3>1. whole.seq # nextExpected /\ Distance(whole.seq, nextExpected) <= Capacity
        BY <1>15 DEF RecoverHold, WithinWindow, Ahead
      <3>2. ~ (j < t)
        BY <1>12, <3>1, Sizes
      <3> QED BY <1>5, <1>9, <1>12, <3>1, <3>2, Sizes
    <2>2. j \in t + 1 .. t + Capacity /\ j < Count
      BY <1>5, <1>9, <2>1, Sizes
    <2>3. buffer' = With(buffer, whole) /\ nextExpected' = NumberAt(t) /\ AheadOf(buffer', t)
      BY <1>1, <1>9, <1>10, <1>15, <2>2, HoldsAhead DEF RecoverHold
    <2>4. player' = player
      BY <1>1, <1>15, HandleNothing DEF RecoverHold, new
    <2>5. \A k \in DOMAIN buffer' : Horizon(m, buffer'[k].pos)
      BY <1>10, <1>11, <2>3 DEF With, IsPlace
    <2> QED BY <1>1, <1>8, <1>9, <1>11, <1>13, <2>3, <2>4, <2>5, NowWaits
  <1>16. CASE RecoverIgnore(whole)
    <2>1. player' = player /\ nextExpected' = nextExpected /\ buffer' = buffer
      BY <1>1, <1>16, HandleNothing DEF RecoverIgnore, new
    <2> QED BY <1>1, <1>8, <1>9, <1>11, <1>13, <2>1, NowWaits
  <1> QED BY <1>1, <1>6, <1>14, <1>15, <1>16 DEF PushRecovered, PushFirst

-----------------------------------------------------------------------------
LEMMA BusStep == BusIInv /\ [BusNext]_busVars => BusIInv'
  <1> SUFFICES ASSUME BusIInv, [BusNext]_busVars PROVE BusIInv'
    OBVIOUS
  <1> SUFFICES ASSUME OneStream, Skew <= Capacity PROVE BusSound'
    BY DEF BusIInv, OneStream, TheStream
  <1>1. BusSound
    BY DEF BusIInv
  <1>2. ASSUME NEW s \in Streams, PublishNext(s) PROVE BusSound'
    BY <1>1, <1>2, PublishNextInv
  <1>3. CASE \E p \in Published : FirstIsOpus(p)
    BY <1>1, <1>3, PhaseInv DEF FirstIsOpus
  <1>4. CASE Stop \/ Fail \/ GiveUpWaiting \/ Open \/ StartPlaying
    BY <1>1, <1>4, PhaseInv DEF Stop, Fail, GiveUpWaiting, Open, StartPlaying
  <1>5. CASE Leave \/ NothingExpired \/ NothingRead
    BY <1>1, <1>5, PhaseInv DEF Leave, NothingExpired, NothingRead
  <1>6. CASE Callback
    BY <1>1, <1>6, CallbackInv
  <1>7. ASSUME NEW p \in Published, FirstPacket(p) \/ Prime(p) PROVE BusSound'
    BY <1>1, <1>7, FirstPacketInv, PrimeInv
  <1>8. CASE FlushFirst
    BY <1>1, <1>8, FlushFirstInv
  <1>9. ASSUME NEW p \in Published, ReadAudio(p) \/ ReadParity(p) PROVE BusSound'
    BY <1>1, <1>9, ReadAudioInv, ReadParityInv
  <1>10. CASE UNCHANGED busVars
    BY <1>1, <1>10, PhaseInv DEF busVars, loopVars, setting
  <1> QED BY <1>2, <1>3, <1>4, <1>5, <1>6, <1>7, <1>8, <1>9, <1>10
      DEF BusNext, Starting, Loop

LEMMA BusInvariant == BusSpec => []BusIInv
  <1>1. BusInit => BusIInv
    BY BusInitInv
  <1>2. BusIInv /\ [BusNext]_busVars => BusIInv'
    BY BusStep
  <1> QED BY <1>1, <1>2, PTL DEF BusSpec

(* ConcealmentKeepsTime: what run_receive_loop queues for the one stream   *)
(* of a session keeps its place in time but for the slack of each packet   *)
(* concealed or rebuilt, whatever is lost, late or repeated, and whatever  *)
(* the callback and trim_interleaved_queue took: for every size of the     *)
(* window, the FEC group, the packets and the queue, and every two rates.  *)
THEOREM KeepsTime == BusSpec => [](OneStream => ConcealmentKeepsTime)
  <1>1. BusIInv => (OneStream => ConcealmentKeepsTime)
    <2> SUFFICES ASSUME OneStream, Skew <= Capacity, BusSound,
                        NEW s \in DOMAIN player.queues,
                        NEW i \in DOMAIN player.queues[s], NEW j \in DOMAIN player.queues[s],
                        i <= j,
                        player.queues[s][i].kind = "audio", player.queues[s][j].kind = "audio"
                 PROVE  LET u == player.queues[s][i]
                            v == player.queues[s][j]
                        IN  v.time - u.time - (j - i) * inputRate
                              \in - (Slack * (v.after - u.after)) .. Slack * (v.after - u.after)
      BY DEF BusIInv, ConcealmentKeepsTime
    <2>1. BusTypes /\ s = TheStream /\ player.queues[s] = Queue
      BY DEF BusSound, BusTypes, Plays, OneStream, Queue, QueueOf, QueueIn
    <2>2. Queue \in Seq(Units) /\ DOMAIN Queue = 1 .. Len(Queue) /\ Len(Queue) \in Nat
      BY <2>1, LenProperties DEF BusTypes, Plays, Queue
    <2>3. i \in 1 .. Len(Queue) /\ j \in 1 .. Len(Queue) /\ j \in i .. Len(Queue)
      BY <2>1, <2>2
    <2>4. nextExpected # NoSeq
      BY <2>1, <2>3 DEF BusSound
    <2>5. PICK t \in 1 .. Count : Waits(t)
      BY <2>4 DEF BusSound
    <2>6. Leads(Queue[i].time, Queue[i].after, Queue[j].time, Queue[j].after, j - i)
      BY <2>1, <2>3, <2>5 DEF Waits, Paced
    <2> QED BY <2>1, <2>6 DEF Leads
  <1> QED BY <1>1, BusInvariant, PTL

(* PlayoutBounded: loss reports and rebuilt packets are queued without a   *)
(* trim, and still the queue exceeds the limit by no more than what one    *)
(* window can release and one packet rebuilt beyond the newest, each at    *)
(* most as long as a packet can be or become.                              *)
THEOREM DelayBounded == BusSpec => [](OneStream => PlayoutBounded)
  <1>1. BusIInv => (OneStream => PlayoutBounded)
    <2> SUFFICES ASSUME OneStream, Skew <= Capacity, BusSound, NEW s \in DOMAIN player.queues
                 PROVE  Len(player.queues[s]) <= MaxQueue + (Capacity + 2) * Longest
      BY DEF BusIInv, PlayoutBounded
    <2>1. BusTypes /\ s = TheStream /\ player.queues[s] = Queue
      BY DEF BusSound, BusTypes, Plays, OneStream, Queue, QueueOf, QueueIn
    <2>2. PICK l \in Nat, x \in Nat, c \in Nat, y \in Nat :
            l = Len(Queue) /\ x = MaxQueue /\ c = Capacity /\ y = Longest
      BY <2>1, LenProperties, Sizes, RateFacts DEF BusTypes, Plays, Queue
    <2>3. \E k \in 0 .. c + 2 : l <= x + k * y
      <3>1. CASE nextExpected = NoSeq
        <4>1. l <= x + y
          BY <2>2, <3>1 DEF BusSound
        <4>2. 1 * y = y /\ 1 \in 0 .. c + 2
          OBVIOUS
        <4> QED BY <4>1, <4>2
      <3>2. CASE nextExpected # NoSeq
        <4>1. PICK t \in 1 .. Count : Waits(t)
          BY <3>2 DEF BusSound
        <4>2. PICK m \in 0 .. t : t <= m + c + 2 /\ l <= x + (t - m) * y
          BY <2>2, <4>1 DEF Waits, SinceTrim
        <4>3. t \in Nat
          BY <2>1, TheFacts
        <4>4. t - m \in 0 .. c + 2
          <5>1. t <= m + c + 2 /\ m <= t /\ m \in Nat
            BY <4>2, <4>3
          <5> QED BY ONLY <4>3, <5>1, c \in Nat
        <4> QED BY <4>2, <4>4
      <3> QED BY <3>1, <3>2
    <2>4. PICK k \in 0 .. c + 2 : l <= x + k * y
      BY <2>3
    <2>5. k * y <= (c + 2) * y
      <3>1. y * k <= y * (c + 2)
        BY ProductFacts
      <3> QED BY <3>1
    <2>6. PICK v \in Int, w \in Int : v = k * y /\ w = (c + 2) * y
      OBVIOUS
    <2>7. l <= x + w
      <3>1. l <= x + v /\ v <= w
        BY <2>4, <2>5, <2>6
      <3> QED BY ONLY <3>1, l \in Nat, x \in Nat, v \in Int, w \in Int
    <2> QED BY <2>1, <2>2, <2>6, <2>7
  <1> QED BY <1>1, BusInvariant, PTL

-----------------------------------------------------------------------------
(* Forward error correction, on a network that is no later than the        *)
(* decoder's history is long, while the numbers of the packets grow.       *)

FecFits ==
  /\ MaxSkew <= HistoryCapacity
  /\ \A n \in FecFirstSeqs : n + FecMaxSent <= FecSpace

Lens == [pos \in 1 .. NumberSent |-> Len(fecSent[pos].payload)]

(* The bytes are the parity of the n packets from position b on.           *)
Covers(bytes, b, n, lens) ==
  /\ bytes \in Seq(SUBSET Nat)
  /\ \A pos \in b .. b + n - 1 : lens[pos] <= Len(bytes)
  /\ \A i \in 1 .. Len(bytes) : bytes[i] = {pos \in b .. b + n - 1 : i <= lens[pos]}

FecTypes ==
  /\ first \in FecFirstSeqs
  /\ fecSent \in Seq([seq : Nat, payload : Seq(SUBSET Nat)]) /\ NumberSent <= FecMaxSent
  /\ \A pos \in 1 .. NumberSent :
       fecSent[pos] = [seq |-> FecSeqOf(pos), payload |-> Payload(pos, Lens[pos])]
  /\ flying \subseteq 1 .. NumberSent /\ received \subseteq 1 .. NumberSent

(* Where the group begins that has no parity packet yet.                   *)
OpenGroup == IF count = 0 THEN NumberSent + 1 ELSE base

Encoding ==
  /\ count \in 0 .. FecGroupSize - 1
  /\ count > 0 =>
       base \in 1 .. NumberSent /\ base + count = NumberSent + 1
       /\ Covers(parity, base, count, Lens)

(* The groups whose parity is under way lie side by side.                  *)
ParitiesKnown ==
  /\ \A f \in parities :
       /\ f.base \in Nat \ {0} /\ f.count = FecGroupSize /\ f.base + FecGroupSize <= OpenGroup
       /\ Covers(f.payload, f.base, f.count, Lens) /\ f.length = Lens[f.base]
  /\ \A f, g \in parities :
       f = g \/ f.base + FecGroupSize <= g.base \/ g.base + FecGroupSize <= f.base

(* Of a group that may still be repaired nothing was rebuilt, so what the  *)
(* decoder remembers of it is what was sent.                               *)
Unrepaired(pos) == pos >= OpenGroup \/ \E f \in parities : pos \in FecGroup(f)

HistoryKnown ==
  /\ DOMAIN history \subseteq {FecSeqOf(pos) : pos \in received}
  /\ \A pos \in received :
       \/ FecSeqOf(pos) \in DOMAIN history /\
            (Unrepaired(pos) => history[FecSeqOf(pos)] = fecSent[pos].payload)
       \/ FecSeqOf(pos) \notin DOMAIN history /\ pos + HistoryCapacity <= NumberSent

RebuiltKnown == RebuiltIsOwn /\ \A p \in rebuilt : p.pos \in 1 .. NumberSent

FecSound == FecTypes /\ Encoding /\ ParitiesKnown /\ HistoryKnown /\ RebuiltKnown

FecIInv == FecFits => FecSound

-----------------------------------------------------------------------------
LEMMA FecSizes ==
  /\ FecGroupSize \in Nat /\ FecGroupSize >= 2 /\ HistoryCapacity \in Nat
  /\ HistoryCapacity >= FecGroupSize /\ FecSpace \in Nat /\ FecSpace > HistoryCapacity
  /\ FecMaxSent \in Nat /\ MaxSkew \in Nat
  BY FecAssumption

(* While the numbers grow, they are the positions but for an offset.       *)
LEMMA Offset ==
  ASSUME FecFits, FecTypes, NEW pos \in 1 .. FecMaxSent
  PROVE  FecSeqOf(pos) = first + pos - 1 /\ FecSeqOf(pos) \in Nat /\ first \in Nat
  <1>1. first \in Nat /\ first + FecMaxSent <= FecSpace
    BY FecAssumption DEF FecTypes, FecFits
  <1>2. first + pos - 1 \in 0 .. FecSpace - 1 /\ FecSpace \in Nat /\ FecSpace > 0
    BY <1>1, FecSizes
  <1>3. \A x \in 0 .. FecSpace - 1 : x % FecSpace = x
    BY <1>2
  <1> QED BY <1>1, <1>2, <1>3 DEF FecSeqOf

LEMMA Apart ==
  ASSUME FecFits, FecTypes
  PROVE  /\ NumberSent \in Nat
         /\ \A pos \in 1 .. NumberSent : pos \in 1 .. FecMaxSent
         /\ \A pos, other \in 1 .. NumberSent : FecSeqOf(pos) = FecSeqOf(other) => pos = other
  <1>1. NumberSent \in Nat /\ NumberSent <= FecMaxSent
    BY LenProperties DEF FecTypes, NumberSent
  <1>2. \A pos \in 1 .. NumberSent : pos \in 1 .. FecMaxSent
    BY <1>1, FecSizes
  <1>3. ASSUME NEW pos \in 1 .. NumberSent, NEW other \in 1 .. NumberSent,
               FecSeqOf(pos) = FecSeqOf(other)
        PROVE  pos = other
    <2>1. FecSeqOf(pos) = first + pos - 1 /\ FecSeqOf(other) = first + other - 1 /\ first \in Nat
      BY <1>2, Offset
    <2>2. first + pos - 1 = first + other - 1
      BY <1>3, <2>1
    <2>3. pos \in Nat /\ other \in Nat /\ first \in Nat
      BY <1>1, <2>1
    <2> QED BY ONLY <2>2, <2>3
  <1> QED BY <1>1, <1>2, <1>3

-----------------------------------------------------------------------------
(* The encoder: each packet joins the parity of its group.                 *)

LEMMA PayloadFacts ==
  ASSUME NEW pos \in Nat, NEW n \in Nat
  PROVE  /\ Payload(pos, n) \in Seq(SUBSET Nat) /\ Len(Payload(pos, n)) = n
         /\ \A i \in 1 .. n : Payload(pos, n)[i] = {pos}
  <1>1. Payload(pos, n) \in [1 .. n -> SUBSET Nat]
    BY DEF Payload
  <1>2. \A i \in 1 .. n : Payload(pos, n)[i] = {pos}
    BY DEF Payload
  <1> QED BY <1>1, <1>2, RunIsSeq

LEMMA CoversOne ==
  ASSUME NEW pos \in Nat, NEW lens, lens[pos] \in Nat
  PROVE  Covers(Payload(pos, lens[pos]), pos, 1, lens)
  <1>1. \A other \in pos .. pos + 1 - 1 : other = pos
    OBVIOUS
  <1>2. \A i \in 1 .. lens[pos] : i <= lens[pos]
    OBVIOUS
  <1> DEFINE bytes == Payload(pos, lens[pos])
  <1>3. /\ bytes \in Seq(SUBSET Nat) /\ Len(bytes) = lens[pos]
        /\ \A i \in 1 .. lens[pos] : bytes[i] = {pos}
    BY PayloadFacts
  <1> HIDE DEF bytes
  <1>4. pos \in pos .. pos + 1 - 1
    OBVIOUS
  <1>5. \A i \in 1 .. Len(bytes) : bytes[i] = {other \in pos .. pos + 1 - 1 : i <= lens[other]}
    BY <1>1, <1>2, <1>3, <1>4
  <1>6. \A other \in pos .. pos + 1 - 1 : lens[other] <= Len(bytes)
    BY <1>1, <1>3
  <1>7. Covers(bytes, pos, 1, lens)
    BY <1>3, <1>5, <1>6 DEF Covers
  <1> QED BY <1>7 DEF bytes

LEMMA CoversMore ==
  ASSUME NEW b \in Nat, NEW n \in Nat, NEW lens, \A pos \in b .. b + n : lens[pos] \in Nat,
         NEW bytes, Covers(bytes, b, n, lens)
  PROVE  Covers(XorInto(bytes, Payload(b + n, lens[b + n])), b, n + 1, lens)
  <1> DEFINE more == Payload(b + n, lens[b + n])
             joined == XorInto(bytes, more)
             len == LargerOf(Len(bytes), Len(more))
  <1>1. /\ b + n \in Nat /\ lens[b + n] \in Nat /\ Len(bytes) \in Nat
        /\ Len(more) = lens[b + n] /\ \A i \in 1 .. Len(more) : more[i] = {b + n}
    <2>1. b + n \in Nat /\ b + n \in b .. b + n
      OBVIOUS
    <2>2. Len(bytes) \in Nat
      BY LenProperties DEF Covers
    <2> QED BY <2>1, <2>2, PayloadFacts
  <1> HIDE DEF more
  <1>2. len \in Nat /\ len >= Len(bytes) /\ len >= Len(more) /\ (len = Len(bytes) \/ len = Len(more))
    BY <1>1 DEF LargerOf
  <1>3. \A i \in 1 .. len :
          joined[i] = {pos \in b .. b + n : i <= lens[pos]}
    <2> TAKE i \in 1 .. len
    <2>1. i \in Nat /\ i >= 1
      BY <1>2
    <2>2. joined[i] = CASE i <= Len(bytes) /\ i <= Len(more) -> Xor(bytes[i], more[i])
                        [] i > Len(more) -> bytes[i]
                        [] i > Len(bytes) -> more[i]
      BY DEF XorInto
    <2>3. i <= Len(bytes) => bytes[i] = {pos \in b .. b + n - 1 : i <= lens[pos]}
      BY <1>1, <2>1 DEF Covers
    <2>4. i > Len(bytes) => \A pos \in b .. b + n - 1 : ~ (i <= lens[pos])
      <3> SUFFICES ASSUME i > Len(bytes), NEW pos \in b .. b + n - 1 PROVE ~ (i <= lens[pos])
        OBVIOUS
      <3>1. lens[pos] <= Len(bytes)
        BY DEF Covers
      <3>2. lens[pos] \in Nat
        <4>1. pos \in b .. b + n
          OBVIOUS
        <4> QED BY <4>1
      <3> QED BY <1>1, <2>1, <3>1, <3>2
    <2>5. i <= Len(more) => more[i] = {b + n} /\ i <= lens[b + n]
      BY <1>1, <2>1
    <2>6. i > Len(more) => ~ (i <= lens[b + n])
      BY <1>1, <2>1
    <2>7. \A pos : pos \in b .. b + n <=> (pos \in b .. b + n - 1 \/ pos = b + n)
      OBVIOUS
    <2>8. b + n \notin b .. b + n - 1
      OBVIOUS
    <2>9. CASE i <= Len(bytes) /\ i <= Len(more)
      <3>1. joined[i] = Xor(bytes[i], more[i])
        BY <1>1, <2>1, <2>2, <2>9
      <3>2. /\ bytes[i] = {pos \in b .. b + n - 1 : i <= lens[pos]}
            /\ more[i] = {b + n} /\ i <= lens[b + n]
        BY <2>3, <2>5, <2>9
      <3> HIDE DEF joined, len
      <3> QED BY <2>7, <2>8, <3>1, <3>2 DEF Xor
    <2>10. CASE i <= Len(bytes) /\ i > Len(more)
      <3>1. joined[i] = bytes[i]
        BY <1>1, <2>1, <2>2, <2>10
      <3>2. bytes[i] = {pos \in b .. b + n - 1 : i <= lens[pos]} /\ ~ (i <= lens[b + n])
        BY <2>3, <2>6, <2>10
      <3> HIDE DEF joined, len
      <3> QED BY <2>7, <3>1, <3>2
    <2>11. CASE i > Len(bytes)
      <3>1. i <= Len(more)
        BY <1>1, <1>2, <2>1, <2>11
      <3>2. joined[i] = more[i]
        BY <1>1, <2>1, <2>2, <2>11, <3>1
      <3>3. more[i] = {b + n} /\ i <= lens[b + n]
        BY <2>5, <3>1
      <3> HIDE DEF joined, len
      <3> QED BY <2>4, <2>7, <2>11, <3>2, <3>3
    <2> QED BY <1>1, <2>1, <2>9, <2>10, <2>11
  <1>4. joined \in Seq(SUBSET Nat) /\ Len(joined) = len
    <2>1. \A i \in 1 .. len : joined[i] \in SUBSET Nat
      <3>1. \A pos \in b .. b + n : pos \in Nat
        OBVIOUS
      <3> HIDE DEF joined, len
      <3> QED BY <1>3, <3>1
    <2>2. joined \in [1 .. len -> SUBSET Nat]
      <3>1. joined = [i \in 1 .. len |-> joined[i]]
        BY DEF XorInto
      <3> HIDE DEF joined, len
      <3> QED BY <2>1, <3>1
    <2> HIDE DEF joined, len
    <2> QED BY <1>2, <2>2, RunIsSeq
  <1>5. \A pos \in b .. b + n : lens[pos] <= len
    <2> TAKE pos \in b .. b + n
    <2>1. pos \in b .. b + n - 1 \/ pos = b + n
      OBVIOUS
    <2>2. pos \in b .. b + n - 1 => lens[pos] <= Len(bytes)
      BY DEF Covers
    <2>3. lens[pos] \in Nat
      OBVIOUS
    <2> HIDE DEF len
    <2> QED BY <1>1, <1>2, <2>1, <2>2, <2>3
  <1>6. b .. b + (n + 1) - 1 = b .. b + n
    OBVIOUS
  <1> HIDE DEF joined, len
  <1>7. Covers(joined, b, n + 1, lens)
    BY <1>3, <1>4, <1>5, <1>6 DEF Covers
  <1> QED BY <1>7 DEF joined, more

LEMMA CoversSame ==
  ASSUME NEW bytes, NEW b, NEW n, NEW lens, NEW others,
         \A pos \in b .. b + n - 1 : others[pos] = lens[pos], Covers(bytes, b, n, lens)
  PROVE  Covers(bytes, b, n, others)
  BY DEF Covers

LEMMA FecInitInv == FecInit => FecIInv
  <1> SUFFICES ASSUME FecInit, FecFits PROVE FecSound
    BY DEF FecIInv
  <1>1. fecSent = << >> /\ NumberSent = 0 /\ count = 0 /\ first \in FecFirstSeqs
        /\ flying = {} /\ parities = {} /\ received = {} /\ rebuilt = {} /\ DOMAIN history = {}
    BY DEF FecInit, NumberSent
  <1>2. FecTypes
    <2>1. << >> \in Seq([seq : Nat, payload : Seq(SUBSET Nat)])
      OBVIOUS
    <2> QED BY <1>1, <2>1, FecSizes DEF FecTypes
  <1>3. Encoding
    BY <1>1, FecSizes DEF Encoding
  <1> QED BY <1>1, <1>2, <1>3 DEF FecSound, ParitiesKnown, HistoryKnown, RebuiltKnown, RebuiltIsOwn

(* What a packet sent leaves of those before it.                           *)
LEMMA AfterSend ==
  ASSUME FecFits, FecTypes, NEW length \in Lengths, Send(length)
  PROVE  /\ NumberSent' = NumberSent + 1 /\ NumberSent' <= FecMaxSent /\ NumberSent \in Nat
         /\ \A pos \in 1 .. NumberSent : fecSent'[pos] = fecSent[pos] /\ Lens'[pos] = Lens[pos]
         /\ Lens'[NumberSent + 1] = length /\ length \in Nat
         /\ \A pos \in 1 .. NumberSent + 1 : Lens'[pos] \in Nat
         /\ \A pos : FecSeqOf(pos)' = FecSeqOf(pos)
         /\ FecTypes'
  <1> DEFINE pos == NumberSent + 1
             packet == [seq |-> FecSeqOf(pos), payload |-> Payload(pos, length)]
             Packet == [seq : Nat, payload : Seq(SUBSET Nat)]
  <1>1. /\ NumberSent \in Nat /\ NumberSent < FecMaxSent /\ fecSent \in Seq(Packet)
        /\ fecSent' = Append(fecSent, packet) /\ length \in Nat
        /\ UNCHANGED <<first, received>> /\ flying' = flying \cup {pos}
    <2>1. NumberSent \in Nat /\ fecSent \in Seq(Packet) /\ length \in Nat
      BY Apart, FecAssumption DEF FecTypes
    <2> QED BY <2>1 DEF Send, decoderVars
  <1>2. pos \in 1 .. FecMaxSent /\ pos \in Nat
    BY <1>1, FecSizes
  <1>3. packet \in Packet
    <2>1. FecSeqOf(pos) \in Nat
      BY <1>2, Offset
    <2>2. Payload(pos, length) \in Seq(SUBSET Nat)
      BY <1>1, <1>2, PayloadFacts
    <2> QED BY <2>1, <2>2
  <1>4. packet.seq = FecSeqOf(pos) /\ packet.payload = Payload(pos, length)
        /\ Len(packet.payload) = length
    BY <1>1, <1>2, PayloadFacts
  <1> HIDE DEF packet, Packet
  <1>5. /\ fecSent' \in Seq(Packet) /\ Len(fecSent') = NumberSent + 1
        /\ \A i \in 1 .. NumberSent : fecSent'[i] = fecSent[i]
        /\ fecSent'[NumberSent + 1] = packet
    BY <1>1, <1>3, AppendProperties DEF NumberSent
  <1>6. NumberSent' = NumberSent + 1
    BY <1>5 DEF NumberSent
  <1>7. Lens' = [i \in 1 .. NumberSent + 1 |-> Len(fecSent'[i].payload)]
    BY <1>6 DEF Lens
  <1>8. \A i \in 1 .. NumberSent : Lens'[i] = Lens[i] /\ i \in 1 .. NumberSent + 1
    <2> TAKE i \in 1 .. NumberSent
    <2>1. i \in 1 .. NumberSent + 1
      BY <1>1
    <2>2. fecSent'[i] = fecSent[i]
      BY <1>5
    <2>3. Lens'[i] = Len(fecSent'[i].payload)
      BY <1>7, <2>1
    <2> QED BY <2>1, <2>2, <2>3 DEF Lens
  <1>9. Lens'[NumberSent + 1] = length
    BY <1>1, <1>4, <1>5, <1>7
  <1>10. \A i \in 1 .. NumberSent + 1 : Lens'[i] \in Nat
    <2> TAKE i \in 1 .. NumberSent + 1
    <2>1. CASE i = NumberSent + 1
      BY <1>1, <1>9, <2>1
    <2>2. CASE i # NumberSent + 1
      <3>1. i \in 1 .. NumberSent
        BY <1>1, <2>2
      <3>2. fecSent[i] \in Packet
        BY <1>1, <3>1, ElementOfSeq DEF NumberSent
      <3>3. Len(fecSent[i].payload) \in Nat
        BY <3>2, LenProperties DEF Packet
      <3> QED BY <1>8, <3>1, <3>3 DEF Lens
    <2> QED BY <2>1, <2>2
  <1>11. \A i : FecSeqOf(i)' = FecSeqOf(i)
    BY <1>1 DEF FecSeqOf
  <1>12. FecTypes'
    <2>1. \A i \in 1 .. NumberSent + 1 :
            fecSent'[i] = [seq |-> FecSeqOf(i), payload |-> Payload(i, Lens'[i])]
      <3> TAKE i \in 1 .. NumberSent + 1
      <3>1. CASE i = NumberSent + 1
        BY <1>5, <1>9, <3>1 DEF packet
      <3>2. CASE i # NumberSent + 1
        <4>1. i \in 1 .. NumberSent
          BY <1>1, <3>2
        <4> QED BY <1>5, <1>8, <4>1 DEF FecTypes
      <3> QED BY <3>1, <3>2
    <2>2. flying' \subseteq 1 .. NumberSent' /\ received' \subseteq 1 .. NumberSent'
      <3>1. 1 .. NumberSent \subseteq 1 .. NumberSent' /\ pos \in 1 .. NumberSent'
        BY <1>1, <1>6
      <3> QED BY <1>1, <3>1 DEF FecTypes
    <2>3. first' \in FecFirstSeqs /\ NumberSent' <= FecMaxSent
      BY <1>1, <1>6, FecSizes DEF FecTypes
    <2>4. Payload(1, 1)' = Payload(1, 1)
      BY DEF Payload
    <2> QED BY <1>5, <1>6, <1>11, <2>1, <2>2, <2>3 DEF FecTypes, Payload, Packet
  <1>13. NumberSent' <= FecMaxSent
    BY <1>1, <1>6, FecSizes
  <1> QED BY <1>1, <1>5, <1>6, <1>8, <1>9, <1>10, <1>11, <1>12, <1>13

LEMMA SendInv ==
  ASSUME FecFits, FecSound, NEW length \in Lengths, Send(length)
  PROVE  FecSound'
  <1> DEFINE pos == NumberSent + 1
             payload == Payload(pos, length)
             group == IF count = 0 THEN pos ELSE base
             joined == IF count = 0 THEN payload ELSE XorInto(parity, payload)
             new == [base |-> group, count |-> count + 1, payload |-> joined,
                     length |-> IF count = 0 THEN length ELSE Len(fecSent[group].payload)]
  <1>1. FecTypes /\ Encoding /\ ParitiesKnown /\ HistoryKnown /\ RebuiltKnown
    BY DEF FecSound
  <1>2. /\ NumberSent' = NumberSent + 1 /\ NumberSent \in Nat
        /\ \A i \in 1 .. NumberSent : fecSent'[i] = fecSent[i] /\ Lens'[i] = Lens[i]
        /\ Lens'[pos] = length /\ length \in Nat
        /\ \A i \in 1 .. pos : Lens'[i] \in Nat
        /\ \A i : FecSeqOf(i)' = FecSeqOf(i)
        /\ FecTypes'
    BY <1>1, AfterSend
  <1>3. /\ base' = group /\ UNCHANGED <<received, history, rebuilt>>
        /\ IF count + 1 >= FecGroupSize
           THEN count' = 0 /\ parities' = parities \cup {new}
           ELSE count' = count + 1 /\ parity' = joined /\ parities' = parities
    BY DEF Send, decoderVars
  <1>4. /\ count \in Nat /\ count < FecGroupSize /\ FecGroupSize \in Nat /\ FecGroupSize >= 2
        /\ count # 0 => /\ base \in 1 .. NumberSent /\ base + count = pos
                        /\ Covers(parity, base, count, Lens)
    BY <1>1, FecSizes DEF Encoding
  <1>5. group = OpenGroup /\ group \in 1 .. pos /\ group + (count + 1) = pos + 1
    <2>1. CASE count = 0
      BY <1>2, <2>1 DEF OpenGroup
    <2>2. CASE count # 0
      <3>1. group = base /\ group = OpenGroup
        BY <2>2 DEF OpenGroup
      <3>2. base \in 1 .. NumberSent /\ base + count = pos
        BY <1>4, <2>2
      <3> HIDE DEF group
      <3> QED BY <1>2, <1>4, <3>1, <3>2
    <2> QED BY <2>1, <2>2
  <1>6. Covers(joined, group, count + 1, Lens')
    <2>1. CASE count = 0
      <3>1. Covers(Payload(pos, Lens'[pos]), pos, 1, Lens')
        BY <1>2, CoversOne
      <3>2. joined = Payload(pos, Lens'[pos]) /\ group = pos /\ count + 1 = 1
        BY <1>2, <2>1
      <3> HIDE DEF joined, group, pos
      <3> QED BY <3>1, <3>2
    <2>2. CASE count # 0
      <3>1. \A i \in base .. base + count - 1 : Lens'[i] = Lens[i]
        <4>1. \A i \in base .. base + count - 1 : i \in 1 .. NumberSent
          BY <1>2, <1>4, <2>2
        <4> QED BY <1>2, <4>1
      <3>2. Covers(parity, base, count, Lens')
        BY <1>4, <2>2, <3>1, CoversSame
      <3>3. \A i \in base .. base + count : Lens'[i] \in Nat
        <4>1. \A i \in base .. base + count : i \in 1 .. pos
          BY <1>2, <1>4, <2>2
        <4> QED BY <1>2, <4>1
      <3>4. base \in Nat
        BY <1>4, <2>2
      <3>5. Covers(XorInto(parity, Payload(base + count, Lens'[base + count])), base, count + 1, Lens')
        BY <1>4, <3>2, <3>3, <3>4, CoversMore
      <3>6. base + count = pos /\ group = base /\ joined = XorInto(parity, Payload(pos, Lens'[pos]))
        BY <1>2, <1>4, <2>2
      <3> HIDE DEF joined, group, pos
      <3> QED BY <3>5, <3>6
    <2> QED BY <2>1, <2>2
  <1> HIDE DEF joined
  <1>7. new.length = Lens'[group]
    <2>1. CASE count = 0
      BY <1>2, <2>1
    <2>2. CASE count # 0
      <3>1. group = base /\ base \in 1 .. NumberSent /\ new.length = Len(fecSent[base].payload)
        BY <1>4, <2>2
      <3> HIDE DEF new, group
      <3> QED BY <1>2, <3>1 DEF Lens
    <2> QED BY <2>1, <2>2
  <1>8. new.base = group /\ new.count = count + 1 /\ new.payload = joined
    OBVIOUS
  <1> HIDE DEF new, group
  <1>9. /\ Encoding' /\ OpenGroup' \in Nat /\ OpenGroup' >= group
        /\ \A f \in parities' : f \in parities \/ (f = new /\ count + 1 = FecGroupSize /\ OpenGroup' = group + FecGroupSize)
    <2>1. CASE count + 1 >= FecGroupSize
      <3>1. count' = 0 /\ parities' = parities \cup {new} /\ count + 1 = FecGroupSize
        BY <1>3, <1>4, <2>1
      <3>2. OpenGroup' = NumberSent' + 1
        BY <3>1 DEF OpenGroup
      <3>3. OpenGroup' = group + FecGroupSize /\ OpenGroup' \in Nat /\ OpenGroup' >= group
        BY <1>2, <1>4, <1>5, <3>1, <3>2
      <3>4. Encoding'
        BY <1>4, <3>1 DEF Encoding
      <3> QED BY <3>1, <3>3, <3>4
    <2>2. CASE ~ (count + 1 >= FecGroupSize)
      <3>1. count' = count + 1 /\ parity' = joined /\ parities' = parities /\ base' = group
        BY <1>3, <2>2
      <3>2. count' # 0 /\ count' \in 0 .. FecGroupSize - 1
        BY <1>4, <2>2, <3>1
      <3>3. OpenGroup' = group
        BY <3>1, <3>2 DEF OpenGroup
      <3>4. base' \in 1 .. NumberSent' /\ base' + count' = NumberSent' + 1
        BY <1>2, <1>5, <3>1
      <3>5. Encoding'
        BY <1>6, <3>1, <3>2, <3>4 DEF Encoding, Covers
      <3>6. OpenGroup' \in Nat /\ OpenGroup' >= group
        BY <1>2, <1>5, <3>3
      <3> QED BY <3>1, <3>5, <3>6
    <2> QED BY <2>1, <2>2
  <1>10. ParitiesKnown'
    <2>1. \A f \in parities : f.base \in Nat \ {0} /\ f.base + FecGroupSize <= group
                              /\ f.base \in 1 .. NumberSent
                              /\ \A i \in f.base .. f.base + f.count - 1 : i \in 1 .. NumberSent
      <3> TAKE f \in parities
      <3>1. f.base \in Nat \ {0} /\ f.count = FecGroupSize /\ f.base + FecGroupSize <= group
        BY <1>1, <1>5 DEF ParitiesKnown
      <3> QED BY <1>2, <1>4, <1>5, <3>1
    <2>2. ASSUME NEW f \in parities'
          PROVE  /\ f.base \in Nat \ {0} /\ f.count = FecGroupSize
                 /\ f.base + FecGroupSize <= OpenGroup'
                 /\ Covers(f.payload, f.base, f.count, Lens') /\ f.length = Lens'[f.base]
      <3>1. CASE f \in parities
        <4>1. /\ f.count = FecGroupSize /\ Covers(f.payload, f.base, f.count, Lens)
              /\ f.length = Lens[f.base]
          BY <1>1, <3>1 DEF ParitiesKnown
        <4>2. Covers(f.payload, f.base, f.count, Lens')
          <5>1. \A i \in f.base .. f.base + f.count - 1 : Lens'[i] = Lens[i]
            BY <1>2, <2>1, <3>1
          <5> QED BY <4>1, <5>1, CoversSame
        <4>3. f.length = Lens'[f.base]
          BY <1>2, <2>1, <3>1, <4>1
        <4>4. f.base + FecGroupSize <= OpenGroup'
          BY <1>2, <1>4, <1>5, <1>9, <2>1, <3>1
        <4> QED BY <2>1, <3>1, <4>1, <4>2, <4>3, <4>4
      <3>2. CASE f = new /\ count + 1 = FecGroupSize /\ OpenGroup' = group + FecGroupSize
        <4>1. f.base = group /\ f.count = FecGroupSize /\ group \in Nat \ {0} /\ f.payload = joined
          BY <1>2, <1>5, <1>8, <3>2
        <4>2. f.base + FecGroupSize <= OpenGroup'
          BY <1>4, <3>2, <4>1
        <4> QED BY <1>6, <1>7, <3>2, <4>1, <4>2
      <3> QED BY <1>9, <3>1, <3>2
    <2>3. ASSUME NEW f \in parities', NEW g \in parities'
          PROVE  f = g \/ f.base + FecGroupSize <= g.base \/ g.base + FecGroupSize <= f.base
      <3>1. CASE f \in parities /\ g \in parities
        BY <1>1, <3>1 DEF ParitiesKnown
      <3>2. CASE f \in parities /\ g = new
        BY <1>8, <2>1, <3>2
      <3>3. CASE f = new /\ g \in parities
        BY <1>8, <2>1, <3>3
      <3>4. CASE f = new /\ g = new
        BY <3>4
      <3> QED BY <1>9, <3>1, <3>2, <3>3, <3>4
    <2> QED BY <2>2, <2>3 DEF ParitiesKnown, Covers
  <1>11. HistoryKnown'
    <2>1. ASSUME NEW i \in received, Unrepaired(i)' PROVE Unrepaired(i)
      <3>1. i \in 1 .. NumberSent
        BY <1>1 DEF FecTypes
      <3>2. CASE i >= OpenGroup'
        BY <1>2, <1>5, <1>9, <3>1, <3>2 DEF Unrepaired
      <3>3. CASE \E f \in parities' : i \in FecGroup(f)
        <4>1. PICK f \in parities' : i \in FecGroup(f)
          BY <3>3
        <4>2. CASE f \in parities
          BY <4>1, <4>2 DEF Unrepaired
        <4>3. CASE f = new
          <5>1. i >= group
            BY <1>8, <4>1, <4>3 DEF FecGroup
          <5> QED BY <1>5, <5>1 DEF Unrepaired
        <4> QED BY <1>9, <4>2, <4>3
      <3> QED BY <2>1, <3>2, <3>3 DEF Unrepaired, FecGroup
    <2>2. \A i \in received : i \in 1 .. NumberSent
      BY <1>1 DEF FecTypes
    <2>3. ASSUME NEW i \in received
          PROVE  \/ FecSeqOf(i) \in DOMAIN history' /\
                      (Unrepaired(i)' => history'[FecSeqOf(i)] = fecSent'[i].payload)
                 \/ FecSeqOf(i) \notin DOMAIN history' /\ i + HistoryCapacity <= NumberSent'
      <3>1. i + HistoryCapacity <= NumberSent => i + HistoryCapacity <= NumberSent'
        BY <1>2, <2>2, FecSizes
      <3>2. fecSent'[i] = fecSent[i] /\ history' = history
        BY <1>2, <1>3, <2>2
      <3> QED BY <1>1, <2>1, <3>1, <3>2 DEF HistoryKnown
    <2> QED BY <1>1, <1>2, <1>3, <2>3 DEF HistoryKnown
  <1>12. RebuiltKnown'
    <2>1. \A p \in rebuilt : p.pos \in 1 .. NumberSent /\ fecSent'[p.pos] = fecSent[p.pos]
      BY <1>1, <1>2 DEF RebuiltKnown
    <2>2. \A i \in 1 .. NumberSent : i \in 1 .. NumberSent'
      BY <1>2
    <2> QED BY <1>1, <1>3, <2>1, <2>2 DEF RebuiltKnown, RebuiltIsOwn
  <1> QED BY <1>2, <1>9, <1>10, <1>11, <1>12 DEF FecSound

-----------------------------------------------------------------------------
(* The decoder's history: it drops what is a whole history old.            *)

LEMMA RecordedFacts ==
  ASSUME FecFits, FecSound, NEW pos \in 1 .. NumberSent, NEW payload
  PROVE  LET h == Recorded(history, FecSeqOf(pos), payload)
         IN  /\ DOMAIN h \subseteq {FecSeqOf(p) : p \in received \cup {pos}}
             /\ FecSeqOf(pos) \in DOMAIN h => h[FecSeqOf(pos)] = payload
             /\ FecSeqOf(pos) \notin DOMAIN h => pos + HistoryCapacity <= NumberSent
             /\ \A p \in received \ {pos} :
                  \/ /\ FecSeqOf(p) \in DOMAIN h /\ FecSeqOf(p) \in DOMAIN history
                     /\ h[FecSeqOf(p)] = history[FecSeqOf(p)]
                  \/ FecSeqOf(p) \notin DOMAIN h /\ p + HistoryCapacity <= NumberSent
  <1> DEFINE seq == FecSeqOf(pos)
             known == received \cup {pos}
             with == [k \in DOMAIN history \cup {seq} |-> IF k = seq THEN payload ELSE history[k]]
             oldest == CHOOSE k \in DOMAIN with : \A j \in DOMAIN with : k <= j
             h == Recorded(history, seq, payload)
  <1>1. FecTypes /\ HistoryKnown /\ received \subseteq 1 .. NumberSent
    BY DEF FecSound, FecTypes
  <1>2. /\ NumberSent \in Nat /\ first \in Nat /\ HistoryCapacity \in Nat
        /\ \A p \in known : p \in 1 .. NumberSent /\ p \in Nat
        /\ \A p \in known : FecSeqOf(p) = first + p - 1 /\ FecSeqOf(p) \in Nat
        /\ \A p \in known : FecSeqOf(p) = seq => p = pos
    <2>1. \A p \in known : p \in 1 .. NumberSent
      BY <1>1
    <2>2. \A p \in known : p \in 1 .. FecMaxSent /\ NumberSent \in Nat
      BY <1>1, <2>1, Apart
    <2>3. \A p \in known : FecSeqOf(p) = first + p - 1 /\ FecSeqOf(p) \in Nat /\ first \in Nat
      BY <1>1, <2>2, Offset
    <2>4. \A p \in known : FecSeqOf(p) = seq => p = pos
      BY <1>1, <2>1, Apart
    <2> QED BY <2>1, <2>2, <2>3, <2>4, FecSizes
  <1>3. /\ DOMAIN with = DOMAIN history \cup {seq}
        /\ with[seq] = payload
        /\ \A k \in DOMAIN history : k # seq => with[k] = history[k]
    OBVIOUS
  <1>4. \A k \in DOMAIN with : \E p \in known : k = FecSeqOf(p)
    BY <1>1, <1>3 DEF HistoryKnown
  <1>5. h = IF Cardinality(DOMAIN with) <= HistoryCapacity THEN with
            ELSE [k \in DOMAIN with \ {oldest} |-> with[k]]
    BY DEF Recorded
  <1> HIDE DEF with, h, seq, known
  <1>6. CASE h = with
    <2>1. \A p \in received \ {pos} : FecSeqOf(p) # seq
      BY <1>2 DEF known
    <2>2. DOMAIN h \subseteq {FecSeqOf(p) : p \in known}
      BY <1>4, <1>6
    <2>3. seq \in DOMAIN h /\ h[seq] = payload
      BY <1>3, <1>6
    <2>4. \A p \in received \ {pos} :
             \/ FecSeqOf(p) \in DOMAIN h /\ FecSeqOf(p) \in DOMAIN history
                /\ h[FecSeqOf(p)] = history[FecSeqOf(p)]
             \/ FecSeqOf(p) \notin DOMAIN h /\ p + HistoryCapacity <= NumberSent
      BY <1>1, <1>3, <1>6, <2>1 DEF HistoryKnown
    <2> QED BY <2>2, <2>3, <2>4 DEF h, known, seq
  <1>7. CASE ~ (Cardinality(DOMAIN with) <= HistoryCapacity)
    <2>1. \E k \in DOMAIN with : \A j \in DOMAIN with : k <= j
      <3>1. DOMAIN with \in SUBSET Nat /\ DOMAIN with # {}
        BY <1>2, <1>3, <1>4
      <3> QED BY <3>1, Least
    <2>2. oldest \in DOMAIN with /\ \A j \in DOMAIN with : oldest <= j
      BY <2>1
    <2> HIDE DEF oldest
    <2>3. PICK old \in known : oldest = FecSeqOf(old)
      BY <1>4, <2>2
    <2>4. DOMAIN with \subseteq first + old - 1 .. first + NumberSent - 1
      <3> SUFFICES ASSUME NEW k \in DOMAIN with PROVE k \in first + old - 1 .. first + NumberSent - 1
        OBVIOUS
      <3>1. PICK p \in known : k = FecSeqOf(p)
        BY <1>4
      <3>2. k = first + p - 1 /\ oldest = first + old - 1 /\ oldest <= k
            /\ p \in 1 .. NumberSent /\ old \in 1 .. NumberSent
        BY <1>2, <2>2, <2>3, <3>1
      <3> QED BY ONLY <3>2, <1>2
    <2>5. Cardinality(DOMAIN with) <= NumberSent - old + 1 /\ Cardinality(DOMAIN with) \in Nat
      <3> DEFINE a == first + old - 1
                 b == first + NumberSent - 1
      <3>1. a \in Int /\ b \in Int /\ ~ (a > b) /\ b - a + 1 = NumberSent - old + 1
        <4>1. old \in 1 .. NumberSent
          BY <1>2, <2>3
        <4> QED BY ONLY <1>2, <4>1
      <3>2. DOMAIN with \in SUBSET (a .. b)
        BY <2>4
      <3> HIDE DEF a, b
      <3>3. IsFiniteSet(a .. b) /\ Cardinality(a .. b) = b - a + 1
        BY <3>1, FS_Interval
      <3>4. IsFiniteSet(DOMAIN with) /\ Cardinality(DOMAIN with) <= Cardinality(a .. b)
        BY <3>2, <3>3, FS_Subset
      <3>5. Cardinality(DOMAIN with) \in Nat
        BY <3>4, FS_CardinalityType
      <3> QED BY <3>1, <3>3, <3>4, <3>5
    <2>6. old + HistoryCapacity <= NumberSent
      <3>1. old \in Nat
        BY <1>2, <2>3
      <3> QED BY <1>2, <1>7, <2>5, <3>1
    <2>7. h = [k \in DOMAIN with \ {oldest} |-> with[k]]
      BY <1>5, <1>7
    <2>8. DOMAIN h = DOMAIN with \ {oldest} /\ \A k \in DOMAIN h : h[k] = with[k]
      BY <2>7
    <2>9. DOMAIN h \subseteq {FecSeqOf(p) : p \in known}
      BY <1>4, <2>8
    <2>10. seq \in DOMAIN h => h[seq] = payload
      BY <1>3, <2>8
    <2>11. seq \notin DOMAIN h => pos + HistoryCapacity <= NumberSent
      <3> SUFFICES ASSUME seq \notin DOMAIN h PROVE pos + HistoryCapacity <= NumberSent
        OBVIOUS
      <3>1. oldest = seq
        BY <1>3, <2>8
      <3>2. old = pos
        BY <1>2, <2>3, <3>1
      <3> QED BY <2>6, <3>2
    <2>12. ASSUME NEW p \in received \ {pos}
           PROVE  \/ FecSeqOf(p) \in DOMAIN h /\ FecSeqOf(p) \in DOMAIN history
                     /\ h[FecSeqOf(p)] = history[FecSeqOf(p)]
                  \/ FecSeqOf(p) \notin DOMAIN h /\ p + HistoryCapacity <= NumberSent
      <3>1. FecSeqOf(p) # seq /\ p \in known
        BY <1>2 DEF known
      <3>2. CASE FecSeqOf(p) = oldest
        <4>1. p = old
          <5>1. first + p - 1 = first + old - 1 /\ p \in Nat /\ old \in Nat
            BY <1>2, <2>3, <3>1, <3>2
          <5> QED BY ONLY <1>2, <5>1
        <4> QED BY <2>6, <2>8, <3>2, <4>1
      <3>3. CASE FecSeqOf(p) # oldest /\ FecSeqOf(p) \in DOMAIN history
        BY <1>3, <2>8, <3>1, <3>3
      <3>4. CASE FecSeqOf(p) \notin DOMAIN history
        BY <1>1, <1>3, <2>8, <3>1, <3>4 DEF HistoryKnown
      <3> QED BY <3>2, <3>3, <3>4
    <2> QED BY <2>9, <2>10, <2>11, <2>12 DEF h, known, seq
  <1> QED BY <1>5, <1>6, <1>7

LEMMA ReceiveAudioInv ==
  ASSUME FecFits, FecSound, NEW pos \in flying, ReceiveAudio(pos)
  PROVE  FecSound'
  <1> DEFINE h == Recorded(history, FecSeqOf(pos), fecSent[pos].payload)
  <1>1. FecTypes /\ Encoding /\ ParitiesKnown /\ HistoryKnown /\ RebuiltKnown
        /\ pos \in 1 .. NumberSent
    BY DEF FecSound, FecTypes
  <1>2. fecSent[pos].seq = FecSeqOf(pos)
    <2>1. fecSent[pos] = [seq |-> FecSeqOf(pos), payload |-> Payload(pos, Lens[pos])]
      BY <1>1 DEF FecTypes
    <2> QED BY <2>1
  <1>3. /\ UNCHANGED <<fecSent, first, parity, count, base, parities>>
        /\ flying' = flying \ {pos} /\ history' = h /\ received' = received \cup {pos}
        /\ rebuilt' = {}
    BY <1>2 DEF ReceiveAudio, encoderVars
  <1>4. /\ UNCHANGED <<NumberSent, Lens, OpenGroup>>
        /\ \A p : FecSeqOf(p)' = FecSeqOf(p)
        /\ \A p : Unrepaired(p)' => Unrepaired(p)
    BY <1>3 DEF NumberSent, Lens, OpenGroup, FecSeqOf, Unrepaired, FecGroup
  <1>5. /\ DOMAIN h \subseteq {FecSeqOf(p) : p \in received \cup {pos}}
        /\ FecSeqOf(pos) \in DOMAIN h => h[FecSeqOf(pos)] = fecSent[pos].payload
        /\ FecSeqOf(pos) \notin DOMAIN h => pos + HistoryCapacity <= NumberSent
        /\ \A p \in received \ {pos} :
             \/ /\ FecSeqOf(p) \in DOMAIN h /\ FecSeqOf(p) \in DOMAIN history
                /\ h[FecSeqOf(p)] = history[FecSeqOf(p)]
             \/ FecSeqOf(p) \notin DOMAIN h /\ p + HistoryCapacity <= NumberSent
    BY <1>1, RecordedFacts
  <1> HIDE DEF h
  <1>6. FecTypes'
    BY <1>1, <1>3, <1>4 DEF FecTypes, Payload
  <1>7. Encoding' /\ ParitiesKnown'
    BY <1>1, <1>3, <1>4 DEF Encoding, ParitiesKnown, Covers
  <1>8. HistoryKnown'
    <2>1. ASSUME NEW p \in received'
          PROVE  \/ FecSeqOf(p) \in DOMAIN h /\
                      (Unrepaired(p)' => h[FecSeqOf(p)] = fecSent[p].payload)
                 \/ FecSeqOf(p) \notin DOMAIN h /\ p + HistoryCapacity <= NumberSent
      <3>1. CASE p = pos
        BY <1>5, <3>1
      <3>2. CASE p \in received \ {pos}
        BY <1>1, <1>4, <1>5, <3>2, FecSizes, Apart DEF HistoryKnown
      <3> QED BY <1>3, <3>1, <3>2
    <2> QED BY <1>3, <1>4, <1>5, <2>1 DEF HistoryKnown
  <1>9. RebuiltKnown'
    BY <1>3 DEF RebuiltKnown, RebuiltIsOwn
  <1> QED BY <1>6, <1>7, <1>8, <1>9 DEF FecSound

-----------------------------------------------------------------------------
(* Repair: what is left of the parity when every packet that is there was  *)
(* taken out of it.                                                        *)

LEMMA RemoveAllFacts ==
  ASSUME NEW bytes \in Seq(SUBSET Nat), NEW present, IsFiniteSet(present),
         NEW own, \A k \in present : \E p \in Nat : own[k] = {p},
         \A k, l \in present : own[k] = own[l] => k = l,
         \A k \in present : Len(history[k]) \in Nat,
         \A k \in present : \A i \in 1 .. Len(bytes) :
           IF i <= Len(history[k]) THEN history[k][i] = own[k] /\ own[k] \subseteq bytes[i]
           ELSE bytes[i] \cap own[k] = {}
  PROVE  RemoveAll(bytes, present)
           = [i \in 1 .. Len(bytes) |-> bytes[i] \ UNION {own[k] : k \in present}]
  <1> DEFINE n == Len(bytes)
             left == [u \in SUBSET present |->
                        [i \in 1 .. n |-> bytes[i] \ UNION {own[k] : k \in u}]]
             term(g, u) == IF u = {} THEN bytes
                           ELSE LET k == CHOOSE z \in u : TRUE
                                IN RemoveFrom(g[u \ {k}], history[k])
             iter[u \in SUBSET present] ==
               IF u = {} THEN bytes
               ELSE LET k == CHOOSE z \in u : TRUE IN RemoveFrom(iter[u \ {k}], history[k])
             Is(g) == g = [u \in SUBSET present |-> term(g, u)]
  <1>0. n \in Nat /\ \A i \in 1 .. n : bytes[i] \in SUBSET Nat
    BY LenProperties, ElementOfSeq
  <1>1. RemoveAll(bytes, present) = iter[present]
    BY DEF RemoveAll, FoldSet, MapThenFoldSet
  <1>2. \A u \in SUBSET present : left[u] = term(left, u)
    <2> SUFFICES ASSUME NEW u \in SUBSET present PROVE left[u] = term(left, u)
      OBVIOUS
    <2>1. CASE u = {}
      <3>1. left[{}] = [i \in 1 .. n |-> bytes[i] \ UNION {own[k] : k \in {}}]
        OBVIOUS
      <3>2. UNION {own[k] : k \in {}} = {}
        OBVIOUS
      <3>3. \A i \in 1 .. n : left[{}][i] = bytes[i]
        BY <3>1, <3>2
      <3>4. left[{}] = bytes
        <4>2. left[{}] \in [1 .. n -> SUBSET Nat]
          BY <1>0, <3>1, <3>2
        <4> DEFINE none == left[{}]
        <4>3. none \in [1 .. n -> SUBSET Nat] /\ \A i \in 1 .. n : none[i] = bytes[i]
          BY <3>3, <4>2
        <4> HIDE DEF none, left, n, term, iter, Is
        <4>4. none = bytes
          <5>1. none \in Seq(SUBSET Nat) /\ Len(none) = n
            BY <1>0, <4>3, RunIsSeq
          <5> QED BY <4>3, <5>1, SeqEqual DEF n
        <4> QED BY <4>4 DEF none
      <3>5. term(left, {}) = bytes
        OBVIOUS
      <3> QED BY <2>1, <3>4, <3>5
    <2>2. CASE u # {}
      <3> DEFINE k == CHOOSE z \in u : TRUE
                 rest == u \ {k}
      <3>1. k \in u
        BY <2>2
      <3> HIDE DEF k
      <3>2. rest \in SUBSET present /\ k \in present /\ k \notin rest
        BY <3>1
      <3>3. left[rest] = [i \in 1 .. n |-> bytes[i] \ UNION {own[l] : l \in rest}]
            /\ left[u] = [i \in 1 .. n |-> bytes[i] \ UNION {own[l] : l \in u}]
        BY <3>2
      <3>4. Len(left[rest]) = n
        <4>1. left[rest] \in [1 .. n -> SUBSET Nat]
          BY <1>0, <3>3
        <4> HIDE DEF left, n, rest
        <4> QED BY <1>0, <4>1, RunIsSeq
      <3>5. UNION {own[l] : l \in u} = (UNION {own[l] : l \in rest}) \cup own[k]
        <4>1. \A x : x \in UNION {own[l] : l \in u} <=> \E l \in u : x \in own[l]
          OBVIOUS
        <4>2. \A x : x \in UNION {own[l] : l \in rest} <=> \E l \in rest : x \in own[l]
          OBVIOUS
        <4>3. \A l : l \in u <=> l \in rest \/ l = k
          BY <3>1
        <4> HIDE DEF rest
        <4> QED BY <4>1, <4>2, <4>3
      <3>6. own[k] \cap UNION {own[l] : l \in rest} = {}
        <4> SUFFICES ASSUME NEW l \in rest PROVE own[k] \cap own[l] = {}
          OBVIOUS
        <4>1. l \in present /\ l # k
          BY <3>2
        <4>2. PICK p \in Nat : own[k] = {p}
          BY <3>2
        <4>3. PICK q \in Nat : own[l] = {q}
          BY <4>1
        <4>4. own[k] # own[l]
          BY <3>2, <4>1
        <4> QED BY <4>2, <4>3, <4>4
      <3> DEFINE gone == UNION {own[l] : l \in rest}
      <3>7. term(left, u) = RemoveFrom(left[rest], history[k])
        BY <2>2 DEF k
      <3> HIDE DEF left, rest, term
      <3>8. Len(history[k]) \in Nat
        BY <3>2
      <3>9. /\ term(left, u) = [i \in 1 .. n |-> term(left, u)[i]]
            /\ \A i \in 1 .. n : term(left, u)[i] = IF i <= Len(history[k])
                                                    THEN Xor(left[rest][i], history[k][i])
                                                    ELSE left[rest][i]
        <4>1. Len(left[rest]) \in Nat
          BY <1>0, <3>4
        <4> DEFINE kept == left[rest]
                   lost == history[k]
                   r == RemoveFrom(kept, lost)
        <4>2. /\ r = [i \in 1 .. Len(kept) |-> r[i]]
              /\ \A i \in 1 .. Len(kept) : r[i] = IF i <= Len(lost) THEN Xor(kept[i], lost[i])
                                                                    ELSE kept[i]
          <5> HIDE DEF kept, lost
          <5> QED BY DEF RemoveFrom
        <4> HIDE DEF n, r, kept, lost
        <4>3. /\ r = [i \in 1 .. n |-> r[i]]
              /\ \A i \in 1 .. n : r[i] = IF i <= Len(lost) THEN Xor(kept[i], lost[i]) ELSE kept[i]
          BY <3>4, <4>2 DEF kept
        <4>4. r = term(left, u)
          BY <3>7 DEF r, kept, lost
        <4> QED BY <4>3, <4>4 DEF kept, lost
      <3>10. \A i \in 1 .. n : left[rest][i] = bytes[i] \ gone
                               /\ left[u][i] = bytes[i] \ (gone \cup own[k])
        <4> TAKE i \in 1 .. n
        <4>1. left[rest][i] = bytes[i] \ UNION {own[l] : l \in rest}
          BY <3>3
        <4>2. left[u][i] = bytes[i] \ UNION {own[l] : l \in u}
          BY <3>3
        <4> QED BY <3>5, <4>1, <4>2
      <3> HIDE DEF gone
      <3>11. own[k] \cap gone = {}
        BY <3>6 DEF gone
      <3>12. \A i \in 1 .. n : left[u][i] = term(left, u)[i]
        <4> TAKE i \in 1 .. n
        <4>1. CASE i <= Len(history[k])
          <5>1. history[k][i] = own[k] /\ own[k] \subseteq bytes[i]
            BY <3>2, <4>1
          <5>2. term(left, u)[i] = Xor(bytes[i] \ gone, own[k])
            BY <3>9, <3>10, <4>1, <5>1
          <5>3. Xor(bytes[i] \ gone, own[k]) = bytes[i] \ (gone \cup own[k])
            BY <3>11, <5>1 DEF Xor
          <5> QED BY <3>10, <5>2, <5>3
        <4>2. CASE ~ (i <= Len(history[k]))
          <5>1. bytes[i] \cap own[k] = {}
            BY <3>2, <4>2
          <5>2. term(left, u)[i] = bytes[i] \ gone
            BY <3>9, <3>10, <4>2
          <5>3. bytes[i] \ gone = bytes[i] \ (gone \cup own[k])
            BY <5>1
          <5> QED BY <3>10, <5>2, <5>3
        <4> QED BY <4>1, <4>2
      <3>13. left[u] = [i \in 1 .. n |-> left[u][i]]
        BY <3>3
      <3> QED BY <3>9, <3>12, <3>13
    <2> QED BY <2>1, <2>2
  <1>3. Is(left)
    <2>1. left = [u \in SUBSET present |-> left[u]]
      OBVIOUS
    <2> HIDE DEF left, term
    <2> QED BY <1>2, <2>1
  <1>4. Is(iter)
    <2>1. iter = CHOOSE g : Is(g)
      OBVIOUS
    <2> HIDE DEF Is, iter, left
    <2> QED BY <1>3, <2>1
  <1>5. ASSUME NEW u \in SUBSET present, iter[u] # left[u] PROVE FALSE
    <2> DEFINE Wrong == {v \in SUBSET present : iter[v] # left[v]}
               sizes == {Cardinality(v) : v \in Wrong}
    <2> HIDE DEF iter, left
    <2>1. \A v \in SUBSET present : IsFiniteSet(v) /\ Cardinality(v) \in Nat
      BY FS_Subset, FS_CardinalityType
    <2>2. sizes \in SUBSET Nat /\ sizes # {}
      BY <1>5, <2>1
    <2>3. PICK least \in sizes : \A s \in sizes : least <= s
      BY <2>2, Least
    <2>4. PICK v \in Wrong : Cardinality(v) = least
      BY <2>3
    <2>5. v \in SUBSET present /\ iter[v] # left[v]
      BY <2>4
    <2>6. v # {}
      <3>1. iter[{}] = term(iter, {}) /\ left[{}] = term(left, {})
        BY <1>2, <1>4
      <3> QED BY <2>5, <3>1
    <2> DEFINE k == CHOOSE z \in v : TRUE
    <2>7. k \in v
      BY <2>6
    <2> HIDE DEF k
    <2>8. v \ {k} \in SUBSET present
      BY <2>5
    <2>9. Cardinality(v \ {k}) < least /\ Cardinality(v \ {k}) \in Nat /\ least \in Nat
      BY <2>1, <2>4, <2>5, <2>7, <2>8, FS_RemoveElement
    <2>10. iter[v \ {k}] = left[v \ {k}]
      <3> SUFFICES ASSUME iter[v \ {k}] # left[v \ {k}] PROVE FALSE
        OBVIOUS
      <3>1. Cardinality(v \ {k}) \in sizes
        BY <2>8
      <3>2. least <= Cardinality(v \ {k})
        BY <2>3, <3>1
      <3> QED BY <2>9, <3>2
    <2>11. iter[v] = RemoveFrom(iter[v \ {k}], history[k])
      <3>1. iter[v] = term(iter, v)
        BY <1>4, <2>5
      <3> QED BY <2>6, <3>1 DEF k
    <2>12. left[v] = RemoveFrom(left[v \ {k}], history[k])
      <3>1. left[v] = term(left, v)
        BY <1>2, <2>5
      <3> QED BY <2>6, <3>1 DEF k
    <2> QED BY <2>5, <2>10, <2>11, <2>12
  <1>6. iter[present] = left[present]
    BY <1>5
  <1> HIDE DEF iter
  <1> QED BY <1>1, <1>6

(* A parity packet that is in time meets its whole group in the history.   *)
LEMMA GroupFacts ==
  ASSUME FecFits, FecSound, NEW f \in parities, InTime(f.base)
  PROVE  /\ f.base \in Nat /\ f.base \in FecGroup(f) /\ IsFiniteSet(FecGroup(f))
         /\ FecGroup(f) \subseteq 1 .. NumberSent
         /\ MissingOf(f) = FecGroup(f) \ received
         /\ \A pos \in FecGroup(f) \ MissingOf(f) :
              history[FecSeqOf(pos)] = Payload(pos, Lens[pos])
  <1>1. /\ FecTypes /\ HistoryKnown /\ ParitiesKnown /\ Encoding /\ NumberSent \in Nat
        /\ FecGroupSize \in Nat /\ FecGroupSize >= 2 /\ HistoryCapacity \in Nat
        /\ MaxSkew \in Nat /\ MaxSkew <= HistoryCapacity
    BY FecSizes, Apart DEF FecSound, FecFits
  <1>2. f.base \in Nat \ {0} /\ f.count = FecGroupSize /\ f.base + FecGroupSize <= OpenGroup
    BY <1>1 DEF ParitiesKnown
  <1>3. OpenGroup \in 1 .. NumberSent + 1
    <2>1. CASE count = 0
      BY <1>1, <2>1 DEF OpenGroup
    <2>2. CASE count # 0
      <3>1. OpenGroup = base
        BY <2>2 DEF OpenGroup
      <3>2. base \in 1 .. NumberSent
        BY <1>1, <2>2 DEF Encoding
      <3> QED BY <1>1, <3>1, <3>2
    <2> QED BY <2>1, <2>2
  <1>4. FecGroup(f) = f.base .. f.base + FecGroupSize - 1
    BY <1>2 DEF FecGroup
  <1>5. ASSUME NEW pos \in FecGroup(f)
        PROVE  pos \in 1 .. NumberSent /\ pos >= f.base
    BY <1>1, <1>2, <1>3, <1>4
  <1>6. ASSUME NEW pos \in FecGroup(f) PROVE ~ (pos + HistoryCapacity <= NumberSent)
    <2>1. NumberSent - f.base < MaxSkew
      BY DEF InTime
    <2> QED BY <1>1, <1>2, <1>5, <2>1
  <1>7. ASSUME NEW pos \in FecGroup(f)
        PROVE  FecSeqOf(pos) \in DOMAIN history <=> pos \in received
    <2>1. CASE pos \in received
      BY <1>1, <1>6, <2>1 DEF HistoryKnown
    <2>2. CASE FecSeqOf(pos) \in DOMAIN history
      <3>1. PICK p \in received : FecSeqOf(pos) = FecSeqOf(p)
        BY <1>1, <2>2 DEF HistoryKnown
      <3>2. p \in 1 .. NumberSent
        BY <1>1 DEF FecTypes
      <3>3. pos = p
        BY <1>1, <1>5, <3>1, <3>2, Apart
      <3> QED BY <2>2, <3>3
    <2> QED BY <2>1, <2>2
  <1>8. MissingOf(f) = FecGroup(f) \ received
    BY <1>7 DEF MissingOf
  <1>9. ASSUME NEW pos \in FecGroup(f) \ MissingOf(f)
        PROVE  history[FecSeqOf(pos)] = Payload(pos, Lens[pos])
    <2>1. pos \in received /\ FecSeqOf(pos) \in DOMAIN history
      BY <1>7, <1>8
    <2>2. Unrepaired(pos)
      BY DEF Unrepaired
    <2>3. history[FecSeqOf(pos)] = fecSent[pos].payload
      BY <1>1, <2>1, <2>2 DEF HistoryKnown
    <2>4. fecSent[pos] = [seq |-> FecSeqOf(pos), payload |-> Payload(pos, Lens[pos])]
      BY <1>1, <1>5 DEF FecTypes
    <2> QED BY <2>3, <2>4
  <1>10. f.base \in FecGroup(f) /\ f.base \in Nat
    BY <1>1, <1>2, <1>4
  <1>11. IsFiniteSet(FecGroup(f))
    <2>1. f.base \in Int /\ f.base + FecGroupSize - 1 \in Int
      BY <1>1, <1>2
    <2> QED BY <1>4, <2>1, FS_Interval
  <1> QED BY <1>5, <1>8, <1>9, <1>10, <1>11

LEMMA RebuiltBytes ==
  ASSUME FecFits, FecSound, NEW f \in parities, InTime(f.base),
         NEW missing, MissingOf(f) = {missing}
  PROVE  LET present == {FecSeqOf(pos) : pos \in FecGroup(f) \ {missing}}
             bytes   == SubSeq(RemoveAll(f.payload, present), 1, f.length)
         IN  /\ Len(bytes) \in Nat
             /\ \A i \in 1 .. Len(bytes) :
                  bytes[i] = IF i <= Lens[missing] THEN {missing} ELSE {}
  <1> DEFINE group == FecGroup(f)
             others == group \ {missing}
             present == {FecSeqOf(pos) : pos \in others}
             own == [k \in present |-> {pos \in others : FecSeqOf(pos) = k}]
             n == Len(f.payload)
             whole == RemoveAll(f.payload, present)
             bytes == SubSeq(whole, 1, f.length)
  <1>1. /\ FecTypes /\ ParitiesKnown /\ missing \in group /\ f.base \in group
        /\ IsFiniteSet(group) /\ group \subseteq 1 .. NumberSent
        /\ \A pos \in others : history[FecSeqOf(pos)] = Payload(pos, Lens[pos])
    BY GroupFacts DEF FecSound
  <1>2. /\ f.payload \in Seq(SUBSET Nat) /\ n \in Nat
        /\ \A pos \in group : Lens[pos] <= n
        /\ \A i \in 1 .. n : f.payload[i] = {pos \in group : i <= Lens[pos]}
        /\ f.length = Lens[f.base]
    <2>1. Covers(f.payload, f.base, f.count, Lens) /\ f.length = Lens[f.base]
      BY <1>1 DEF ParitiesKnown
    <2> QED BY <2>1, LenProperties DEF Covers, FecGroup
  <1>3. \A pos \in group : Lens[pos] \in Nat /\ pos \in Nat
    <2> SUFFICES ASSUME NEW pos \in group PROVE Lens[pos] \in Nat /\ pos \in Nat
      OBVIOUS
    <2>1. pos \in 1 .. NumberSent /\ NumberSent \in Nat
      BY <1>1, Apart
    <2>2. fecSent[pos] \in [seq : Nat, payload : Seq(SUBSET Nat)]
      BY <1>1, <2>1, ElementOfSeq DEF FecTypes, NumberSent
    <2>3. Len(fecSent[pos].payload) \in Nat
      BY <2>2, LenProperties
    <2> QED BY <2>1, <2>3 DEF Lens
  <1>4. ASSUME NEW pos \in others PROVE FecSeqOf(pos) \in present /\ own[FecSeqOf(pos)] = {pos}
    <2>1. \A other \in others : FecSeqOf(other) = FecSeqOf(pos) => other = pos
      BY <1>1, Apart
    <2> QED BY <2>1
  <1>5. \A k \in present : \E pos \in others : k = FecSeqOf(pos)
    OBVIOUS
  <1> HIDE DEF present, own
  <1>6. IsFiniteSet(present)
    <2>1. 0 \in Int /\ FecSpace - 1 \in Int
      BY FecSizes
    <2>2. IsFiniteSet(0 .. FecSpace - 1)
      BY <2>1, FS_Interval
    <2>3. present \subseteq 0 .. FecSpace - 1
      <3> SUFFICES ASSUME NEW k \in present PROVE k \in 0 .. FecSpace - 1
        OBVIOUS
      <3>1. PICK p \in others : k = FecSeqOf(p)
        BY <1>5
      <3>2. first \in Nat /\ p \in Nat /\ FecSpace \in Nat /\ FecSpace > 0
        BY <1>1, <1>3, FecAssumption, FecSizes DEF FecTypes
      <3> QED BY <3>1, <3>2 DEF FecSeqOf
    <2> QED BY <2>2, <2>3, FS_Subset
  <1>7. \A k \in present : \E p \in Nat : own[k] = {p}
    BY <1>3, <1>4, <1>5
  <1>8. \A k, l \in present : own[k] = own[l] => k = l
    <2> SUFFICES ASSUME NEW k \in present, NEW l \in present, own[k] = own[l] PROVE k = l
      OBVIOUS
    <2>1. PICK p \in others : k = FecSeqOf(p)
      BY <1>5
    <2>2. PICK q \in others : l = FecSeqOf(q)
      BY <1>5
    <2>3. {p} = {q}
      BY <1>4, <2>1, <2>2
    <2> QED BY <2>1, <2>2, <2>3
  <1>9. ASSUME NEW k \in present
        PROVE  /\ Len(history[k]) \in Nat
               /\ \A i \in 1 .. n :
                    IF i <= Len(history[k])
                    THEN history[k][i] = own[k] /\ own[k] \subseteq f.payload[i]
                    ELSE f.payload[i] \cap own[k] = {}
    <2>1. PICK p \in others : k = FecSeqOf(p)
      BY <1>5
    <2>2. /\ own[k] = {p} /\ history[k] = Payload(p, Lens[p]) /\ p \in Nat /\ Lens[p] \in Nat
          /\ p \in group
      BY <1>1, <1>3, <1>4, <2>1
    <2>3. Len(history[k]) = Lens[p] /\ \A i \in 1 .. Lens[p] : history[k][i] = {p}
      <3>1. /\ Len(Payload(p, Lens[p])) = Lens[p]
            /\ \A i \in 1 .. Lens[p] : Payload(p, Lens[p])[i] = {p}
        BY <2>2, PayloadFacts
      <3> QED BY <2>2, <3>1
    <2>4. ASSUME NEW i \in 1 .. n
          PROVE  IF i <= Len(history[k])
                 THEN history[k][i] = own[k] /\ own[k] \subseteq f.payload[i]
                 ELSE f.payload[i] \cap own[k] = {}
      <3>1. f.payload[i] = {pos \in group : i <= Lens[pos]}
        BY <1>2
      <3>2. i <= Lens[p] => history[k][i] = {p}
        BY <1>2, <2>2, <2>3
      <3> HIDE DEF group
      <3> QED BY <2>2, <2>3, <3>1, <3>2
    <2> QED BY <2>2, <2>3, <2>4
  <1>10. whole = [i \in 1 .. n |-> f.payload[i] \ UNION {own[k] : k \in present}]
    <2> DEFINE joined == f.payload
    <2> HIDE DEF joined
    <2>1. joined \in Seq(SUBSET Nat) /\ n = Len(joined)
      BY <1>2 DEF joined
    <2>2. \A k \in present : Len(history[k]) \in Nat
      BY <1>9
    <2>3. \A k \in present : \A i \in 1 .. Len(joined) :
            IF i <= Len(history[k])
            THEN history[k][i] = own[k] /\ own[k] \subseteq joined[i]
            ELSE joined[i] \cap own[k] = {}
      BY <1>9 DEF joined
    <2> HIDE DEF n
    <2>4. RemoveAll(joined, present)
            = [i \in 1 .. Len(joined) |-> joined[i] \ UNION {own[k] : k \in present}]
      BY <1>6, <1>7, <1>8, <2>1, <2>2, <2>3, RemoveAllFacts
    <2> QED BY <2>4 DEF joined, n
  <1>11. \A x : x \in UNION {own[k] : k \in present} <=> x \in others
    <2>1. \A x : x \in UNION {own[k] : k \in present} <=> \E k \in present : x \in own[k]
      OBVIOUS
    <2> HIDE DEF others
    <2> QED BY <1>4, <1>5, <2>1
  <1>12. ASSUME NEW i \in 1 .. n
         PROVE  whole[i] = IF i <= Lens[missing] THEN {missing} ELSE {}
    <2>1. whole[i] = f.payload[i] \ UNION {own[k] : k \in present}
      BY <1>10
    <2>2. f.payload[i] = {pos \in group : i <= Lens[pos]}
      BY <1>2
    <2>3. \A x : x \in whole[i] <=> x \in group /\ i <= Lens[x] /\ x \notin others
      BY <1>11, <2>1, <2>2
    <2>4. \A x : x \in whole[i] <=> x = missing /\ i <= Lens[missing]
      <3> HIDE DEF group, whole
      <3> QED BY <1>1, <2>3
    <2>5. whole[i] = {x \in {missing} : i <= Lens[missing]}
      <3> HIDE DEF whole
      <3> QED BY <2>4
    <2> HIDE DEF whole
    <2> QED BY <2>5
  <1>13. f.length \in Nat /\ f.length <= n
    BY <1>1, <1>2, <1>3
  <1> HIDE DEF whole, group
  <1>14. Len(bytes) = f.length /\ \A i \in 1 .. f.length : bytes[i] = whole[i]
    <2>1. \A i \in 1 .. f.length : whole[i] \in SUBSET Nat
      <3>1. \A i \in 1 .. f.length : i \in 1 .. n
        BY <1>2, <1>13
      <3>2. missing \in Nat
        BY <1>1, <1>3
      <3> QED BY <1>12, <3>1, <3>2
    <2>2. /\ Len(SubSeq(whole, 1, f.length)) = IF 1 <= f.length THEN f.length - 1 + 1 ELSE 0
          /\ \A i \in 1 .. f.length - 1 + 1 : SubSeq(whole, 1, f.length)[i] = whole[1 + i - 1]
      BY <1>13, <2>1, SubSeqProperties
    <2>3. \A i \in 1 .. f.length : i \in 1 .. f.length - 1 + 1 /\ 1 + i - 1 = i
      BY <1>13
    <2>4. Len(bytes) = f.length
      BY <1>13, <2>2
    <2>5. \A i \in 1 .. f.length : bytes[i] = whole[i]
      BY <2>2, <2>3
    <2> QED BY <2>4, <2>5
  <1> HIDE DEF bytes
  <1>15. \A i \in 1 .. Len(bytes) : i \in 1 .. n
    BY <1>2, <1>13, <1>14
  <1>16. /\ Len(bytes) \in Nat
         /\ \A i \in 1 .. Len(bytes) : bytes[i] = IF i <= Lens[missing] THEN {missing} ELSE {}
    BY <1>12, <1>13, <1>14, <1>15
  <1> QED BY <1>16 DEF bytes, whole, present, group

LEMMA ReceiveParityInv ==
  ASSUME FecFits, FecSound, NEW f \in parities, ReceiveParity(f)
  PROVE  /\ FecSound'
         /\ FecGroup(f) \ received = {p.pos : p \in rebuilt'}
         /\ Cardinality(FecGroup(f) \ received) = 1
  <1> DEFINE missing == CHOOSE pos \in MissingOf(f) : TRUE
             present == {FecSeqOf(pos) : pos \in FecGroup(f) \ MissingOf(f)}
             bytes == SubSeq(RemoveAll(f.payload, present), 1, f.length)
             h == Recorded(history, FecSeqOf(missing), bytes)
  <1>1. /\ FecTypes /\ Encoding /\ ParitiesKnown /\ HistoryKnown
        /\ InTime(f.base) /\ Cardinality(MissingOf(f)) = 1
    BY DEF FecSound, ReceiveParity
  <1>2. /\ UNCHANGED <<fecSent, first, parity, count, base, flying>>
        /\ parities' = parities \ {f} /\ history' = h /\ received' = received \cup {missing}
        /\ rebuilt' = {[pos |-> missing, payload |-> bytes]}
    BY DEF ReceiveParity, encoderVars
  <1>3. /\ FecGroup(f) \subseteq 1 .. NumberSent /\ MissingOf(f) = FecGroup(f) \ received
        /\ IsFiniteSet(MissingOf(f))
    BY <1>1, GroupFacts, FS_Subset
  <1>4. MissingOf(f) = {missing}
    <2>1. PICK x : MissingOf(f) = {x}
      BY <1>1, <1>3, FS_Singleton
    <2>2. missing = x
      BY <2>1
    <2> QED BY <2>1, <2>2
  <1> HIDE DEF missing
  <1>5. missing \in FecGroup(f) /\ missing \in 1 .. NumberSent /\ missing \notin received
    BY <1>3, <1>4
  <1>6. Len(bytes) \in Nat
        /\ \A i \in 1 .. Len(bytes) : bytes[i] = IF i <= Lens[missing] THEN {missing} ELSE {}
    BY <1>1, <1>4, RebuiltBytes
  <1> HIDE DEF bytes
  <1>7. /\ DOMAIN h \subseteq {FecSeqOf(p) : p \in received \cup {missing}}
        /\ FecSeqOf(missing) \notin DOMAIN h => missing + HistoryCapacity <= NumberSent
        /\ \A p \in received \ {missing} :
             \/ /\ FecSeqOf(p) \in DOMAIN h /\ FecSeqOf(p) \in DOMAIN history
                /\ h[FecSeqOf(p)] = history[FecSeqOf(p)]
             \/ FecSeqOf(p) \notin DOMAIN h /\ p + HistoryCapacity <= NumberSent
    BY <1>5, RecordedFacts
  <1> HIDE DEF h
  <1>8. /\ UNCHANGED <<NumberSent, Lens, OpenGroup>>
        /\ \A p : FecSeqOf(p)' = FecSeqOf(p)
        /\ \A p : Unrepaired(p)' => Unrepaired(p)
    BY <1>2 DEF NumberSent, Lens, OpenGroup, FecSeqOf, Unrepaired, FecGroup
  <1>9. ASSUME NEW pos, pos = missing PROVE ~ Unrepaired(pos)'
    <2>1. /\ f.base \in Nat /\ f.count = FecGroupSize /\ f.base + FecGroupSize <= OpenGroup
          /\ FecGroupSize \in Nat /\ NumberSent \in Nat
      BY <1>1, FecSizes, Apart DEF ParitiesKnown
    <2>2. missing >= f.base /\ missing <= f.base + FecGroupSize - 1 /\ missing \in Nat
      BY <1>5, <2>1 DEF FecGroup
    <2>3. OpenGroup \in Nat
      <3>1. count # 0 => base \in Nat
        BY <1>1 DEF Encoding
      <3> QED BY <2>1, <3>1 DEF OpenGroup
    <2>4. ~ (missing >= OpenGroup)
      BY <2>1, <2>2, <2>3
    <2>5. ASSUME NEW g \in parities \ {f} PROVE missing \notin FecGroup(g)
      <3>1. /\ g.base \in Nat /\ g.count = FecGroupSize
            /\ g.base + FecGroupSize <= f.base \/ f.base + FecGroupSize <= g.base
        BY <1>1 DEF ParitiesKnown
      <3>2. FecGroup(g) = g.base .. g.base + FecGroupSize - 1
        BY <3>1 DEF FecGroup
      <3> QED BY <2>1, <2>2, <3>1, <3>2
    <2> QED BY <1>2, <1>8, <1>9, <2>4, <2>5 DEF Unrepaired, FecGroup
  <1>10. FecTypes'
    <2>1. received' \subseteq 1 .. NumberSent
      BY <1>1, <1>2, <1>5 DEF FecTypes
    <2> QED BY <1>1, <1>2, <1>8, <2>1 DEF FecTypes, Payload
  <1>11. Encoding' /\ ParitiesKnown'
    <2>1. Encoding'
      BY <1>1, <1>2, <1>8 DEF Encoding, Covers
    <2>2. ParitiesKnown'
      BY <1>1, <1>2, <1>8 DEF ParitiesKnown, Covers
    <2> QED BY <2>1, <2>2
  <1>12. HistoryKnown'
    <2>1. ASSUME NEW p \in received'
          PROVE  \/ FecSeqOf(p) \in DOMAIN h /\
                      (Unrepaired(p)' => h[FecSeqOf(p)] = fecSent[p].payload)
                 \/ FecSeqOf(p) \notin DOMAIN h /\ p + HistoryCapacity <= NumberSent
      <3>1. CASE p = missing
        BY <1>7, <1>9, <3>1
      <3>2. CASE p \in received \ {missing}
        BY <1>1, <1>7, <1>8, <3>2 DEF HistoryKnown
      <3> QED BY <1>2, <3>1, <3>2
    <2> QED BY <1>2, <1>7, <1>8, <2>1 DEF HistoryKnown
  <1>13. RebuiltKnown'
    <2>1. Len(fecSent[missing].payload) = Lens[missing]
      BY <1>5 DEF Lens
    <2>2. \A p \in rebuilt' : p.pos = missing /\ p.payload = bytes
      BY <1>2
    <2> QED BY <1>2, <1>5, <1>6, <1>8, <2>1, <2>2 DEF RebuiltKnown, RebuiltIsOwn
  <1>14. {p.pos : p \in rebuilt'} = {missing}
    BY <1>2
  <1> QED BY <1>1, <1>3, <1>4, <1>10, <1>11, <1>12, <1>13, <1>14 DEF FecSound

LEMMA IgnoreParityInv ==
  ASSUME FecFits, FecSound, NEW f \in parities, IgnoreParity(f)
  PROVE  /\ FecSound'
         /\ {p.pos : p \in rebuilt'} = {}
         /\ Cardinality(FecGroup(f) \ received) # 1
  <1>1. /\ FecTypes /\ Encoding /\ ParitiesKnown /\ HistoryKnown
        /\ InTime(f.base) /\ Cardinality(MissingOf(f)) # 1
    BY DEF FecSound, IgnoreParity
  <1>2. /\ UNCHANGED <<fecSent, first, parity, count, base, flying, received, history>>
        /\ parities' = parities \ {f} /\ rebuilt' = {}
    BY DEF IgnoreParity, encoderVars
  <1>3. MissingOf(f) = FecGroup(f) \ received
    BY <1>1, GroupFacts
  <1>4. /\ UNCHANGED <<NumberSent, Lens, OpenGroup>>
        /\ \A p : FecSeqOf(p)' = FecSeqOf(p)
        /\ \A p : Unrepaired(p)' => Unrepaired(p)
    BY <1>2 DEF NumberSent, Lens, OpenGroup, FecSeqOf, Unrepaired, FecGroup
  <1>5. FecTypes'
    BY <1>1, <1>2, <1>4 DEF FecTypes, Payload
  <1>6. Encoding' /\ ParitiesKnown'
    BY <1>1, <1>2, <1>4 DEF Encoding, ParitiesKnown, Covers
  <1>7. HistoryKnown'
    BY <1>1, <1>2, <1>4 DEF HistoryKnown
  <1>8. RebuiltKnown'
    BY <1>2 DEF RebuiltKnown, RebuiltIsOwn
  <1> QED BY <1>1, <1>2, <1>3, <1>5, <1>6, <1>7, <1>8 DEF FecSound

LEMMA LoseInv ==
  ASSUME FecFits, FecSound, Lose
  PROVE  FecSound'
  <1>1. FecTypes /\ Encoding /\ ParitiesKnown /\ HistoryKnown /\ RebuiltKnown
    BY DEF FecSound
  <1>2. /\ UNCHANGED <<fecSent, first, parity, count, base, received, history, rebuilt>>
        /\ parities' \subseteq parities /\ flying' \subseteq flying
    BY DEF Lose, encoderVars, decoderVars
  <1>3. /\ UNCHANGED <<NumberSent, Lens, OpenGroup>>
        /\ \A p : FecSeqOf(p)' = FecSeqOf(p)
        /\ \A p : Unrepaired(p)' => Unrepaired(p)
    BY <1>2 DEF NumberSent, Lens, OpenGroup, FecSeqOf, Unrepaired, FecGroup
  <1>4. FecTypes'
    BY <1>1, <1>2, <1>3 DEF FecTypes, Payload
  <1>5. Encoding' /\ ParitiesKnown'
    BY <1>1, <1>2, <1>3 DEF Encoding, ParitiesKnown, Covers
  <1>6. HistoryKnown'
    BY <1>1, <1>2, <1>3 DEF HistoryKnown
  <1>7. RebuiltKnown'
    BY <1>1, <1>2, <1>3 DEF RebuiltKnown, RebuiltIsOwn
  <1> QED BY <1>4, <1>5, <1>6, <1>7 DEF FecSound

LEMMA FecStep == FecIInv /\ [LossNext]_allVars => FecIInv'
  <1> SUFFICES ASSUME FecSound, FecFits, [LossNext]_allVars PROVE FecSound'
    BY DEF FecIInv
  <1>1. CASE UNCHANGED fecVars
    <2>1. UNCHANGED <<fecSent, first, parity, count, base, flying, parities,
                      received, history, rebuilt>>
      BY <1>1 DEF fecVars, encoderVars, decoderVars
    <2>2. /\ UNCHANGED <<NumberSent, Lens, OpenGroup>>
          /\ \A p : FecSeqOf(p)' = FecSeqOf(p)
          /\ \A p : Unrepaired(p)' => Unrepaired(p)
      BY <2>1 DEF NumberSent, Lens, OpenGroup, FecSeqOf, Unrepaired, FecGroup
    <2>3. FecTypes' /\ RebuiltKnown'
      BY <2>1, <2>2 DEF FecSound, FecTypes, Payload, RebuiltKnown, RebuiltIsOwn
    <2>4. Encoding' /\ ParitiesKnown'
      BY <2>1, <2>2 DEF FecSound, Encoding, ParitiesKnown, Covers
    <2>5. HistoryKnown'
      BY <2>1, <2>2 DEF FecSound, HistoryKnown
    <2> QED BY <2>3, <2>4, <2>5 DEF FecSound
  <1>2. CASE \E length \in Lengths : Send(length)
    BY <1>2, SendInv
  <1>3. CASE \E pos \in flying : ReceiveAudio(pos)
    BY <1>3, ReceiveAudioInv
  <1>4. CASE \E f \in parities : ReceiveParity(f) \/ IgnoreParity(f)
    BY <1>4, ReceiveParityInv, IgnoreParityInv
  <1>5. CASE Lose
    BY <1>5, LoseInv
  <1> QED BY <1>1, <1>2, <1>3, <1>4, <1>5 DEF LossNext, FecNext, allVars

(* Repair gives every group that lost one packet, and no other, that       *)
(* packet back, made of that packet's own bytes (fec.rs,                   *)
(* push_audio_packet, record_received and decode_fec), for every size of a *)
(* group and of the history, wherever the stream begins, while its numbers *)
(* grow and the network is no later than the history is long.              *)
THEOREM RepairsWhole == LossSpec => (FecFits => FecKept)
  <1>1. LossInit => FecIInv
    BY FecInitInv DEF LossInit
  <1>2. FecIInv /\ [LossNext]_allVars => FecIInv'
    BY FecStep
  <1>3. FecIInv => (FecFits => RebuiltIsOwn)
    BY DEF FecIInv, FecSound, RebuiltKnown
  <1>4. FecIInv /\ [LossNext]_allVars =>
          (FecFits =>
             [\A f \in parities : ReceiveParity(f) \/ IgnoreParity(f) =>
                LET lost == FecGroup(f) \ received
                IN  {p.pos : p \in rebuilt'}
                      = IF Cardinality(lost) = 1 THEN lost ELSE {}]_fecVars)
    <2> SUFFICES ASSUME FecIInv, FecFits, NEW f \in parities, ReceiveParity(f) \/ IgnoreParity(f)
                 PROVE  LET lost == FecGroup(f) \ received
                        IN  {p.pos : p \in rebuilt'}
                              = IF Cardinality(lost) = 1 THEN lost ELSE {}
      OBVIOUS
    <2>1. FecSound
      BY DEF FecIInv
    <2>2. CASE ReceiveParity(f)
      BY <2>1, <2>2, ReceiveParityInv
    <2>3. CASE IgnoreParity(f)
      BY <2>1, <2>3, IgnoreParityInv
    <2> QED BY <2>2, <2>3
  <1>5. FecFits => []FecFits
    <2>1. FecFits => FecFits'
      BY DEF FecFits
    <2> QED BY <2>1, PTL
  <1> QED BY <1>1, <1>2, <1>3, <1>4, <1>5, PTL DEF LossSpec, FecKept, SingleLossIsRebuilt

=============================================================================
