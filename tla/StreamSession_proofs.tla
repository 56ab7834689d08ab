-------------------------- MODULE StreamSession_proofs --------------------------
(***************************************************************************)
(* Proofs about a receiver of a publisher that crashes and restarts: what  *)
(* the player is told of the connection, and the format it plays in, for   *)
(* every window, every space of sequence numbers and any number of         *)
(* incarnations of the publisher and of formats.                           *)
(*                                                                         *)
(* Unlike in ReorderStream nothing is known of the numbers that arrive: a  *)
(* new incarnation counts from 0.  What is known of a call of the window   *)
(* (Returned) is that it hands out nothing but the packet it was given and *)
(* packets it held, and holds nothing else.                                *)
(***************************************************************************)
EXTENDS StreamSession, FiniteSetTheorems, SequenceTheorems, WellFoundedInduction, TLAPS

(* A map of held packets, each under its number.                           *)
Mapped(b) == DOMAIN b \subseteq SeqNums /\ \A k \in DOMAIN b : b[k].seq = k
Contents(b) == {b[k] : k \in DOMAIN b}

(* The window holds no more than its capacity, and while it holds any the  *)
(* gap timer runs.                                                         *)
Bounded(b) == Mapped(b) /\ Cardinality(DOMAIN b) <= Capacity

WindowKept ==
  /\ nextExpected \in SeqNums \cup {NoSeq}
  /\ Bounded(buffer)
  /\ gapStarted \in BOOLEAN
  /\ Held # {} => gapStarted /\ nextExpected # NoSeq

AudioEvents(packets) ==
  [type : {"Packet"}, packet : packets] \cup [type : {"Dropped"}, count : Int]

Events ==
  {[type |-> "Disconnected"], [type |-> "Reconnected"]}
    \cup [type : {"FormatChanged"}, format : Formats] \cup AudioEvents(Packets)

SessionTypes ==
  /\ pubUp \in BOOLEAN /\ downNow \in BOOLEAN
  /\ pubRun \in 1 .. MaxRuns /\ (~ pubUp => pubRun < MaxRuns)
  /\ pubSeq \in SeqNums /\ pubFormat \in Formats
  /\ flying \subseteq Packets /\ Contents(buffer) \subseteq Packets
  /\ isConnected \in BOOLEAN /\ appConnected \in BOOLEAN
  /\ eventQueue \in Seq(Events)

(* Packets under way or held are in the format of the incarnation that     *)
(* runs or ran last, and so is the receiver while it holds any.  Before    *)
(* the next one starts there are none.                                     *)
OneFormat ==
  /\ \A p \in flying : p.format = pubFormat
  /\ \A p \in Contents(buffer) : p.format = pubFormat
  /\ Held # {} => currentFormat = pubFormat
  /\ ~ pubUp /\ ~ downNow => flying = {} /\ ~ gapStarted

IsConnection(i) == i \in DOMAIN eventQueue /\ Connection(eventQueue[i])
IsFormat(i) == i \in DOMAIN eventQueue /\ eventQueue[i].type = "FormatChanged"
IsPacket(i) == i \in DOMAIN eventQueue /\ eventQueue[i].type = "Packet"

(* The connection is reported first, then the format, then audio; until    *)
(* they are taken the player goes by what was true before.                 *)
QueueOrdered ==
  /\ \A i : IsConnection(i) =>
       /\ i = 1
       /\ (eventQueue[i].type = "Reconnected") = isConnected
       /\ appConnected = ~ isConnected
  /\ ~ IsConnection(1) => appConnected = isConnected
  /\ \A i : IsFormat(i) =>
       /\ eventQueue[i].format = currentFormat
       /\ \A j \in 1 .. i - 1 : IsConnection(j)
  /\ (\A i : ~ IsFormat(i)) => appFormat = currentFormat
  /\ \A i : IsPacket(i) => eventQueue[i].packet.format = currentFormat

SessionIInv ==
  /\ WindowKept /\ SessionTypes /\ OneFormat /\ QueueOrdered
  /\ ~ isConnected => Held = {}

-----------------------------------------------------------------------------
(* Natural numbers, and numbers of packets.                                *)

LEMMA Least ==
  ASSUME NEW T \in SUBSET Nat, T # {}
  PROVE  \E x \in T : \A y \in T : x <= y
  <1> DEFINE R == {ss \in Nat \X Nat : ss[1] < ss[2]}
  <1>1. IsWellFoundedOn(R, Nat)
    BY NatLessThanWellFounded DEF OpToRel
  <1>2. \A x, y \in Nat : <<y, x>> \in R <=> y < x
    OBVIOUS
  <1> HIDE DEF R
  <1>3. PICK x \in T : \A y \in T : ~ (<<y, x>> \in R)
    BY <1>1, WFMin
  <1>4. \A y \in T : ~ (y < x) /\ y \in Nat /\ x \in Nat
    BY <1>2, <1>3
  <1> QED BY <1>3, <1>4

(* Induction up to n, the claim being given by the set of what satisfies it. *)
LEMMA UpTo ==
  ASSUME NEW n \in Nat, NEW Good, 0 \in Good, \A i \in 0 .. n - 1 : i \in Good => i + 1 \in Good
  PROVE  \A i \in 0 .. n : i \in Good
  <1> SUFFICES ASSUME NEW b \in 0 .. n, b \notin Good PROVE FALSE
    OBVIOUS
  <1> DEFINE T == {i \in 0 .. n : i \notin Good}
  <1>1. T \in SUBSET Nat /\ b \in T
    OBVIOUS
  <1>2. PICK x \in T : \A y \in T : x <= y
    BY <1>1, Least
  <1>3. x # 0 /\ x \in 1 .. n
    BY <1>2
  <1>4. x - 1 \in Good /\ x - 1 \in 0 .. n - 1
    BY <1>2, <1>3
  <1> QED BY <1>2, <1>4

LEMMA SeqFacts ==
  ASSUME NEW a \in SeqNums, NEW n \in 0 .. SeqSpace - 1
  PROVE  Advance(a, n) \in SeqNums /\ Distance(Advance(a, n), a) = n
  BY WindowAssumption DEF SeqNums, SeqSpace, Advance, Distance

LEMMA DistanceFacts ==
  ASSUME NEW a \in SeqNums, NEW b \in SeqNums
  PROVE  /\ Distance(a, b) \in 0 .. SeqSpace - 1
         /\ Distance(a, b) = 0 <=> a = b
         /\ Advance(b, Distance(a, b)) = a
  BY WindowAssumption DEF SeqNums, SeqSpace, Advance, Distance

LEMMA RunLengthFacts ==
  ASSUME NEW b, NEW s, \E n \in 0 .. SeqSpace - 1 : Advance(s, n) \notin DOMAIN b
  PROVE  /\ RunLength(b, s) \in 0 .. SeqSpace - 1
         /\ Advance(s, RunLength(b, s)) \notin DOMAIN b
         /\ \A i \in 0 .. RunLength(b, s) - 1 : Advance(s, i) \in DOMAIN b
  <1> DEFINE T == {n \in 0 .. SeqSpace - 1 : Advance(s, n) \notin DOMAIN b}
  <1>1. SeqSpace \in Nat
    BY WindowAssumption DEF SeqSpace
  <1>2. T \in SUBSET Nat /\ T # {}
    BY <1>1
  <1>3. PICK n \in T : \A m \in T : n <= m
    BY <1>2, Least
  <1>4. \A i \in 0 .. n - 1 : Advance(s, i) \in DOMAIN b
    BY <1>1, <1>3
  <1>5. \E m \in 0 .. SeqSpace - 1 : /\ Advance(s, m) \notin DOMAIN b
                                     /\ \A i \in 0 .. m - 1 : Advance(s, i) \in DOMAIN b
    BY <1>3, <1>4
  <1> QED BY <1>5 DEF RunLength

-----------------------------------------------------------------------------
(* The window.                                                             *)

LEMMA MappedFacts ==
  ASSUME NEW b, Mapped(b)
  PROVE  IsFiniteSet(DOMAIN b) /\ Cardinality(DOMAIN b) \in Nat
  <1>1. SeqSpace \in Nat
    BY WindowAssumption DEF SeqSpace
  <1>2. IsFiniteSet(SeqNums)
    BY <1>1, FS_Interval DEF SeqNums
  <1> QED BY <1>2, FS_Subset, FS_CardinalityType DEF Mapped

(* There are more numbers than a window holds.                             *)
LEMMA FreeNumber ==
  ASSUME NEW b, Bounded(b), NEW s \in SeqNums
  PROVE  \E n \in 0 .. SeqSpace - 1 : Advance(s, n) \notin DOMAIN b
  <1> SUFFICES ASSUME \A n \in 0 .. SeqSpace - 1 : Advance(s, n) \in DOMAIN b PROVE FALSE
    OBVIOUS
  <1>1. SeqSpace \in Nat /\ Capacity \in Nat /\ Capacity < SeqSpace /\ SeqSpace - 1 \in Int
    BY WindowAssumption DEF SeqSpace
  <1>2. \A x \in SeqNums : x \in DOMAIN b
    BY DistanceFacts
  <1>3. DOMAIN b = SeqNums
    BY <1>2 DEF Bounded, Mapped
  <1>4. Cardinality(SeqNums) = SeqSpace
    <2>1. Cardinality(0 .. SeqSpace - 1) = IF 0 > SeqSpace - 1 THEN 0 ELSE SeqSpace - 1 - 0 + 1
      BY <1>1, FS_Interval
    <2> QED BY <1>1, <2>1 DEF SeqNums
  <1> QED BY <1>1, <1>3, <1>4 DEF Bounded

LEMMA RunFacts ==
  ASSUME NEW b, Bounded(b), NEW s \in SeqNums
  PROVE  /\ RunLength(b, s) \in 0 .. SeqSpace - 1
         /\ Advance(s, RunLength(b, s)) \in SeqNums
         /\ \A i \in 0 .. RunLength(b, s) - 1 : Advance(s, i) \in DOMAIN b
  BY FreeNumber, RunLengthFacts, SeqFacts

LEMMA WithoutFacts ==
  ASSUME NEW b, NEW keys, Mapped(b)
  PROVE  /\ Mapped(Without(b, keys)) /\ DOMAIN Without(b, keys) = DOMAIN b \ keys
         /\ Contents(Without(b, keys)) \subseteq Contents(b)
         /\ Bounded(b) => Bounded(Without(b, keys))
  <1>1. /\ DOMAIN Without(b, keys) = DOMAIN b \ keys
        /\ \A k \in DOMAIN b \ keys : Without(b, keys)[k] = b[k]
    BY DEF Without
  <1>2. Mapped(Without(b, keys)) /\ Contents(Without(b, keys)) \subseteq Contents(b)
    BY <1>1 DEF Mapped, Contents
  <1>3. /\ Cardinality(DOMAIN b \ keys) \in Nat /\ Cardinality(DOMAIN b) \in Nat
        /\ Cardinality(DOMAIN b \ keys) <= Cardinality(DOMAIN b)
    BY MappedFacts, FS_Subset, FS_CardinalityType
  <1> QED BY <1>1, <1>2, <1>3, WindowAssumption DEF Bounded

LEMMA WithFacts ==
  ASSUME NEW b, NEW p, p.seq \in SeqNums, Mapped(b)
  PROVE  Mapped(With(b, p)) /\ Contents(With(b, p)) \subseteq Contents(b) \cup {p} /\ p.seq \in DOMAIN With(b, p)
  BY DEF With, Mapped, Contents

(* A call hands out and holds none but these packets.                      *)
Returned(packets) ==
  /\ WindowKept'
  /\ events' \in Seq(AudioEvents(packets))
  /\ Contents(buffer') \subseteq packets

LEMMA EventFacts ==
  ASSUME NEW packets
  PROVE  /\ \A p \in packets : PacketEvent(p) \in AudioEvents(packets)
         /\ \A n \in Int : DroppedEvent(n) \in AudioEvents(packets)
         /\ << >> \in Seq(AudioEvents(packets))
         /\ \A e \in AudioEvents(packets) : <<e>> \in Seq(AudioEvents(packets))
  BY EmptySeq DEF PacketEvent, DroppedEvent, AudioEvents

LEMMA DrainStep ==
  ASSUME NEW packets, NEW p \in packets, p.seq \in SeqNums,
         NEW b, Bounded(b), Contents(b) \subseteq packets,
         NEW reported \in Seq(AudioEvents(packets)), DeliverAndDrain(p, b, reported)
  PROVE  Returned(packets)
  <1> DEFINE start == Advance(p.seq, 1)
             n == RunLength(b, start)
             rest == Without(b, Run(b, start))
             drained == [i \in 1 .. n |-> PacketEvent(b[Advance(start, i - 1)])]
  <1>1. start \in SeqNums
    BY SeqFacts, WindowAssumption DEF SeqSpace
  <1>2. /\ n \in Nat /\ Advance(start, n) \in SeqNums
        /\ \A i \in 0 .. n - 1 : Advance(start, i) \in DOMAIN b
    BY <1>1, RunFacts
  <1>3. /\ nextExpected' = Advance(start, n) /\ buffer' = rest /\ gapStarted' = (DOMAIN rest # {})
        /\ events' = reported \o <<PacketEvent(p)>> \o drained
    BY DEF DeliverAndDrain
  <1>4. Bounded(rest) /\ Contents(rest) \subseteq packets
    BY WithoutFacts DEF Bounded
  <1>5. drained \in Seq(AudioEvents(packets))
    <2>1. \A i \in 1 .. n : i - 1 \in 0 .. n - 1
      BY <1>2
    <2>2. \A i \in 1 .. n : b[Advance(start, i - 1)] \in packets
      BY <1>2, <2>1 DEF Contents
    <2>3. drained \in [1 .. n -> AudioEvents(packets)]
      BY <2>2, EventFacts
    <2> HIDE DEF n, drained
    <2> QED BY <1>2, <2>3, SeqDef
  <1> HIDE DEF start, n, rest, drained
  <1>6. events' \in Seq(AudioEvents(packets))
    <2>1. <<PacketEvent(p)>> \in Seq(AudioEvents(packets))
      BY EventFacts
    <2> QED BY <1>3, <1>5, <2>1, ConcatProperties
  <1>7. NoSeq \notin SeqNums
    BY DEF NoSeq, SeqNums
  <1> QED BY <1>2, <1>3, <1>4, <1>6, <1>7 DEF Returned, WindowKept, Held

(* The overflow loop.  Its turns are a recursive function, which has the   *)
(* value its definition gives because there is such a function.            *)
LEMMA EvictTurnsFacts ==
  ASSUME NEW b, NEW expected, Excess(b) \in Nat
  PROVE  LET turn == EvictTurns(b, expected)
         IN  /\ turn[0] = [next |-> expected, left |-> b, out |-> << >>]
             /\ \A i \in 1 .. Excess(b) : turn[i] = EvictOldest(turn[i - 1])
  <1> DEFINE first == [next |-> expected, left |-> b, out |-> << >>]
             Step(t, i) == IF i = 0 THEN first ELSE EvictOldest(t[i - 1])
             Is(t, n) == t = [i \in 0 .. n |-> Step(t, i)]
             Good == {n \in Nat : \E t : Is(t, n)}
             excess == Excess(b)
  <1>1. 0 \in Good
    <2> DEFINE t == [i \in 0 .. 0 |-> first]
    <2>1. Is(t, 0)
      OBVIOUS
    <2> QED BY <2>1
  <1>2. ASSUME NEW n \in 0 .. excess - 1, n \in Good
        PROVE  n + 1 \in Good
    <2>1. PICK t : Is(t, n)
      BY <1>2
    <2> DEFINE h == [i \in 0 .. n + 1 |-> IF i = n + 1 THEN Step(t, n + 1) ELSE t[i]]
    <2>2. \A i \in 0 .. n + 1 : h[i] = Step(h, i)
      <3> SUFFICES ASSUME NEW i \in 0 .. n + 1 PROVE h[i] = Step(h, i)
        OBVIOUS
      <3>1. i - 1 \in 0 .. n => h[i - 1] = t[i - 1]
        OBVIOUS
      <3>2. CASE i = n + 1
        BY <3>1, <3>2
      <3>3. CASE i \in 0 .. n
        <4>1. t[i] = Step(t, i)
          BY <2>1, <3>3
        <4>2. h[i] = t[i]
          BY <3>3
        <4> QED BY <3>1, <3>3, <4>1, <4>2
      <3> QED BY <3>2, <3>3
    <2>3. Is(h, n + 1)
      BY <2>2
    <2>4. \E g : Is(g, n + 1)
      BY <2>3
    <2> HIDE DEF Is
    <2> QED BY <2>4
  <1> HIDE DEF Good
  <1>3. excess \in Good
    <2>1. \A i \in 0 .. excess - 1 : i \in Good => i + 1 \in Good
      BY <1>2
    <2>2. \A i \in 0 .. excess : i \in Good
      BY <1>1, <2>1, UpTo
    <2> QED BY <2>2
  <1> USE DEF Good
  <1>4. PICK t : Is(t, excess)
    BY <1>3
  <1> DEFINE turn == EvictTurns(b, expected)
  <1>5. Is(turn, excess)
    BY <1>4 DEF EvictTurns
  <1>6. \A i \in 0 .. excess : turn[i] = Step(turn, i)
    BY <1>5
  <1> QED BY <1>6

(* What holds before a turn of the loop holds after it, with one less.     *)
Evicting(was, packets) ==
  /\ was.next \in SeqNums /\ Mapped(was.left) /\ Contents(was.left) \subseteq packets
  /\ was.out \in Seq(AudioEvents(packets))

LEMMA EvictOldestFacts ==
  ASSUME NEW packets, NEW was, Evicting(was, packets), DOMAIN was.left # {}
  PROVE  /\ Evicting(EvictOldest(was), packets)
         /\ Cardinality(DOMAIN EvictOldest(was).left) = Cardinality(DOMAIN was.left) - 1
  <1> DEFINE oldest == CHOOSE k \in DOMAIN was.left : \A j \in DOMAIN was.left : k <= j
             report == IF oldest > was.next THEN <<DroppedEvent(oldest - was.next)>> ELSE << >>
             out == was.out \o report \o <<PacketEvent(was.left[oldest])>>
  <1>1. DOMAIN was.left \in SUBSET Nat
    BY WindowAssumption DEF Evicting, Mapped, SeqNums, SeqSpace
  <1>2. oldest \in DOMAIN was.left
    BY <1>1, Least
  <1> HIDE DEF oldest
  <1>3. oldest \in SeqNums /\ was.left[oldest] \in packets /\ oldest - was.next \in Int
    BY <1>2, WindowAssumption DEF Evicting, Mapped, Contents, SeqNums, SeqSpace
  <1>4. out \in Seq(AudioEvents(packets))
    <2>1. report \in Seq(AudioEvents(packets))
      BY <1>3, EventFacts
    <2>2. <<PacketEvent(was.left[oldest])>> \in Seq(AudioEvents(packets))
      BY <1>3, EventFacts
    <2> HIDE DEF report
    <2> QED BY <2>1, <2>2, ConcatProperties DEF Evicting
  <1>5. Advance(oldest, 1) \in SeqNums
    BY <1>3, SeqFacts, WindowAssumption DEF SeqSpace
  <1>6. EvictOldest(was) = [next |-> Advance(oldest, 1), left |-> Without(was.left, {oldest}), out |-> out]
    BY DEF EvictOldest, oldest
  <1> HIDE DEF out
  <1>7. /\ Mapped(Without(was.left, {oldest})) /\ Contents(Without(was.left, {oldest})) \subseteq packets
        /\ DOMAIN Without(was.left, {oldest}) = DOMAIN was.left \ {oldest}
    BY WithoutFacts DEF Evicting
  <1>8. Cardinality(DOMAIN was.left \ {oldest}) = Cardinality(DOMAIN was.left) - 1
    BY <1>2, MappedFacts, FS_RemoveElement DEF Evicting
  <1> DEFINE new == EvictOldest(was)
  <1>9. /\ new.next = Advance(oldest, 1) /\ new.left = Without(was.left, {oldest}) /\ new.out = out
    BY <1>6
  <1> HIDE DEF new
  <1>10. Evicting(new, packets) /\ Cardinality(DOMAIN new.left) = Cardinality(DOMAIN was.left) - 1
    BY <1>4, <1>5, <1>7, <1>8, <1>9 DEF Evicting
  <1> QED BY <1>10 DEF new

LEMMA OverflowStep ==
  ASSUME WindowKept, NEW p, p.seq \in SeqNums, PushOverflow(p)
  PROVE  Returned(Contents(buffer) \cup {p})
  <1> DEFINE packets == Contents(buffer) \cup {p}
             held == With(buffer, p)
             excess == Excess(held)
             turn == EvictTurns(held, nextExpected)
             Right(i) == /\ Evicting(turn[i], packets)
                         /\ Cardinality(DOMAIN turn[i].left) = Cardinality(DOMAIN held) - i
             Good == {i \in Nat : Right(i)}
  <1>1. /\ Mapped(held) /\ Contents(held) \subseteq packets
        /\ nextExpected \in SeqNums /\ Capacity \in Nat /\ Capacity > 0
    BY WithFacts, WindowAssumption DEF WindowKept, Bounded, PushOverflow, WithinWindow, Ahead
  <1>2. /\ Cardinality(DOMAIN held) \in Nat /\ excess = Cardinality(DOMAIN held) - Capacity
        /\ excess > 0 /\ excess \in Nat
    BY <1>1, MappedFacts DEF PushOverflow, Excess
  <1>3. /\ turn[0] = [next |-> nextExpected, left |-> held, out |-> << >>]
        /\ \A i \in 1 .. excess : turn[i] = EvictOldest(turn[i - 1])
    BY <1>2, EvictTurnsFacts
  <1>4. /\ nextExpected' = turn[excess].next /\ buffer' = turn[excess].left
        /\ events' = turn[excess].out /\ gapStarted' = TRUE
    BY DEF PushOverflow
  <1> HIDE DEF packets, held, excess, turn
  <1>5. Right(0)
    <2>1. << >> \in Seq(AudioEvents(packets))
      BY EventFacts
    <2> QED BY <1>1, <1>2, <1>3, <2>1 DEF Evicting
  <1>6. ASSUME NEW i \in 0 .. excess - 1, Right(i)
        PROVE  Right(i + 1)
    <2>1. turn[i + 1] = EvictOldest(turn[i])
      BY <1>2, <1>3
    <2>2. Cardinality(DOMAIN turn[i].left) > 0
      BY <1>1, <1>2, <1>6
    <2>3. DOMAIN turn[i].left # {}
      BY <2>2, FS_EmptySet
    <2>4. /\ Evicting(turn[i + 1], packets)
          /\ Cardinality(DOMAIN turn[i + 1].left) = Cardinality(DOMAIN turn[i].left) - 1
      BY <1>6, <2>1, <2>3, EvictOldestFacts
    <2> QED BY <1>2, <1>6, <2>4
  <1>7. Right(excess)
    <2> HIDE DEF Right
    <2>1. \A i \in 0 .. excess - 1 : i \in Good => i + 1 \in Good
      BY <1>2, <1>6
    <2>2. 0 \in Good
      BY <1>5
    <2>3. \A i \in 0 .. excess : i \in Good
      <3> HIDE DEF Good
      <3> QED BY <1>2, <2>1, <2>2, UpTo
    <2> QED BY <1>2, <2>3
  <1>8. Cardinality(DOMAIN turn[excess].left) = Capacity
    BY <1>1, <1>2, <1>7
  <1>9. NoSeq \notin SeqNums
    BY DEF NoSeq, SeqNums
  <1>10. Returned(packets)
    BY <1>1, <1>4, <1>7, <1>8, <1>9 DEF Returned, WindowKept, Bounded, Evicting
  <1> QED BY <1>10 DEF packets

LEMMA PushStep ==
  ASSUME WindowKept, NEW p, p.seq \in SeqNums, Push(p)
  PROVE  Returned(Contents(buffer) \cup {p})
  <1> DEFINE packets == Contents(buffer) \cup {p}
  <1> SUFFICES Returned(packets)
    OBVIOUS
  <1>1. /\ << >> \in Seq(AudioEvents(packets)) /\ PacketEvent(p) \in AudioEvents(packets)
        /\ <<PacketEvent(p)>> \in Seq(AudioEvents(packets))
        /\ Contents(buffer) \subseteq packets /\ p \in packets
    BY EventFacts
  <1>2. /\ Advance(p.seq, 1) \in SeqNums /\ NoSeq \notin SeqNums
        /\ Capacity \in Nat /\ Capacity >= 0
    <2>1. Advance(p.seq, 1) \in SeqNums
      BY SeqFacts, WindowAssumption DEF SeqSpace
    <2> QED BY <2>1, WindowAssumption DEF SeqNums, NoSeq
  <1> HIDE DEF packets
  (* Calls that leave the buffer alone.                                    *)
  <1>0. ASSUME buffer' = buffer, gapStarted' = gapStarted, events' \in Seq(AudioEvents(packets)),
               nextExpected' \in SeqNums \/ nextExpected' = nextExpected
        PROVE  Returned(packets)
    BY <1>0, <1>1, <1>2 DEF Returned, WindowKept, Held
  <1>3. CASE PushFirst(p)
    <2>1. /\ buffer' = buffer /\ gapStarted' = gapStarted /\ events' = <<PacketEvent(p)>>
          /\ nextExpected' \in SeqNums
      BY <1>2, <1>3 DEF PushFirst
    <2>2. events' \in Seq(AudioEvents(packets))
      BY <1>1, <2>1
    <2> QED BY <1>0, <2>1, <2>2
  <1>4. CASE PushInOrder(p)
    <2>1. DeliverAndDrain(p, buffer, << >>)
      BY <1>4 DEF PushInOrder
    <2> QED BY <1>1, <2>1, DrainStep DEF WindowKept, packets
  <1>5. CASE PushLate(p)
    BY <1>0, <1>1, <1>5 DEF PushLate
  <1>6. CASE PushResync(p)
    <2>1. DOMAIN buffer' = {} /\ buffer' = << >> /\ gapStarted' = gapStarted
      BY <1>6 DEF PushResync
    <2>2. Bounded(buffer') /\ Contents(buffer') = {}
      BY <1>2, <2>1, FS_EmptySet DEF Bounded, Mapped, Contents
    <2>3. events' = <<PacketEvent(p)>> /\ nextExpected' \in SeqNums
      BY <1>2, <1>6 DEF PushResync
    <2>4. events' \in Seq(AudioEvents(packets))
      BY <1>1, <2>3
    <2> QED BY <2>1, <2>2, <2>3, <2>4 DEF Returned, WindowKept, Held
  <1>7. CASE PushJump(p)
    <2>1. Distance(p.seq, nextExpected) \in Int
      BY <1>7, DistanceFacts DEF PushJump, Ahead, WindowKept
    <2>2. <<DroppedEvent(Distance(p.seq, nextExpected)), PacketEvent(p)>> \in Seq(AudioEvents(packets))
      BY <1>1, <2>1, EventFacts
    <2>3. /\ buffer' = buffer /\ gapStarted' = gapStarted /\ nextExpected' \in SeqNums
          /\ events' = <<DroppedEvent(Distance(p.seq, nextExpected)), PacketEvent(p)>>
      BY <1>2, <1>7 DEF PushJump
    <2>4. events' \in Seq(AudioEvents(packets))
      BY <2>2, <2>3
    <2> QED BY <1>0, <2>3, <2>4
  <1>8. CASE PushHold(p)
    <2>1. /\ Mapped(With(buffer, p)) /\ Contents(With(buffer, p)) \subseteq packets
      BY WithFacts DEF WindowKept, Bounded, packets
    <2>2. Cardinality(DOMAIN With(buffer, p)) <= Capacity
      BY <1>2, <1>8, <2>1, MappedFacts DEF PushHold, Excess
    <2>3. /\ buffer' = With(buffer, p) /\ gapStarted' = TRUE /\ events' = << >>
          /\ nextExpected' = nextExpected /\ nextExpected # NoSeq
      BY <1>8 DEF PushHold, WithinWindow, Ahead
    <2>4. Bounded(buffer') /\ Contents(buffer') \subseteq packets
      BY <2>1, <2>2, <2>3 DEF Bounded
    <2> QED BY <1>1, <2>3, <2>4 DEF Returned, WindowKept
  <1>9. CASE PushOverflow(p)
    BY <1>9, OverflowStep DEF packets
  <1> QED BY <1>3, <1>4, <1>5, <1>6, <1>7, <1>8, <1>9 DEF Push

LEMMA FlushStep ==
  ASSUME WindowKept, FlushExpiredGap
  PROVE  Returned(Contents(buffer)) /\ (Held = {} => events' = << >> /\ DOMAIN buffer' = {})
  <1> DEFINE packets == Contents(buffer)
  <1>1. CASE FlushGap
    <2> DEFINE Is(k) == \A j \in Nearer : Distance(k, nextExpected) <= Distance(j, nextExpected)
               first == CHOOSE k \in Nearer : Is(k)
               missing == Distance(first, nextExpected)
               report == IF missing > 0 THEN <<DroppedEvent(missing)>> ELSE << >>
    <2>1. /\ nextExpected \in SeqNums /\ Mapped(buffer) /\ Bounded(buffer)
          /\ Nearer \subseteq Held /\ Held \subseteq SeqNums /\ Nearer # {}
      BY <1>1 DEF FlushGap, WindowKept, Bounded, Mapped, Nearer, Held
    <2>2. \E k \in Nearer : Is(k)
      <3> DEFINE T == {Distance(k, nextExpected) : k \in Nearer}
      <3>1. \A k \in Nearer : Distance(k, nextExpected) \in Nat
        BY <2>1, DistanceFacts
      <3>2. T \in SUBSET Nat /\ T # {}
        BY <2>1, <3>1
      <3>3. PICK x \in T : \A y \in T : x <= y
        BY <3>2, Least
      <3> QED BY <3>3
    <2>3. first \in Nearer
      BY <2>2
    <2>4. DeliverAndDrain(buffer[first], Without(buffer, {first}), report)
      BY <1>1 DEF FlushGap
    <2> HIDE DEF first, Is
    <2>5. /\ buffer[first] \in packets /\ buffer[first].seq = first /\ first \in SeqNums
          /\ missing \in Int
      BY <2>1, <2>3, DistanceFacts DEF Contents, Mapped, Held
    <2>6. report \in Seq(AudioEvents(packets))
      BY <2>5, EventFacts
    <2>7. Bounded(Without(buffer, {first})) /\ Contents(Without(buffer, {first})) \subseteq packets
      BY <2>1, WithoutFacts
    <2> HIDE DEF report, packets
    <2>8. Returned(packets)
      BY <2>4, <2>5, <2>6, <2>7, DrainStep
    <2> QED BY <2>1, <2>8 DEF packets
  <1>2. CASE FlushStale
    <2>1. /\ DOMAIN buffer' = {} /\ gapStarted' = FALSE /\ events' = << >>
          /\ nextExpected' = nextExpected
      BY <1>2 DEF FlushStale
    <2>2. Bounded(buffer') /\ Contents(buffer') = {}
      BY <2>1, FS_EmptySet, WindowAssumption DEF Bounded, Mapped, Contents
    <2> QED BY <2>1, <2>2, EventFacts DEF Returned, WindowKept, Held
  <1> QED BY <1>1, <1>2 DEF FlushExpiredGap

-----------------------------------------------------------------------------
(* The receiver and the player.                                            *)

LEMMA PacketsFacts ==
  ASSUME NEW p \in Packets
  PROVE  p.seq \in SeqNums /\ p.format \in Formats
  BY DEF Packets

LEMMA EventTypes ==
  /\ \A e \in Events : e.type \in {"Disconnected", "Reconnected", "FormatChanged", "Packet", "Dropped"}
  /\ \A e \in Events : e.type = "FormatChanged" => e.format \in Formats
  /\ \A S : \A e \in AudioEvents(S) : /\ e.type \in {"Packet", "Dropped"}
                                      /\ e.type = "Packet" => e.packet \in S
  /\ \A S \in SUBSET Packets : AudioEvents(S) \subseteq Events
  BY DEF Events, AudioEvents

(* A list of audio events is one of events.                                *)
LEMMA AudioIsEvents ==
  ASSUME NEW S \in SUBSET Packets, NEW es \in Seq(AudioEvents(S))
  PROVE  /\ es \in Seq(Events) /\ Len(es) \in Nat /\ DOMAIN es = 1 .. Len(es)
         /\ \A i \in 1 .. Len(es) : es[i] \in AudioEvents(S)
  <1>1. /\ Len(es) \in Nat /\ DOMAIN es = 1 .. Len(es)
        /\ \A i \in 1 .. Len(es) : es[i] \in AudioEvents(S)
    BY LenProperties, ElementOfSeq
  <1>2. es \in [1 .. Len(es) -> Events]
    <2>1. es \in [1 .. Len(es) -> AudioEvents(S)]
      BY LenProperties
    <2> QED BY <2>1, EventTypes
  <1>3. es \in Seq(Events)
    BY <1>1, <1>2, SeqDef
  <1> QED BY <1>1, <1>3

LEMMA FlushKeeps ==
  ASSUME SessionIInv, Flush
  PROVE  SessionIInv'
  <1>1. /\ WindowKept /\ SessionTypes /\ OneFormat /\ QueueOrdered /\ (~ isConnected => Held = {})
    BY DEF SessionIInv
  <1>2. /\ FlushExpiredGap /\ eventQueue = << >> /\ eventQueue' = events'
        /\ UNCHANGED <<publisherVars, flying, isConnected, currentFormat, appVars>>
    BY DEF Flush, Idle
  <1>3. Returned(Contents(buffer)) /\ (Held = {} => events' = << >> /\ DOMAIN buffer' = {})
    BY <1>1, <1>2, FlushStep
  <1>4. /\ eventQueue' \in Seq(Events) /\ DOMAIN eventQueue' = 1 .. Len(eventQueue')
        /\ \A i \in DOMAIN eventQueue' : eventQueue'[i] \in AudioEvents(Contents(buffer))
    BY <1>1, <1>2, <1>3, AudioIsEvents DEF Returned, SessionTypes
  <1>5. /\ WindowKept' /\ Contents(buffer') \subseteq Contents(buffer)
        /\ Held' # {} => Held # {}
    BY <1>3 DEF Returned, Held
  <1>6. SessionTypes'
    BY <1>1, <1>2, <1>4, <1>5 DEF SessionTypes, publisherVars, appVars
  <1>7. OneFormat'
    <2>1. ~ pubUp /\ ~ downNow => ~ gapStarted'
      BY <1>1, <1>2 DEF OneFormat, FlushExpiredGap, FlushGap, FlushStale
    <2> QED BY <1>1, <1>2, <1>5, <2>1 DEF OneFormat, publisherVars
  <1>8. QueueOrdered'
    <2>1. appConnected = isConnected /\ appFormat = currentFormat
      BY <1>1, <1>2 DEF QueueOrdered, IsConnection, IsFormat
    <2>2. \A i \in DOMAIN eventQueue' :
            /\ ~ Connection(eventQueue'[i]) /\ eventQueue'[i].type # "FormatChanged"
            /\ eventQueue'[i].type = "Packet" => eventQueue'[i].packet \in Contents(buffer)
      BY <1>4, EventTypes DEF Connection
    <2>3. \A q \in Contents(buffer) : q.format = currentFormat
      BY <1>1 DEF OneFormat, Contents, Held
    <2> QED BY <1>2, <2>1, <2>2, <2>3 DEF QueueOrdered, IsConnection, IsFormat, IsPacket, appVars
  <1> QED BY <1>1, <1>2, <1>5, <1>6, <1>7, <1>8 DEF SessionIInv

LEMMA ReceiveKeeps ==
  ASSUME SessionIInv, NEW p \in flying, Receive(p)
  PROVE  SessionIInv'
  <1> DEFINE S == Contents(buffer) \cup {p}
             A == IF isConnected THEN << >> ELSE <<[type |-> "Reconnected"]>>
             B == IF p.format = currentFormat THEN << >>
                  ELSE <<[type |-> "FormatChanged", format |-> p.format]>>
             a == Len(A)
             b == Len(B)
             c == Len(events')
  <1>1. /\ WindowKept /\ SessionTypes /\ OneFormat /\ QueueOrdered
        /\ p \in Packets /\ p.seq \in SeqNums /\ p.format \in Formats /\ p.format = pubFormat
    BY PacketsFacts DEF SessionIInv, SessionTypes, OneFormat
  <1>2. /\ Push(p) /\ eventQueue = << >> /\ eventQueue' = A \o B \o events'
        /\ flying' = flying \ {p} /\ isConnected' = TRUE /\ currentFormat' = p.format
        /\ UNCHANGED <<publisherVars, appVars>>
    BY DEF Receive, Idle
  <1>3. Returned(S)
    BY <1>1, <1>2, PushStep
  <1>4. S \in SUBSET Packets /\ \A q \in S : q.format = pubFormat
    BY <1>1 DEF SessionTypes, OneFormat
  <1>5. /\ WindowKept' /\ Contents(buffer') \subseteq S
        /\ events' \in Seq(AudioEvents(S))
    BY <1>3 DEF Returned
  <1>6. /\ events' \in Seq(Events) /\ c \in Nat
        /\ \A i \in 1 .. c : events'[i] \in AudioEvents(S)
    BY <1>4, <1>5, AudioIsEvents
  <1>7. /\ A \in Seq(Events) /\ a = (IF isConnected THEN 0 ELSE 1)
        /\ \A i \in 1 .. a : A[i] = [type |-> "Reconnected"]
        /\ B \in Seq(Events) /\ b = (IF p.format = currentFormat THEN 0 ELSE 1)
        /\ \A i \in 1 .. b : B[i] = [type |-> "FormatChanged", format |-> p.format]
    <2>1. /\ [type |-> "Reconnected"] \in Events /\ << >> \in Seq(Events)
          /\ [type |-> "FormatChanged", format |-> p.format] \in Events
      BY <1>1, EmptySeq DEF Events
    <2>2. \A e \in Events : <<e>> \in Seq(Events) /\ Len(<<e>>) = 1 /\ <<e>>[1] = e
      OBVIOUS
    <2>3. A = << >> \/ A = <<[type |-> "Reconnected"]>>
      OBVIOUS
    <2>4. A \in Seq(Events)
      BY <2>1, <2>2, <2>3
    <2>5. B \in Seq(Events)
      BY <2>1, <2>2
    <2> QED BY <2>4, <2>5
  <1> HIDE DEF S, A, B
  <1>8. /\ eventQueue' \in Seq(Events) /\ Len(eventQueue') = a + b + c
        /\ DOMAIN eventQueue' = 1 .. a + b + c
        /\ \A i \in 1 .. a : eventQueue'[i] = A[i]
        /\ \A i \in a + 1 .. a + b : eventQueue'[i] = B[i - a]
        /\ \A i \in a + b + 1 .. a + b + c : eventQueue'[i] = events'[i - (a + b)]
    <2>1. /\ A \o B \in Seq(Events) /\ Len(A \o B) = a + b
          /\ \A i \in 1 .. a + b : (A \o B)[i] = IF i <= a THEN A[i] ELSE B[i - a]
      BY <1>7, ConcatProperties
    <2>2. /\ eventQueue' \in Seq(Events) /\ Len(eventQueue') = a + b + c
          /\ \A i \in 1 .. a + b + c :
               eventQueue'[i] = IF i <= a + b THEN (A \o B)[i] ELSE events'[i - (a + b)]
      BY <1>2, <1>6, <2>1, ConcatProperties
    <2>3. DOMAIN eventQueue' = 1 .. a + b + c
      BY <2>2, LenProperties
    <2>4. a \in Nat /\ b \in Nat
      BY <1>7
    <2> HIDE DEF a, b, c
    <2>5. ASSUME NEW i \in 1 .. a
          PROVE  eventQueue'[i] = A[i]
      <3>1. i \in 1 .. a + b /\ i \in 1 .. a + b + c /\ i <= a /\ i <= a + b
        BY <1>6, <2>4
      <3> QED BY <2>1, <2>2, <3>1
    <2>6. ASSUME NEW i \in a + 1 .. a + b
          PROVE  eventQueue'[i] = B[i - a]
      <3>1. i \in 1 .. a + b /\ i \in 1 .. a + b + c /\ ~ (i <= a) /\ i <= a + b
        BY <1>6, <2>4
      <3> QED BY <2>1, <2>2, <3>1
    <2>7. ASSUME NEW i \in a + b + 1 .. a + b + c
          PROVE  eventQueue'[i] = events'[i - (a + b)]
      <3>1. i \in 1 .. a + b + c /\ ~ (i <= a + b)
        BY <1>6, <2>4
      <3> QED BY <2>2, <3>1
    <2> QED BY <2>2, <2>3, <2>5, <2>6, <2>7
  <1>9. a \in 0 .. 1 /\ b \in 0 .. 1 /\ (a = 0 <=> isConnected) /\ (b = 0 <=> p.format = currentFormat)
    BY <1>7
  (* Where the events stand in the queue.                                  *)
  <1> DEFINE Q(i) == eventQueue'[i]
  <1>10. ASSUME NEW i \in 1 .. a + b + c
         PROVE  \/ i = 1 /\ a = 1 /\ Q(i) = [type |-> "Reconnected"]
                \/ i = a + 1 /\ b = 1 /\ Q(i) = [type |-> "FormatChanged", format |-> p.format]
                \/ Q(i) \in AudioEvents(S)
    <2> HIDE DEF a, b, c
    <2>1. CASE i \in 1 .. a
      <3>1. i = 1 /\ a = 1
        BY <1>9, <2>1
      <3> QED BY <1>7, <1>8, <2>1, <3>1
    <2>2. CASE i \in a + 1 .. a + b
      <3>1. i = a + 1 /\ b = 1 /\ i - a \in 1 .. b
        BY <1>9, <2>2
      <3> QED BY <1>7, <1>8, <2>2, <3>1
    <2>3. CASE i \in a + b + 1 .. a + b + c
      <3>1. i - (a + b) \in 1 .. c
        BY <1>6, <1>9, <2>3
      <3> QED BY <1>6, <1>8, <2>3, <3>1
    <2>4. i \in 1 .. a \/ i \in a + 1 .. a + b \/ i \in a + b + 1 .. a + b + c
      BY <1>6, <1>9
    <2> QED BY <2>1, <2>2, <2>3, <2>4
  <1>11. a = 1 => /\ 1 \in 1 .. a + b + c /\ Q(1) = [type |-> "Reconnected"]
    <2> HIDE DEF a, b, c
    <2> QED BY <1>6, <1>7, <1>8, <1>9
  <1>12. b = 1 => /\ a + 1 \in 1 .. a + b + c /\ Q(a + 1).type = "FormatChanged"
    <2> HIDE DEF a, b, c
    <2>1. b = 1 => a + 1 \in 1 .. a + b + c /\ a + 1 \in a + 1 .. a + b /\ a + 1 - a \in 1 .. b
      BY <1>6, <1>9
    <2> QED BY <1>7, <1>8, <2>1
  <1> HIDE DEF a, b, c
  <1>13. QueueOrdered'
    <2>1. appConnected = isConnected /\ appFormat = currentFormat /\ isConnected \in BOOLEAN
      BY <1>1, <1>2 DEF QueueOrdered, IsConnection, IsFormat, SessionTypes
    <2>2. appConnected' = appConnected /\ appFormat' = appFormat
      BY <1>2 DEF appVars
    <2>3. ASSUME NEW i \in DOMAIN eventQueue', Connection(Q(i))
          PROVE  i = 1 /\ (Q(i).type = "Reconnected") = isConnected' /\ appConnected' = ~ isConnected'
      <3>1. i = 1 /\ a = 1 /\ Q(i) = [type |-> "Reconnected"]
        BY <1>8, <1>10, <2>3, EventTypes DEF Connection
      <3>2. isConnected = FALSE
        BY <1>9, <2>1, <3>1
      <3>3. appConnected' = FALSE /\ isConnected' = TRUE /\ Q(i).type = "Reconnected"
        BY <1>2, <2>1, <2>2, <3>1, <3>2
      <3> QED BY <3>1, <3>3
    <2>4. ASSUME ~ IsConnection(1)'
          PROVE  appConnected' = isConnected'
      <3>1. a # 1
        BY <1>8, <1>11, <2>4 DEF IsConnection, Connection
      <3>2. isConnected = TRUE
        BY <1>9, <2>1, <3>1
      <3> QED BY <1>2, <2>1, <2>2, <3>2
    <2>5. ASSUME NEW i \in DOMAIN eventQueue', Q(i).type = "FormatChanged"
          PROVE  Q(i).format = currentFormat' /\ \A j \in 1 .. i - 1 : IsConnection(j)'
      <3>1. i = a + 1 /\ Q(i).format = p.format
        BY <1>8, <1>10, <2>5, EventTypes
      <3>2. \A j \in 1 .. i - 1 : a = 1 /\ j = 1
        BY <1>9, <3>1
      <3>3. a = 1 => IsConnection(1)'
        BY <1>8, <1>11 DEF IsConnection, Connection
      <3> QED BY <1>2, <3>1, <3>2, <3>3
    <2>6. ASSUME \A i \in DOMAIN eventQueue' : Q(i).type # "FormatChanged"
          PROVE  appFormat' = currentFormat'
      <3>2. b # 1
        BY <1>8, <1>12, <2>6
      <3> QED BY <1>2, <1>9, <2>1, <2>2, <3>2
    <2>7. ASSUME NEW i \in DOMAIN eventQueue', Q(i).type = "Packet"
          PROVE  Q(i).packet.format = currentFormat'
      <3>1. Q(i) \in AudioEvents(S)
        BY <1>8, <1>10, <2>7
      <3> QED BY <1>1, <1>2, <1>4, <2>7, <3>1, EventTypes
    <2> QED BY <2>3, <2>4, <2>5, <2>6, <2>7 DEF QueueOrdered, IsConnection, IsFormat, IsPacket
  <1>14. SessionTypes'
    BY <1>1, <1>2, <1>4, <1>5, <1>8 DEF SessionTypes, publisherVars, appVars
  <1>15. OneFormat'
    BY <1>1, <1>2, <1>4, <1>5 DEF OneFormat, publisherVars
  <1> QED BY <1>2, <1>5, <1>13, <1>14, <1>15 DEF SessionIInv

LEMMA CheckSilenceKeeps ==
  ASSUME SessionIInv, CheckSilence
  PROVE  SessionIInv'
  <1>1. /\ WindowKept /\ SessionTypes /\ OneFormat /\ QueueOrdered
    BY DEF SessionIInv
  <1>2. /\ eventQueue = << >> /\ ~ gapStarted /\ isConnected' = FALSE
        /\ eventQueue' = IF isConnected THEN <<[type |-> "Disconnected"]>> ELSE << >>
        /\ UNCHANGED <<publisherVars, flying, windowVars, currentFormat, appVars>>
    BY DEF CheckSilence, Idle
  <1>3. appConnected = isConnected /\ appFormat = currentFormat /\ Held = {} /\ isConnected \in BOOLEAN
    BY <1>1, <1>2 DEF QueueOrdered, IsConnection, IsFormat, WindowKept, SessionTypes
  <1>4. WindowKept'
    BY <1>1, <1>2 DEF WindowKept, windowVars, Held
  <1>5. eventQueue' \in Seq(Events)
    <2>1. [type |-> "Disconnected"] \in Events /\ << >> \in Seq(Events)
      BY EmptySeq DEF Events
    <2>2. \A e \in Events : <<e>> \in Seq(Events)
      OBVIOUS
    <2> QED BY <1>2, <2>1, <2>2
  <1>6. SessionTypes'
    BY <1>1, <1>2, <1>5 DEF SessionTypes, publisherVars, appVars, windowVars
  <1>7. OneFormat'
    BY <1>1, <1>2 DEF OneFormat, publisherVars, windowVars, Held
  <1>8. QueueOrdered'
    <2>1. CASE isConnected
      <3>1. /\ DOMAIN eventQueue' = {1} /\ eventQueue'[1] = [type |-> "Disconnected"]
        BY <1>2, <2>1
      <3>2. /\ isConnected' = FALSE /\ appConnected' = TRUE /\ appFormat' = currentFormat'
        BY <1>2, <1>3, <2>1 DEF appVars
      <3>3. \A i \in DOMAIN eventQueue' :
              i = 1 /\ eventQueue'[i].type = "Disconnected" /\ Connection(eventQueue'[i])
        BY <3>1 DEF Connection
      <3> QED BY <3>1, <3>2, <3>3 DEF QueueOrdered, IsConnection, IsFormat, IsPacket
    <2>2. CASE ~ isConnected
      <3>1. DOMAIN eventQueue' = {}
        BY <1>2, <2>2
      <3> QED BY <1>2, <1>3, <2>2, <3>1 DEF QueueOrdered, IsConnection, IsFormat, IsPacket, appVars
    <2> QED BY <2>1, <2>2
  <1>9. Held' = {}
    BY <1>2, <1>3 DEF Held, windowVars
  <1> QED BY <1>4, <1>6, <1>7, <1>8, <1>9 DEF SessionIInv

(* Behind its head the queue holds no report of the connection, and one of *)
(* the format only behind such a report.                                   *)
LEMMA HandleKeeps ==
  ASSUME SessionIInv, Handle
  PROVE  SessionIInv'
  <1> DEFINE head == Head(eventQueue)
             q == eventQueue'
  <1>1. /\ WindowKept /\ SessionTypes /\ OneFormat /\ QueueOrdered /\ (~ isConnected => Held = {})
    BY DEF SessionIInv
  <1>2. /\ eventQueue # << >> /\ eventQueue' = Tail(eventQueue)
        /\ UNCHANGED <<publisherVars, flying, windowVars, isConnected, currentFormat>>
    BY DEF Handle, HandleAudio, HandleFormatChanged, HandleDisconnected, HandleReconnected, Next1, Idle
  <1>3. /\ q \in Seq(Events) /\ Len(q) \in Nat /\ DOMAIN q = 1 .. Len(q)
        /\ \A i \in 1 .. Len(q) : /\ i + 1 \in DOMAIN eventQueue /\ q[i] = eventQueue[i + 1]
        /\ 1 \in DOMAIN eventQueue /\ eventQueue[1] = head
        /\ Len(eventQueue) \in Nat /\ DOMAIN eventQueue = 1 .. Len(q) + 1
    <2>1. eventQueue \in Seq(Events)
      BY <1>1 DEF SessionTypes
    <2>2. /\ q \in Seq(Events) /\ Len(q) = Len(eventQueue) - 1
          /\ \A i \in 1 .. Len(q) : q[i] = eventQueue[i + 1]
      BY <1>2, <2>1, HeadTailProperties
    <2>3. /\ Len(eventQueue) \in Nat /\ Len(eventQueue) # 0 /\ DOMAIN eventQueue = 1 .. Len(eventQueue)
          /\ DOMAIN q = 1 .. Len(q) /\ eventQueue[1] = head
      BY <1>2, <2>1, <2>2, LenProperties, EmptySeq
    <2> HIDE DEF q, head
    <2> QED BY <2>2, <2>3
  <1> HIDE DEF q
  <1>4. ASSUME NEW i \in DOMAIN q
        PROVE  ~ Connection(q[i])
    <2>1. IsConnection(i + 1) => i + 1 = 1
      BY <1>1 DEF QueueOrdered
    <2> QED BY <1>3, <1>4, <2>1 DEF IsConnection
  <1>5. ASSUME NEW i \in DOMAIN q, q[i].type = "FormatChanged"
        PROVE  i = 1 /\ q[i].format = currentFormat
    <2>1. IsFormat(i + 1)
      BY <1>3, <1>5 DEF IsFormat
    <2>2. /\ eventQueue[i + 1].format = currentFormat
          /\ \A j \in 1 .. (i + 1) - 1 : IsConnection(j)
      <3>1. \A k : IsFormat(k) => /\ eventQueue[k].format = currentFormat
                                 /\ \A j \in 1 .. k - 1 : IsConnection(j)
        BY <1>1 DEF QueueOrdered
      <3> QED BY <2>1, <3>1
    <2>3. IsConnection(i)
      BY <1>3, <1>5, <2>2
    <2>4. i = 1
      BY <1>1, <2>3 DEF QueueOrdered
    <2> QED BY <1>3, <1>5, <2>2, <2>4
  <1>6. ASSUME NEW i \in DOMAIN q, q[i].type = "Packet"
        PROVE  q[i].packet.format = currentFormat
    <2>1. IsPacket(i + 1)
      BY <1>3, <1>6 DEF IsPacket
    <2> QED BY <1>1, <1>3, <1>6, <2>1 DEF QueueOrdered
  <1>7. appConnected' = isConnected /\ appConnected' \in BOOLEAN
    <2>0. isConnected \in BOOLEAN /\ appConnected \in BOOLEAN
      BY <1>1 DEF SessionTypes
    <2>1. CASE HandleAudio \/ HandleFormatChanged
      <3>1. ~ IsConnection(1) /\ appConnected' = appConnected
        BY <1>3, <2>1 DEF HandleAudio, HandleFormatChanged, Next1, IsConnection, Connection, appVars
      <3> QED BY <1>1, <2>0, <3>1 DEF QueueOrdered
    <2>2. CASE HandleDisconnected
      <3>1. IsConnection(1) /\ eventQueue[1].type = "Disconnected" /\ appConnected' = FALSE
        BY <1>3, <2>2 DEF HandleDisconnected, Next1, IsConnection, Connection
      <3> QED BY <1>1, <2>0, <3>1 DEF QueueOrdered
    <2>3. CASE HandleReconnected
      <3>1. IsConnection(1) /\ eventQueue[1].type = "Reconnected" /\ appConnected' = TRUE
        BY <1>3, <2>3 DEF HandleReconnected, Next1, IsConnection, Connection
      <3> QED BY <1>1, <2>0, <3>1 DEF QueueOrdered
    <2> QED BY <2>1, <2>2, <2>3 DEF Handle
  <1>8. ASSUME \A i \in DOMAIN q : q[i].type # "FormatChanged"
        PROVE  appFormat' = currentFormat
    <2>1. CASE HandleFormatChanged
      <3>1. IsFormat(1) /\ appFormat' = eventQueue[1].format
        BY <1>3, <2>1 DEF HandleFormatChanged, Next1, IsFormat
      <3> QED BY <1>1, <3>1 DEF QueueOrdered
    <2>2. CASE HandleAudio \/ HandleDisconnected \/ HandleReconnected
      <3>1. head.type # "FormatChanged" /\ appFormat' = appFormat
        BY <2>2 DEF HandleAudio, HandleDisconnected, HandleReconnected, Next1, appVars
      <3>2. ASSUME NEW i, IsFormat(i)
            PROVE  FALSE
        <4>1. i \in DOMAIN eventQueue /\ i # 1 /\ eventQueue[i].type = "FormatChanged"
          BY <1>3, <3>1, <3>2 DEF IsFormat
        <4>2. i - 1 \in DOMAIN q /\ i - 1 + 1 = i
          BY <1>3, <4>1
        <4> QED BY <1>3, <1>8, <4>1, <4>2
      <3> QED BY <1>1, <3>1, <3>2 DEF QueueOrdered
    <2> QED BY <2>1, <2>2 DEF Handle
  <1>9. QueueOrdered'
    <2>1. q = eventQueue' /\ isConnected' = isConnected /\ currentFormat' = currentFormat
      BY <1>2 DEF q
    <2> QED BY <1>4, <1>5, <1>6, <1>7, <1>8, <2>1 DEF QueueOrdered, IsConnection, IsFormat, IsPacket
  <1>10. SessionTypes'
    <2>1. eventQueue' \in Seq(Events)
      BY <1>3 DEF q
    <2> QED BY <1>1, <1>2, <1>7, <2>1 DEF SessionTypes, publisherVars, windowVars
  <1>11. WindowKept' /\ OneFormat' /\ (~ isConnected' => Held' = {})
    BY <1>1, <1>2 DEF WindowKept, OneFormat, publisherVars, windowVars, Held
  <1> QED BY <1>9, <1>10, <1>11 DEF SessionIInv

-----------------------------------------------------------------------------
(* The publisher, the network and time leave the queue and the window      *)
(* alone; a new incarnation finds the window and the network empty.        *)

LEMMA OutsideKeeps ==
  ASSUME SessionIInv,
         \/ Publish \/ Subscribe \/ LoseRequest \/ LosePacket \/ Crash \/ Restart \/ Tick
         \/ UNCHANGED vars
  PROVE  SessionIInv'
  <1>1. /\ WindowKept /\ SessionTypes /\ OneFormat /\ QueueOrdered /\ (~ isConnected => Held = {})
    BY DEF SessionIInv
  <1>2. UNCHANGED <<windowVars, isConnected, currentFormat, eventQueue, appVars>>
    BY DEF Publish, Subscribe, LoseRequest, LosePacket, Crash, Restart, Tick, vars, receiverVars
  <1>3. WindowKept' /\ QueueOrdered' /\ (~ isConnected' => Held' = {})
    BY <1>1, <1>2 DEF WindowKept, QueueOrdered, IsConnection, IsFormat, IsPacket, windowVars, appVars, Held
  <1>4. SessionTypes' /\ OneFormat'
    <2> USE <1>1, <1>2 DEF SessionTypes, OneFormat, windowVars, appVars, publisherVars, Held
    <2>1. CASE Publish
      <3>1. pubSeq' \in SeqNums
        BY <2>1, SeqFacts, WindowAssumption DEF Publish, SeqSpace
      <3>2. [run |-> pubRun, seq |-> pubSeq, format |-> pubFormat] \in Packets
        BY DEF Packets
      <3> QED BY <2>1, <3>1, <3>2 DEF Publish
    <2>2. CASE Subscribe \/ LoseRequest \/ LosePacket
      BY <2>2 DEF Subscribe, LoseRequest, LosePacket
    <2>3. CASE Crash
      BY <2>3 DEF Crash
    <2>4. CASE Restart
      <3>1. Held = {} /\ flying = {} /\ ~ gapStarted
        BY <2>4 DEF Restart, WindowKept
      <3>2. pubRun + 1 \in 1 .. MaxRuns
        BY <2>4, SessionAssumption DEF Restart
      <3>3. 0 \in SeqNums
        BY WindowAssumption DEF SeqNums, SeqSpace
      <3> QED BY <2>4, <3>1, <3>2, <3>3 DEF Restart, Contents
    <2>5. CASE Tick
      <3>1. /\ flying' = {} /\ gapStarted = FALSE
            /\ pubUp' = pubUp /\ pubRun' = pubRun /\ pubSeq' = pubSeq /\ pubFormat' = pubFormat
            /\ downNow' = FALSE
        BY <2>5 DEF Tick, WindowKept
      <3> QED BY <3>1
    <2>6. CASE UNCHANGED vars
      BY <2>6 DEF vars
    <2> QED BY <2>1, <2>2, <2>3, <2>4, <2>5, <2>6
  <1> QED BY <1>3, <1>4 DEF SessionIInv

THEOREM SessionKeeps == Spec => []SessionIInv
  <1>1. Init => SessionIInv
    <2> SUFFICES ASSUME Init PROVE SessionIInv
      OBVIOUS
    <2>1. /\ DOMAIN buffer = {} /\ nextExpected = NoSeq /\ gapStarted = FALSE
          /\ DOMAIN eventQueue = {} /\ eventQueue = << >> /\ flying = {}
      BY DEF Init, WindowInit
    <2>2. Contents(buffer) = {} /\ Cardinality(DOMAIN buffer) = 0 /\ Held = {}
      BY <2>1, FS_EmptySet DEF Contents, Held
    <2>3. WindowKept
      <3>1. Bounded(buffer)
        BY <2>1, <2>2, WindowAssumption DEF Bounded, Mapped
      <3> QED BY <2>1, <2>2, <3>1 DEF WindowKept
    <2>4. eventQueue \in Seq(Events) /\ 1 \in 1 .. MaxRuns
      BY <2>1, EmptySeq, SessionAssumption
    <2>5. SessionTypes
      BY <2>1, <2>2, <2>4 DEF Init, SessionTypes
    <2>6. OneFormat
      BY <2>1, <2>2 DEF Init, OneFormat
    <2>7. QueueOrdered
      BY <2>1 DEF Init, QueueOrdered, IsConnection, IsFormat, IsPacket
    <2> QED BY <2>2, <2>3, <2>5, <2>6, <2>7 DEF SessionIInv
  <1>2. SessionIInv /\ [Next]_vars => SessionIInv'
    <2> SUFFICES ASSUME SessionIInv, [Next]_vars PROVE SessionIInv'
      OBVIOUS
    <2>1. CASE Poll
      BY <2>1, FlushKeeps, CheckSilenceKeeps, ReceiveKeeps DEF Poll
    <2>2. CASE Handle
      BY <2>2, HandleKeeps
    <2>3. CASE ~ Poll /\ ~ Handle
      BY <2>3, OutsideKeeps DEF Next
    <2> QED BY <2>1, <2>2, <2>3
  <1> QED BY <1>1, <1>2, PTL DEF Spec

(* The player is told of every change of the connection, once and in turn, *)
(* and of none that is not: whatever crashes, restarts, is lost or late.   *)
THEOREM ReportsInTurn == Spec => []ConnectionReports
  <1>1. SessionIInv => ConnectionReports
    <2> SUFFICES ASSUME SessionIInv PROVE ConnectionReports
      OBVIOUS
    <2>1. QueueOrdered /\ (~ isConnected => Held = {})
      BY DEF SessionIInv
    <2>2. \A i \in DOMAIN eventQueue : Connection(eventQueue[i]) =>
            i = 1 /\ (eventQueue[i].type = "Reconnected") = isConnected /\ appConnected = ~ isConnected
      BY <2>1 DEF QueueOrdered, IsConnection
    <2>3. ~ (1 \in DOMAIN eventQueue /\ Connection(eventQueue[1])) => appConnected = isConnected
      BY <2>1 DEF QueueOrdered, IsConnection
    <2> QED BY <2>1, <2>2, <2>3 DEF ConnectionReports
  <1> QED BY SessionKeeps, <1>1, PTL

(* Every packet is played in the format it was sent in, across restarts of *)
(* the publisher in other formats.                                         *)
THEOREM FormatsFollow == Spec => []PlayedInFormat
  <1>1. SessionIInv => PlayedInFormat
    <2> SUFFICES ASSUME SessionIInv, eventQueue # << >>, Head(eventQueue).type = "Packet"
                 PROVE  appFormat = Head(eventQueue).packet.format
      BY DEF PlayedInFormat, Idle
    <2>1. QueueOrdered /\ eventQueue \in Seq(Events)
      BY DEF SessionIInv, SessionTypes
    <2>2. 1 \in DOMAIN eventQueue /\ eventQueue[1] = Head(eventQueue) /\ DOMAIN eventQueue = 1 .. Len(eventQueue)
          /\ Len(eventQueue) \in Nat
      BY <2>1, LenProperties, EmptySeq
    <2>3. Head(eventQueue).packet.format = currentFormat
      BY <2>1, <2>2 DEF QueueOrdered, IsPacket
    <2>4. ASSUME NEW i, IsFormat(i)
          PROVE  FALSE
      <3>1. i \in DOMAIN eventQueue /\ i # 1
        BY <2>2, <2>4 DEF IsFormat
      <3>2. IsConnection(1)
        BY <2>1, <2>2, <2>4, <3>1 DEF QueueOrdered
      <3> QED BY <2>2, <3>2 DEF IsConnection, Connection
    <2> QED BY <2>1, <2>3, <2>4 DEF QueueOrdered
  <1> QED BY SessionKeeps, <1>1, PTL

=============================================================================
