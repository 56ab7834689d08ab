---------------------------- MODULE ReorderWindow ----------------------------
(***************************************************************************)
(* The packet reorder window of network-core (receiver.rs,                 *)
(* PacketReorderWindow): it hands packets to its caller in sequence order, *)
(* holds packets that arrive ahead of a gap, and gives a gap up when its   *)
(* timer expires or when the window overflows.                             *)
(*                                                                         *)
(* A packet is a record [pos, seq]: seq is the u32 sequence number of its  *)
(* header (here modulo SeqSpace), pos its place in the publisher's stream.   *)
(* The window looks at seq only; pos lets properties name packets.         *)
(*                                                                         *)
(* One action per return path of push, push_recovered and                  *)
(* flush_expired_gap; `events' is the Vec<ReceiveEvent> the last call      *)
(* returned.                                                               *)
(***************************************************************************)
EXTENDS Integers, FiniteSets, Sequences

CONSTANTS
  Half,           \* 0x8000_0000: half of the sequence number space
  Capacity,       \* PacketReorderWindow.capacity: 32 (StreamReceiver), 16 (bus)
  ResyncDistance  \* 1_000_000: a jump beyond it restarts the window

ASSUME WindowAssumption ==
  /\ Half \in Nat /\ Capacity \in Nat /\ ResyncDistance \in Nat
  /\ 0 < Capacity
  /\ Capacity < ResyncDistance
  /\ ResyncDistance < Half

VARIABLES
  nextExpected,   \* next_expected_seq: Option<u32>
  buffer,         \* BTreeMap<u32, packet>: a function on the held keys
  gapStarted,     \* gap_started.is_some()
  events          \* what the last call returned

windowVars == <<nextExpected, buffer, gapStarted, events>>

-----------------------------------------------------------------------------
(* Sequence arithmetic: u32::wrapping_add and wrapping_sub.                *)

SeqSpace == 2 * Half
SeqNums == 0 .. SeqSpace - 1
NoSeq == -1                       \* next_expected_seq = None

Advance(s, n) == IF s + n < SeqSpace THEN s + n ELSE s + n - SeqSpace
Distance(a, b) == IF a >= b THEN a - b ELSE a - b + SeqSpace

PacketEvent(p) == [type |-> "Packet", packet |-> p]
DroppedEvent(n) == [type |-> "Dropped", count |-> n]

Held == DOMAIN buffer
Without(b, keys) == [k \in DOMAIN b \ keys |-> b[k]]
With(b, p) == [k \in DOMAIN b \cup {p.seq} |-> IF k = p.seq THEN p ELSE b[k]]

-----------------------------------------------------------------------------
(* How many packets of b follow each other without a gap from s on: the    *)
(* drain loops release exactly these.                                      *)
RunLength(b, s) ==
  CHOOSE n \in 0 .. SeqSpace - 1 :
    /\ Advance(s, n) \notin DOMAIN b
    /\ \A i \in 0 .. n - 1 : Advance(s, i) \in DOMAIN b

Run(b, s) == {Advance(s, i) : i \in 0 .. RunLength(b, s) - 1}

(* Faulty variants: the drained packets stay in the map; the gap timer is  *)
(* stopped although packets remain held.                                   *)
DeliverAndDrain_KeepsRun(p, b, reported) ==
  LET start == Advance(p.seq, 1)
  IN  /\ nextExpected' = Advance(start, RunLength(b, start))
      /\ buffer' = b
      /\ gapStarted' = (DOMAIN b # {})
      /\ events' = reported \o <<PacketEvent(p)>> \o
                   [i \in 1 .. RunLength(b, start) |->
                      PacketEvent(b[Advance(start, i - 1)])]

DeliverAndDrain_StopsTimer(p, b, reported) ==
  LET start == Advance(p.seq, 1)
  IN  /\ nextExpected' = Advance(start, RunLength(b, start))
      /\ buffer' = Without(b, Run(b, start))
      /\ gapStarted' = FALSE
      /\ events' = reported \o <<PacketEvent(p)>> \o
                   [i \in 1 .. RunLength(b, start) |->
                      PacketEvent(b[Advance(start, i - 1)])]

(* Deliver p, then every held packet that directly follows it.  Restarts   *)
(* the gap timer if packets remain held, stops it otherwise.               *)
DeliverAndDrain(p, b, reported) ==
  LET start == Advance(p.seq, 1)
      rest  == Without(b, Run(b, start))
  IN  /\ nextExpected' = Advance(start, RunLength(b, start))
      /\ buffer' = rest
      /\ gapStarted' = (DOMAIN rest # {})
      /\ events' = reported \o <<PacketEvent(p)>> \o
                   [i \in 1 .. RunLength(b, start) |->
                      PacketEvent(b[Advance(start, i - 1)])]

-----------------------------------------------------------------------------
(* push                                                                    *)

PushFirst(p) ==
  /\ nextExpected = NoSeq
  /\ nextExpected' = Advance(p.seq, 1)
  /\ events' = <<PacketEvent(p)>>
  /\ UNCHANGED <<buffer, gapStarted>>

PushInOrder(p) ==
  /\ nextExpected # NoSeq
  /\ p.seq = nextExpected
  /\ DeliverAndDrain(p, buffer, << >>)

Ahead(p) ==
  /\ nextExpected # NoSeq
  /\ p.seq # nextExpected
  /\ Distance(p.seq, nextExpected) <= Half

PushLate(p) ==
  /\ nextExpected # NoSeq
  /\ Distance(p.seq, nextExpected) > Half
  /\ events' = << >>
  /\ UNCHANGED <<nextExpected, buffer, gapStarted>>

(* A jump of more than a million restarts the window without a report.     *)
PushResync(p) ==
  /\ Ahead(p)
  /\ Distance(p.seq, nextExpected) > ResyncDistance
  /\ nextExpected' = Advance(p.seq, 1)
  /\ buffer' = << >>
  /\ events' = <<PacketEvent(p)>>
  /\ UNCHANGED gapStarted

(* A jump past the window reports the gap and moves on; what is held stays *)
(* held, behind the new next_expected_seq.                                 *)
PushJump(p) ==
  /\ Ahead(p)
  /\ Distance(p.seq, nextExpected) \in Capacity + 1 .. ResyncDistance
  /\ nextExpected' = Advance(p.seq, 1)
  /\ events' = <<DroppedEvent(Distance(p.seq, nextExpected)), PacketEvent(p)>>
  /\ UNCHANGED <<buffer, gapStarted>>

(* The loop `while buffer.len() > capacity': the numerically smallest keys *)
(* leave in numeric order, whatever side of next_expected_seq they are on. *)
EvictOldest(was) ==
  LET oldest == CHOOSE k \in DOMAIN was.left : \A j \in DOMAIN was.left : k <= j
  IN  [next |-> Advance(oldest, 1),
       left |-> Without(was.left, {oldest}),
       out  |-> was.out
                \o (IF oldest > was.next THEN <<DroppedEvent(oldest - was.next)>> ELSE << >>)
                \o <<PacketEvent(was.left[oldest])>>]

Excess(b) == Cardinality(DOMAIN b) - Capacity

(* What there is after each turn of the loop.                              *)
EvictTurns(b, expected) ==
  LET turn[i \in 0 .. Excess(b)] ==
        IF i = 0 THEN [next |-> expected, left |-> b, out |-> << >>]
        ELSE EvictOldest(turn[i - 1])
  IN  turn

WithinWindow(p) ==
  /\ Ahead(p)
  /\ Distance(p.seq, nextExpected) <= Capacity

PushHold(p) ==
  /\ WithinWindow(p)
  /\ Excess(With(buffer, p)) <= 0
  /\ buffer' = With(buffer, p)
  /\ gapStarted' = TRUE
  /\ events' = << >>
  /\ UNCHANGED nextExpected

PushOverflow(p) ==
  /\ WithinWindow(p)
  /\ LET held == With(buffer, p)
         end  == EvictTurns(held, nextExpected)[Excess(held)]
     IN  /\ Excess(held) > 0
         /\ buffer' = end.left
         /\ nextExpected' = end.next
         /\ events' = end.out
  /\ gapStarted' = TRUE

Push(p) ==
  \/ PushFirst(p)  \/ PushInOrder(p) \/ PushLate(p)
  \/ PushResync(p) \/ PushJump(p)    \/ PushHold(p)
  \/ PushOverflow(p)

-----------------------------------------------------------------------------
(* push_recovered: a packet rebuilt by FEC is delivered or held like any   *)
(* other, but it never starts the gap timer and is ignored past the window.*)

RecoverHold(p) ==
  /\ WithinWindow(p)
  /\ buffer' = With(buffer, p)
  /\ events' = << >>
  /\ UNCHANGED <<nextExpected, gapStarted>>

RecoverIgnore(p) ==
  /\ nextExpected # NoSeq
  /\ p.seq # nextExpected
  /\ Distance(p.seq, nextExpected) > Capacity
  /\ events' = << >>
  /\ UNCHANGED <<nextExpected, buffer, gapStarted>>

PushRecovered(p) ==
  PushFirst(p) \/ PushInOrder(p) \/ RecoverHold(p) \/ RecoverIgnore(p)

-----------------------------------------------------------------------------
(* flush_expired_gap.  The 20 ms (or set_gap_timeout) the timer must have  *)
(* run are not counted: a started timer may have expired at any call.      *)

Nearer == {k \in Held : Distance(k, nextExpected) < Half}

(* Faulty variant: the packet delivered next is counted as lost, too.      *)
FlushGap_OverReports ==
  /\ gapStarted
  /\ nextExpected # NoSeq
  /\ Nearer # {}
  /\ LET first   == CHOOSE k \in Nearer :
                      \A j \in Nearer : Distance(k, nextExpected) <= Distance(j, nextExpected)
         missing == Distance(first, nextExpected) + 1
     IN  DeliverAndDrain(buffer[first], Without(buffer, {first}),
                         <<DroppedEvent(missing)>>)

FlushGap ==
  /\ gapStarted
  /\ nextExpected # NoSeq
  /\ Nearer # {}
  /\ LET first   == CHOOSE k \in Nearer :
                      \A j \in Nearer : Distance(k, nextExpected) <= Distance(j, nextExpected)
         missing == Distance(first, nextExpected)
     IN  DeliverAndDrain(buffer[first], Without(buffer, {first}),
                         IF missing > 0 THEN <<DroppedEvent(missing)>> ELSE << >>)

(* Nothing held lies ahead: whatever is held is thrown away unreported.    *)
FlushStale ==
  /\ gapStarted
  /\ nextExpected = NoSeq \/ Nearer = {}
  /\ buffer' = << >>
  /\ gapStarted' = FALSE
  /\ events' = << >>
  /\ UNCHANGED nextExpected

FlushExpiredGap == FlushGap \/ FlushStale

WindowInit ==
  /\ nextExpected = NoSeq
  /\ buffer = << >>
  /\ gapStarted = FALSE
  /\ events = << >>

=============================================================================
