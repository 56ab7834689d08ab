---------------------------- MODULE ReorderStream ----------------------------
(***************************************************************************)
(* The reorder window at work: a publisher numbers packets one by one, UDP *)
(* delivers them late, twice, out of order or never, FEC rebuilds a lost   *)
(* packet of a group whose others arrived, and the application consumes    *)
(* the events in the order StreamReceiver::poll_next_event queues them.    *)
(***************************************************************************)
EXTENDS ReorderWindow

CONSTANTS
  FirstSeqs,   \* sequence numbers the publisher may be at when we join
  MaxSent,     \* bound: packets published
  Skews,       \* how far ahead of the window packets may arrive, by network
  GroupSize,   \* packets of an FEC group (fec.rs: 5)
  NotStarted

ASSUME StreamAssumption ==
  /\ FirstSeqs \subseteq SeqNums
  /\ MaxSent \in Nat /\ Skews \subseteq Nat
  /\ MaxSent < Half
  /\ GroupSize \in Nat \ {0, 1}
  /\ NotStarted \notin Int

VARIABLES
  pubSeq,      \* sequence number of the next packet to publish
  sent,        \* packets published so far
  arrived,     \* places of the packets that reached the receiver
  eventQueue,  \* StreamReceiver.event_queue
  skew,        \* how far ahead packets arrive on this network, never changes
  cursor,      \* next place the application has to account for
  played       \* places the application has played

streamVars == <<pubSeq, sent, arrived, eventQueue, skew, cursor, played>>
vars == <<windowVars, streamVars>>

-----------------------------------------------------------------------------
(* Publisher: transmit.rs takes packets_sent.fetch_add(1) for each packet. *)
Publish ==
  /\ Cardinality(sent) < MaxSent
  /\ sent' = sent \cup {[pos |-> Cardinality(sent), seq |-> pubSeq]}
  /\ pubSeq' = Advance(pubSeq, 1)
  /\ UNCHANGED <<windowVars, arrived, eventQueue, skew, cursor, played>>

-----------------------------------------------------------------------------
(* Receiver: poll_next_event first hands out queued events, then flushes   *)
(* the window, then reads the socket.                                      *)

Idle == eventQueue = << >>

(* A packet may arrive late, or up to `skew' ahead of the window.          *)
InReach(p) ==
  \/ nextExpected = NoSeq
  \/ Distance(p.seq, nextExpected) <= skew
  \/ Distance(p.seq, nextExpected) > Half

Receive(p) ==
  /\ Idle
  /\ InReach(p)
  /\ Push(p)
  /\ arrived' = arrived \cup {p.pos}
  /\ eventQueue' = events'
  /\ UNCHANGED <<pubSeq, sent, skew, cursor, played>>

Group(pos) ==
  LET base == GroupSize * (pos \div GroupSize) IN base .. base + GroupSize - 1

(* The FEC packet of a group follows its last packet, and rebuilds the one *)
(* packet of the group that did not arrive.                                *)
ReceiveFec(p) ==
  /\ Idle
  /\ \A i \in Group(p.pos) : \E q \in sent : q.pos = i
  /\ Group(p.pos) \ arrived = {p.pos}
  /\ PushRecovered(p)
  /\ eventQueue' = events'
  /\ UNCHANGED <<pubSeq, sent, arrived, skew, cursor, played>>

Flush ==
  /\ Idle
  /\ FlushExpiredGap
  /\ eventQueue' = events'
  /\ UNCHANGED <<pubSeq, sent, arrived, skew, cursor, played>>

-----------------------------------------------------------------------------
(* Application: takes one event and accounts for it.                       *)
ConsumePacket ==
  /\ ~ Idle
  /\ Head(eventQueue).type = "Packet"
  /\ LET p == Head(eventQueue).packet
     IN  /\ cursor' = IF cursor = NotStarted THEN p.pos + 1 ELSE cursor + 1
         /\ played' = played \cup {p.pos}
  /\ eventQueue' = Tail(eventQueue)
  /\ UNCHANGED <<windowVars, pubSeq, sent, arrived, skew>>

ConsumeDropped ==
  /\ ~ Idle
  /\ Head(eventQueue).type = "Dropped"
  /\ cursor' = cursor + Head(eventQueue).count
  /\ eventQueue' = Tail(eventQueue)
  /\ UNCHANGED <<windowVars, pubSeq, sent, arrived, skew, played>>

Consume == ConsumePacket \/ ConsumeDropped

-----------------------------------------------------------------------------
Init ==
  /\ WindowInit
  /\ pubSeq \in FirstSeqs
  /\ sent = {} /\ arrived = {}
  /\ eventQueue = << >>
  /\ skew \in Skews
  /\ cursor = NotStarted
  /\ played = {}

Next ==
  \/ Publish
  \/ \E p \in sent : Receive(p) \/ ReceiveFec(p)
  \/ Flush
  \/ Consume

Spec == Init /\ [][Next]_vars

(* next_event polls until its deadline and the application calls it in a   *)
(* loop, so queued events are taken and an expired gap is flushed.  No     *)
(* fairness on the network or the publisher: a packet may never arrive.    *)
FairSpec == Spec /\ WF_vars(Consume) /\ WF_vars(Flush)

-----------------------------------------------------------------------------
(* On a network that reorders within the window, it holds only packets it  *)
(* still waits to deliver: each is ahead of next_expected_seq and within   *)
(* the capacity.  Hence the overflow and jump branches of push stay out of *)
(* reach there, and sequence wraparound cannot confuse a held packet.      *)
HeldAhead ==
  skew <= Capacity /\ nextExpected # NoSeq =>
    \A k \in Held : Distance(k, nextExpected) \in 1 .. Capacity

(* On such a network the application's account is that of OrderedPlayback: *)
(* each packet is played once and in its turn, each missing one is covered *)
(* by a Dropped report of exactly the right size.                          *)
Playback == INSTANCE OrderedPlayback
PlaybackOrdered ==
  /\ Playback!Init
  /\ [][skew <= Capacity => Playback!Next]_(Playback!playbackVars)

(* A held packet is eventually handed over: a gap cannot stall playback    *)
(* even when the publisher falls silent right after it.                    *)
HeldIsReleased == \A k \in SeqNums : (k \in Held) ~> (k \notin Held)

(* Nothing that arrived is played out of order: every packet the           *)
(* application takes lies beyond all it has played (CHANGELOG.md 105).     *)
PlaysForward ==
  [][\A i \in played' \ played : \A j \in played : j < i]_vars

=============================================================================
