----------------------------- MODULE WebPublisher -----------------------------
(***************************************************************************)
(* A browser that publishes (audio-core, web_publish.rs): its handshake    *)
(* opens a stream, which one thread advertises and another takes           *)
(* subscriptions for; each message of samples becomes packets for those    *)
(* who had subscribed when it was read.  Subscriptions are never dropped.  *)
(***************************************************************************)
EXTENDS Integers, Sequences, FiniteSets

CONSTANTS
  Receivers,       \* addresses that subscribe
  MessageFrames,   \* frames a message may have
  FramesPerPacket, \* MAX_FRAMES_PER_PACKET, or what fits into a packet
  MaxMessages      \* bound: messages the browser sends

ASSUME WebPublisherAssumption ==
  /\ MessageFrames \subseteq Nat /\ FramesPerPacket \in Nat \ {0} /\ MaxMessages \in Nat

VARIABLES
  gatewayRuns, \* global_keep_running
  publishPc,   \* "handshake", "looking", "reading", "sending", "ended"
  advRunning,  \* adv_keep_running
  helpers,     \* the threads that advertise and listen, while they run
  subscribers,
  snapshot,    \* `subs': whom the message at hand is for
  framesLeft,  \* frames of it that are not sent yet
  webSequence, \* number of the next packet
  messages,    \* messages read
  heardBy,     \* the packets a receiver was sent: [seq, frames]
  owed,    \* frames of messages read since a receiver subscribed
  browserGone

publisherVars == <<gatewayRuns, publishPc, advRunning, helpers, subscribers, snapshot,
                   framesLeft, webSequence, messages, heardBy, owed, browserGone>>

BothThreads == {"advertise", "listen"}

(* Anything but a text that asks to publish at a known rate is refused     *)
(* before a thread is started.                                             *)
Welcome ==
  /\ publishPc = "handshake"
  /\ \/ /\ ~ browserGone
        /\ publishPc' = "looking"
        /\ advRunning' = TRUE /\ helpers' = BothThreads
     \/ publishPc' = "ended" /\ UNCHANGED <<advRunning, helpers>>
  /\ UNCHANGED <<gatewayRuns, subscribers, snapshot, framesLeft, webSequence, messages,
                 heardBy, owed, browserGone>>

(* The listener enters whoever asks for this stream.                       *)
Subscribe(r) ==
  /\ "listen" \in helpers
  /\ subscribers' = subscribers \cup {r}
  /\ UNCHANGED <<gatewayRuns, publishPc, advRunning, helpers, snapshot, framesLeft,
                 webSequence, messages, heardBy, owed, browserGone>>

(* Both helpers look at adv_keep_running.                                  *)
HelperEnds(h) ==
  /\ h \in helpers /\ ~ advRunning
  /\ helpers' = helpers \ {h}
  /\ UNCHANGED <<gatewayRuns, publishPc, advRunning, subscribers, snapshot, framesLeft,
                 webSequence, messages, heardBy, owed, browserGone>>

(* Faulty variant: the helpers are not told.                               *)
Finished_KeepsHelpers == publishPc' = "ended" /\ UNCHANGED advRunning
Finished == publishPc' = "ended" /\ advRunning' = FALSE

Look ==
  /\ publishPc = "looking"
  /\ IF gatewayRuns THEN publishPc' = "reading" /\ UNCHANGED advRunning ELSE Finished
  /\ UNCHANGED <<gatewayRuns, helpers, subscribers, snapshot, framesLeft, webSequence,
                 messages, heardBy, owed, browserGone>>

(* A closed connection or an error ends the loop; a read that times out    *)
(* does so only where that error is not WouldBlock.                        *)
ReadEnds ==
  /\ publishPc = "reading"
  /\ \/ Finished
     \/ ~ browserGone /\ publishPc' = "looking" /\ UNCHANGED advRunning
  /\ UNCHANGED <<gatewayRuns, helpers, subscribers, snapshot, framesLeft, webSequence,
                 messages, heardBy, owed, browserGone>>

(* Without subscribers a message is dropped, and takes no number.          *)
ReadMessage(frames) ==
  /\ publishPc = "reading" /\ ~ browserGone /\ messages < MaxMessages
  /\ messages' = messages + 1
  /\ snapshot' = subscribers
  /\ framesLeft' = frames
  /\ owed' = [r \in Receivers |->
       IF r \in subscribers THEN owed[r] + frames ELSE owed[r]]
  /\ publishPc' = IF subscribers = {} \/ frames = 0 THEN "looking" ELSE "sending"
  /\ UNCHANGED <<gatewayRuns, advRunning, helpers, subscribers, webSequence, heardBy,
                 browserGone>>

SmallerOf(m, n) == IF m < n THEN m ELSE n

SendPacket ==
  LET frames == SmallerOf(framesLeft, FramesPerPacket)
  IN  /\ publishPc = "sending"
      /\ heardBy' = [r \in Receivers |->
           IF r \in snapshot THEN Append(heardBy[r], [seq |-> webSequence, frames |-> frames])
           ELSE heardBy[r]]
      /\ webSequence' = webSequence + 1
      /\ framesLeft' = framesLeft - frames
      /\ publishPc' = IF framesLeft' = 0 THEN "looking" ELSE "sending"
      /\ UNCHANGED <<gatewayRuns, advRunning, helpers, subscribers, snapshot, messages,
                     owed, browserGone>>

GatewayStops ==
  /\ gatewayRuns' = FALSE
  /\ UNCHANGED <<publishPc, advRunning, helpers, subscribers, snapshot, framesLeft,
                 webSequence, messages, heardBy, owed, browserGone>>

BrowserLeaves ==
  /\ browserGone' = TRUE
  /\ UNCHANGED <<gatewayRuns, publishPc, advRunning, helpers, subscribers, snapshot,
                 framesLeft, webSequence, messages, heardBy, owed>>

PublisherInit ==
  /\ gatewayRuns = TRUE /\ browserGone = FALSE
  /\ publishPc = "handshake" /\ advRunning = FALSE /\ helpers = {}
  /\ subscribers = {} /\ snapshot = {} /\ framesLeft = 0
  /\ webSequence = 0 /\ messages = 0
  /\ heardBy = [r \in Receivers |-> << >>]
  /\ owed = [r \in Receivers |-> 0]

PublishTurn == Welcome \/ Look \/ ReadEnds \/ SendPacket

PublisherNext ==
  \/ PublishTurn
  \/ \E frames \in MessageFrames : ReadMessage(frames)
  \/ \E r \in Receivers : Subscribe(r)
  \/ \E h \in BothThreads : HelperEnds(h)
  \/ GatewayStops \/ BrowserLeaves

-----------------------------------------------------------------------------
FramesIn(packets) ==
  LET upTo[i \in 0 .. Len(packets)] == IF i = 0 THEN 0 ELSE upTo[i - 1] + packets[i].frames
  IN  upTo[Len(packets)]

(* Whenever a receiver joins, the packets it is sent are numbered one by   *)
(* one, and between messages they hold every frame the browser sent since  *)
(* (web_publish.rs 151-237).                                               *)
SentWhole ==
  \A r \in Receivers :
    /\ \A i \in 1 .. Len(heardBy[r]) - 1 : heardBy[r][i + 1].seq = heardBy[r][i].seq + 1
    /\ publishPc # "sending" => FramesIn(heardBy[r]) = owed[r]

(* A browser that left, or a stopped gateway, ends the stream: it is       *)
(* advertised and can be subscribed to no more.                            *)
PublishingEnds == ~ gatewayRuns \/ browserGone ~> publishPc = "ended" /\ helpers = {}

=============================================================================
