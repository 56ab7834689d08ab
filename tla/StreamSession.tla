----------------------------- MODULE StreamSession -----------------------------
(***************************************************************************)
(* A StreamReceiver subscribed to a publisher that may crash and restart   *)
(* (network-core, receiver.rs), under the CLI player that consumes its     *)
(* events (apps/receiver, play_stream).  The publisher sends while the     *)
(* receiver's lease (discovery.rs, SUBSCRIBER_LEASE) runs; the receiver    *)
(* asks again after a second of silence.                                   *)
(*                                                                         *)
(* Time passes in ticks.  A LAN delivers or loses a datagram within a tick *)
(* and the polling threads (10 ms) do all they can do within a tick.       *)
(* Packets here are [run, seq, format].                                    *)
(***************************************************************************)
EXTENDS ReorderWindow

CONSTANTS
  LeaseTicks,      \* SUBSCRIBER_LEASE: 15 s
  SilenceTicks,    \* last_receive.elapsed() > 1 s
  MaxRuns,         \* bound: incarnations of the publisher
  PacketsPerTick,  \* bound: packets it sends in a tick
  Formats,         \* (channel_count, sample_rate) pairs it may use
  NoFormat

ASSUME SessionAssumption ==
  /\ LeaseTicks \in Nat \ {0} /\ SilenceTicks \in Nat
  /\ MaxRuns \in Nat \ {0} /\ PacketsPerTick \in Nat \ {0}
  /\ NoFormat \notin Formats

VARIABLES
  pubUp, pubRun, pubSeq, pubFormat,
  sentNow,         \* packets sent in this tick
  downNow,         \* the publisher went down in this tick
  lease,           \* ticks the registry still lists the receiver
  request,         \* a subscribe request is under way
  flying,          \* audio packets under way
  silence,         \* ticks since StreamReceiver.last_receive
  isConnected,     \* StreamReceiver.is_connected
  currentFormat,   \* StreamReceiver.current_format
  eventQueue,      \* StreamReceiver.event_queue
  appConnected,    \* what the player was told last
  appFormat,       \* play_stream: format, and with it resampler and plc
  outputOpen,      \* play_stream: _stream is Some
  heardRun         \* newest incarnation the window has released a packet of

publisherVars == <<pubUp, pubRun, pubSeq, pubFormat, sentNow, downNow, lease>>
receiverVars == <<windowVars, silence, isConnected, currentFormat, eventQueue, heardRun>>
appVars == <<appConnected, appFormat, outputOpen>>
vars == <<publisherVars, request, flying, receiverVars, appVars>>

-----------------------------------------------------------------------------
(* Publisher and network.                                                  *)

(* spawn_capture_publisher sends while its snapshot lists the receiver.    *)
Publish ==
  /\ pubUp /\ lease > 0
  /\ sentNow < PacketsPerTick
  /\ flying' = flying \cup {[run |-> pubRun, seq |-> pubSeq, format |-> pubFormat]}
  /\ pubSeq' = Advance(pubSeq, 1)
  /\ sentNow' = sentNow + 1
  /\ UNCHANGED <<pubUp, pubRun, pubFormat, downNow, lease, request, receiverVars, appVars>>

(* run_control_listener: a request starts or renews the lease.             *)
Subscribe ==
  /\ request /\ pubUp
  /\ lease' = LeaseTicks
  /\ request' = FALSE
  /\ UNCHANGED <<pubUp, pubRun, pubSeq, pubFormat, sentNow, downNow, flying,
                 receiverVars, appVars>>

LoseRequest ==
  /\ request
  /\ request' = FALSE
  /\ UNCHANGED <<publisherVars, flying, receiverVars, appVars>>

LosePacket ==
  /\ \E p \in flying : flying' = flying \ {p}
  /\ UNCHANGED <<publisherVars, request, receiverVars, appVars>>

(* The registry dies with the process; a new one numbers from 0 again.     *)
Crash ==
  /\ pubUp
  /\ pubRun < MaxRuns
  /\ pubUp' = FALSE /\ downNow' = TRUE
  /\ lease' = 0
  /\ UNCHANGED <<pubRun, pubSeq, pubFormat, sentNow, request, flying, receiverVars, appVars>>

Restart ==
  /\ ~ pubUp /\ ~ downNow
  /\ pubUp' = TRUE
  /\ pubRun' = pubRun + 1
  /\ pubSeq' = 0
  /\ pubFormat' \in Formats
  /\ UNCHANGED <<sentNow, downNow, lease, request, flying, receiverVars, appVars>>

-----------------------------------------------------------------------------
(* Receiver: poll_next_event.                                              *)

Idle == eventQueue = << >>

Flush ==
  /\ Idle
  /\ FlushExpiredGap
  /\ eventQueue' = events'
  /\ UNCHANGED <<publisherVars, request, flying, silence, isConnected, currentFormat,
                 heardRun, appVars>>

(* Faulty variants: every second of silence is reported; only a connected  *)
(* receiver asks again; asking again does not give the connection up.      *)
CheckSilence_AlwaysReports ==
  /\ Idle /\ ~ gapStarted
  /\ silence > SilenceTicks
  /\ isConnected' = FALSE
  /\ silence' = 0
  /\ request' = TRUE
  /\ eventQueue' = <<[type |-> "Disconnected"]>>
  /\ UNCHANGED <<publisherVars, flying, windowVars, currentFormat, heardRun, appVars>>

CheckSilence_AsksOnce ==
  /\ Idle /\ ~ gapStarted
  /\ silence > SilenceTicks
  /\ isConnected' = FALSE
  /\ silence' = 0
  /\ request' = isConnected
  /\ eventQueue' = IF isConnected THEN <<[type |-> "Disconnected"]>> ELSE << >>
  /\ UNCHANGED <<publisherVars, flying, windowVars, currentFormat, heardRun, appVars>>

CheckSilence_Renews ==
  /\ Idle /\ ~ gapStarted
  /\ silence > SilenceTicks
  /\ silence' = 0
  /\ request' = TRUE
  /\ UNCHANGED <<publisherVars, flying, windowVars, isConnected, eventQueue,
                 currentFormat, heardRun, appVars>>

(* The gap timer (20 ms) is over long before a second of silence.          *)
CheckSilence ==
  /\ Idle /\ ~ gapStarted
  /\ silence > SilenceTicks
  /\ isConnected' = FALSE
  /\ silence' = 0
  /\ request' = TRUE
  /\ eventQueue' = IF isConnected THEN <<[type |-> "Disconnected"]>> ELSE << >>
  /\ UNCHANGED <<publisherVars, flying, windowVars, currentFormat, heardRun, appVars>>

(* Faulty variant: the format is reported after the packets.               *)
Receive_FormatLast(p) ==
  /\ Idle /\ silence <= SilenceTicks
  /\ flying' = flying \ {p}
  /\ Push(p)
  /\ isConnected' = TRUE
  /\ silence' = 0
  /\ currentFormat' = p.format
  /\ eventQueue' =
       (IF isConnected THEN << >> ELSE <<[type |-> "Reconnected"]>>)
       \o events'
       \o (IF p.format = currentFormat THEN << >>
           ELSE <<[type |-> "FormatChanged", format |-> p.format]>>)
  /\ heardRun' = IF events' # << >> /\ p.run > heardRun THEN p.run ELSE heardRun
  /\ UNCHANGED <<publisherVars, request, appVars>>

Receive(p) ==
  /\ Idle /\ silence <= SilenceTicks
  /\ flying' = flying \ {p}
  /\ Push(p)
  /\ isConnected' = TRUE
  /\ silence' = 0
  /\ currentFormat' = p.format
  /\ eventQueue' =
       (IF isConnected THEN << >> ELSE <<[type |-> "Reconnected"]>>)
       \o (IF p.format = currentFormat THEN << >>
           ELSE <<[type |-> "FormatChanged", format |-> p.format]>>)
       \o events'
  /\ heardRun' = IF events' # << >> /\ p.run > heardRun THEN p.run ELSE heardRun
  /\ UNCHANGED <<publisherVars, request, appVars>>

-----------------------------------------------------------------------------
(* Player: play_stream handles the event next_event returned.              *)

Next1(type) ==
  /\ ~ Idle
  /\ Head(eventQueue).type = type
  /\ eventQueue' = Tail(eventQueue)
  /\ UNCHANGED <<publisherVars, flying, windowVars, isConnected, currentFormat, heardRun>>

HandleAudio ==
  /\ Next1("Packet") \/ Next1("Dropped")
  /\ UNCHANGED <<request, silence, appVars>>

HandleFormatChanged ==
  /\ Next1("FormatChanged")
  /\ appFormat' = Head(eventQueue).format
  /\ outputOpen' = TRUE
  /\ UNCHANGED <<request, silence, appConnected>>

HandleDisconnected ==
  /\ Next1("Disconnected")
  /\ appConnected' = FALSE
  /\ outputOpen' = FALSE
  /\ request' = TRUE /\ silence' = 0       \* receiver.resubscribe()
  /\ UNCHANGED appFormat

HandleReconnected ==
  /\ Next1("Reconnected")
  /\ appConnected' = TRUE
  /\ UNCHANGED <<request, silence, appFormat, outputOpen>>

Handle == HandleAudio \/ HandleFormatChanged \/ HandleDisconnected \/ HandleReconnected

-----------------------------------------------------------------------------
Tick ==
  /\ Idle /\ ~ gapStarted /\ silence <= SilenceTicks
  /\ flying = {} /\ ~ request
  /\ pubUp /\ lease > 0 => sentNow > 0
  /\ silence' = silence + 1
  /\ lease' = IF lease > 0 THEN lease - 1 ELSE 0
  /\ sentNow' = 0
  /\ downNow' = FALSE
  /\ UNCHANGED <<pubUp, pubRun, pubSeq, pubFormat, request, flying, windowVars,
                 isConnected, currentFormat, eventQueue, heardRun, appVars>>

(* StreamReceiver::new subscribes at once.                                 *)
Init ==
  /\ WindowInit
  /\ pubUp = TRUE /\ pubRun = 1 /\ pubSeq \in SeqNums /\ pubFormat \in Formats
  /\ sentNow = 0 /\ downNow = FALSE
  /\ lease = 0 /\ request = TRUE
  /\ flying = {}
  /\ silence = 0 /\ isConnected = FALSE /\ currentFormat = NoFormat
  /\ eventQueue = << >>
  /\ appConnected = FALSE /\ appFormat = NoFormat /\ outputOpen = FALSE
  /\ heardRun = 0

Poll == Flush \/ CheckSilence \/ \E p \in flying : Receive(p)

Next ==
  \/ Publish \/ Subscribe \/ LoseRequest \/ LosePacket \/ Crash \/ Restart
  \/ Poll \/ Handle \/ Tick

Spec == Init /\ [][Next]_vars

(* Threads and time go on.  The network loses datagrams, but not every one *)
(* for ever, and keeps none.                                               *)
FairSpec ==
  /\ Spec
  /\ WF_vars(Handle) /\ WF_vars(Flush) /\ WF_vars(CheckSilence)
  /\ WF_vars(Publish) /\ WF_vars(Tick) /\ WF_vars(LoseRequest)
  /\ SF_vars(Subscribe) /\ SF_vars(\E p \in flying : Receive(p))

-----------------------------------------------------------------------------
Packets == [run : 1 .. MaxRuns, seq : SeqNums, format : Formats]
Connection(e) == e.type \in {"Disconnected", "Reconnected"}

(* Disconnected and Reconnected reach the player in turn, and what it was  *)
(* told is what the receiver believes once the queue is empty.  When the   *)
(* connection is given up the window is empty: no held packet surfaces     *)
(* after the report.                                                       *)
ConnectionReports ==
  /\ LET reports == {i \in DOMAIN eventQueue : Connection(eventQueue[i])}
     IN  /\ reports = {} => appConnected = isConnected
         /\ \A i \in reports :
              /\ reports = {i}
              /\ (eventQueue[i].type = "Reconnected") = isConnected
              /\ appConnected = ~ isConnected
  /\ ~ isConnected => Held = {}

(* A packet is handled in the format it was sent in: the format event is   *)
(* queued before the packets it is about, and packets held across a restart*)
(* with another format are out of the window before it.                    *)
PlayedInFormat ==
  ~ Idle /\ Head(eventQueue).type = "Packet" =>
    appFormat = Head(eventQueue).packet.format

(* While the publisher stays up, the receiver always gets connected again, *)
(* whatever requests and packets were lost.                                *)
ConnectionRecovers == <>[]pubUp => []<>appConnected

(* A publisher that is gone for good is reported to the player.            *)
SilenceIsReported == <>[]~ pubUp => <>[]~ appConnected

(* After a restart the packets that reach the receiver are handed out or   *)
(* held, never discarded (CHANGELOG.md 32, README.md 105).                 *)
RestartIsHeard ==
  [][\A p \in flying :
       Receive(p) /\ p.run > heardRun => events' # << >> \/ p.seq \in Held']_vars

=============================================================================
