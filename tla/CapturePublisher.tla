-------------------------- MODULE CapturePublisher --------------------------
(***************************************************************************)
(* A capture session of audio-core (transmit.rs): the audio callback, the  *)
(* publisher worker of spawn_capture_publisher_with_codec and the session  *)
(* thread that stops them.  The worker drains the queue whether or not     *)
(* anyone listens; it snapshots the destinations before it takes a block.  *)
(***************************************************************************)
EXTENDS BoundedAudioQueue

CONSTANTS
  BlockSizes,       \* frames a callback may deliver at once
  MaxBlocks,        \* bound: callbacks in a run
  PacketFrames,     \* max_frames_per_packet
  MaxToggles        \* bound: times the set of subscribers empties or fills

ASSUME PublisherAssumption ==
  /\ BlockSizes \subseteq Nat \ {0}
  /\ MaxBlocks \in Nat /\ MaxToggles \in Nat
  /\ PacketFrames \in Nat \ {0}

VARIABLES
  offered,       \* callbacks made
  offeredFrames, \* frames they delivered
  streaming,     \* the device stream exists, callbacks may run
  keepRunning,   \* keep_running
  session,       \* session thread: "running", "closing", "joining", "done"
  subscribed,    \* somebody is subscribed to the stream
  toggles,
  workerPc,      \* "top", "pop", "popping", "block", "check", "checking", "final", "done"
  destinations,  \* the worker's snapshot: is it nonempty
  inHand,        \* the block the worker popped last
  consumed,      \* frames the worker popped
  reported,      \* dropped frames the worker has reported
  nextSeq,       \* packets_sent
  wire,          \* packets of the last block sent
  staleBlocks    \* blocks sent since the last subscriber left

sessionVars == <<offered, offeredFrames, streaming, keepRunning, session,
                 subscribed, toggles>>
workerVars == <<workerPc, destinations, inHand, consumed, reported, nextSeq,
                wire, staleBlocks>>
vars == <<queueVars, sessionVars, workerVars>>

-----------------------------------------------------------------------------
(* The device callback: one try_push of one interleaved block.             *)

CallbackArrives ==
  /\ streaming
  /\ lock # Callback
  /\ offered < MaxBlocks
  /\ offered' = offered + 1
  /\ \E frames \in BlockSizes :
       /\ offeredFrames' = offeredFrames + frames
       /\ \/ PushTooLarge(frames)
          \/ PushRefused(frames)
          \/ PushLock(offered + 1, frames)
  /\ UNCHANGED <<workerVars, streaming, keepRunning, session, subscribed, toggles>>

CallbackContinues ==
  /\ PushEvict \/ PushAppend
  /\ UNCHANGED <<sessionVars, workerVars>>

-----------------------------------------------------------------------------
(* The worker loop.                                                        *)

Goto(from, to) == workerPc = from /\ workerPc' = to

(* Once a second, at the top of the loop, drops are taken and reported.    *)
ReportDrops ==
  /\ workerPc = "top"
  /\ reported' = reported + droppedFrames
  /\ TakeDropped
  /\ UNCHANGED <<sessionVars, workerPc, destinations, inHand, consumed,
                 nextSeq, wire, staleBlocks>>

Snapshot ==
  /\ Goto("top", "pop")
  /\ destinations' = subscribed
  /\ UNCHANGED <<queueVars, sessionVars, inHand, consumed, reported, nextSeq,
                 wire, staleBlocks>>

PopLock ==
  /\ Goto("pop", "popping")
  /\ WaitForLock(Worker)
  /\ UNCHANGED <<sessionVars, destinations, inHand, consumed, reported,
                 nextSeq, wire, staleBlocks>>

PopBlock ==
  /\ Goto("popping", "block")
  /\ PopSome(Worker)
  /\ inHand' = Head(blocks)
  /\ consumed' = consumed + Head(blocks).frames
  /\ UNCHANGED <<sessionVars, destinations, reported, nextSeq, wire, staleBlocks>>

(* Faulty variant: an empty queue is polled again without the check.       *)
PopNothing_Repolls ==
  /\ Goto("popping", "top")
  /\ blocks = << >>
  /\ Unlock(Worker)
  /\ UNCHANGED <<sessionVars, destinations, inHand, consumed, reported,
                 nextSeq, wire, staleBlocks>>

PopNothing ==
  /\ Goto("popping", "check")
  /\ blocks = << >>
  /\ Unlock(Worker)
  /\ UNCHANGED <<sessionVars, destinations, inHand, consumed, reported,
                 nextSeq, wire, staleBlocks>>

(* Nobody listened at the snapshot: `continue', without sleep or check.    *)
Discard ==
  /\ Goto("block", "top")
  /\ ~ destinations
  /\ UNCHANGED <<queueVars, sessionVars, destinations, inHand, consumed, reported,
                 nextSeq, wire, staleBlocks>>

(* The block leaves as packets of at most PacketFrames, all stamped alike. *)
PacketCount(frames) == (frames + PacketFrames - 1) \div PacketFrames

Packetize(block) ==
  [i \in 1 .. PacketCount(block.frames) |->
     [seq    |-> nextSeq + i - 1,
      stamp  |-> block.id,
      offset |-> (i - 1) * PacketFrames,
      frames |-> IF i * PacketFrames <= block.frames
                 THEN PacketFrames
                 ELSE block.frames - (i - 1) * PacketFrames]]

Send ==
  /\ Goto("block", "check")
  /\ destinations
  /\ wire' = Packetize(inHand)
  /\ nextSeq' = nextSeq + PacketCount(inHand.frames)
  /\ staleBlocks' = IF subscribed THEN 0 ELSE staleBlocks + 1
  /\ UNCHANGED <<queueVars, sessionVars, destinations, inHand, consumed, reported>>

CheckLock ==
  /\ Goto("check", "checking")
  /\ WaitForLock(Worker)
  /\ UNCHANGED <<sessionVars, destinations, inHand, consumed, reported,
                 nextSeq, wire, staleBlocks>>

(* Faulty variant: the worker leaves as soon as the queue is closed.       *)
Check_Leaves ==
  /\ Goto("checking", IF closed THEN "final" ELSE "top")
  /\ Unlock(Worker)
  /\ UNCHANGED <<sessionVars, destinations, inHand, consumed, reported,
                 nextSeq, wire, staleBlocks>>

Check ==
  /\ Goto("checking", IF closed /\ blocks = << >> THEN "final" ELSE "top")
  /\ Unlock(Worker)
  /\ UNCHANGED <<sessionVars, destinations, inHand, consumed, reported,
                 nextSeq, wire, staleBlocks>>

FinalReport ==
  /\ Goto("final", "done")
  /\ reported' = reported + droppedFrames
  /\ TakeDropped
  /\ UNCHANGED <<sessionVars, destinations, inHand, consumed, nextSeq, wire,
                 staleBlocks>>

WorkerStep ==
  \/ Snapshot  \/ PopLock \/ PopBlock  \/ PopNothing \/ Discard
  \/ Send      \/ CheckLock \/ Check   \/ FinalReport

-----------------------------------------------------------------------------
(* The session thread, and the subscribers coming and going.               *)

Stop ==
  /\ keepRunning
  /\ keepRunning' = FALSE
  /\ UNCHANGED <<queueVars, workerVars, offered, offeredFrames, streaming,
                 session, subscribed, toggles>>

(* drop(stream) returns once no callback runs any more.                    *)
DropStream ==
  /\ session = "running" /\ ~ keepRunning
  /\ lock # Callback
  /\ streaming' = FALSE
  /\ session' = "closing"
  /\ UNCHANGED <<queueVars, workerVars, offered, offeredFrames, keepRunning,
                 subscribed, toggles>>

CloseLock ==
  /\ session = "closing"
  /\ ~ closed
  /\ WaitForLock(Closer)
  /\ UNCHANGED <<sessionVars, workerVars>>

CloseQueue ==
  /\ session = "closing"
  /\ Close(Closer)
  /\ session' = "joining"
  /\ UNCHANGED <<workerVars, offered, offeredFrames, streaming, keepRunning,
                 subscribed, toggles>>

Join ==
  /\ session = "joining"
  /\ workerPc = "done"
  /\ session' = "done"
  /\ UNCHANGED <<queueVars, workerVars, offered, offeredFrames, streaming,
                 keepRunning, subscribed, toggles>>

SessionStep == DropStream \/ CloseLock \/ CloseQueue \/ Join

Toggle ==
  /\ toggles < MaxToggles
  /\ toggles' = toggles + 1
  /\ subscribed' = ~ subscribed
  /\ staleBlocks' = 0
  /\ UNCHANGED <<queueVars, offered, offeredFrames, streaming, keepRunning,
                 session, workerPc, destinations, inHand, consumed, reported,
                 nextSeq, wire>>

-----------------------------------------------------------------------------
Init ==
  /\ QueueInit
  /\ offered = 0 /\ offeredFrames = 0
  /\ streaming = TRUE /\ keepRunning = TRUE /\ session = "running"
  /\ subscribed = FALSE /\ toggles = 0
  /\ workerPc = "top" /\ destinations = FALSE /\ inHand = NoBlock
  /\ consumed = 0 /\ reported = 0
  /\ nextSeq = 0 /\ wire = << >> /\ staleBlocks = 0

Next ==
  \/ CallbackArrives \/ CallbackContinues
  \/ ReportDrops \/ WorkerStep
  \/ Stop \/ SessionStep \/ Toggle

Spec == Init /\ [][Next]_vars

(* The threads run: a callback that holds the lock finishes, the worker    *)
(* loops, and the session thread gets its turn between two callbacks when  *)
(* it drops the stream.  Nothing forces a callback or a subscriber to come.*)
FairSpec ==
  /\ Spec
  /\ WF_vars(CallbackContinues)
  /\ WF_vars(WorkerStep)
  /\ SF_vars(SessionStep)

-----------------------------------------------------------------------------
(* Every variable keeps to its range.                                      *)
Blocks == [id : 1 .. MaxBlocks, frames : 1 .. MaxFrames, first : Nat]

TypeOK ==
  /\ blocks \in Seq(Blocks)
  /\ bufferedFrames \in Nat
  /\ recycled \in 0 .. PoolLimit
  /\ closed \in BOOLEAN
  /\ droppedFrames \in Nat
  /\ lock \in {Free, Callback, Worker, Closer}
  /\ pushing \in Blocks \cup {NoBlock}
  /\ accepted \in Nat
  /\ offered \in 0 .. MaxBlocks /\ offeredFrames \in Nat
  /\ streaming \in BOOLEAN /\ keepRunning \in BOOLEAN
  /\ session \in {"running", "closing", "joining", "done"}
  /\ subscribed \in BOOLEAN /\ toggles \in 0 .. MaxToggles
  /\ workerPc \in {"top", "pop", "popping", "block", "check", "checking",
                   "final", "done"}
  /\ destinations \in BOOLEAN
  /\ inHand \in Blocks \cup {NoBlock}
  /\ consumed \in Nat /\ reported \in Nat /\ nextSeq \in Nat
  /\ wire \in Seq([seq : Nat, stamp : 1 .. MaxBlocks, offset : Nat, frames : Nat])
  /\ staleBlocks \in Nat

(* The blocks are consecutive stretches of the accepted frames that end    *)
(* with the newest one, and buffered_samples is what they hold.            *)
CounterMatchesBlocks ==
  /\ blocks = << >> => bufferedFrames = 0
  /\ blocks # << >> =>
       /\ bufferedFrames = accepted - blocks[1].first
       /\ blocks[Len(blocks)].first + blocks[Len(blocks)].frames = accepted
  /\ \A i \in 1 .. Len(blocks) - 1 :
       blocks[i + 1].first = blocks[i].first + blocks[i].frames

(* The queue never holds more audio than its capacity (100 ms), so a slow  *)
(* worker cannot build up latency, and its counter tells the truth, so the *)
(* subtractions in try_push and try_pop cannot underflow, whatever the     *)
(* interleaving of callback and worker.                                    *)
LatencyBounded == CounterMatchesBlocks /\ bufferedFrames <= MaxFrames

(* No frame the device delivered is unaccounted for: it is queued, being   *)
(* pushed, handed to the worker, or counted as dropped, at every step of   *)
(* every thread, even while the drop counter is swapped.                   *)
FramesAccounted ==
  offeredFrames =
    consumed + bufferedFrames + pushing.frames + droppedFrames + reported

(* When the session ends, everything queued at Stop has been handed to the *)
(* worker and every drop has been reported.                                *)
NothingLeftBehind ==
  session = "done" =>
    /\ workerPc = "done" /\ blocks = << >> /\ lock = Free
    /\ offeredFrames = consumed + reported

(* Demand gating: once the last subscriber has left, at most the block     *)
(* whose snapshot was already taken is still sent.                         *)
GatingIsPrompt == staleBlocks <= 1

(* The packets of a block cover it: consecutive sequence numbers, no gap,  *)
(* no overlap, no empty packet, and the last one ends with the block.      *)
PacketsCoverBlock ==
  workerPc = "check" /\ wire # << >> /\ wire[1].stamp = inHand.id =>
    /\ wire[1].offset = 0
    /\ \A i \in 1 .. Len(wire) : wire[i].frames \in 1 .. PacketFrames
    /\ \A i \in 1 .. Len(wire) - 1 :
         /\ wire[i + 1].offset = wire[i].offset + wire[i].frames
         /\ wire[i + 1].seq = wire[i].seq + 1
    /\ wire[Len(wire)].offset + wire[Len(wire)].frames = inHand.frames
    /\ wire[Len(wire)].seq + 1 = nextSeq

(* The queue is a lossy FIFO to its consumer.                              *)
Fifo == INSTANCE LossyFifo WITH
  content  <- [i \in 1 .. Len(blocks) |-> blocks[i].id],
  lastOut  <- inHand.id
QueueIsLossyFifo == Fifo!Spec

(* A stopped session ends: the worker drains the queue and leaves its loop,*)
(* whether or not anybody is subscribed.                                   *)
StopEnds == ~ keepRunning ~> session = "done"

=============================================================================
