--------------------------- MODULE CombinePublisher ---------------------------
(***************************************************************************)
(* The combining publisher (audio-core, combine.rs): every source device   *)
(* contributes one mono channel; the worker takes the captured blocks out  *)
(* of each source's bounded queue, and interleaves as many frames as all   *)
(* sources have into one packet.                                           *)
(*                                                                         *)
(* A sample is the number it has on its source; silence is 0.  The queues  *)
(* are used as BoundedAudioQueue shows them to work: a full one evicts its *)
(* oldest blocks, one whose lock is taken refuses the new block.  Left     *)
(* out: the drop counter, which only feeds a log line, and to whom packets *)
(* are sent, which the worker's state does not depend on.                  *)
(***************************************************************************)
EXTENDS Integers, FiniteSets, Sequences, FiniteSetsExt

CONSTANTS
  Sources,       \* 1 .. n: the slots
  Skipped,       \* slots without a device
  Capacity,      \* frames a capture queue holds: 100 ms
  MaxBlock,      \* frames of a callback
  MaxPacket,     \* max_frames_per_packet
  MaxFrames      \* bound: frames captured from a source

Active == Sources \ Skipped

ASSUME CombineAssumption ==
  /\ Sources = 1 .. Cardinality(Sources)
  /\ Skipped \subseteq Sources /\ Active # {}
  /\ Capacity \in Nat \ {0} /\ MaxBlock \in Nat \ {0} /\ MaxPacket \in Nat \ {0}
  /\ MaxFrames \in Nat

VARIABLES
  captured,      \* frames a source's device delivered
  queue,         \* BoundedAudioQueue of a source: blocks, each a run of frames
  lost,          \* frames of a source the queue dropped
  pending,       \* OpenedChannel.pending
  recorded,      \* frames written to the source's own recording
  packet,        \* the last packet combined: slot -> samples
  combined,      \* frames combined so far
  keepRunning,
  workerPc,      \* "loop", "drain", "combine" or "done"
  slot           \* the slot the worker drains

sourceVars == <<captured, queue, lost>>
workerVars == <<pending, recorded, packet, combined, workerPc, slot>>
vars == <<sourceVars, workerVars, keepRunning>>

Silence == 0

SizeOf(blocks) ==
  LET upTo[i \in 0 .. Len(blocks)] == IF i = 0 THEN 0 ELSE upTo[i - 1] + Len(blocks[i])
  IN  upTo[Len(blocks)]

-----------------------------------------------------------------------------
(* A source's callback: capture_first_channel.                             *)

Frames(s, n) == [i \in 1 .. n |-> captured[s] + i]

(* try_push of a block when the lock is free.                              *)
Push(s, block) ==
  LET evictions == {k \in 0 .. Len(queue[s]) :
                      SizeOf(SubSeq(queue[s], k + 1, Len(queue[s]))) + Len(block) <= Capacity}
      evicted   == SubSeq(queue[s], 1, Min(evictions))
  IN  IF Len(block) > Capacity
      THEN /\ lost' = [lost EXCEPT ![s] = @ + Len(block)]
           /\ UNCHANGED queue
      ELSE /\ queue' = [queue EXCEPT ![s] =
                 Append(SubSeq(@, Len(evicted) + 1, Len(@)), block)]
           /\ lost' = [lost EXCEPT ![s] = @ + SizeOf(evicted)]

Capture(s, n) ==
  /\ s \in Active
  /\ captured[s] + n <= MaxFrames
  /\ captured' = [captured EXCEPT ![s] = @ + n]
  /\ Push(s, Frames(s, n))
  /\ UNCHANGED <<workerVars, keepRunning>>

(* The worker holds the lock only while it pops.                           *)
CaptureRefused(s, n) ==
  /\ s \in Active
  /\ workerPc = "drain" /\ slot = s
  /\ captured[s] + n <= MaxFrames
  /\ captured' = [captured EXCEPT ![s] = @ + n]
  /\ lost' = [lost EXCEPT ![s] = @ + n]
  /\ UNCHANGED <<queue, workerVars, keepRunning>>

-----------------------------------------------------------------------------
(* The worker.                                                             *)

Begin ==
  /\ workerPc = "loop" /\ keepRunning
  /\ workerPc' = "drain" /\ slot' = 1
  /\ UNCHANGED <<sourceVars, pending, recorded, packet, combined, keepRunning>>

(* Faulty variants: a popped block replaces what is pending; it is put     *)
(* before it.                                                              *)
DrainBlock_Replaces ==
  /\ workerPc = "drain" /\ slot \in Active
  /\ queue[slot] # << >>
  /\ queue' = [queue EXCEPT ![slot] = Tail(@)]
  /\ pending' = [pending EXCEPT ![slot] = Head(queue[slot])]
  /\ recorded' = [recorded EXCEPT ![slot] = @ + Len(Head(queue[slot]))]
  /\ UNCHANGED <<captured, lost, packet, combined, workerPc, slot, keepRunning>>

DrainBlock_AtFront ==
  /\ workerPc = "drain" /\ slot \in Active
  /\ queue[slot] # << >>
  /\ queue' = [queue EXCEPT ![slot] = Tail(@)]
  /\ pending' = [pending EXCEPT ![slot] = Head(queue[slot]) \o @]
  /\ recorded' = [recorded EXCEPT ![slot] = @ + Len(Head(queue[slot]))]
  /\ UNCHANGED <<captured, lost, packet, combined, workerPc, slot, keepRunning>>

DrainBlock ==
  /\ workerPc = "drain" /\ slot \in Active
  /\ queue[slot] # << >>
  /\ queue' = [queue EXCEPT ![slot] = Tail(@)]
  /\ pending' = [pending EXCEPT ![slot] = @ \o Head(queue[slot])]
  /\ recorded' = [recorded EXCEPT ![slot] = @ + Len(Head(queue[slot]))]
  /\ UNCHANGED <<captured, lost, packet, combined, workerPc, slot, keepRunning>>

DrainNext ==
  /\ workerPc = "drain"
  /\ slot \in Active => queue[slot] = << >>
  /\ IF slot + 1 \in Sources
     THEN slot' = slot + 1 /\ UNCHANGED workerPc
     ELSE workerPc' = "combine" /\ UNCHANGED slot
  /\ UNCHANGED <<sourceVars, pending, recorded, packet, combined, keepRunning>>

(* Faulty variant: a skipped slot counts as one without samples.           *)
Available_AllSlots == Min({Len(pending[s]) : s \in Sources})

Available == Min({Len(pending[s]) : s \in Active})

Wait ==
  /\ workerPc = "combine"
  /\ Available = 0
  /\ workerPc' = "loop"
  /\ UNCHANGED <<sourceVars, pending, recorded, packet, combined, slot, keepRunning>>

Take(s, n) ==
  [i \in 1 .. n |-> IF s \in Active /\ i <= Len(pending[s]) THEN pending[s][i] ELSE Silence]

(* Frames leave whether somebody listens or not.                           *)
Combine ==
  /\ workerPc = "combine"
  /\ Available > 0
  /\ LET n == Min({Available, MaxPacket})
     IN  /\ packet' = [s \in Sources |-> Take(s, n)]
         /\ pending' = [s \in Sources |-> SubSeq(pending[s], n + 1, Len(pending[s]))]
         /\ combined' = combined + n
  /\ workerPc' = "loop"
  /\ UNCHANGED <<sourceVars, recorded, slot, keepRunning>>

Finish ==
  /\ workerPc = "loop" /\ ~ keepRunning
  /\ workerPc' = "done"
  /\ UNCHANGED <<sourceVars, pending, recorded, packet, combined, slot, keepRunning>>

Worker == Begin \/ DrainBlock \/ DrainNext \/ Wait \/ Combine \/ Finish

Stop ==
  /\ keepRunning
  /\ keepRunning' = FALSE
  /\ UNCHANGED <<sourceVars, workerVars>>

Zero == [s \in Sources |-> 0]
Empty == [s \in Sources |-> << >>]
Init ==
  /\ captured = Zero /\ queue = Empty /\ lost = Zero
  /\ pending = Empty /\ recorded = Zero
  /\ packet = Empty /\ combined = 0
  /\ keepRunning = TRUE
  /\ workerPc = "loop" /\ slot = 1

Next ==
  \/ \E s \in Sources, n \in 1 .. MaxBlock : Capture(s, n) \/ CaptureRefused(s, n)
  \/ Worker \/ Stop

Spec == Init /\ [][Next]_vars
FairSpec == Spec /\ WF_vars(Worker)

-----------------------------------------------------------------------------
(* What a device delivered was dropped, waits, or was combined; what was   *)
(* combined or waits in pending is in the source's recording.              *)
FramesAccounted ==
  \A s \in Active :
    /\ captured[s] = lost[s] + SizeOf(queue[s]) + recorded[s]
    /\ recorded[s] = Len(pending[s]) + combined

(* The k-th combined frame holds frame k of every source, or a later one   *)
(* by as many as that source lost: channels drift apart only by losses.    *)
ChannelsAligned ==
  \A s \in Active : \A i \in DOMAIN packet[s] :
    packet[s][i] - (combined - Len(packet[s]) + i) \in 0 .. lost[s]

(* Nothing is lost or shifted between the devices and the packets.         *)
CombinedWhole == FramesAccounted /\ ChannelsAligned

(* If all devices have delivered, a packet is made: slots without a device *)
(* hold nothing up.                                                        *)
ReadyIsCombined ==
  \A n \in 0 .. MaxFrames :
    (combined = n /\ \A s \in Active : captured[s] - lost[s] > n)
      ~> (combined > n \/ ~ keepRunning)

=============================================================================
