---------------------------- MODULE AsioPublisher ----------------------------
(***************************************************************************)
(* The ASIO publisher (audio-core, asio.rs).  The driver's callback picks  *)
(* the selected channels out of every frame and appends the samples to one *)
(* shared ring; the transmit loop takes whole frames from it, in two       *)
(* separate lock sections (count, then take), and sends them if anybody    *)
(* has subscribed.                                                         *)
(*                                                                         *)
(* A sample is a pair of the frame it belongs to and its driver channel.   *)
(* Left out: conversion to Float32, the meter, metrics that are only       *)
(* printed, and the packet's bytes.                                        *)
(***************************************************************************)
EXTENDS Integers, Sequences

CONSTANTS
  Selected,          \* channel_indices, a sequence of driver channels
  MaxBufferedFrames, \* maximum_buffered_frames
  MaxPacketFrames,   \* max_frames_per_packet
  MaxBlockFrames,    \* bound: frames of one callback
  MaxDelivered       \* bound: frames the driver delivers

Width == Len(Selected)

(* validate_channel_selection, and maximum_buffered_frames as computed.    *)
ASSUME AsioPublisherAssumption ==
  /\ Selected \in Seq(Nat) /\ Width > 0
  /\ \A i, j \in 1 .. Width : Selected[i] = Selected[j] => i = j
  /\ MaxPacketFrames \in Nat \ {0} /\ MaxBufferedFrames \in Nat
  /\ MaxPacketFrames <= MaxBufferedFrames
  /\ MaxBlockFrames \in Nat \ {0} /\ MaxDelivered \in Nat

VARIABLES
  ring,           \* capture_buffer: samples, oldest first
  delivered,      \* callback_frames
  evicted,        \* dropped_capture_frames
  txPc,           \* the transmit loop; it holds the lock in "count" and "take"
  framesToSend,
  samples,        \* the samples of the last packet
  taken,          \* frames taken out so far
  sequence,       \* packets built
  subscribed,     \* the registry has a subscriber of the stream
  txRunning       \* keep_running

captureVars == <<ring, delivered, evicted>>
txVars == <<txPc, framesToSend, samples, taken, sequence>>
txAll == <<captureVars, txVars, subscribed, txRunning>>

FramesOf(n, after) ==
  [i \in 1 .. n * Width |->
     <<after + 1 + ((i - 1) \div Width), Selected[1 + ((i - 1) % Width)]>>]

-----------------------------------------------------------------------------
(* capture_selected_channels                                               *)

(* Faulty variant: one sample is dropped per frame of excess.              *)
Excess_InSamples(n) ==
  IF Len(ring) + n * Width > MaxBufferedFrames * Width
  THEN (Len(ring) + n * Width - MaxBufferedFrames * Width) \div Width
  ELSE 0

(* Samples that must go for n more frames: whole frames, as far as there   *)
(* are any.                                                                *)
Excess(n) ==
  LET excess == Len(ring) + n * Width - MaxBufferedFrames * Width
      frames == (excess + Width - 1) \div Width
  IN  IF excess <= 0 THEN 0
      ELSE IF frames * Width > Len(ring) THEN Len(ring) ELSE frames * Width

Deliver(n) ==
  /\ delivered + n <= MaxDelivered
  /\ delivered' = delivered + n
  /\ IF txPc \in {"count", "take"}
     THEN evicted' = evicted + n /\ UNCHANGED ring
     ELSE /\ ring' = SubSeq(ring, Excess(n) + 1, Len(ring)) \o FramesOf(n, delivered)
          /\ evicted' = evicted + (Excess(n) + Width - 1) \div Width
  /\ UNCHANGED <<txVars, subscribed, txRunning>>

-----------------------------------------------------------------------------
(* run_transmit_loop                                                       *)

LockToCount ==
  /\ txPc = "loop" /\ txRunning
  /\ txPc' = "count"
  /\ UNCHANGED <<captureVars, framesToSend, samples, taken, sequence, subscribed, txRunning>>

Count ==
  /\ txPc = "count"
  /\ LET available == Len(ring) \div Width
     IN  IF available = 0
         THEN txPc' = "loop" /\ UNCHANGED framesToSend
         ELSE /\ framesToSend' = IF available < MaxPacketFrames THEN available ELSE MaxPacketFrames
              /\ txPc' = "counted"
  /\ UNCHANGED <<captureVars, samples, taken, sequence, subscribed, txRunning>>

LockToTake ==
  /\ txPc = "counted"
  /\ txPc' = "take"
  /\ UNCHANGED <<captureVars, framesToSend, samples, taken, sequence, subscribed, txRunning>>

TakeFrames ==
  /\ txPc = "take"
  /\ LET n == framesToSend * Width
     IN  IF Len(ring) < n
         THEN txPc' = "loop" /\ UNCHANGED <<ring, samples, taken>>
         ELSE /\ samples' = SubSeq(ring, 1, n) /\ ring' = SubSeq(ring, n + 1, Len(ring))
              /\ taken' = taken + framesToSend /\ txPc' = "send"
  /\ UNCHANGED <<delivered, evicted, framesToSend, sequence, subscribed, txRunning>>

(* Captured data is drained whether or not anybody listens.                *)
SendPacket ==
  /\ txPc = "send"
  /\ sequence' = IF subscribed THEN sequence + 1 ELSE sequence
  /\ txPc' = "loop"
  /\ UNCHANGED <<captureVars, framesToSend, samples, taken, subscribed, txRunning>>

(* Faulty variant: the loop ends only when the ring is empty.              *)
TransmitEnds_Emptied ==
  /\ txPc = "loop" /\ ~ txRunning /\ ring = << >>
  /\ txPc' = "done"
  /\ UNCHANGED <<captureVars, framesToSend, samples, taken, sequence, subscribed, txRunning>>

TransmitEnds ==
  /\ txPc = "loop" /\ ~ txRunning
  /\ txPc' = "done"
  /\ UNCHANGED <<captureVars, framesToSend, samples, taken, sequence, subscribed, txRunning>>

TransmitLoop == LockToCount \/ Count \/ LockToTake \/ TakeFrames \/ SendPacket \/ TransmitEnds

-----------------------------------------------------------------------------
SubscriptionChanges ==
  /\ subscribed' = ~ subscribed
  /\ UNCHANGED <<captureVars, txVars, txRunning>>

StopTransmit ==
  /\ txRunning' = FALSE
  /\ UNCHANGED <<captureVars, txVars, subscribed>>

TxInit ==
  /\ ring = << >> /\ delivered = 0 /\ evicted = 0
  /\ txPc = "loop" /\ framesToSend = 0 /\ samples = << >> /\ taken = 0 /\ sequence = 0
  /\ subscribed = FALSE /\ txRunning = TRUE

TxNext ==
  \/ \E n \in 1 .. MaxBlockFrames : txPc # "done" /\ Deliver(n)
  \/ TransmitLoop
  \/ SubscriptionChanges \/ StopTransmit

TxFairness == WF_txAll(TransmitLoop)

TxSpec == TxInit /\ [][TxNext]_txAll /\ TxFairness

-----------------------------------------------------------------------------
(* A sequence of samples is a run of whole frames, each with the selected  *)
(* channels in their order, and the frames in the order of their capture.  *)
IsWhole(s) ==
  /\ Len(s) % Width = 0
  /\ \A i \in 1 .. Len(s) :
       /\ s[i][2] = Selected[1 + ((i - 1) % Width)]
       /\ s[i][1] = s[i - ((i - 1) % Width)][1]
       /\ i > Width => s[i - Width][1] < s[i][1]

(* Eviction, refused callbacks and the gap between counting and taking     *)
(* never shift a channel into another one's place, in the ring or in a     *)
(* packet; and every frame the driver delivered was dropped, waits or was  *)
(* taken, at most MaxBufferedFrames waiting unless one callback brought    *)
(* more.                                                                   *)
PublishedWhole ==
  /\ IsWhole(ring) /\ IsWhole(samples)
  /\ Len(samples) <= MaxPacketFrames * Width
  /\ delivered = evicted + Len(ring) \div Width + taken
  /\ Len(ring) <= Width * (IF MaxBlockFrames > MaxBufferedFrames
                           THEN MaxBlockFrames ELSE MaxBufferedFrames)

(* Stopping ends the loop, whatever the ring holds.                        *)
TransmitStops == ~ txRunning ~> txPc = "done"

=============================================================================
