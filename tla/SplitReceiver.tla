---------------------------- MODULE SplitReceiver ----------------------------
(***************************************************************************)
(* The split receiver (audio-core, split.rs): every channel of a stream    *)
(* goes to a device, and perhaps a recording, of its own.  One thread      *)
(* takes the packets apart into one queue per channel, and trims each      *)
(* queue to 200 ms; each device's callback empties its queue at its own    *)
(* pace, the first ones while the last devices are still being opened.     *)
(*                                                                         *)
(* A sample is the number of its frame.  The packet that found the format  *)
(* is kept until the devices are open.  Resampling is left out: a device   *)
(* has the rate of the stream.                                             *)
(***************************************************************************)
EXTENDS Integers, Sequences

CONSTANTS
  Devices,        \* channel_count; channel c goes to device c
  MaximumSamples, \* maximum_samples of a queue
  MaxPayload,     \* bound: frames of a packet
  MaxReceived     \* bound: frames received

ASSUME SplitReceiverAssumption ==
  /\ Devices \in Nat \ {0} /\ MaximumSamples \in Nat \ {0}
  /\ MaxPayload \in Nat \ {0} /\ MaxReceived \in Nat

VARIABLES
  splitPc,        \* where receive_and_split_to_devices is
  opened,         \* streams opened and playing
  channel,        \* channel_index of the loop the thread is in
  payload,        \* first and last frame of the packet at hand
  received,       \* frames received
  channelQueue,   \* per_channel_buffers
  written,        \* frames in a channel's recording
  heard,          \* last frame a device played
  finalised,      \* the recordings were finalised
  splitRunning    \* keep_running

splitVars == <<splitPc, opened, channel, payload, received, channelQueue, written,
               heard, finalised, splitRunning>>

Run(from, to) == [i \in 1 .. to - from + 1 |-> from + i - 1]

-----------------------------------------------------------------------------
FirstPayload(n) ==
  /\ splitPc = "first" /\ splitRunning
  /\ payload' = <<1, n>> /\ received' = n
  /\ splitPc' = "open"
  /\ UNCHANGED <<opened, channel, channelQueue, written, heard, finalised, splitRunning>>

StoppedEarly ==
  /\ splitPc = "first" /\ ~ splitRunning
  /\ splitPc' = "done"
  /\ UNCHANGED <<opened, channel, payload, received, channelQueue, written, heard, finalised, splitRunning>>

OpenDevice ==
  /\ splitPc = "open" /\ opened < Devices
  /\ opened' = opened + 1
  /\ UNCHANGED <<splitPc, channel, payload, received, channelQueue, written, heard, finalised, splitRunning>>

(* Streams that are open are dropped.                                      *)
DeviceRefused ==
  /\ splitPc = "open" /\ opened < Devices
  /\ opened' = 0 /\ splitPc' = "failed"
  /\ UNCHANGED <<channel, payload, received, channelQueue, written, heard, finalised, splitRunning>>

AllOpen ==
  /\ splitPc = "open" /\ opened = Devices
  /\ splitPc' = "demux" /\ channel' = 1
  /\ UNCHANGED <<opened, payload, received, channelQueue, written, heard, finalised, splitRunning>>

-----------------------------------------------------------------------------
NextPayload(n) ==
  /\ splitPc = "receive" /\ splitRunning
  /\ received + n <= MaxReceived
  /\ payload' = <<received + 1, received + n>> /\ received' = received + n
  /\ splitPc' = "demux" /\ channel' = 1
  /\ UNCHANGED <<opened, channelQueue, written, heard, finalised, splitRunning>>

(* demux_into_buffers, a channel at a time: each has a lock of its own.    *)
Demux ==
  /\ splitPc = "demux" /\ channel <= Devices
  /\ channelQueue' = [channelQueue EXCEPT ![channel] = @ \o Run(payload[1], payload[2])]
  /\ written' = [written EXCEPT ![channel] = payload[2]]
  /\ channel' = channel + 1
  /\ UNCHANGED <<splitPc, opened, payload, received, heard, finalised, splitRunning>>

(* The first packet is not trimmed.                                        *)
Demuxed ==
  /\ splitPc = "demux" /\ channel > Devices
  /\ splitPc' = IF payload[1] = 1 THEN "receive" ELSE "trim"
  /\ channel' = 1
  /\ UNCHANGED <<opened, payload, received, channelQueue, written, heard, finalised, splitRunning>>

(* Faulty variant: the newest samples go.                                  *)
TrimChannel_Newest ==
  /\ splitPc = "trim" /\ channel <= Devices
  /\ channelQueue' = [channelQueue EXCEPT ![channel] =
       IF Len(@) > MaximumSamples THEN SubSeq(@, 1, MaximumSamples) ELSE @]
  /\ channel' = channel + 1
  /\ UNCHANGED <<splitPc, opened, payload, received, written, heard, finalised, splitRunning>>

TrimChannel ==
  /\ splitPc = "trim" /\ channel <= Devices
  /\ channelQueue' = [channelQueue EXCEPT ![channel] =
       IF Len(@) > MaximumSamples THEN SubSeq(@, Len(@) - MaximumSamples + 1, Len(@)) ELSE @]
  /\ channel' = channel + 1
  /\ UNCHANGED <<splitPc, opened, payload, received, written, heard, finalised, splitRunning>>

Trimmed ==
  /\ splitPc = "trim" /\ channel > Devices
  /\ splitPc' = "receive"
  /\ UNCHANGED <<opened, channel, payload, received, channelQueue, written, heard, finalised, splitRunning>>

(* A receive error returns at once: the recordings are not finalised here. *)
ReceiveFails ==
  /\ splitPc \in {"first", "receive"}
  /\ splitPc' = "failed" /\ opened' = 0
  /\ UNCHANGED <<channel, payload, received, channelQueue, written, heard, finalised, splitRunning>>

SplitEnds ==
  /\ splitPc = "receive" /\ ~ splitRunning
  /\ splitPc' = "finalise" /\ opened' = 0
  /\ UNCHANGED <<channel, payload, received, channelQueue, written, heard, finalised, splitRunning>>

FinaliseAll ==
  /\ splitPc = "finalise"
  /\ finalised' = TRUE /\ splitPc' = "done"
  /\ UNCHANGED <<opened, channel, payload, received, channelQueue, written, heard, splitRunning>>

(* render_split_channel, a frame: an empty queue is silence.               *)
RenderChannel(c) ==
  /\ c <= opened
  /\ channelQueue[c] # << >>
  /\ heard' = [heard EXCEPT ![c] = Head(channelQueue[c])]
  /\ channelQueue' = [channelQueue EXCEPT ![c] = Tail(@)]
  /\ UNCHANGED <<splitPc, opened, channel, payload, received, written, finalised, splitRunning>>

StopSplit ==
  /\ splitRunning' = FALSE
  /\ UNCHANGED <<splitPc, opened, channel, payload, received, channelQueue, written, heard, finalised>>

SplitThread ==
  \/ StoppedEarly \/ OpenDevice \/ DeviceRefused \/ AllOpen
  \/ Demux \/ Demuxed \/ TrimChannel \/ Trimmed \/ SplitEnds \/ FinaliseAll

SplitInit ==
  /\ splitPc = "first" /\ opened = 0 /\ channel = 1 /\ payload = <<0, 0>> /\ received = 0
  /\ channelQueue = [c \in 1 .. Devices |-> << >>]
  /\ written = [c \in 1 .. Devices |-> 0] /\ heard = [c \in 1 .. Devices |-> 0]
  /\ finalised = FALSE /\ splitRunning = TRUE

SplitNext ==
  \/ \E n \in 1 .. MaxPayload : FirstPayload(n) \/ NextPayload(n)
  \/ SplitThread \/ ReceiveFails
  \/ \E c \in 1 .. Devices : RenderChannel(c)
  \/ StopSplit

SplitFairness == WF_splitVars(SplitThread)

SplitSpec == SplitInit /\ [][SplitNext]_splitVars /\ SplitFairness

-----------------------------------------------------------------------------
(* What waits for a device is the newest run of what was recorded for it,  *)
(* later than what it played: a queue is cut at its old end only.  Between *)
(* packets it is at most MaximumSamples long (the first packet alone may   *)
(* be longer), so two devices are never further apart than that.           *)
SplitIsSuffix ==
  \A c \in 1 .. Devices :
    LET q == channelQueue[c]
    IN  /\ q = Run(written[c] - Len(q) + 1, written[c])
        /\ heard[c] <= written[c] - Len(q)
        /\ splitPc = "receive" /\ payload[1] > 1 => Len(q) <= MaximumSamples
        /\ splitPc = "receive" => written[c] = received

(* A stop ends the thread, with the recordings finalised if it played.     *)
SplitStops ==
  ~ splitRunning ~> (splitPc = "failed" \/ (splitPc = "done" /\ (received > 0 => finalised)))

=============================================================================
