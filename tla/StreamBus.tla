------------------------------ MODULE StreamBus ------------------------------
(***************************************************************************)
(* The desktop's receiver (audio-core, bus.rs): it waits for a first       *)
(* packet to learn the format, opens the output, primes the playback       *)
(* queues with whatever comes, and then runs its loop: flush the reorder   *)
(* window, read one datagram, play what the window hands out, conceal what *)
(* it reports lost, and trim the queue of the stream that sent the packet. *)
(* The audio callback takes from the queues all the while.                 *)
(*                                                                         *)
(* The queues count in frames of the output.  A publisher cuts its blocks  *)
(* into packets of different lengths; `published' holds the frame at which *)
(* each of its packets ends.  What a packet becomes is converted from the  *)
(* streams' rate to the output's, with a position carried from packet to   *)
(* packet; concealment is queued as it is.  Streams are those the bus      *)
(* accepts; datagrams of others are read and ignored.                      *)
(***************************************************************************)
EXTENDS ReorderWindow, Functions

CONSTANTS
  Streams,      \* one, if the caller names a target stream
  FirstNumbers, \* sequence numbers publishers may be at when we join
  MaxPublished, \* bound: packets published per stream
  Skew,         \* how far ahead of the window packets may arrive
  BusGroup,     \* packets of an FEC group
  MinFrames, MaxFrames, \* frames of a packet, the least and the greatest
  Rates,        \* sample rates
  PrimeTarget,  \* frames to queue before playback starts: the jitter target
  MaxQueue      \* frames a queue is trimmed to: 3.5 times the jitter target

ASSUME BusAssumption ==
  /\ Streams # {} /\ FirstNumbers \subseteq SeqNums
  /\ MaxPublished \in Nat /\ MaxPublished < Half /\ Skew \in Nat
  /\ BusGroup \in Nat \ {0, 1}
  /\ MaxFrames \in Nat /\ MinFrames \in 1 .. MaxFrames
  /\ Rates \subseteq Nat \ {0}
  /\ PrimeTarget \in Nat /\ MaxQueue \in Nat
  /\ PrimeTarget <= MaxQueue

VARIABLES
  phase,        \* where the bus thread is
  keepRunning,  \* the session's flag
  headless,     \* output set to None, never changes
  inputRate,    \* sample rate of the streams, never changes
  deviceRate,   \* sample rate of the output device, never changes
  coding,       \* sample format of each stream, never changes
  start,        \* number of each stream's first packet, never changes
  published,    \* where each packet of a stream ends, in frames
  recorded,     \* packets fec_decoder keeps, by the number it files them under
  player        \* what the loop plays into, a record of
                \*   queues: the playback queues, a function on the streams seen
                \*   offset: each resampler's next position after its last packet
                \*   last: last_frames_per_packet
                \*   altered: packets concealed, or rebuilt in another length

setting == <<headless, inputRate, deviceRate, coding, start>>
loopVars == <<phase, keepRunning, setting, published, recorded, player>>
busVars == <<windowVars, loopVars>>

-----------------------------------------------------------------------------
(* A packet's frames begin where the packet before it ends.                *)
StartOf(s, i) == IF i = 0 THEN 0 ELSE published[s][i]
PacketOf(s, i) ==
  [stream |-> s, pos |-> i, seq |-> Advance(start[s], i), at |-> StartOf(s, i),
   frames |-> StartOf(s, i + 1) - StartOf(s, i)]
Published == UNION {{PacketOf(s, i) : i \in 0 .. Len(published[s]) - 1} : s \in Streams}

(* A headless output has the rate of what it is sent.                      *)
OutputRate == IF headless THEN inputRate ELSE deviceRate

(* StreamingLinearResampler::process.  In time counted so that a frame of  *)
(* a packet lasts OutputRate, a frame of the output lasts inputRate; one   *)
(* is made while its place, `offset' at first, is not after the packet's   *)
(* last frame.                                                             *)
Outputs(frames, offset) ==
  LET end == (frames - 1) * OutputRate
  IN  IF offset > end THEN 0 ELSE (end - offset) \div inputRate + 1

Extended(q, s, units) ==
  [t \in DOMAIN q \cup {s} |-> IF t # s THEN q[t]
                               ELSE IF s \in DOMAIN q THEN q[s] \o units ELSE units]

(* push_pcm_samples: what a packet becomes goes to its stream's queue, and *)
(* the resampler is left where the next packet goes on.                    *)
Made(p, pl) == Outputs(p.frames, pl.offset[p.stream])

Pushed(p, units, pl) ==
  [pl EXCEPT !.queues = Extended(@, p.stream, units),
             !.offset[p.stream] = @ + Len(units) * inputRate - p.frames * OutputRate]

(* Before the loop: push_samples.                                          *)
Primer == [kind |-> "primed"]
PrimedWith(p, pl) == Pushed(p, [k \in 1 .. Made(p, pl) |-> Primer], pl)

(* A packet the loop plays leaves its length behind.  Each frame has its   *)
(* place in time and what had been altered before it.                      *)
Audio(p, pl) ==
  [k \in 1 .. Made(p, pl) |->
     [kind |-> "audio", after |-> pl.altered,
      time |-> p.at * OutputRate + pl.offset[p.stream] + (k - 1) * inputRate]]

Played(p, pl) ==
  [Pushed(p, Audio(p, pl), pl) EXCEPT
     !.last = p.frames,
     !.altered = @ + (IF p = PacketOf(p.stream, p.pos) THEN 0 ELSE 1)]

(* Packets lost are taken to be as long as the last one played.  What      *)
(* stands for them is pushed to every queue there is as audio of the       *)
(* output's rate, so it is not converted; with it resamplers for another   *)
(* rate are replaced, and replaced again with the next packet.             *)
Concealment == [kind |-> "concealed"]

Concealed(count, pl) ==
  LET frames == count * (IF pl.last > 0 THEN pl.last ELSE MaxFrames)
  IN  [pl EXCEPT
         !.queues = [s \in DOMAIN @ |-> @[s] \o [k \in 1 .. frames |-> Concealment]],
         !.offset = [s \in Streams |-> 0],
         !.altered = @ + count]

(* What the loop does with the events of a window call, in order.          *)
(* Faulty variant: one packet of concealment whatever the report says.     *)
Handle_ConcealsOne(pl, event) ==
  IF event.type = "Packet" THEN Played(event.packet, pl) ELSE Concealed(1, pl)

Handle(pl, event) ==
  IF event.type = "Packet" THEN Played(event.packet, pl) ELSE Concealed(event.count, pl)

Handling(pl, es) ==
  LET after[i \in 0 .. Len(es)] == IF i = 0 THEN pl ELSE Handle(after[i - 1], es[i])
  IN  after

HandleAll(pl, es) == Handling(pl, es)[Len(es)]

(* trim_interleaved_queue: the oldest go.                                  *)
(* Faulty variant: nothing is trimmed.                                     *)
Trimmed_Never(units) == units

Trimmed(units) ==
  IF Len(units) <= MaxQueue THEN units
  ELSE SubSeq(units, Len(units) - MaxQueue + 1, Len(units))

-----------------------------------------------------------------------------
(* Publishers and the user.                                                *)

PublishNext(s) ==
  /\ Len(published[s]) < MaxPublished
  /\ \E frames \in MinFrames .. MaxFrames :
       published' = [published EXCEPT ![s] = Append(@, StartOf(s, Len(@)) + frames)]
  /\ UNCHANGED <<windowVars, setting, phase, keepRunning, recorded, player>>

Stop ==
  /\ keepRunning
  /\ keepRunning' = FALSE
  /\ UNCHANGED <<windowVars, setting, phase, published, recorded, player>>

-----------------------------------------------------------------------------
(* Start.  The flag is read before each read of the socket: a packet may   *)
(* still be taken after it was lowered.                                    *)

FirstPacket(p) ==
  /\ phase = "waiting"
  /\ coding[p.stream] = "float32"
  /\ player' = PrimedWith(p, player)
  /\ phase' = "opening"
  /\ UNCHANGED <<windowVars, setting, keepRunning, published, recorded>>

(* An Opus packet is accepted as the first one, and then push_samples      *)
(* refuses it, which ends the function.                                    *)
FirstIsOpus(p) ==
  /\ phase = "waiting"
  /\ coding[p.stream] = "opus"
  /\ phase' = "failed"
  /\ UNCHANGED <<windowVars, setting, keepRunning, published, recorded, player>>

(* The first packet never came.                                            *)
GiveUpWaiting ==
  /\ phase = "waiting" /\ ~ keepRunning
  /\ phase' = "ended"
  /\ UNCHANGED <<windowVars, setting, keepRunning, published, recorded, player>>

(* A physical output is opened and primed; a headless one is a thread that *)
(* drains the queues from here on.                                         *)
Open ==
  /\ phase = "opening"
  /\ phase' = IF headless THEN "top" ELSE "priming"
  /\ UNCHANGED <<windowVars, setting, keepRunning, published, recorded, player>>

(* No such device, no writer, no stream, or it does not start; or reading  *)
(* the socket fails for good.                                              *)
Fail ==
  /\ phase \in {"waiting", "opening", "priming", "reading"}
  /\ phase' = "failed"
  /\ UNCHANGED <<windowVars, setting, keepRunning, published, recorded, player>>

(* Packets are queued as they come, past the reorder window and FEC.       *)
Prime(p) ==
  /\ phase = "priming"
  /\ SumFunction([s \in DOMAIN player.queues |-> Len(player.queues[s])]) < PrimeTarget
  /\ player' = PrimedWith(p, player)
  /\ UNCHANGED <<windowVars, setting, phase, keepRunning, published, recorded>>

(* Enough is queued, or the deadline passed, or the flag was lowered.      *)
StartPlaying ==
  /\ phase = "priming"
  /\ phase' = "top"
  /\ UNCHANGED <<windowVars, setting, keepRunning, published, recorded, player>>

-----------------------------------------------------------------------------
(* run_receive_loop.                                                       *)

Leave ==
  /\ phase = "top" /\ ~ keepRunning
  /\ phase' = "ended"
  /\ UNCHANGED <<windowVars, setting, keepRunning, published, recorded, player>>

(* The flag was up: flush what has expired, if anything has, then read.    *)
FlushFirst ==
  /\ phase = "top" /\ keepRunning
  /\ FlushExpiredGap
  /\ player' = HandleAll(player, events')
  /\ phase' = "reading"
  /\ UNCHANGED <<setting, keepRunning, published, recorded>>

(* Faulty variant: the flag is not read.                                   *)
NothingExpired_Unasked ==
  /\ phase = "top"
  /\ phase' = "reading"
  /\ UNCHANGED <<windowVars, setting, keepRunning, published, recorded, player>>

NothingExpired ==
  /\ phase = "top" /\ keepRunning
  /\ phase' = "reading"
  /\ UNCHANGED <<windowVars, setting, keepRunning, published, recorded, player>>

(* A timeout of 5 ms, a datagram of another stream or format, or a parity  *)
(* packet that rebuilds nothing.                                           *)
NothingRead ==
  /\ phase = "reading"
  /\ phase' = "top"
  /\ UNCHANGED <<windowVars, setting, keepRunning, published, recorded, player>>

MayArrive(p) ==
  \/ nextExpected = NoSeq
  \/ Distance(p.seq, nextExpected) <= Skew
  \/ Distance(p.seq, nextExpected) > Half

ReadAudio(p) ==
  /\ phase = "reading"
  /\ MayArrive(p)
  /\ Push(p)
  /\ recorded' = IF coding[p.stream] = "float32" THEN recorded \cup {p} ELSE recorded
  /\ LET handled == HandleAll(player, events')
     IN  player' = [handled EXCEPT !.queues =
                      [s \in DOMAIN @ |-> IF s = p.stream THEN Trimmed(@[s]) ELSE @[s]]]
  /\ phase' = "top"
  /\ UNCHANGED <<setting, keepRunning, published>>

(* The first place of a group, and what decode_fec rebuilds: it is as long *)
(* as the first packet of the group.                                       *)
FirstOf(pos) == BusGroup * (pos \div BusGroup)
GroupOf(s, pos) == {PacketOf(s, i) : i \in FirstOf(pos) .. FirstOf(pos) + BusGroup - 1}
Rebuilt(p) == [p EXCEPT !.frames = PacketOf(p.stream, FirstOf(p.pos)).frames]

(* The parity of p's group came, and p is the one packet of the group that *)
(* the decoder has no payload for.  What it rebuilds is played untrimmed.  *)
ReadParity(p) ==
  /\ phase = "reading"
  /\ coding[p.stream] = "float32"
  /\ FirstOf(p.pos) + BusGroup <= Len(published[p.stream])
  /\ LET numbers == {r.seq : r \in recorded}
     IN  {q \in GroupOf(p.stream, p.pos) : q.seq \notin numbers} = {p}
  /\ PushRecovered(Rebuilt(p))
  /\ recorded' = recorded \cup {p}
  /\ player' = HandleAll(player, events')
  /\ phase' = "top"
  /\ UNCHANGED <<setting, keepRunning, published>>

(* The callback takes a frame from each queue and mixes them; an empty     *)
(* queue fades out.                                                        *)
Callback ==
  /\ phase \in {"top", "reading"}
  /\ \E s \in DOMAIN player.queues : player.queues[s] # << >>
  /\ player' = [player EXCEPT !.queues =
                  [s \in DOMAIN @ |-> IF @[s] = << >> THEN << >> ELSE Tail(@[s])]]
  /\ UNCHANGED <<windowVars, setting, phase, keepRunning, published, recorded>>

-----------------------------------------------------------------------------
BusInit ==
  /\ WindowInit
  /\ phase = "waiting" /\ keepRunning = TRUE
  /\ headless \in BOOLEAN /\ inputRate \in Rates /\ deviceRate \in Rates
  /\ coding \in [Streams -> {"float32", "opus"}]
  /\ start \in [Streams -> FirstNumbers]
  /\ published = [s \in Streams |-> << >>]
  /\ recorded = {}
  /\ player = [queues |-> << >>, offset |-> [s \in Streams |-> 0], last |-> 0, altered |-> 0]

Starting ==
  \/ \E p \in Published : FirstPacket(p) \/ FirstIsOpus(p) \/ Prime(p)
  \/ GiveUpWaiting \/ Open \/ StartPlaying

Loop ==
  \/ Leave \/ FlushFirst \/ NothingExpired \/ NothingRead
  \/ \E p \in Published : ReadAudio(p) \/ ReadParity(p)

BusNext ==
  \/ \E s \in Streams : PublishNext(s)
  \/ Stop \/ Fail \/ Callback \/ Starting \/ Loop

BusSpec == BusInit /\ [][BusNext]_busVars

(* The bus thread goes on: its reads time out (200 ms, then 5 ms), opening *)
(* returns and priming has a deadline.  Nobody has to publish or stop, no  *)
(* packet has to arrive, and the device need not ask for audio.            *)
BusFairSpec ==
  /\ BusSpec
  /\ WF_busVars(GiveUpWaiting) /\ WF_busVars(Open) /\ WF_busVars(StartPlaying)
  /\ WF_busVars(Loop)

-----------------------------------------------------------------------------
(* What the loop queues keeps its place in time: whatever is lost, late,   *)
(* repeated or rebuilt, and whatever the callback and the trim took, two   *)
(* packets of a stream are as far apart in the queue as they were when     *)
(* published (on a network that reorders within the window), but for what  *)
(* each packet that was concealed, or rebuilt, between them may be out by. *)
(* That is what two lengths may differ by, and at another rate also the    *)
(* difference of the rates over a packet and the position of the resampler *)
(* that is replaced; with packets of one length at the output's rate it is *)
(* nothing (bus.rs 597-648, 1033-1070).                                    *)
Largest(a, b) == IF a < b THEN b ELSE a

Slack ==
  Largest(MaxFrames * OutputRate - MinFrames * inputRate,
          MaxFrames * inputRate - MinFrames * OutputRate)
    + (IF inputRate = OutputRate THEN 0 ELSE Largest(inputRate, OutputRate) - 1)

ConcealmentKeepsTime ==
  Skew <= Capacity =>
    \A s \in DOMAIN player.queues : \A i, j \in DOMAIN player.queues[s] :
      LET first  == player.queues[s][i]
          second == player.queues[s][j]
      IN  i <= j /\ first.kind = "audio" /\ second.kind = "audio" =>
            second.time - first.time - (j - i) * inputRate
              \in - (Slack * (second.after - first.after)) .. Slack * (second.after - first.after)

(* The delay the queue adds is bounded on such a network, although loss    *)
(* reports and rebuilt packets are queued without a trim: by the limit,    *)
(* what one window can release, and one packet rebuilt beyond the newest,  *)
(* each at most as long as the longest packet is or becomes (bus.rs        *)
(* 877-883).                                                               *)
Longest == Largest(MaxFrames, (MaxFrames * OutputRate - 1) \div inputRate + 1)

PlayoutBounded ==
  Skew <= Capacity =>
    \A s \in DOMAIN player.queues : Len(player.queues[s]) <= MaxQueue + (Capacity + 2) * Longest

(* A session that is stopped ends, wherever its bus is.                    *)
StopEnds == ~ keepRunning ~> phase \in {"ended", "failed"}

(* "receive and mix multiple streams" (examples/bus_receive.rs 1): a       *)
(* packet that is the newest of its stream is played, or held to be played *)
(* in its turn.                                                            *)
NewestIsKept ==
  [][\A p \in recorded' \ recorded :
       (\A r \in recorded : r.stream = p.stream => r.pos < p.pos) =>
         \/ \E k \in DOMAIN buffer' : buffer'[k].stream = p.stream /\ buffer'[k].pos = p.pos
         \/ \E i \in DOMAIN events' : events'[i] = PacketEvent(p)]_busVars

=============================================================================
