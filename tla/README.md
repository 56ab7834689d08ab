# A TLA+ model of OpenAudio

OpenAudio sends live audio between hosts of a LAN over UDP.  A *publisher*
captures a device, queues blocks of samples, splits them into packets and sends
them to every *subscriber* whose lease is alive; a *receiver* subscribes, puts
packets back into order, hides losses and plays or records the samples.

This directory holds TLA+ modules for the parts of it that are hard to test:
threads that share queues without waiting, timers that race packets, leases,
and processes that disappear and come back.  TLC checks them on small
instances; TLAPS proves the main results for every value of the constants.

## 1. Inventory

| Part (source) | State it keeps | Operations | Talks to | What is hard | What must hold |
|---|---|---|---|---|---|
| Reorder window (`receiver.rs` 22-220) | next expected number, held packets, gap timer | `push`, `push_recovered`, `flush_expired_gap` | receiver, bus | reordering, duplicates, u32 wrap, overflow | in order, once, every loss reported, nothing held for ever |
| Stream receiver (`receiver.rs` 223-466) | window, FEC history, last-receive time, format, event queue | `next_event`, `resubscribe` | registry (requests), player (events) | silence, restart of the publisher, lease | reports consistent, connection recovers |
| CLI receiver (`apps/receiver`) | format, output stream, resampler | `play_stream` loop | stream receiver | event order | audio is played in its format |
| Forward error correction (`fec.rs`) | parity of the group under way; history of received packets | add a packet, record, decode | capture publisher, receivers | disorder, mixed lengths, eviction | a single loss is rebuilt from its own bytes, nothing else is |
| Subscriber registry (`discovery.rs` 98-121, 655-716) | per stream a list of (address, last seen) | subscribe, renew, snapshot with expiry | publishers, every receiver | lost requests, limits, expiry | bounded, no duplicate, a renewing receiver is kept |
| Discovery directory (`discovery.rs` 320-541) | node id -> advertisement, last seen | advertise, listen, prune, change of interface | GUI, CLI, gateway, plug-in | lost or oversized advertisements, a full directory | bounded, fresh |
| Bounded audio queue (`util.rs` 39-190) | blocks, sample counter, buffer pool, drop counter | `try_push`, `try_pop`, `close` | audio callback, worker | callback must not wait; contention, eviction | a lossy FIFO, bounded, every loss counted |
| Capture publisher (`transmit.rs`) | callback, worker, session | capture, packetise, send, stop | queue, registry | interleaving, stop and drain | gating, packets cover blocks, stop ends |
| Opus encoder (`opus.rs`, `transmit.rs` 782-848) | pending frames, packet counter | push, send | capture publisher, tone publisher | blocks are no multiple of a codec frame; packets that cannot be sent | a packet's number is its place in time |
| Tone publisher (`diagnostic_publish.rs`) | timeline, clock, snapshot of listeners | idle, generate, skip, send | registry, panel | being held up anywhere | no backlog, no drift, order |
| Diagnostics panel (`diagnostic_panel.rs`) | a row and a shared flag, a thread per start | start, stop, remove, drop | tone publisher | a thread that outlives its stop | the flag is true, a removed test ends |
| Recording (`recording.rs`) | bounded writer queue, writer lock, file | write, finalise | players, publishers | full queue, finalise under a writing callback | what is queued is in the file; finalise returns |
| Resampler (`stream_control.rs` 168-245) | pending frames, fractional position | `process` | players | packet edges | each output in its place |
| Signal meters (`signal_meter.rs`) | registry of names, atomic peaks | register, drop, observe, snapshot | every session, GUI | lock-free maximum, names used again | no peak unseen, no running session unmonitored |
| Combining publisher (`combine.rs`) | per-source FIFO, `pending` per slot | capture, drain, combine | queue, devices | sources at different rates | frames stay aligned |
| ASIO publisher (`asio.rs`) | one ring of interleaved samples | callback appends and evicts, loop counts and takes | driver, registry | two lock sections per packet | channels never shift |
| ASIO playback (`asio_subscribe.rs`) | buffer of whole frames, target delay | prime, receive, correct, trim, route, record | driver's callback | the callback between all steps | channels never shift, bounded delay |
| Split receiver (`split.rs`) | a queue and a recording per device | first packet, open, demultiplex, trim | devices' callbacks | devices open one after the other | each device plays a suffix of what was recorded |
| Stream bus (`bus.rs`) | phase, window, FEC history, a playback queue per stream | first packet, open, prime, receive loop, callback | receiver's parts, device callback | four places that add to or take from a queue, several streams in one window | timing kept, delay bounded, a stop ends it |
| Web gateway (`web_gateway.rs`) | slots, a thread per browser, sessions, login attempts, a batch per relay | accept, select, relay, renew, login, logout, stop | registry, directory, browsers | browsers that stall or leave; racing logins; gaps and late packets | slots and failures counted, frames kept, a stop ends |
| Web publisher (`web_publish.rs`) | three threads, a subscriber list | handshake, read, send, end | browser, registry | helpers outliving the connection | numbered without gap, all ends |
| Plug-in (`apps/plugin`) | parameters, a pool of buffers and two lock-free queues, one shared control service | `process`, activate, deactivate, worker, advertiser | host, registry, directory | realtime thread against worker; both take from one end of a queue | no buffer lost or held twice, order, off goes quiet |
| Desktop application (`apps/sender`) | rows with a `running` flag, reserved ASIO drivers, gateway flags | start, stop, add, remove, preset | every publisher and receiver, registry | restart while the old threads wind down, failing starts | drivers held once, flags tell the truth, stopped sessions end |
| Packet formats, encryption, PTP and SDP, devices, updater, widgets | keys, offsets, layouts | pure functions and I/O | everything | - | not modelled, section 8 |

How they interact: a publisher and the receivers share nothing but UDP
datagrams (audio, FEC parity, subscribe requests, advertisements), which may be
lost, late, repeated or out of order.  Within a process threads share a
`running` flag, a mutex-protected queue per capture device, the subscriber
registry (a mutex), and atomics for volumes and meters.  Nothing is persisted:
a crash loses everything, and what the other side still remembers is the issue.

The hazards these parts are exposed to are listed, line by line, in
`PROJECT.json`; each names the properties that would catch it.

## 2. Plan

The modules, in the order in which they matter.  A component has one module
(state, `Init`, an action per operation, `Next`, properties) with parameters as
`CONSTANTS` and their assumptions; MC modules compose and instantiate.

| Module | Builds on | Question |
|---|---|---|
| `ReorderWindow` | - | one action per return path of the window |
| `OrderedPlayback` | - | abstract: what an application may rely on |
| `ReorderStream` | `ReorderWindow`, implements `OrderedPlayback` | is a LAN's disorder hidden? |
| `Fec` | - | does parity rebuild what it should, and nothing else? |
| `BoundedAudioQueue` | - | one action per lock operation of the queue |
| `LossyFifo` | - | abstract: what a capture queue promises |
| `CapturePublisher` | `BoundedAudioQueue`, implements `LossyFifo` | does nothing get lost uncounted, does a stop end? |
| `OpusPublisher`, `DiagnosticPublisher` | - | is a packet's number its place in time? |
| `DiagnosticPanel`, `SignalMeters` | - | does the desktop show what is so? |
| `Recording`, `StreamingResampler` | - | are samples kept, in their place? |
| `StreamSession` | `ReorderWindow` | does a receiver survive a publisher that crashes? |
| `SubscriberLeases` | - | does the registry keep who renews and drop who left? |
| `StreamBus` | `ReorderWindow` | does the desktop's receive loop keep time? |
| `CombinePublisher`, `AsioPublisher` | the queue as `BoundedAudioQueue` shows it | do channels stay aligned? |
| `AsioPlayback`, `SplitReceiver` | - | the same, at the playing end |
| `DesktopSessions`, `DiscoveryDirectory` | - | do sessions of the GUI end, and hold devices once? does its list of streams follow the network? |
| `WebGateway`, `WebSessions`, `WebRelay`, `WebPublisher` | - | do browsers get slots, sessions and whole audio, and does all end? |
| `DawSender`, `DawReceiver` | - | realtime callback against worker |
| `MCPacketLoss`, `MCPublishers`, `MCMultichannel`, `MCDesktop`, `MCWeb`, `MCDawPlugin` | the modules above | composition for TLC |
| `MCReorderStream`, `MCSubscriberLeases` | the module of that name | constants for TLC |
| `PacketLoss_proofs` | `MCPacketLoss`, `StreamBus` | proofs of the window in its two callers and of error correction, section 6 |
| `StreamSession_proofs`, `SubscriberLeases_proofs` | the module of that name | proofs |
| `Publishers_proofs`, `Multichannel_proofs`, `Web_proofs` | the MC module of that name | proofs of its components |
| `Daw_proofs` | `DawSender`, `DawReceiver` | proofs |
| `Desktop_proofs` | `DesktopSessions`, `DiscoveryDirectory` | proofs |

An MC module that composes components which never meet has a variable `side`,
fixed in the initial state: it says which of them runs while the others stay
where they are.  One run then explores the sum of their state spaces, never
their product, and its properties are those of all of them.

Left to do, in order: the FEC datagrams of the CLI receiver in `StreamSession`; the
size arithmetic of `protocol.rs` as operators.

## 3. How the modules correspond to the code

Every definition that stands for code is mapped to its lines in `PROJECT.json`.
Definitions whose name has a suffix (`Check_Leaves` beside `Check`) are faulty
variants: what the definition would be with a plausible bug.  They are used
nowhere; put in the place of the right one they make a property fail.

**`ReorderWindow`** (`receiver.rs` 22-220).  `nextExpected`, `buffer`,
`gapStarted` are the fields of `PacketReorderWindow`; `events` is the vector the
last call returned.  `push` has one disjunct per way out: first packet, late,
in order (with the drain), duplicate, jump beyond `ResyncDistance`, jump beyond
the capacity, held, held with overflow.  Sequence numbers are modulo
`2 * Half`; the code's keys are `u32` ordered numerically, and so are these.  The
gap timer is a Boolean: how long it runs only decides when `FlushExpiredGap` may
happen, and it may happen any time it runs.

**`ReorderStream`** adds a publisher, a network that reorders, repeats and loses
packets, FEC, and an application.  `skew` says how far ahead of the window a
packet may arrive; it is chosen in the initial state and stays.

**`BoundedAudioQueue`** (`util.rs` 39-190).  `try_push` takes the lock with
`try_lock`, so a push is `PushRefused` when another thread has it; its loop evicts
one block per step; the lock is held throughout (`lock`, `pushing`).  `try_pop`,
`close` and `is_closed_and_empty` block.  `dropped_frames` is an atomic outside
the lock and is swapped at any time.  A block carries `first`, the number of its
first frame among all accepted ones, which the code does not have: the
properties use it.

**`CapturePublisher`** (`transmit.rs` 440-514, 760-931) has three threads: the
audio callback, the worker (`workerPc` is where it is in its loop) and the
session thread, which drops the stream, closes the queue and joins the worker, in
that order.  `subscribed` is the registry, as the snapshot sees it.  The worker
sends a block as packets with consecutive numbers.

**`StreamSession`** (`receiver.rs` 223-466; `apps/receiver/main.rs` 395-500).  The
publisher crashes and restarts, with packets numbered from 0 and maybe another
format.  The receiver is `poll_next_event` over the `ReorderWindow`; the player
is `play_stream`'s match on events.  Time is discrete; a tick is a second at
most.

**`SubscriberLeases`** (`discovery.rs` 98-121, 655-716) has the registry as a
function from streams to lists of `[address, age]`, and receivers that ask again
all the time.  The limits are values chosen in the initial state.

**`Fec`** (`fec.rs`).  A byte is the set of packets XORed into it, so what a rebuilt
packet is made of can be seen.  Encoder and decoder loops are `Combine` and
`Remove`; the decoder's history evicts the smallest number.

**`OpusPublisher`** (`opus.rs` 31-116; `transmit.rs` 782-848).  A frame is the
number of its capture.  A popped block is pushed in chunks of a codec frame, each
push encodes at most one, and the rest stays `pending`.  A packet takes its number
before it is put together, encrypted and sent, and each of these may fail.

**`DiagnosticPublisher`** (`diagnostic_publish.rs`).  Time and timeline are in
frames.  The thread may be held up between any two steps while `TimePasses` and
`ListenersChange` happen; `Excess` and `SkipStale` are the catch-up.  With Opus,
frames are held back until a codec frame is full.

**`DiagnosticPanel`** (`diagnostic_panel.rs`).  One row, a flag that the row and
the threads of all its starts share, and a thread per start.  The buttons' 300 ms
debounce is left out, so a thread may be slower than it.

**`Recording`** (`recording.rs`).  `write_samples` tries the writer's lock and the
bounded queue and never waits; `finalize` drops the sender and joins the writer
thread with the lock held.  WAV appends block by block, FLAC collects and saves
at the end; either may fail on the disk.

**`StreamingResampler`** (`stream_control.rs` 168-245).  The `f64` position is an
integer in units of `1 / outputRate` of an input frame: exact arithmetic, so
rounding is not what is checked here.  `Reachable` is the loop's condition,
`Used` what is drained after it.

**`SignalMeters`** (`signal_meter.rs`).  The registry maps a name to the session
that registered last; a guard removes only its own.  `atomic_max_f32` is a load
and an exchange that may fail, and the monitor swaps peaks with zero in between.
`unseen` is what was observed and not yet shown.

**`CombinePublisher`** (`combine.rs` 150-470).  A sample is its number on its
source.  The worker drains the slots one by one and then combines what all have.

**`AsioPublisher`** (`asio.rs`).  A sample is its frame and its driver channel.
The callback appends and evicts under a `try_lock`; the loop counts whole frames
in one lock section and takes them in another, with the callback in between.

**`AsioPlayback`** (`asio_subscribe.rs`).  Packets come in any order or not at
all.  Append, clock correction, new target and trim are lock sections of their
own, and the driver's callback comes between any two of them.  The floating-point
controllers are a choice: a correction is one of the three the code can make, a
target any of `Targets`.

**`SplitReceiver`** (`split.rs`).  A device's callback runs as soon as its stream
is open, while later devices are still being opened.

**`WebGateway`**, **`WebSessions`**, **`WebRelay`** (`web_gateway.rs`) and
**`WebPublisher`** (`web_publish.rs`).  `clientPc` is where the thread of a
browser is, from the handshake over the selection to the relay; `browser` says
whether it reads, stalls or is gone, which the thread learns only by sending.
Requests of `WebSessions` take each lock anew, so several logins of an address
interleave.  A browser may choose a stream and leave before its choice is read
(`Select` asks nothing of it), an answer to another message may block
(`answering`), and one that is turned away holds the accept loop until it has
taken its 503 (`rejecting`): that write has no time limit, and over TLS the
handshake comes with it.  A batch of `WebRelay` is a sequence of pieces (heard,
concealed, rebuilt) beside the frame count the code keeps; packets differ in
length, and a gap is filled with as many packets of the length that ends it.  A
browser's Opus message is one packet.

**`DiscoveryDirectory`** (`discovery.rs` 320-541).  A node is one run of a
publisher (`node_id` is new with each).  The listener drops stale nodes at the end
of each turn and joins another interface when it next looks.  An announcement
longer than the 1024 bytes it reads cannot be parsed (`oversized`).

**`DawSender`**, **`DawReceiver`** (`apps/plugin`).  `process` and the worker are
steps of one queue operation each: the sender's callback takes the oldest block
from the worker's end when no buffer is free.  "Publish" is written by the host,
read by the callback and stored into `enabled`, which the worker reads: three
steps.  The receiver's callback restarts the runtime itself when a parameter
changed.  Instances of the sender share one control service through a weak
reference (`holders`, `registry`).

**`StreamBus`** (`bus.rs`).  `phase` is where the bus thread is: waiting for a
first packet, opening, priming, at the top of its loop or before its read.
`Handle` is `handle_receive_event`.  Queues count in frames of the output:
packets have lengths from `MinFrames` to `MaxFrames` (a publisher cuts a block
into packets of the greatest length and a rest), and what the resampler makes of
one (`Outputs`) depends on where it stopped in the one before (`offset`).  A loss
report queues `count` times the length of the packet handed out last (`last`), as
audio of the output's rate and to every queue, which puts new resamplers in the
place of those for another rate.  All streams of a session have one rate, and
positions are exact fractions, where the code rounds an `f64`.  What was primed
went through the same resampler.  For the properties a frame carries its time and
how many packets had been concealed, or rebuilt in another length, before it
(`altered`).  A read is one step with the window call, the events and the
trim; the code takes the queue's lock once for each of those, and a callback in
between only changes how much there is left to trim.  `Streams` has one element
when the caller names a target, as the desktop always does, and more when it
does not (`receive_and_play_bus`, the examples).

**`DesktopSessions`** (`apps/sender`: `main.rs`, `asio_subscribe_ui.rs`,
`session_models.rs`).  A row has one flag; a start has a worker and, if it
receives, a renewal thread.  Clicks are single steps of the interface thread.
The library function a worker runs is four steps: it opens (or fails to), serves,
leaves when it reads the flag lowered, or fails.

## 4. Runs

| Run | Shows | Bounds and why they do |
|---|---|---|
| `packet_loss` | the window hands out each packet once, in turn, and reports each loss exactly, on a network that reorders within its capacity (`HeldAhead`, `PlaybackOrdered`); nothing stays held on any network (`HeldIsReleased`); of a group exactly the single loss is rebuilt, from its own bytes (`FecKept`) | capacity 2, numbers modulo 16, first number at 0 and before the wrap, 7 packets: overflow, duplicates, several gaps, FEC of a group, wraparound and the jump branches (a restart needs a distance of more than 4) all happen. FEC: groups of 3, two groups, history of 4, two payload lengths, four packets of disorder |
| `reorder_order` | on a network that delivers packets from beyond the window, playback goes backwards (finding) | the window with skew 15 |
| `publishers` | the capture session at lock granularity: bounded latency, every frame accounted for, a lossy FIFO, a clean end; packets keep their place in time (`StreamsKeepTime`); recorded and resampled samples stay (`SamplesKept`); monitor and panel tell the truth (`MonitorIsTrue`); sessions, recordings and tests end (`StopsEnd`) | capacity 3, blocks of 1, 3 (full) and 4 (refused) frames, packets of 2, three callbacks, two subscriber changes: eviction of one and two blocks, contention, and a rest packet happen. Codec frames of 2 out of blocks of 1, 3 and 4. Time of 6 frames with packets of 3: idling, skipping and holding back happen. Three starts of one test; a recorder's queue of 2 with 5 blocks; ratios of 1, 2, 3 and 5 with packets of 1 to 3 frames; two sessions of one name, two observers of one meter |
| `stream_session` | connection reports alternate and are true, audio is handled in its format, the connection recovers, silence is reported | two incarnations of the publisher, two formats, numbers modulo 8, two packets per tick |
| `session_restart` | a restarted publisher is discarded as late (finding) | as above |
| `leases` | one place each, within the limits (`OnePlaceEach`); who renews is kept, who left is dropped (`LeaseHonoured`); places come back (`PlacesComeBack`) | two receivers of one stream, or of two with room for one; limits 1 and 2; every second request may be lost, and be a tick late; a lease of 4 ticks is the shortest that a single loss and the delay leave room in |
| `multichannel` | channels never shift and frames are accounted for at the publishing end (`CombinedWhole`, `PublishedWhole`) and at the playing end (`PlayoutWhole`); what can go on does, a stop ends (`WorkersGoOn`) | two devices and an empty slot, queues of 2, blocks of up to 2, four frames each. ASIO: two of three channels selected, in reverse order, a ring of 3 frames and callbacks of up to 4, so that one callback may exceed it. Playback: three channels, two of them on one output, three packets of 2 frames, a cap of 4. Split: two devices, queues of 2, five frames |
| `stream_bus` | through loss, concealment, FEC, resampling and trim the audio moves by no more than what lengths and rates let each concealed or rebuilt packet be out by (`ConcealmentKeepsTime`); the queue is bounded; a stop ends the bus | capacity 2, four packets across the wrap of the numbers (from 13 modulo 16) of 1 or 2 frames, FEC groups of 2, rates 2 and 3 for stream and device (equal, up, down), queue limit 2, priming to 2, disorder up to the capacity: a gap with held packets, an expired one, a rebuilt packet in another length and a resampler replaced between two packets happen; physical and headless; float32 and Opus |
| `bus_mix` | with two streams the window throws away packets that are next in their stream (finding) | two streams of three packets |
| `desktop` | drivers are held once and given back; flags, removals, restarts; stopped sessions end; the directory follows the network (`DirectoryFollows`) | a capture and a playback row on one driver, a publisher and a player; two starts, so one row can be started twice while its first worker ends. Directory: room for one of two nodes, every second announcement lost, two interfaces |
| `plugin` | no buffer of the pool is lost or held twice and every block is accounted for (`BlocksAccounted`, `PoolBounded`), order (`SentInOrder`, `PlayedForward`), off goes quiet (`OffGoesQuiet`), deactivation and restart end (`StopsEnd`) | pools of 2, three blocks or packets, two frames per packet: stealing, a drain under a new "on", and a restart with a block in the callback's hand happen; two slots on one port; a second instance at the control service |
| `web` | slots, failures and sessions are counted right (`GatewayKept`); audio is whole in both directions, but for what lengths differ by where it was concealed (`BrowserAudioWhole`); everything stopped ends (`GatewayEnds`) | two browsers and one slot, so one may be turned away; four requests of one address, two failures allowed, one tick of lockout and session; five packets of 1 or 2 frames across the wrap, groups of 2, a change of format, two frames that come late, doubled or rebuilt; messages of 0, 1 and 3 frames in packets of 2 |

The properties of a composed run are conjunctions of one property per component,
stated in that component's module.  The behaviours end when the bound on packets,
callbacks or starts is reached; `CHECK_DEADLOCK FALSE` in those configurations is
for that end.  `desktop`, `leases` and `plugin` are checked for deadlock.

## 5. Fairness

* `CapturePublisher`: weak for the callback that holds the lock and for the
  worker; strong for the session thread, which competes for the lock with a
  callback that comes again and again (a mutex is granted in the end).  No
  callback has to come and no subscriber has to change.
* `packet_loss`: weak for consuming events and for flushing an expired gap: the
  application calls `next_event` in a loop and `next_event` polls.  None for the
  network or the publisher.
* `StreamSession`: weak for the threads and for time; strong for `Subscribe` and
  for receiving a packet: a LAN that loses some datagrams does not lose all of
  them for ever.  Crash and restart are not fair: what is promised while the
  publisher stays up is conditional on that.
* `SubscriberLeases`: time, the delivery of requests and the renewal loops go on;
  losses in a row are bounded by `MaxLosses`.
* `Recording`, `DiagnosticPanel`: the writer thread and the tests' threads run;
  `finalize` gets the lock in the end (strong), since audio threads only try it and
  let go of it (weak).
* `multichannel`: the combining worker, the transmit loop, the playback session and
  the split thread loop; once stopped, a wait for packets times out.
* `web`: the accept loop, the threads of a browser and those of a publishing browser
  run, and reads time out.  No browser has to read, leave or send: a send to one
  that stalls need not return, be it a relay's, an answer's or the 503 of one turned
  away, and the properties except the thread that waits for it.
* `DawSender`, `DawReceiver`: the worker and the advertiser run, joins return, and an
  active plug-in is processed.  No parameter has to change.
* `StreamBus`: opening returns, priming has a deadline, the reads time out, so the
  loop turns.  No packet has to come.
* `DesktopSessions`: threads poll their flag (every 200 ms or sooner) and library
  calls return.  No click has to come and nothing has to fail.

## 6. Proofs

TLAPS proves the theorems of this section for every value of the constants that
meets the named assumptions (`QueueAssumption`, `WindowAssumption` and so on, in
the modules that declare the constants; TLC evaluates them in the runs).  In each
case the argument is an inductive invariant: what the property needs to be true
of the next step, which the property alone does not say.  There is one lemma per
action or group of actions, with a case per action that can disturb a part.

The theorems of a composed run are about its specification (`PublishersSpec`,
`MultiSpec`, `WebSpec`): every component keeps an invariant of its own, and a step
of one leaves the variables of the others alone.

| Theorem | States | What the invariant adds |
|---|---|---|
| `WindowAhead` (`PacketLoss_proofs`) | `Spec => []HeldAhead` | `Numbered`, `HeldKnown` |
| `ImplementsPlayback` | `Spec => PlaybackOrdered`: the window with its timer and repairs implements `OrderedPlayback` | `Accounted` |
| `KeepsTime` | `BusSpec => [](OneStream => ConcealmentKeepsTime)` | `AheadOf`, `Paced`, `Carried` |
| `DelayBounded` | `BusSpec => [](OneStream => PlayoutBounded)` | `SinceTrim`, `Horizon` |
| `RepairsWhole` | `LossSpec => (FecFits => FecKept)`, an invariant and an action property | `Covers`, `ParitiesKnown`, `HistoryKnown` |
| `ReportsInTurn` (`StreamSession_proofs`) | `Spec => []ConnectionReports` | `QueueOrdered`, and an empty window while disconnected |
| `FormatsFollow` | `Spec => []PlayedInFormat` | `QueueOrdered`, `OneFormat` |
| `PlacesOnce` (`SubscriberLeases_proofs`) | `Spec => []OnePlaceEach` | `RegistryKept` |
| `LeasesHonoured` | `Spec => []LeaseHonoured` | `SteadyInv`, `StoppedInv` |
| `TypeCorrect` (`Publishers_proofs`) | `Spec => []TypeOK` of the capture publisher; `buffered_samples` in particular never underflows | |
| `QueueBounded` | the counter is what the blocks hold, and at most the capacity | `LedgerInv` |
| `NoFrameUncounted` | every frame is queued, in a hand, or counted as dropped | `LockInv`, `LedgerInv` |
| `SessionEndsClean` | a session that ended left nothing in the queue and nothing unreported | `DrainInv` |
| `GatingPrompt` | at most one block is sent after the last subscriber left | `GatingInv` |
| `PacketsCover` | the packets of a block cover it | `WireStep` |
| `ImplementsLossyFifo` | `Spec => QueueIsLossyFifo`, the refinement | `OrderInv` |
| `StreamsInTime` | `PublishersSpec => []StreamsKeepTime`: codec packets and test tones | `OpusCounted`, `ToneClock`, `ToneInOrder` |
| `MonitorStaysTrue` | `PublishersSpec => []MonitorIsTrue` | `LoadedIsKept`, `NamesBelong` |
| `SamplesStay` | `PublishersSpec => []SamplesKept` | `Settled`, `InOrder`, `PendingKept` |
| `ResamplerInPlace` | `ResampleSpec => []ResampledInPlace` | `PendingKept` |
| `CombinesWhole` (`Multichannel_proofs`) | `MultiSpec => []CombinedWhole` | `SourceSound` |
| `PublishesWhole` | `MultiSpec => []PublishedWhole` | `RingFrames`, `PacketFramesRise` |
| `PlaysWhole` | `MultiSpec => []PlayoutWhole`: ASIO playback and the split receiver | `BufferFrames`, `StreamPhases`; `Handed`, `QueuesNewest`, `TrimmedSoFar` |
| `GatewayKeeps` (`Web_proofs`) | `WebSpec => []GatewayKept`: slots and logins | `Unanswered` |
| `BrowserAudio` | `WebSpec => []BrowserAudioWhole`, both directions | `ExpectedPlace`, `Lasting`, `OneFormat`, `Listens` |
| `PoolBalances`, `SendsInOrder` (`Daw_proofs`) | `Spec => []BlocksAccounted`, `Spec => []SentInOrder` | `Quiescent` |
| `PoolKept` | `RxSpec => []PoolBounded` | `RxTypes` |
| `PlaysForward` | `RxSpec => PlayedForward`, an action property | `InTurn`, `PlayedSoFar` |
| `DriversOnce` (`Desktop_proofs`) | no ASIO driver is held by two starts, and the drivers marked as taken are those some start holds | `Reserved` |
| `RunningBacked` | a row whose flag is up has a worker that has not ended | |
| `NoOrphans` | the flag of a row that was removed stays down | |
| `OneGateway` | at most one gateway thread exists, and `active` says whether it does | |
| `DirectoryListsWhoIsHeard` | `DirectorySpec => []DirectoryFollows` | `HeardAgain`, `QuietAge`, `Expired` |

**The reorder window.**  The properties hold where the network reorders within the
window (`skew <= Capacity`); where it does not, `reorder_order` has the
counterexample, and the theorems promise nothing.  The window knows sequence
numbers modulo `2 * Half`, the application places in a stream.  `Numbered` ties
them: a packet lies as far behind the publisher in numbers as in places, and that
is less than `Half` (`StreamAssumption`: shorter streams than half of the number
space; for longer ones the same holds of the packets in reach).  `Turn` is the
place the window waits for.  `HeldKnown` puts every held packet ahead of it and
within the capacity, so a jump or an overflow cannot happen; `Accounted` says that
the queued events lead the application from its cursor to `Turn`, loss report
first, then packet by packet.  The recursion in the window's drain is a
`RunLength`, the least number that is not held, for which `DrainFacts` shows once
what a drain hands out and leaves.

**The stream bus.**  `KeepsTime` and `DelayBounded` are about a bus with one stream
(`OneStream`, what the run has, too), on a network that reorders within the window
(`Skew <= Capacity`).  With several streams in the one window neither is promised;
`bus_mix` shows what becomes of them.  Place `t` is the one the window waits for:
`AheadOf` puts what is held at later places within the capacity.  `ClockOf` is the
time at which what comes next will be queued: where packet `t` begins, moved by
the position of the resampler, which `Carried` keeps within a frame.  `Paced` says
that from every frame of audio in the queue it is as far to every later one, and to
the clock, as the frames in between last, within `Slack` for each packet altered in
between (`Leads`).  A packet in turn adds its frames and moves the clock by as much
(`PushedIs`, `AppendPaced`); a report of `c` lost packets adds `c` times one length, which
lies between `c * MinFrames` and `c * MaxFrames`, as what was lost does, and drops
the position, so the clock is out by at most `c * Slack` (`ConcealedTime`); a
rebuilt packet by the difference of two lengths (`RebuiltTime`).  The callback
takes from the head and the trim keeps the end, so `Paced` stays; what was primed
lies before all audio and is not timed.  With packets of one length at the output's
rate `Slack` is zero and nothing moves.  The bound needs to know how much can come between two trims,
since losses flushed and packets rebuilt are queued without one.  `SinceTrim` looks
back to the place `m` the window waited for at the last trim: all recorded and held
packets lie within the capacity of `m`, and so does what parity rebuilds, as the
others of its group were recorded, except that the last packet of a group may be one
beyond (`RebuiltNear`).  The queue has grown by
no more than the window advanced, a packet's place by `Longest` at most
(`StillBounded`).

**The session.**  Here nothing is known of the numbers that arrive, since a new
incarnation counts from 0.  A call of the window is described by what it cannot
do (`Returned`): it hands out nothing but the packet it was given and packets it
held, and holds nothing else, each under its number.  `QueueOrdered` is the order
of the event queue: a report of the connection only at its head, then the format,
then audio, every event true of the receiver as it is now; until they are taken
the player goes by what was true before.  `OneFormat` says that what flies or is
held is of the incarnation that runs or ran last; it rests on a restart taking
longer than a packet is under way, a tick.

**The leases.**  The order of entries plays no part: the registry is looked at as
the set of its entries.  `SteadyInv` bounds the age of the entry of a receiver
that goes on asking by the requests it has sent since, each of which was lost or
is under way (`Late` counts those older than `c` ticks): at most `MaxLosses` are
lost in a row, the rest come within `MaxDelay`, and `LeasesAssumption` says that
this is less than a lease.  `StoppedInv` says the opposite of one that stopped:
its entry is as old as that, but for the delay.

**The capture session.**  `CaptureIInv` is `TypeOK`, `CapacityKept`,
`FramesAccounted` and

* `LockInv`: who holds the lock, and where that thread then is.  Without it a pop
  could meet a push half done, and the books would not balance;
* `LedgerInv`: the queued blocks are consecutive stretches of the accepted audio
  and end with the newest.  It makes `buffered_samples` the sum of the blocks
  without a recursive sum, and so the subtraction in pop and eviction safe;
* `DrainInv`: the worker leaves its loop only when the queue is closed and empty;
  with `LockInv` (closed only after the stream was dropped) nothing can arrive
  after that;
* `GatingInv`: if a block was sent too late, the next snapshot is empty.

`OrderInv` (numbers in the queue increase and lie above the last one taken) is
proved on top of it for the refinement, and `WireStep` for the packets.

**The other publishers.**

* Codec: `OpusCounted` counts what was pushed in full frames and the rest, so a
  packet's stamp is its number times the frame.
* Tones: `ToneClock` keeps the timeline behind the clock, and a generated packet
  no older than the catch-up bound; `ToneInOrder` says that frames rise through
  all packets and what is held back for the codec.
* Meters: a thread that has read a peak may sleep; when it wakes, the peak is
  either still as high or has been shown in between (`LoadedIsKept`), so giving up
  because a higher one was seen loses nothing.  `NamesBelong` ties names and
  sessions.
* Recording: `Settled` says that the writer reaches the end only with the sender
  gone and the queue empty, and `finalize` returns after it; `InOrder` that
  collected and queued blocks together are those taken.
* Resampler: `PendingKept` says that one frame always stays once one has come.
  `ReachableIsArrived` turns the loop's condition on whole and fractional part
  into one comparison of products; the rest is linear in those products.
* Panel: `RunningIsPublished` is inductive with types alone.

**Several channels.**  The ASIO components keep interleaved samples in flat
buffers.  What keeps a channel in its place is that everything put in and taken
out is whole frames: `Framed(s, r, w, label)` says that `s` is `r` frames of `w`
samples, sample `c` of each carrying label `c`, and one lemma each says that it
survives a concatenation, a prefix and what is left of it.  `FramesRise` adds that
frames come in the order of their capture.  For the routes of the playback no
more is needed than `Framed`, since the driver's buffers are filled frame by
frame.  `FrameLimit` says between which steps the buffer may exceed its cap.

The combiner's channels are not interleaved; `SourceSound` accounts for the frames
of one source and places them: what waits in the queue and in `pending` lies at
the place where it will be combined, or later by no more than that source has
lost (`QueueAligned`, `Held`).  Two channels of a packet then lie apart by no more
than their sources' losses.

In the split receiver `Handed` says how far the thread is with the packet at
hand, channel by channel, and `QueuesNewest` that a queue is the newest of what
was written to it and later than what was played.

**Browser sharing.**  Every way a browser's thread can take gives its slot back
once (`SlotsStay` and one lemma per way).  A login passes through three locks;
`Unanswered` says that one under way has no answer yet, so its token cannot have
been closed before it is opened.  In the relay `ExpectedPlace` says that the
next number expected is that of a place, which turns distances of numbers into
distances of places; this needs a stream that is shorter than half of the number
space (`RelayAssumption`).  `Lasting` says what so many places in a row can
last; as a gap of `d` packets and what stands for it both lie between `d` times the
two lengths, it is off by `d` times their difference (`Drift`).  In the other direction `Listens` says that whoever was
sent a packet is sent every one until the end, and what it was sent and is still
owed is what it should have.

**The plug-ins.**  The sender's books start anew with each activation.  They
balance because no thread of the old runtime is left then (`Quiescent`: the host
does not deactivate inside a callback, and a runtime ends only after its joins).
In the receiver what waits is in the order of arrival and later than what was
played (`InTurn`), and the block at hand was played as far as its offset
(`PlayedSoFar`).

**Error correction.**  `RepairsWhole` is about networks no later than the history is
long, and numbers that do not go down (`FecFits`: `MaxSkew <= HistoryCapacity`, and
the stream ends before the wrap; the run has both, and section 7 says what becomes
of the history at the wrap).  `Covers` says what parity is: byte `i` is made of the
packets of the group that have a byte `i`.  `HistoryKnown` says that a packet that
arrived is in the history or a whole history old, and that what the history has for
a group not yet repaired is what was sent: only a repair, and no arrival, can put
other bytes there.  So the decoder misses exactly what did not arrive
(`GroupFacts`), and when it has taken the others out of the parity, in whatever
order, the bytes of the missing one are left (`RemoveAllFacts`, `RebuiltBytes`).

**The desktop.**  `Reserved` says which drivers a start has taken, driver by
driver.  `DriversHeldOnce` says it with the union of what all starts hold, and a
union does not tell the prover which start a driver came from.
`SessionsAssumption`: there is a row, each has a driver or none, and the kinds of
row that receive are kinds of row.  In the directory an entry is no older than the
announcements its node lost in a row and the one that is due (`HeardAgain`), and
no younger than the silence of a node that stopped (`QuietAge`).

**Data of any length.**  Sums over blocks, frames of a packet list and flattened
sequences are defined by recursion, and the provers cannot use the library's
induction rules, which take an operator.  Where a theorem needs what such a
definition computes, the definition is a recursive function, and its law is
proved by a least counterexample: were it wrong for some length, it would be
wrong for a least one (`Least` and `UpTo`, from the well-foundedness of the
natural numbers), and one step of the recursion contradicts that; for a fold over a
set, the least number of members (`RemoveAllFacts`).  The functions that
need it are `Handling` of `StreamBus` (`HandlingFacts`), `SizeOf` of
`CombinePublisher` (`SumFacts`), `EvictTurns` of
`ReorderWindow`, `RetainedUpTo` of `SubscriberLeases`, `FramesOf` and `FramesIn`
of the web modules (`FramesCounted`, `CountsAgree`) and `FlattenSeq` of the
community modules (`FlattensAgree`).

Only model-checked: liveness under fairness, all of it, which is out of the prover's
reach.  Every invariant and action property of the passing runs is stated by a
theorem.

## 7. Seen while modelling

Findings, each with a run that exhibits it (`PROJECT.json` has the quotes):

* a packet more than the capacity ahead leaves older held packets behind, which
  are later delivered after their successors (`reorder_order`);
* a restarted publisher is not heard until its numbers reach the old ones
  (`session_restart`);
* the bus, given several streams, has one reorder window for all of them
  (`bus_mix`).

Read in the code, not exhibited by a run.  Findings in `PROJECT.json`, with the
lines quoted:

* the CLI player stays silent after a reconnect in the same format: the output
  is dropped on a disconnect and only a format change opens one
  (`apps/receiver/main.rs` 424-476);
* `pending` of the combining publisher is not bounded: while one device is silent
  what the others deliver piles up (`combine.rs` 336-374);
* the bus fails on the first packet of an Opus stream, which it has just accepted
  (`bus.rs` 207-212, 1078-1085);
* the buffer pool of the capture queue runs dry, since nobody calls
  `recycle_buffer` (`util.rs` 141, 162-177), and then the callback allocates;
* the DAW receiver plays whatever stream arrives on its port, and after a change of
  slot two streams share its queue (`apps/plugin` 799-875);
* the receiver's `process` joins threads, binds a socket and spawns threads when a
  parameter changes, and does not try again when that fails (`apps/plugin`
  1120-1143);
* a negative clock correction puts a copy of the *oldest* frame of the buffer behind
  the newest (`asio_subscribe.rs` 1075);
* ASIO playback falls back to another rate and resamples, which its comment rules
  out (`asio_subscribe.rs` 59, 152, 577-586);
* an announcement longer than 1024 bytes, as 64 channels can have, is never listed
  (`discovery.rs` 474);
* the bus conceals a lost packet in the length of the one handed out last, and as if
  it had the rate of the output, which the change log calls exact; a stream of
  another rate moves with every loss, and gets a new resampler (`bus.rs` 620-641,
  1042-1060);
* the relay sends the partial batch at the first timeout and has nothing left to
  discard when it reports the interruption (`web_gateway.rs` 1483).

Notes that no document contradicts:

* after a pause without listeners the Opus encoder goes on with the rest it had, so
  the first packet afterwards joins frames from before and after the pause; a packet
  is stamped with the time of the block that filled it, though it may begin with
  frames of the one before (`transmit.rs` 800-848);
* `finalize` ignores what the writer thread returns, and errors while a WAV file
  grows are ignored too: a recording that failed looks like one that did not
  (`recording.rs` 101-133);
* a diagnostics thread held up for longer than the button's debounce clears the flag
  of the test started after it (`diagnostic_panel.rs` 406); no property sees that, as
  the test then ends in order;
* a browser that leaves while its stream is silent from the start, or before its
  choice of a stream is read, keeps its slot as long as the stream is silent: the
  relay only learns of it by sending (`web_gateway.rs` 1477-1514), so
  `LeaversFreeSlots` excepts a relay that was never sent a packet (`Unheard`);
* at a full gateway a browser that does not take its 503, or over TLS does not shake
  hands, holds the accept loop, also past a stop (`web_gateway.rs` 360-363,
  529-539); `StopEndsAll` excepts it;
* the relay conceals a gap in the length of the packet that ends it (`web_gateway.rs`
  1368), so a browser's time moves by the difference where lengths differ;
* a browser's publication never drops a subscriber (`web_publish.rs` 105-120);
* priming queues packets as they arrive, past the window, which starts anew
  afterwards: a packet late across that switch is played twice or reported lost
  (`bus.rs` 506-573, 673-674);
* a loss report of up to a million packets is concealed in full before the queue
  is trimmed (`bus.rs` 614-636);
* the headless output is a detached thread: the bus may return before its
  recording is finalised (`bus.rs` 278-293);
* a rebuilt FEC packet gets the length of the group's first packet (`fec.rs` 54,
  81, 162-177), although a block is split into packets of two lengths;
* the FEC history evicts the newest packet when numbers go down (`fec.rs`
  118-123): at the u32 wrap, and when a publisher restarts; with first numbers next
  to the wrap `FecKept` fails, so the run keeps to numbers that grow;
* a row of the desktop restarted while its worker winds down revives that worker;
  the new one then fails to bind the port and lowers the common flag, which ends
  both (`main.rs` 4640).  `RunningIsBacked` and `StoppedEnds` hold nevertheless:
  nothing is left over, but the user's start is lost, which no property sees;
* in the bus a loss report pushes concealment into the buffer of every stream
  (`bus.rs` 629-642);
* the ping times of the discovered nodes are never forgotten (`main.rs` 249).

## 8. Not modelled

* Sample arithmetic: conversion, gain, interpolation weights, the sound of
  concealment, decibels, the trim and resampling helpers without state.  No
  property is about a waveform.
* The floating-point controllers (`AdaptiveJitterController`,
  `ClockSynchronizer`): filters over reals; where their result matters it is a
  choice among the values it may have (`AsioPlayback`).
* Byte layouts (`protocol.rs`, SDP, FEC headers), encryption and certificates, PTP:
  pure functions, or a library's state.  Packets are records.
* Device back ends, HTTP text, TLS, the pages, widgets, presets on disk, the
  updater, packaging: I/O.
* `web_stream.rs` and `webrtc_gateway.rs`, which no program of the repository calls, and `transmit`, `transmit_with_control` and the loopback publisher, which are
  the capture session with other inputs.
* Inside modelled parts: failures of encryption and of single sends (a packet not
  sent is a packet lost), statistics and log lines, socket errors that end a thread
  as a stop does, ping replies.  `PROJECT.json` says per component what is left out.
