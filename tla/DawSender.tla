------------------------------- MODULE DawSender -------------------------------
(***************************************************************************)
(* The plug-in's sender (apps/plugin, OpenAudioDawSender and its           *)
(* PublisherRuntime).  The host's audio callback `process' copies a block  *)
(* into a buffer of a fixed pool and hands it to a worker thread through   *)
(* two lock-free queues, free_blocks and ready_blocks; the parameter       *)
(* "Publish" can be switched at any time; the host activates and           *)
(* deactivates the plug-in.  All instances of the process share one        *)
(* control service with the registry of subscribers: the others appear     *)
(* here as one more holder of it.                                          *)
(*                                                                         *)
(* A block is the number of the host's callback that filled it.  Left out: *)
(* packetisation, encryption and parity of a block, and the statistics.    *)
(***************************************************************************)
EXTENDS Naturals, Sequences

CONSTANTS
  Blocks,      \* AUDIO_BLOCK_COUNT
  MaxCaptured  \* bound: blocks the host hands over

ASSUME DawSenderAssumption == Blocks \in Nat \ {0} /\ MaxCaptured \in Nat

VARIABLES
  publish,     \* the host-visible parameter
  enabled,     \* publish_enabled
  runtime,     \* "none", "active" or "stopping"
  running,     \* PublisherRuntime.running
  advertising, \* the advertiser thread runs
  free,        \* number of blocks in free_blocks
  ready,       \* ready_blocks
  cbPc, seen,  \* the callback, and the value of `publish' it has read
  workerPc, held,
  holders,     \* instances that hold the control service
  registry,    \* streams with a subscriber in the service's registry
  captured,    \* blocks handed over since activation
  dropped, discarded, unheard, sent,  \* what became of them
  lastSent     \* the last block sent

flags == <<publish, enabled>>
lifeVars == <<runtime, running, advertising>>
cbVars == <<cbPc, seen>>
workerVars == <<workerPc, held>>
service == <<holders, registry>>
counts == <<captured, dropped, discarded, unheard, sent, lastSent>>
vars == <<flags, lifeVars, free, ready, cbVars, workerVars, service, counts>>

Streams == {"own", "other"}
None == 0

-----------------------------------------------------------------------------
(* The host's control thread.                                              *)

(* The parameter's callback stores the new value.                          *)
SetPublish(v) ==
  /\ publish' = v /\ enabled' = v
  /\ UNCHANGED <<lifeVars, free, ready, cbVars, workerVars, service, counts>>

(* control_service: the weak reference yields the running service, or a    *)
(* new one is started with an empty registry.                              *)
TakeService(i) ==
  /\ holders' = holders \union {i}
  /\ registry' = IF holders = {} THEN {} ELSE registry

DropService(i) ==
  /\ holders' = holders \ {i}
  /\ UNCHANGED registry

Activate ==
  /\ runtime = "none"
  /\ enabled' = publish /\ UNCHANGED publish
  /\ TakeService("own")
  /\ runtime' = "active" /\ running' = TRUE /\ advertising' = TRUE
  /\ free' = Blocks /\ ready' = << >>
  /\ workerPc' = "loop" /\ held' = None
  /\ captured' = 0 /\ dropped' = 0 /\ discarded' = 0 /\ unheard' = 0 /\ sent' = 0
  /\ lastSent' = None
  /\ UNCHANGED cbVars

(* A socket or a thread is refused: the flag has been stored all the same. *)
ActivateFails ==
  /\ runtime = "none"
  /\ enabled' = publish
  /\ UNCHANGED <<publish, lifeVars, free, ready, cbVars, workerVars, service, counts>>

(* Faulty variant: the threads are joined without being told to end.       *)
Deactivate_TellsNobody ==
  /\ runtime = "active" /\ cbPc = "idle"
  /\ enabled' = FALSE /\ UNCHANGED publish
  /\ runtime' = "stopping" /\ UNCHANGED <<running, advertising>>
  /\ UNCHANGED <<free, ready, cbVars, workerVars, service, counts>>

(* The host does not call process any more when it deactivates.            *)
Deactivate ==
  /\ runtime = "active" /\ cbPc = "idle"
  /\ enabled' = FALSE /\ UNCHANGED publish
  /\ running' = FALSE /\ runtime' = "stopping" /\ UNCHANGED advertising
  /\ UNCHANGED <<free, ready, cbVars, workerVars, service, counts>>

AdvertiserEnds ==
  /\ advertising /\ ~ running
  /\ advertising' = FALSE
  /\ UNCHANGED <<flags, runtime, running, free, ready, cbVars, workerVars, service, counts>>

(* stop: both threads have been joined, and the runtime is dropped.        *)
Joined ==
  /\ runtime = "stopping" /\ ~ advertising /\ workerPc = "done"
  /\ runtime' = "none"
  /\ DropService("own")
  /\ UNCHANGED <<flags, running, advertising, free, ready, cbVars, workerVars, counts>>

-----------------------------------------------------------------------------
(* The audio callback: process.                                            *)

ProcessReads ==
  /\ runtime = "active" /\ cbPc = "idle"
  /\ seen' = publish /\ cbPc' = "store"
  /\ UNCHANGED <<flags, lifeVars, free, ready, workerVars, service, counts>>

ProcessStores ==
  /\ cbPc = "store"
  /\ enabled' = seen
  /\ cbPc' = IF seen THEN "block" ELSE "discard"
  /\ UNCHANGED <<publish, lifeVars, free, ready, seen, workerVars, service, counts>>

(* discard_queued_audio                                                    *)
Discard ==
  /\ cbPc = "discard"
  /\ IF ready = << >>
     THEN cbPc' = "idle" /\ UNCHANGED <<free, ready, discarded>>
     ELSE /\ ready' = Tail(ready) /\ free' = free + 1 /\ discarded' = discarded + 1
          /\ UNCHANGED cbPc
  /\ UNCHANGED <<flags, lifeVars, seen, workerVars, service, captured, dropped, unheard, sent, lastSent>>

(* The block is lost: the host's block does not fit the activated layout,  *)
(* or no buffer is to be had.                                              *)
LoseBlock ==
  /\ captured' = captured + 1 /\ dropped' = dropped + 1
  /\ cbPc' = "idle"
  /\ UNCHANGED <<flags, lifeVars, free, ready, seen, workerVars, service, discarded, unheard, sent, lastSent>>

BlockUnfit == cbPc = "block" /\ captured < MaxCaptured /\ LoseBlock

BlockEmpty ==
  /\ cbPc = "block" /\ cbPc' = "idle"
  /\ UNCHANGED <<flags, lifeVars, free, ready, seen, workerVars, service, counts>>

(* acquire_audio_block: a free buffer, else the oldest one that waits.     *)
AcquireFree ==
  /\ cbPc = "block" /\ captured < MaxCaptured
  /\ IF free > 0
     THEN free' = free - 1 /\ cbPc' = "fill"
     ELSE cbPc' = "steal" /\ UNCHANGED free
  /\ UNCHANGED <<flags, lifeVars, ready, seen, workerVars, service, counts>>

StealOldest ==
  /\ cbPc = "steal" /\ ready # << >>
  /\ ready' = Tail(ready) /\ dropped' = dropped + 1
  /\ cbPc' = "fill"
  /\ UNCHANGED <<flags, lifeVars, free, seen, workerVars, service, captured, discarded, unheard, sent, lastSent>>

StealFails == cbPc = "steal" /\ ready = << >> /\ LoseBlock

Fill ==
  /\ cbPc = "fill"
  /\ captured' = captured + 1
  /\ IF Len(ready) < Blocks
     THEN ready' = Append(ready, captured') /\ UNCHANGED <<free, dropped>>
     ELSE free' = free + 1 /\ dropped' = dropped + 1 /\ UNCHANGED ready
  /\ cbPc' = "idle"
  /\ UNCHANGED <<flags, lifeVars, seen, workerVars, service, discarded, unheard, sent, lastSent>>

Process ==
  \/ ProcessReads \/ ProcessStores \/ Discard \/ BlockUnfit \/ BlockEmpty
  \/ AcquireFree \/ StealOldest \/ StealFails \/ Fill

-----------------------------------------------------------------------------
(* The worker thread.                                                      *)

WorkerExits ==
  /\ workerPc = "loop" /\ ~ running /\ ready = << >>
  /\ workerPc' = "done"
  /\ UNCHANGED <<flags, lifeVars, free, ready, cbVars, held, service, counts>>

WorkerLooks ==
  /\ workerPc = "loop" /\ (running \/ ready # << >>)
  /\ workerPc' = IF enabled THEN "pop" ELSE "drain"
  /\ UNCHANGED <<flags, lifeVars, free, ready, cbVars, held, service, counts>>

(* Not publishing: what waits is thrown away, then the subscribers.        *)
DrainBlock ==
  /\ workerPc = "drain" /\ ready # << >>
  /\ ready' = Tail(ready) /\ free' = free + 1 /\ discarded' = discarded + 1
  /\ UNCHANGED <<flags, lifeVars, cbVars, workerVars, service, captured, dropped, unheard, sent, lastSent>>

(* Faulty variant: the subscribers are kept.                               *)
DrainEnds_KeepsSubscribers ==
  /\ workerPc = "drain" /\ ready = << >>
  /\ workerPc' = "loop"
  /\ UNCHANGED <<flags, lifeVars, free, ready, cbVars, held, service, counts>>

DrainEnds ==
  /\ workerPc = "drain" /\ ready = << >>
  /\ registry' = registry \ {"own"}
  /\ workerPc' = "loop"
  /\ UNCHANGED <<flags, lifeVars, free, ready, cbVars, held, holders, counts>>

(* Faulty variant: the newest block first.                                 *)
Pop_Newest ==
  /\ workerPc = "pop"
  /\ IF ready = << >>
     THEN workerPc' = "loop" /\ UNCHANGED <<ready, held>>
     ELSE /\ held' = ready[Len(ready)] /\ ready' = SubSeq(ready, 1, Len(ready) - 1)
          /\ workerPc' = "send"
  /\ UNCHANGED <<flags, lifeVars, free, cbVars, service, counts>>

Pop ==
  /\ workerPc = "pop"
  /\ IF ready = << >>
     THEN workerPc' = "loop" /\ UNCHANGED <<ready, held>>
     ELSE held' = Head(ready) /\ ready' = Tail(ready) /\ workerPc' = "send"
  /\ UNCHANGED <<flags, lifeVars, free, cbVars, service, counts>>

Send ==
  /\ workerPc = "send"
  /\ IF "own" \in registry
     THEN sent' = sent + 1 /\ lastSent' = held /\ UNCHANGED unheard
     ELSE unheard' = unheard + 1 /\ UNCHANGED <<sent, lastSent>>
  /\ workerPc' = "return"
  /\ UNCHANGED <<flags, lifeVars, free, ready, cbVars, held, service, captured, dropped, discarded>>

(* Faulty variant: the buffer of a block nobody listened to is not given   *)
(* back.                                                                   *)
Return_OnlySent ==
  /\ workerPc = "return"
  /\ free' = IF lastSent = held THEN free + 1 ELSE free
  /\ held' = None
  /\ workerPc' = "loop"
  /\ UNCHANGED <<flags, lifeVars, ready, cbVars, service, counts>>

Return ==
  /\ workerPc = "return"
  /\ free' = free + 1 /\ held' = None
  /\ workerPc' = "loop"
  /\ UNCHANGED <<flags, lifeVars, ready, cbVars, service, counts>>

Worker == WorkerExits \/ WorkerLooks \/ DrainBlock \/ DrainEnds \/ Pop \/ Send \/ Return

-----------------------------------------------------------------------------
(* The service's listener, and the other instances.                        *)

Subscribe(s) ==
  /\ holders # {}
  /\ registry' = registry \union {s}
  /\ UNCHANGED <<flags, lifeVars, free, ready, cbVars, workerVars, holders, counts>>

LeaseEnds(s) ==
  /\ s \in registry
  /\ registry' = registry \ {s}
  /\ UNCHANGED <<flags, lifeVars, free, ready, cbVars, workerVars, holders, counts>>

OtherActivates ==
  /\ "other" \notin holders
  /\ TakeService("other")
  /\ UNCHANGED <<flags, lifeVars, free, ready, cbVars, workerVars, counts>>

OtherDeactivates ==
  /\ "other" \in holders
  /\ DropService("other")
  /\ UNCHANGED <<flags, lifeVars, free, ready, cbVars, workerVars, counts>>

Init ==
  /\ publish = FALSE /\ enabled = FALSE
  /\ runtime = "none" /\ running = FALSE /\ advertising = FALSE
  /\ free = 0 /\ ready = << >>
  /\ cbPc = "idle" /\ seen = FALSE
  /\ workerPc = "done" /\ held = None
  /\ holders = {} /\ registry = {}
  /\ captured = 0 /\ dropped = 0 /\ discarded = 0 /\ unheard = 0 /\ sent = 0
  /\ lastSent = None

Next ==
  \/ \E v \in BOOLEAN : SetPublish(v)
  \/ Activate \/ ActivateFails \/ Deactivate \/ AdvertiserEnds \/ Joined
  \/ Process \/ Worker
  \/ \E s \in Streams : Subscribe(s) \/ LeaseEnds(s)
  \/ OtherActivates \/ OtherDeactivates

Spec == Init /\ [][Next]_vars

(* Threads run, and an active plug-in is processed.                        *)
Fairness ==
  /\ WF_vars(Worker) /\ WF_vars(AdvertiserEnds) /\ WF_vars(Joined)
  /\ WF_vars(Process)

FairSpec == Spec /\ Fairness

-----------------------------------------------------------------------------
Held(p, places) == IF p \in places THEN 1 ELSE 0

(* While a runtime exists every buffer of the pool is free, waits, or is   *)
(* in the hands of exactly one thread ("audio block pool invariant         *)
(* violated" is never printed), and every block the host handed over was   *)
(* dropped, discarded, sent, not listened to, or is on its way.            *)
BlocksAccounted ==
  runtime # "none" =>
    /\ free + Len(ready) + Held(cbPc, {"fill"}) + Held(workerPc, {"send", "return"}) = Blocks
    /\ captured = dropped + discarded + unheard + sent + Len(ready) + Held(workerPc, {"send"})

(* Blocks leave in the order the host made them, whichever thread took one *)
(* out of the queue in between.                                            *)
SentInOrder ==
  /\ \A i, j \in 1 .. Len(ready) : i < j => ready[i] < ready[j]
  /\ \A i \in 1 .. Len(ready) :
       /\ lastSent < ready[i] /\ ready[i] <= captured
       /\ workerPc = "send" => held < ready[i]
  /\ workerPc = "send" => lastSent < held /\ held <= captured
  /\ lastSent <= captured

(* Switching "Publish" off empties the queue and drops the subscribers:    *)
(* process cannot keep a stale "on" alive.                                 *)
OffGoesQuiet ==
  (runtime = "active" /\ ~ publish)
    ~> (publish \/ runtime # "active" \/ (ready = << >> /\ "own" \notin registry))

(* A deactivated runtime ends: its worker empties the queue and both       *)
(* threads can be joined.                                                  *)
DeactivateEnds == (runtime = "stopping") ~> (runtime = "none")

=============================================================================
