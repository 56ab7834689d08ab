-------------------------- MODULE BoundedAudioQueue --------------------------
(***************************************************************************)
(* The queue between an audio callback and its worker (audio-core,         *)
(* util.rs, BoundedAudioQueue).  The callback must never wait, so it drops *)
(* its block when the lock is taken, and drops the oldest blocks when the  *)
(* queue is full.  One action per step a thread takes with the lock.       *)
(*                                                                         *)
(* A block is [id, frames, first]: the callback it came from, its length,  *)
(* and the index of its first frame among all frames ever accepted.        *)
(***************************************************************************)
EXTENDS Integers, Sequences

CONSTANTS
  MaxFrames,    \* maximum_samples / channels
  PoolInit,     \* buffers allocated by new: 16
  PoolLimit,    \* buffers kept at most: 32
  Free, Callback, Worker, Closer   \* who holds the mutex

ASSUME QueueAssumption ==
  /\ MaxFrames \in Nat \ {0}
  /\ PoolInit \in Nat /\ PoolLimit \in Nat
  /\ PoolInit <= PoolLimit
  /\ Free \notin {Callback, Worker, Closer}
  /\ Callback # Worker /\ Callback # Closer /\ Worker # Closer

VARIABLES
  blocks,          \* AudioQueueState.blocks
  bufferedFrames,  \* AudioQueueState.buffered_samples / channels
  recycled,        \* AudioQueueState.recycled.len()
  closed,          \* AudioQueueState.closed
  droppedFrames,   \* dropped_frames, an atomic outside the lock
  lock,            \* holder of the state mutex
  pushing,         \* the block the callback is inserting under the lock
  accepted         \* frames ever appended to the queue

queueVars == <<blocks, bufferedFrames, recycled, closed, droppedFrames, lock,
               pushing, accepted>>

NoBlock == [id |-> 0, frames |-> 0, first |-> 0]

QueueInit ==
  /\ blocks = << >>
  /\ bufferedFrames = 0
  /\ recycled = PoolInit
  /\ closed = FALSE
  /\ droppedFrames = 0
  /\ lock = Free
  /\ pushing = NoBlock
  /\ accepted = 0

-----------------------------------------------------------------------------
(* try_push: the ways out that drop the new block.                         *)

DropNew(frames) ==
  /\ droppedFrames' = droppedFrames + frames
  /\ UNCHANGED <<blocks, bufferedFrames, recycled, closed, lock, pushing,
                 accepted>>

PushTooLarge(frames) == frames > MaxFrames /\ DropNew(frames)

CanEnter == lock = Free /\ ~ closed

(* Faulty variant: a block lost to the lock is not counted.                *)
PushRefused_Uncounted(frames) ==
  /\ frames <= MaxFrames
  /\ ~ CanEnter
  /\ UNCHANGED queueVars

PushRefused(frames) ==
  /\ frames <= MaxFrames
  /\ ~ CanEnter
  /\ DropNew(frames)

(* try_push: taking the lock, then dropping stale blocks one by one until  *)
(* the new one fits, then appending it.                                    *)

PushLock(id, frames) ==
  /\ frames <= MaxFrames
  /\ CanEnter
  /\ lock' = Callback
  /\ pushing' = [id |-> id, frames |-> frames, first |-> accepted]
  /\ UNCHANGED <<blocks, bufferedFrames, recycled, closed, droppedFrames,
                 accepted>>

(* The blocks and the one to be queued exceed the capacity.                *)
Full == bufferedFrames + pushing.frames > MaxFrames

(* Faulty variant: the newest block is given up instead of the oldest.     *)
PushEvict_Newest ==
  /\ lock = Callback
  /\ Full
  /\ blocks # << >>
  /\ blocks' = SubSeq(blocks, 1, Len(blocks) - 1)
  /\ bufferedFrames' = bufferedFrames - blocks[Len(blocks)].frames
  /\ droppedFrames' = droppedFrames + blocks[Len(blocks)].frames
  /\ recycled' = IF recycled < PoolLimit THEN recycled + 1 ELSE recycled
  /\ UNCHANGED <<closed, lock, pushing, accepted>>

PushEvict ==
  /\ lock = Callback
  /\ Full
  /\ blocks # << >>
  /\ blocks' = Tail(blocks)
  /\ bufferedFrames' = bufferedFrames - Head(blocks).frames
  /\ droppedFrames' = droppedFrames + Head(blocks).frames
  /\ recycled' = IF recycled < PoolLimit THEN recycled + 1 ELSE recycled
  /\ UNCHANGED <<closed, lock, pushing, accepted>>

PushAppend ==
  /\ lock = Callback
  /\ ~ Full \/ blocks = << >>
  /\ blocks' = Append(blocks, pushing)
  /\ bufferedFrames' = bufferedFrames + pushing.frames
  /\ accepted' = accepted + pushing.frames
  /\ recycled' = IF recycled > 0 THEN recycled - 1 ELSE recycled   \* or allocate
  /\ lock' = Free
  /\ pushing' = NoBlock
  /\ UNCHANGED <<closed, droppedFrames>>

-----------------------------------------------------------------------------
(* try_pop, is_closed_and_empty and close wait for the lock (safe_lock).   *)

WaitForLock(thread) ==
  /\ lock = Free
  /\ lock' = thread
  /\ UNCHANGED <<blocks, bufferedFrames, recycled, closed, droppedFrames,
                 pushing, accepted>>

Unlock(thread) ==
  /\ lock = thread
  /\ lock' = Free
  /\ UNCHANGED <<blocks, bufferedFrames, recycled, closed, droppedFrames,
                 pushing, accepted>>

(* Faulty variant: buffered_samples is not reduced.                        *)
PopSome_Uncounted(thread) ==
  /\ lock = thread
  /\ blocks # << >>
  /\ blocks' = Tail(blocks)
  /\ lock' = Free
  /\ UNCHANGED <<bufferedFrames, recycled, closed, droppedFrames, pushing,
                 accepted>>

PopSome(thread) ==
  /\ lock = thread
  /\ blocks # << >>
  /\ blocks' = Tail(blocks)
  /\ bufferedFrames' = bufferedFrames - Head(blocks).frames
  /\ lock' = Free
  /\ UNCHANGED <<recycled, closed, droppedFrames, pushing, accepted>>

Close(thread) ==
  /\ lock = thread
  /\ closed' = TRUE
  /\ lock' = Free
  /\ UNCHANGED <<blocks, bufferedFrames, recycled, droppedFrames, pushing,
                 accepted>>

(* take_dropped_frames: an atomic swap that takes no lock.                 *)
TakeDropped ==
  /\ droppedFrames' = 0
  /\ UNCHANGED <<blocks, bufferedFrames, recycled, closed, lock, pushing,
                 accepted>>

=============================================================================
