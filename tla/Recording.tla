------------------------------- MODULE Recording -------------------------------
(***************************************************************************)
(* A recording (recording.rs): audio threads hand blocks to a bounded      *)
(* queue and never wait; a writer thread empties it into the file; a       *)
(* session thread finalizes, and waits for the writer while it holds the   *)
(* lock the audio threads try.                                             *)
(*                                                                         *)
(* A block is its number.  `flac' tells the two writers apart: WAV writes  *)
(* as blocks come, FLAC collects everything and saves the file at the end. *)
(***************************************************************************)
EXTENDS Integers, Sequences, SequencesExt

CONSTANTS
  Writers,          \* audio threads that share the writer
  QueueBlocks,      \* the queue's capacity: 512
  MaxWritten        \* bound: calls of write_samples

ASSUME RecordingAssumption ==
  /\ QueueBlocks \in Nat \ {0} /\ MaxWritten \in Nat
  /\ Writers \cap {"nobody", "finalize"} = {}

VARIABLES
  flac,             \* the path ends with .flac
  writerLock,       \* who holds the writer's mutex: a writer, "finalize", "nobody"
  written,          \* calls of write_samples
  inside,           \* inside[w]: the block a writer holds the lock for, or 0
  sender,           \* writer_opt holds the sender
  recordQueue,      \* blocks queued
  taken,            \* blocks the queue took
  refused,          \* blocks that were not queued
  diskPc,           \* "create", "receive", "save", "done", "failed"
  collected,        \* what the writer thread has in hand
  file,             \* blocks in the file, once it is complete
  finalizePc        \* "no", "lock", "join", "done"

recordVars == <<flac, writerLock, written, inside, sender, recordQueue, taken,
                refused, diskPc, collected, file, finalizePc>>

RecordInit ==
  /\ flac \in BOOLEAN
  /\ writerLock = "nobody" /\ written = 0 /\ inside = [w \in Writers |-> 0]
  /\ sender = TRUE /\ recordQueue = << >> /\ taken = << >> /\ refused = {}
  /\ diskPc = "create" /\ collected = << >> /\ file = << >>
  /\ finalizePc = "no"

-----------------------------------------------------------------------------
(* write_samples: one try_lock, one try_send, never a wait.                *)

Refuse(block) == refused' = refused \cup {block} /\ UNCHANGED <<recordQueue, taken>>

WriteBegins(w) ==
  /\ inside[w] = 0
  /\ written < MaxWritten
  /\ written' = written + 1
  /\ \/ /\ writerLock = "nobody"
        /\ writerLock' = w
        /\ inside' = [inside EXCEPT ![w] = written + 1]
        /\ UNCHANGED <<refused, recordQueue, taken>>
     \/ /\ writerLock # "nobody"
        /\ Refuse(written + 1)
        /\ UNCHANGED <<writerLock, inside>>
  /\ UNCHANGED <<flac, sender, diskPc, collected, file, finalizePc>>

(* Refused where the recording is over, the writer thread gone, or the     *)
(* queue full.                                                             *)
Queued(block) ==
  /\ sender /\ diskPc # "failed" /\ Len(recordQueue) < QueueBlocks
  /\ recordQueue' = Append(recordQueue, block)
  /\ taken' = Append(taken, block)
  /\ UNCHANGED refused

WriteEnds(w) ==
  /\ inside[w] # 0
  /\ \/ Queued(inside[w])
     \/ /\ ~ (sender /\ diskPc # "failed" /\ Len(recordQueue) < QueueBlocks)
        /\ Refuse(inside[w])
  /\ inside' = [inside EXCEPT ![w] = 0]
  /\ writerLock' = "nobody"
  /\ UNCHANGED <<flac, written, sender, diskPc, collected, file, finalizePc>>

-----------------------------------------------------------------------------
(* The writer thread.                                                      *)

(* A WAV file is created first; if that fails the thread ends and its      *)
(* queue is dropped.  Only a log line of a later refusal would tell.       *)
CreateFile ==
  /\ diskPc = "create"
  /\ \/ diskPc' = "receive" /\ UNCHANGED recordQueue
     \/ ~ flac /\ diskPc' = "failed" /\ recordQueue' = << >>
  /\ UNCHANGED <<flac, writerLock, written, inside, sender, taken, refused,
                 collected, file, finalizePc>>

TakeRecorded ==
  /\ diskPc = "receive"
  /\ recordQueue # << >>
  /\ recordQueue' = Tail(recordQueue)
  /\ collected' = Append(collected, Head(recordQueue))
  /\ UNCHANGED <<flac, writerLock, written, inside, sender, taken, refused,
                 diskPc, file, finalizePc>>

(* Faulty variant: what is queued is dropped with the sender.              *)
SenderGone_Discards == ~ sender

(* recv fails once the sender is gone and the queue is empty.              *)
SenderGone == ~ sender /\ recordQueue = << >>

StopReceiving ==
  /\ diskPc = "receive"
  /\ SenderGone
  /\ diskPc' = "save"
  /\ UNCHANGED <<flac, writerLock, written, inside, sender, recordQueue, taken,
                 refused, collected, file, finalizePc>>

(* The WAV header is completed, or the FLAC file encoded and written.      *)
SaveFile ==
  /\ diskPc = "save"
  /\ \/ diskPc' = "done" /\ file' = collected
     \/ diskPc' = "failed" /\ UNCHANGED file
  /\ UNCHANGED <<flac, writerLock, written, inside, sender, recordQueue, taken,
                 refused, collected, finalizePc>>

DiskStep == CreateFile \/ TakeRecorded \/ StopReceiving \/ SaveFile

-----------------------------------------------------------------------------
(* finalize.                                                               *)

BeginFinalize ==
  /\ finalizePc = "no"
  /\ finalizePc' = "lock"
  /\ UNCHANGED <<flac, writerLock, written, inside, sender, recordQueue, taken,
                 refused, diskPc, collected, file>>

DropSender ==
  /\ finalizePc = "lock"
  /\ writerLock = "nobody"
  /\ writerLock' = "finalize"
  /\ sender' = FALSE
  /\ finalizePc' = "join"
  /\ UNCHANGED <<flac, written, inside, recordQueue, taken, refused, diskPc,
                 collected, file>>

(* Faulty variant: finalize does not wait for the writer.                  *)
JoinWriter_Not ==
  /\ finalizePc = "join"
  /\ finalizePc' = "done"
  /\ writerLock' = "nobody"
  /\ UNCHANGED <<flac, written, inside, sender, recordQueue, taken, refused,
                 diskPc, collected, file>>

(* The writer's result is ignored: a failed recording is not reported.     *)
JoinWriter ==
  /\ finalizePc = "join"
  /\ diskPc \in {"done", "failed"}
  /\ finalizePc' = "done"
  /\ writerLock' = "nobody"
  /\ UNCHANGED <<flac, written, inside, sender, recordQueue, taken, refused,
                 diskPc, collected, file>>

FinalizeStep == DropSender \/ JoinWriter

RecordNext ==
  \/ \E w \in Writers : WriteBegins(w) \/ WriteEnds(w)
  \/ DiskStep \/ BeginFinalize \/ FinalizeStep

-----------------------------------------------------------------------------
(* What the queue takes is in the file: blocks are written in the order in *)
(* which they were queued, none is lost between the queue and the file, and*)
(* when finalize returns, the file holds every one of them, unless the disk*)
(* failed; and a block is either queued or refused, never both.            *)
RecordedWhole ==
  /\ diskPc # "failed" => collected \o recordQueue = taken
  /\ finalizePc = "done" => diskPc = "failed" \/ file = taken
  /\ ToSet(taken) \cap refused = {}
  /\ \A w \in Writers : inside[w] \notin ToSet(taken) \cup refused
  /\ Len(recordQueue) <= QueueBlocks

(* finalize returns, though it waits with the lock held: no audio thread   *)
(* waits for that lock, and the writer thread never takes it.              *)
FinalizeEnds == finalizePc = "lock" ~> finalizePc = "done"

=============================================================================
