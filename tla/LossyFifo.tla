------------------------------ MODULE LossyFifo ------------------------------
(***************************************************************************)
(* What a capture queue promises its consumer: blocks come out in the      *)
(* order they went in, each at most once; a block may be refused on entry, *)
(* and the oldest ones may be given up to keep latency bounded.  No block  *)
(* is ever taken from the middle, duplicated or invented.                  *)
(***************************************************************************)
EXTENDS Integers, Sequences

VARIABLES
  content,    \* numbers of the blocks inside, oldest first
  lastOut     \* number of the newest block handed to the consumer

fifoVars == <<content, lastOut>>

Init == content = << >> /\ lastOut = 0

Accept ==
  /\ Len(content') = Len(content) + 1
  /\ SubSeq(content', 1, Len(content)) = content
  /\ \A i \in 1 .. Len(content) : content[i] < content'[Len(content')]
  /\ lastOut < content'[Len(content')]
  /\ UNCHANGED lastOut

LoseOldest ==
  /\ content # << >>
  /\ content' = Tail(content)
  /\ UNCHANGED lastOut

Take ==
  /\ content # << >>
  /\ lastOut' = Head(content)
  /\ lastOut' > lastOut
  /\ content' = Tail(content)

Next == Accept \/ LoseOldest \/ Take

Spec == Init /\ [][Next]_fifoVars

=============================================================================
