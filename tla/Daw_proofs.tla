------------------------------- MODULE Daw_proofs -------------------------------
(***************************************************************************)
(* The two plug-ins, proved for every size of their buffer pools and any   *)
(* number of blocks or packets.                                            *)
(*                                                                         *)
(* The sender: both threads work on the pool without a lock, so one step   *)
(* of one of them is all that happens at a time; what makes the books      *)
(* balance over a deactivation is that no thread is left when a runtime    *)
(* ends (Quiescent).                                                       *)
(*                                                                         *)
(* The receiver: whatever its worker recycles and its callback restarts,   *)
(* what waits is in the order of arrival and later than what was played    *)
(* (InTurn), and the block kept over a restart is all the pool can gain.   *)
(***************************************************************************)
EXTENDS DawSender, DawReceiver, SequenceTheorems, TLAPS

(* Every number is one, and the threads are where they can be.             *)
Numbers ==
  /\ free \in Nat /\ ready \in Seq(Nat) /\ held \in Nat /\ lastSent \in Nat
  /\ captured \in Nat /\ dropped \in Nat /\ discarded \in Nat
  /\ unheard \in Nat /\ sent \in Nat

(* Between two runtimes neither thread is under way, and the host does not *)
(* deactivate in the middle of a callback.                                 *)
Quiescent ==
  /\ runtime \in {"none", "active", "stopping"}
  /\ runtime # "active" => cbPc = "idle"
  /\ runtime = "none" => workerPc = "done"

SenderIInv == Numbers /\ Quiescent /\ BlocksAccounted /\ SentInOrder

-----------------------------------------------------------------------------
LEMMA ReadyTail ==
  ASSUME ready \in Seq(Nat), ready # << >>
  PROVE  /\ Len(ready) \in Nat \ {0}
         /\ Tail(ready) \in Seq(Nat) /\ Len(Tail(ready)) = Len(ready) - 1
         /\ Head(ready) = ready[1] /\ ready[1] \in Nat
         /\ \A i \in 1 .. Len(ready) - 1 :
              Tail(ready)[i] = ready[i + 1] /\ ready[i + 1] \in Nat
  <1>1. /\ Len(ready) \in Nat \ {0} /\ Tail(ready) \in Seq(Nat)
        /\ Len(Tail(ready)) = Len(ready) - 1 /\ Head(ready) = ready[1] /\ Head(ready) \in Nat
        /\ \A i \in 1 .. Len(Tail(ready)) : Tail(ready)[i] = ready[i + 1]
    BY HeadTailProperties, LenProperties
  <1>2. \A i \in 1 .. Len(ready) : ready[i] \in Nat
    BY ElementOfSeq
  <1> QED BY <1>1, <1>2

(* Taking the head away leaves the rest in order.                          *)
LEMMA TailInOrder ==
  ASSUME Numbers, SentInOrder, ready # << >>, ready' = Tail(ready),
         UNCHANGED <<captured, lastSent, held, workerPc>>
  PROVE  SentInOrder'
  <1>1. /\ Len(ready) \in Nat \ {0} /\ Len(ready') = Len(ready) - 1
        /\ \A i \in 1 .. Len(ready) - 1 : ready'[i] = ready[i + 1]
    BY ReadyTail DEF Numbers
  <1>2. \A i \in 1 .. Len(ready') : i + 1 \in 1 .. Len(ready) /\ ready'[i] = ready[i + 1]
    BY <1>1
  <1>3. \A i, j \in 1 .. Len(ready') : i < j => i + 1 < j + 1
    BY <1>1
  <1> QED BY <1>2, <1>3 DEF SentInOrder

LEMMA SameInOrder ==
  ASSUME SentInOrder, UNCHANGED <<ready, captured, lastSent, held>>,
         workerPc' = "send" => workerPc = "send"
  PROVE  SentInOrder'
  BY DEF SentInOrder

LEMMA SenderInitInv == Init => SenderIInv
  <1> SUFFICES ASSUME Init PROVE SenderIInv
    OBVIOUS
  <1>1. /\ ready = << >> /\ free = 0 /\ held = 0 /\ captured = 0 /\ dropped = 0
        /\ discarded = 0 /\ unheard = 0 /\ sent = 0 /\ lastSent = 0
        /\ runtime = "none" /\ cbPc = "idle" /\ workerPc = "done"
    BY DEF Init, None
  <1> QED BY <1>1 DEF SenderIInv, Numbers, Quiescent, BlocksAccounted, SentInOrder

-----------------------------------------------------------------------------
(* The host.                                                               *)

LEMMA HostInv ==
  ASSUME SenderIInv,
         \/ \E v \in BOOLEAN : SetPublish(v)
         \/ Activate \/ ActivateFails \/ Deactivate \/ AdvertiserEnds \/ Joined
  PROVE  SenderIInv'
  <1> USE DEF SenderIInv
  <1>1. CASE Activate
    <2>1. /\ ready' = << >> /\ free' = Blocks /\ held' = 0 /\ captured' = 0 /\ dropped' = 0
          /\ discarded' = 0 /\ unheard' = 0 /\ sent' = 0 /\ lastSent' = 0
          /\ runtime = "none" /\ runtime' = "active" /\ cbPc' = cbPc /\ workerPc' = "loop"
      BY <1>1 DEF Activate, cbVars, None
    <2>2. cbPc' = "idle"
      BY <2>1 DEF Quiescent
    <2> QED BY <2>1, <2>2, DawSenderAssumption
            DEF Numbers, Quiescent, BlocksAccounted, SentInOrder, Held
  <1>2. CASE Deactivate \/ Joined
    <2>1. /\ UNCHANGED <<free, ready, held, captured, dropped, discarded, unheard, sent, lastSent>>
          /\ cbPc' = cbPc /\ workerPc' = workerPc /\ cbPc = "idle" /\ runtime # "none"
          /\ \/ runtime' = "stopping"
             \/ runtime' = "none" /\ workerPc = "done"
      BY <1>2 DEF Deactivate, Joined, cbVars, workerVars, counts, Quiescent
    <2> QED BY <2>1 DEF Numbers, Quiescent, BlocksAccounted, SentInOrder
  <1>3. CASE ActivateFails \/ AdvertiserEnds \/ \E v \in BOOLEAN : SetPublish(v)
    <2>1. /\ UNCHANGED <<free, ready, held, captured, dropped, discarded, unheard, sent, lastSent>>
          /\ UNCHANGED <<cbPc, workerPc, runtime>>
      BY <1>3 DEF ActivateFails, AdvertiserEnds, SetPublish, lifeVars, cbVars, workerVars, counts
    <2> QED BY <2>1 DEF Numbers, Quiescent, BlocksAccounted, SentInOrder
  <1> QED BY <1>1, <1>2, <1>3

-----------------------------------------------------------------------------
(* The callback.                                                           *)

LEMMA CallbackRuns ==
  ASSUME SenderIInv, Process
  PROVE  /\ runtime = "active" /\ runtime' = "active"
         /\ UNCHANGED <<workerPc, held, unheard, sent, lastSent>>
  <1>1. runtime' = runtime /\ UNCHANGED <<workerPc, held, unheard, sent, lastSent>>
    BY DEF Process, ProcessReads, ProcessStores, Discard, BlockUnfit, BlockEmpty, LoseBlock,
           AcquireFree, StealOldest, StealFails, Fill, lifeVars, workerVars, counts
  <1>2. runtime = "active"
    BY DEF SenderIInv, Quiescent, Process, ProcessReads, ProcessStores, Discard, BlockUnfit,
           BlockEmpty, LoseBlock, AcquireFree, StealOldest, StealFails, Fill
  <1> QED BY <1>1, <1>2

LEMMA ProcessInv ==
  ASSUME SenderIInv, Process
  PROVE  SenderIInv'
  <1> USE DEF SenderIInv
  <1>0. /\ runtime = "active" /\ runtime' = "active" /\ Quiescent'
        /\ UNCHANGED <<workerPc, held, unheard, sent, lastSent>>
    BY CallbackRuns DEF Quiescent
  <1>1. /\ Numbers /\ Len(ready) \in Nat /\ SentInOrder
        /\ free + Len(ready) + Held(cbPc, {"fill"}) + Held(workerPc, {"send", "return"}) = Blocks
        /\ captured = dropped + discarded + unheard + sent + Len(ready) + Held(workerPc, {"send"})
        /\ Held(workerPc, {"send", "return"}) \in Nat /\ Held(workerPc, {"send"}) \in Nat
    BY <1>0, LenProperties DEF BlocksAccounted, Numbers, Held
  <1>2. CASE ProcessReads \/ ProcessStores \/ BlockEmpty
    <2>1. /\ UNCHANGED <<free, ready, captured, dropped, discarded>>
          /\ cbPc # "fill" /\ cbPc' # "fill"
      BY <1>2 DEF ProcessReads, ProcessStores, BlockEmpty, counts
    <2> QED BY <1>0, <1>1, <2>1, SameInOrder DEF Numbers, BlocksAccounted, Held
  <1>3. CASE Discard
    <2>1. CASE ready = << >>
      <3>1. /\ UNCHANGED <<free, ready, captured, dropped, discarded>>
            /\ cbPc # "fill" /\ cbPc' # "fill"
        BY <1>3, <2>1 DEF Discard
      <3> QED BY <1>0, <1>1, <3>1, SameInOrder DEF Numbers, BlocksAccounted, Held
    <2>2. CASE ready # << >>
      <3>1. /\ ready' = Tail(ready) /\ free' = free + 1 /\ discarded' = discarded + 1
            /\ cbPc = "discard" /\ UNCHANGED <<captured, dropped, cbPc>>
        BY <1>3, <2>2 DEF Discard
      <3>2. ready' \in Seq(Nat) /\ Len(ready') = Len(ready) - 1
        BY <1>1, <2>2, <3>1, ReadyTail DEF Numbers
      <3>3. SentInOrder'
        BY <1>0, <1>1, <2>2, <3>1, TailInOrder
      <3> QED BY <1>0, <1>1, <3>1, <3>2, <3>3 DEF Numbers, BlocksAccounted, Held
    <2> QED BY <2>1, <2>2
  <1>4. CASE BlockUnfit \/ StealFails
    <2>1. /\ captured' = captured + 1 /\ dropped' = dropped + 1
          /\ cbPc # "fill" /\ cbPc' = "idle" /\ UNCHANGED <<free, ready, discarded>>
      BY <1>4 DEF BlockUnfit, StealFails, LoseBlock
    <2>2. SentInOrder'
      <3>1. /\ \A i \in 1 .. Len(ready) : ready[i] \in Nat
            /\ held \in Nat /\ lastSent \in Nat /\ captured \in Nat
        BY <1>1, ElementOfSeq DEF Numbers
      <3> QED BY <1>0, <1>1, <2>1, <3>1 DEF SentInOrder
    <2> QED BY <1>0, <1>1, <2>1, <2>2 DEF Numbers, BlocksAccounted, Held
  <1>5. CASE AcquireFree
    <2>1. /\ UNCHANGED <<ready, captured, dropped, discarded>> /\ cbPc = "block"
          /\ \/ free > 0 /\ free' = free - 1 /\ cbPc' = "fill"
             \/ free' = free /\ cbPc' = "steal"
      BY <1>1, <1>5 DEF AcquireFree, counts, Numbers
    <2> QED BY <1>0, <1>1, <2>1, SameInOrder DEF Numbers, BlocksAccounted, Held
  <1>6. CASE StealOldest
    <2>1. /\ ready # << >> /\ ready' = Tail(ready) /\ dropped' = dropped + 1
          /\ cbPc = "steal" /\ cbPc' = "fill" /\ UNCHANGED <<free, captured, discarded>>
      BY <1>6 DEF StealOldest
    <2>2. ready' \in Seq(Nat) /\ Len(ready') = Len(ready) - 1
      BY <1>1, <2>1, ReadyTail DEF Numbers
    <2>3. SentInOrder'
      BY <1>0, <1>1, <2>1, TailInOrder
    <2> QED BY <1>0, <1>1, <2>1, <2>2, <2>3 DEF Numbers, BlocksAccounted, Held
  <1>7. CASE Fill
    <2>1. cbPc = "fill" /\ cbPc' = "idle" /\ captured' = captured + 1 /\ discarded' = discarded
      BY <1>7 DEF Fill
    <2>2. \A i \in 1 .. Len(ready) : ready[i] \in Nat
      BY <1>1, ElementOfSeq DEF Numbers
    (* The newest block has the highest number.                            *)
    <2>3. CASE ready' = Append(ready, captured') /\ UNCHANGED <<free, dropped>>
      <3>1. /\ ready' \in Seq(Nat) /\ Len(ready') = Len(ready) + 1
            /\ \A i \in 1 .. Len(ready) : ready'[i] = ready[i]
            /\ ready'[Len(ready) + 1] = captured + 1
        BY <1>1, <2>1, <2>3, AppendProperties DEF Numbers
      <3>2. \A i \in 1 .. Len(ready') : i \in 1 .. Len(ready) \/ i = Len(ready) + 1
        BY <1>1, <3>1
      <3>3. SentInOrder'
        <4>1. \A i, j \in 1 .. Len(ready') : i < j => ready'[i] < ready'[j]
          <5> SUFFICES ASSUME NEW i \in 1 .. Len(ready'), NEW j \in 1 .. Len(ready'), i < j
                       PROVE  ready'[i] < ready'[j]
            OBVIOUS
          <5>1. i \in 1 .. Len(ready)
            BY <1>1, <3>1
          <5>2. CASE j \in 1 .. Len(ready)
            BY <1>1, <3>1, <5>1, <5>2 DEF SentInOrder
          <5>3. CASE j = Len(ready) + 1
            <6>1. ready'[i] = ready[i] /\ ready'[j] = captured + 1
              BY <3>1, <5>1, <5>3
            <6>2. ready[i] <= captured
              BY <1>1, <5>1 DEF SentInOrder
            <6>3. ready[i] \in Nat /\ captured \in Nat
              BY <1>1, <2>2, <5>1 DEF Numbers
            <6>4. ready[i] < captured + 1
              BY <6>2, <6>3
            <6> QED BY <6>1, <6>4
          <5> QED BY <3>2, <5>2, <5>3
        <4>2. \A i \in 1 .. Len(ready') :
                /\ lastSent < ready'[i] /\ ready'[i] <= captured'
                /\ workerPc = "send" => held < ready'[i]
          <5> TAKE i \in 1 .. Len(ready')
          <5>1. CASE i \in 1 .. Len(ready)
            <6>1. ready'[i] = ready[i]
              BY <3>1, <5>1
            <6>2. /\ lastSent < ready[i] /\ ready[i] <= captured
                  /\ workerPc = "send" => held < ready[i]
              BY <1>1, <5>1 DEF SentInOrder
            <6>3. ready[i] \in Nat /\ captured \in Nat
              BY <1>1, <2>2, <5>1 DEF Numbers
            <6>4. ready[i] <= captured'
              BY <2>1, <6>2, <6>3
            <6> QED BY <6>1, <6>2, <6>4
          <5>2. CASE i = Len(ready) + 1
            <6>1. ready'[i] = captured + 1
              BY <3>1, <5>2
            <6>2. lastSent <= captured /\ (workerPc = "send" => held <= captured)
              BY <1>1 DEF SentInOrder
            <6>3. lastSent \in Nat /\ held \in Nat /\ captured \in Nat
              BY <1>1 DEF Numbers
            <6> QED BY <2>1, <6>1, <6>2, <6>3
          <5> QED BY <3>2, <5>1, <5>2
        <4> QED BY <1>0, <1>1, <2>1, <4>1, <4>2 DEF SentInOrder, Numbers
      <3> QED BY <1>0, <1>1, <2>1, <2>3, <3>1, <3>3 DEF Numbers, BlocksAccounted, Held
    <2>4. CASE free' = free + 1 /\ dropped' = dropped + 1 /\ UNCHANGED ready
      <3>1. \A c \in Nat : c <= captured => c <= captured'
        BY <1>1, <2>1 DEF Numbers
      <3>2. \A i \in 1 .. Len(ready) :
              /\ lastSent < ready[i] /\ ready[i] <= captured'
              /\ workerPc = "send" => held < ready[i]
        BY <1>1, <2>2, <3>1 DEF SentInOrder
      <3>3. lastSent <= captured' /\ (workerPc = "send" => lastSent < held /\ held <= captured')
        BY <1>1, <3>1 DEF SentInOrder, Numbers
      <3>4. SentInOrder'
        BY <1>0, <1>1, <2>4, <3>2, <3>3 DEF SentInOrder
      <3> QED BY <1>0, <1>1, <2>1, <2>4, <3>4 DEF Numbers, BlocksAccounted, Held
    <2> QED BY <1>7, <2>3, <2>4 DEF Fill
  <1> QED BY <1>2, <1>3, <1>4, <1>5, <1>6, <1>7 DEF Process

-----------------------------------------------------------------------------
(* The worker.                                                             *)

LEMMA WorkerInv ==
  ASSUME SenderIInv, Worker
  PROVE  SenderIInv'
  <1> USE DEF SenderIInv
  <1>0. /\ runtime # "none" /\ UNCHANGED <<runtime, cbPc, captured, dropped>> /\ Quiescent'
    <2>1. UNCHANGED <<runtime, cbPc, captured, dropped>> /\ workerPc # "done"
      BY DEF Worker, WorkerExits, WorkerLooks, DrainBlock, DrainEnds, Pop, Send, Return,
             lifeVars, cbVars, counts
    <2> QED BY <2>1 DEF Quiescent
  <1>1. /\ Numbers /\ Len(ready) \in Nat /\ SentInOrder
        /\ free + Len(ready) + Held(cbPc, {"fill"}) + Held(workerPc, {"send", "return"}) = Blocks
        /\ captured = dropped + discarded + unheard + sent + Len(ready) + Held(workerPc, {"send"})
        /\ Held(cbPc, {"fill"}) \in Nat
    BY <1>0, LenProperties DEF BlocksAccounted, Numbers, Held
  <1>2. CASE WorkerExits \/ WorkerLooks \/ DrainEnds
    <2>1. /\ UNCHANGED <<free, ready, held, discarded, unheard, sent, lastSent>>
          /\ workerPc \in {"loop", "drain"} /\ workerPc' \in {"done", "pop", "drain", "loop"}
      BY <1>2 DEF WorkerExits, WorkerLooks, DrainEnds, counts
    <2> QED BY <1>0, <1>1, <2>1, SameInOrder DEF Numbers, BlocksAccounted, Held
  <1>3. CASE DrainBlock
    <2>1. /\ ready # << >> /\ ready' = Tail(ready) /\ free' = free + 1
          /\ discarded' = discarded + 1 /\ UNCHANGED <<workerPc, held, unheard, sent, lastSent>>
          /\ workerPc = "drain"
      BY <1>3 DEF DrainBlock, workerVars
    <2>2. ready' \in Seq(Nat) /\ Len(ready') = Len(ready) - 1
      BY <1>1, <2>1, ReadyTail DEF Numbers
    <2>3. SentInOrder'
      BY <1>0, <1>1, <2>1, TailInOrder
    <2> QED BY <1>0, <1>1, <2>1, <2>2, <2>3 DEF Numbers, BlocksAccounted, Held
  <1>4. CASE Pop
    <2>0. workerPc = "pop" /\ UNCHANGED <<free, discarded, unheard, sent, lastSent>>
      BY <1>4 DEF Pop, counts
    <2>1. CASE ready = << >>
      <3>1. workerPc' = "loop" /\ UNCHANGED <<ready, held>>
        BY <1>4, <2>1 DEF Pop
      <3> QED BY <1>0, <1>1, <2>0, <3>1, SameInOrder DEF Numbers, BlocksAccounted, Held
    <2>2. CASE ready # << >>
      <3>1. held' = Head(ready) /\ ready' = Tail(ready) /\ workerPc' = "send"
        BY <1>4, <2>2 DEF Pop
      <3>2. /\ Len(ready) \in Nat \ {0} /\ ready' \in Seq(Nat) /\ Len(ready') = Len(ready) - 1
            /\ held' = ready[1] /\ ready[1] \in Nat
            /\ \A i \in 1 .. Len(ready) - 1 : ready'[i] = ready[i + 1]
        BY <1>1, <2>2, <3>1, ReadyTail DEF Numbers
      <3>3. \A i \in 1 .. Len(ready') :
              /\ i + 1 \in 1 .. Len(ready) /\ ready'[i] = ready[i + 1] /\ 1 < i + 1
        BY <3>2
      <3>4. 1 \in 1 .. Len(ready)
        BY <3>2
      <3>5. SentInOrder'
        <4>1. \A i, j \in 1 .. Len(ready') : i < j => ready'[i] < ready'[j]
          <5>1. \A i, j \in 1 .. Len(ready') : i < j => i + 1 < j + 1
            BY <3>2
          <5> QED BY <1>1, <3>3, <5>1 DEF SentInOrder
        <4>2. \A i \in 1 .. Len(ready') :
                /\ lastSent < ready'[i] /\ ready'[i] <= captured /\ held' < ready'[i]
          BY <1>1, <3>2, <3>3, <3>4 DEF SentInOrder
        <4>3. lastSent < held' /\ held' <= captured /\ lastSent <= captured
          BY <1>1, <3>2, <3>4 DEF SentInOrder
        <4> QED BY <1>0, <2>0, <4>1, <4>2, <4>3 DEF SentInOrder
      <3> QED BY <1>0, <1>1, <2>0, <3>1, <3>2, <3>5 DEF Numbers, BlocksAccounted, Held
    <2> QED BY <2>1, <2>2
  <1>5. CASE Send
    <2>1. /\ workerPc = "send" /\ workerPc' = "return" /\ UNCHANGED <<free, ready, held, discarded>>
          /\ \/ sent' = sent + 1 /\ lastSent' = held /\ unheard' = unheard
             \/ unheard' = unheard + 1 /\ sent' = sent /\ lastSent' = lastSent
      BY <1>5 DEF Send
    <2>2. /\ lastSent' = held \/ lastSent' = lastSent
          /\ lastSent <= captured /\ held <= captured
      BY <1>1, <2>1 DEF SentInOrder
    <2>3. \A i \in 1 .. Len(ready) : lastSent' < ready[i] /\ ready[i] <= captured
      BY <1>1, <2>1, <2>2 DEF SentInOrder
    <2>4. SentInOrder'
      <3>1. \A i, j \in 1 .. Len(ready) : i < j => ready[i] < ready[j]
        BY <1>1 DEF SentInOrder
      <3>2. lastSent' <= captured
        BY <2>2
      <3>3. workerPc' # "send" /\ UNCHANGED <<ready, captured>>
        BY <1>0, <2>1
      <3>4. \A i \in 1 .. Len(ready) : lastSent' < ready[i]
        BY <2>3
      <3>5. \A i \in 1 .. Len(ready) : ready[i] <= captured
        BY <2>3
      <3> QED BY <3>1, <3>2, <3>3, <3>4, <3>5 DEF SentInOrder
    <2>5. Numbers'
      BY <1>0, <1>1, <2>1 DEF Numbers
    <2>6. BlocksAccounted'
      <3>2. CASE runtime = "none"
        BY <1>0, <3>2 DEF BlocksAccounted
      <3>3. CASE runtime # "none"
        <4>1. /\ UNCHANGED <<runtime, free, ready, cbPc, captured, dropped, discarded>>
              /\ Held(workerPc, {"send", "return"}) = 1 /\ Held(workerPc', {"send", "return"}) = 1
              /\ Held(workerPc, {"send"}) = 1 /\ Held(workerPc', {"send"}) = 0
          BY <1>0, <2>1 DEF Held
        <4>2. /\ captured = dropped + discarded + unheard + sent + Len(ready) + 1
              /\ free + Len(ready) + Held(cbPc, {"fill"}) + 1 = Blocks
          BY <1>1, <3>3, <4>1 DEF BlocksAccounted
        <4>3. captured = dropped + discarded + unheard' + sent' + Len(ready) + 0
          <5>1. /\ dropped \in Nat /\ discarded \in Nat /\ unheard \in Nat /\ sent \in Nat
                /\ unheard' \in Nat /\ sent' \in Nat /\ Len(ready) \in Nat
            BY <1>1, <2>5, LenProperties DEF Numbers
          <5>2. CASE sent' = sent + 1 /\ unheard' = unheard
            BY <4>2, <5>1, <5>2
          <5>3. CASE unheard' = unheard + 1 /\ sent' = sent
            BY <4>2, <5>1, <5>3
          <5> QED BY <2>1, <5>2, <5>3
        <4> QED BY <4>1, <4>2, <4>3 DEF BlocksAccounted
      <3> QED BY <3>2, <3>3
    <2> QED BY <1>0, <2>4, <2>5, <2>6
  <1>6. CASE Return
    <2>1. /\ workerPc = "return" /\ workerPc' = "loop" /\ free' = free + 1 /\ held' = 0
          /\ UNCHANGED <<ready, discarded, unheard, sent, lastSent>>
      BY <1>6 DEF Return, None, counts
    <2>2. SentInOrder'
      BY <1>0, <1>1, <2>1 DEF SentInOrder
    <2> QED BY <1>0, <1>1, <2>1, <2>2 DEF Numbers, BlocksAccounted, Held
  <1> QED BY <1>2, <1>3, <1>4, <1>5, <1>6 DEF Worker

-----------------------------------------------------------------------------
LEMMA SenderStep ==
  ASSUME SenderIInv, [Next]_vars
  PROVE  SenderIInv'
  <1> DEFINE own == <<free, ready, held, captured, dropped, discarded, unheard, sent, lastSent,
                      cbPc, workerPc, runtime>>
  <1>1. UNCHANGED own => SenderIInv'
    BY DEF SenderIInv, Numbers, Quiescent, BlocksAccounted, SentInOrder
  <1>2. UNCHANGED vars => UNCHANGED own
    BY DEF vars, lifeVars, cbVars, workerVars, counts
  <1>3. (\E s \in Streams : Subscribe(s) \/ LeaseEnds(s)) \/ OtherActivates \/ OtherDeactivates
          => UNCHANGED own
    BY DEF Subscribe, LeaseEnds, OtherActivates, OtherDeactivates, lifeVars, cbVars,
           workerVars, counts
  <1> HIDE DEF own
  <1> QED BY <1>1, <1>2, <1>3, HostInv, ProcessInv, WorkerInv DEF Next

LEMMA SenderInvariant == Spec => []SenderIInv
  BY SenderInitInv, SenderStep, PTL DEF Spec

(* Every buffer of the pool is in one place and every block handed over is *)
(* accounted for, over all interleavings of callback and worker and over   *)
(* any number of activations (apps/plugin/src/lib.rs).                     *)
THEOREM PoolBalances == Spec => []BlocksAccounted
  BY SenderInvariant, PTL DEF SenderIInv

(* Blocks are sent in the order in which the host made them, though both   *)
(* threads take blocks out of the queue.                                   *)
THEOREM SendsInOrder == Spec => []SentInOrder
  BY SenderInvariant, PTL DEF SenderIInv

-----------------------------------------------------------------------------
(* The receiver.                                                           *)

Received == [stream : Slots, number : Nat \ {0}]

RxTypes ==
  /\ pool \in Nat /\ queued \in Seq(Received) /\ number \in Nat /\ offset \in Nat
  /\ current \in Received \cup {NoPacket}
  /\ rxPc \in {"push", "recycle"} => packet \in Received
  /\ played \in [Slots -> Nat \X Nat]

(* Packet number k is later than all that was played, and than the block   *)
(* that is being played.                                                   *)
Later(k) ==
  /\ k <= number
  /\ \A s \in Slots : played[s][1] < k
  /\ Holding => current.number < k

(* What waits is in the order of arrival, and later than what was played.  *)
InTurn ==
  /\ \A i \in 1 .. Len(queued) : Later(queued[i].number)
  /\ \A i, j \in 1 .. Len(queued) : i < j => queued[i].number < queued[j].number
  /\ rxPc \in {"push", "recycle"} =>
       /\ Later(packet.number)
       /\ \A i \in 1 .. Len(queued) : queued[i].number < packet.number

(* The block that is being played has been played as far as its offset.    *)
PlayedSoFar ==
  /\ \A s \in Slots : played[s][1] <= number
  /\ Holding =>
       LET p == played[current.stream]
       IN  /\ current.number <= number
           /\ \/ offset = 0 /\ p[1] < current.number
              \/ offset > 0 /\ p[1] = current.number /\ p[2] = offset

RxIInv == RxTypes /\ InTurn /\ PlayedSoFar /\ PoolBounded

LEMMA NoPacketNumber == NoPacket.number = 0 /\ NoPacket \notin Received
  BY DEF NoPacket, Received

LEMMA TailFacts ==
  ASSUME NEW S, NEW q \in Seq(S), q # << >>
  PROVE  /\ Tail(q) \in Seq(S) /\ Len(Tail(q)) = Len(q) - 1 /\ Len(q) \in Nat \ {0}
         /\ Head(q) = q[1] /\ q[1] \in S
         /\ \A i \in 1 .. Len(Tail(q)) : i + 1 \in 1 .. Len(q) /\ Tail(q)[i] = q[i + 1]
  <1>1. /\ Len(q) \in Nat \ {0} /\ Tail(q) \in Seq(S) /\ Len(Tail(q)) = Len(q) - 1
        /\ Head(q) = q[1] /\ Head(q) \in S
        /\ \A i \in 1 .. Len(Tail(q)) : Tail(q)[i] = q[i + 1]
    BY HeadTailProperties, LenProperties
  <1>2. \A i \in 1 .. Len(Tail(q)) : i + 1 \in 1 .. Len(q)
    BY <1>1
  <1> QED BY <1>1, <1>2

LEMMA QueuedNumbers ==
  ASSUME RxTypes
  PROVE  /\ Len(queued) \in Nat
         /\ \A i \in 1 .. Len(queued) : queued[i] \in Received /\ queued[i].number \in Nat
  <1>1. Len(queued) \in Nat /\ \A i \in 1 .. Len(queued) : queued[i] \in Received
    BY ElementOfSeq, LenProperties DEF RxTypes
  <1> QED BY <1>1 DEF Received

LEMMA RxInitInv == RxInit => RxIInv
  <1> SUFFICES ASSUME RxInit PROVE RxIInv
    OBVIOUS
  <1>1. /\ pool = 0 /\ queued = << >> /\ number = 0 /\ offset = 0 /\ current = NoPacket
        /\ rxPc = "done" /\ alive = FALSE /\ played = [s \in Slots |-> <<0, 0>>]
    BY DEF RxInit
  <1>2. RxTypes
    BY <1>1 DEF RxTypes
  <1>3. InTurn /\ PlayedSoFar
    BY <1>1 DEF InTurn, PlayedSoFar, Holding
  <1> QED BY <1>1, <1>2, <1>3 DEF RxIInv, PoolBounded

(* A runtime starts with all its buffers free and nothing in hand.         *)
LEMMA RxStartInv ==
  ASSUME RxIInv, RxActivate \/ Restart
  PROVE  RxIInv'
  <1>1. RxTypes /\ InTurn /\ PlayedSoFar
    BY DEF RxIInv
  <1>2. /\ rxPc' = "loop" /\ pool' = PoolSize /\ queued' = << >>
        /\ current' = current /\ offset' = offset /\ played' = played /\ number' = number
    BY DEF RxActivate, Restart, Started, playState, network
  <1>3. RxTypes'
    BY <1>1, <1>2, DawReceiverAssumption DEF RxTypes
  <1>4. InTurn' /\ PlayedSoFar'
    BY <1>1, <1>2 DEF InTurn, PlayedSoFar, Holding
  <1>5. PoolBounded'
    BY <1>2, DawReceiverAssumption DEF PoolBounded, Holding
  <1> QED BY <1>3, <1>4, <1>5 DEF RxIInv

(* A runtime that ends takes the buffers with it.                          *)
LEMMA RxStopInv ==
  ASSUME RxIInv, RxDeactivate \/ RxDeactivated \/ RestartFails \/ RxExits
  PROVE  RxIInv'
  <1>1. RxTypes /\ InTurn /\ PlayedSoFar /\ PoolBounded
    BY DEF RxIInv
  <1>2. /\ current' \in {current, NoPacket}
        /\ pool' = pool /\ queued' = queued /\ number' = number /\ offset' = offset
        /\ played' = played /\ packet' = packet
        /\ \/ rxPc' = rxPc
           \/ rxPc = "loop" /\ rxPc' = "done"
        /\ \/ ~ alive'
           \/ alive' = alive /\ current' = current
    <2>1. CASE RxDeactivated
      BY <2>1 DEF RxDeactivated, workerState, network
    <2>3. CASE RxDeactivate
      <3>1. /\ UNCHANGED <<alive, rxPc, packet, pool, queued, offset, played, number>>
            /\ \/ alive /\ current' = current
               \/ ~ alive /\ current' = NoPacket
        BY <2>3 DEF RxDeactivate, workerState, network
      <3> QED BY <3>1
    <2>2. CASE RestartFails \/ RxExits
      BY <2>2 DEF RestartFails, RxExits, workerState, network, playState, runtimeVars
    <2> QED BY <2>1, <2>2, <2>3
  <1>3. RxTypes'
    BY <1>1, <1>2 DEF RxTypes
  <1>4. \A k : Later(k) => Later(k)'
    BY <1>2 DEF Later, Holding
  <1>5. InTurn'
    BY <1>1, <1>2, <1>4 DEF InTurn
  <1>6. PlayedSoFar'
    BY <1>1, <1>2 DEF PlayedSoFar, Holding
  <1>7. PoolBounded'
    BY <1>1, <1>2 DEF PoolBounded, Holding
  <1> QED BY <1>3, <1>5, <1>6, <1>7 DEF RxIInv

(* The worker's steps.                                                     *)

LEMMA ReceivePacketInv ==
  ASSUME RxIInv, NEW s \in Slots, ReceivePacket(s)
  PROVE  RxIInv'
  <1>1. RxTypes /\ InTurn /\ PlayedSoFar /\ PoolBounded
    BY DEF RxIInv
  <1>2. /\ rxPc = "loop" /\ number' = number + 1
        /\ packet' = [stream |-> s, number |-> number + 1]
        /\ \/ pool > 0 /\ pool' = pool - 1 /\ rxPc' = "push"
           \/ pool' = pool /\ rxPc' = "recycle"
        /\ queued' = queued /\ current' = current /\ offset' = offset /\ played' = played
        /\ alive' = alive
    BY DEF ReceivePacket, playState, runtimeVars
  <1>3. packet' \in Received /\ packet'.number = number + 1 /\ number \in Nat
    BY <1>1, <1>2 DEF RxTypes, Received
  <1>4. RxTypes'
    BY <1>1, <1>2, <1>3 DEF RxTypes
  <1>5. \A k \in Nat : Later(k) => Later(k)'
    BY <1>2, <1>3 DEF Later, Holding
  <1>6. \A i \in 1 .. Len(queued) : queued[i].number \in Nat
    BY <1>1, QueuedNumbers
  <1>7. Later(packet.number)'
    <2>1. \A t \in Slots : played[t][1] \in Nat /\ played[t][1] <= number
      BY <1>1 DEF RxTypes, PlayedSoFar
    <2>2. Holding => current.number \in Nat /\ current.number <= number
      BY <1>1 DEF RxTypes, PlayedSoFar, Holding, Received
    <2> QED BY <1>2, <1>3, <2>1, <2>2 DEF Later, Holding
  <1>8. InTurn'
    <2>1. \A i \in 1 .. Len(queued) : Later(queued[i].number)' /\ queued[i].number < number + 1
      BY <1>1, <1>2, <1>3, <1>5, <1>6 DEF InTurn, Later
    <2> QED BY <1>1, <1>2, <1>3, <1>7, <2>1 DEF InTurn
  <1>9. PlayedSoFar'
    <2>1. \A t \in Slots : played[t][1] \in Nat
      BY <1>1 DEF RxTypes
    <2>2. Holding => current.number \in Nat
      BY <1>1 DEF RxTypes, Holding, Received
    <2> QED BY <1>1, <1>2, <1>3, <2>1, <2>2 DEF PlayedSoFar, Holding
  <1>10. PoolBounded'
    <2>1. Len(queued) \in Nat /\ pool \in Nat /\ Holding' = Holding
      BY <1>1, <1>2, QueuedNumbers DEF RxTypes, Holding
    <2> QED BY <1>1, <1>2, <2>1 DEF PoolBounded
  <1> QED BY <1>4, <1>8, <1>9, <1>10 DEF RxIInv

(* A packet the network loses only raises the count.                       *)
LEMMA PacketLostInv ==
  ASSUME RxIInv, PacketLost
  PROVE  RxIInv'
  <1>1. RxTypes /\ InTurn /\ PlayedSoFar /\ PoolBounded
    BY DEF RxIInv
  <1>2. /\ number' = number + 1 /\ number \in Nat
        /\ UNCHANGED <<rxPc, packet, pool, queued, current, offset, played, alive>>
    BY <1>1 DEF PacketLost, RxTypes, playState, runtimeVars, workerState
  <1>3. RxTypes'
    BY <1>1, <1>2 DEF RxTypes
  <1>4. \A k \in Nat : Later(k) => Later(k)'
    BY <1>2 DEF Later, Holding
  <1>5. InTurn'
    <2>1. /\ \A i \in 1 .. Len(queued) : queued[i].number \in Nat
          /\ rxPc \in {"push", "recycle"} => packet.number \in Nat
      BY <1>1, QueuedNumbers DEF RxTypes, Received
    <2> QED BY <1>1, <1>2, <1>4, <2>1 DEF InTurn
  <1>6. PlayedSoFar'
    <2>1. \A t \in Slots : played[t][1] \in Nat
      BY <1>1 DEF RxTypes
    <2>2. Holding => current.number \in Nat
      BY <1>1 DEF RxTypes, Holding, Received
    <2> QED BY <1>1, <1>2, <2>1, <2>2 DEF PlayedSoFar, Holding
  <1>7. PoolBounded'
    BY <1>1, <1>2 DEF PoolBounded, Holding
  <1> QED BY <1>3, <1>5, <1>6, <1>7 DEF RxIInv

(* The oldest block is given up for the packet in hand.                    *)
LEMMA RecycleInv ==
  ASSUME RxIInv, Recycle
  PROVE  RxIInv'
  <1>1. RxTypes /\ InTurn /\ PlayedSoFar /\ PoolBounded
    BY DEF RxIInv
  <1>2. /\ rxPc = "recycle"
        /\ \/ queued = << >> /\ rxPc' = "loop" /\ queued' = queued
           \/ queued # << >> /\ rxPc' = "push" /\ queued' = Tail(queued)
        /\ UNCHANGED <<packet, pool, current, offset, played, alive, number>>
    BY DEF Recycle, playState, runtimeVars, network
  <1>3. \A k : Later(k)' = Later(k)
    BY <1>2 DEF Later, Holding
  <1>4. PlayedSoFar'
    BY <1>1, <1>2 DEF PlayedSoFar, Holding
  <1>5. CASE queued = << >>
    BY <1>1, <1>2, <1>3, <1>4, <1>5 DEF RxIInv, RxTypes, InTurn, PoolBounded, Holding
  <1>6. CASE queued # << >>
    <2>1. /\ queued' \in Seq(Received) /\ Len(queued') = Len(queued) - 1
          /\ Len(queued) \in Nat \ {0} /\ rxPc' = "push"
          /\ \A i \in 1 .. Len(queued') : i + 1 \in 1 .. Len(queued) /\ queued'[i] = queued[i + 1]
      <3>1. queued' = Tail(queued) /\ rxPc' = "push" /\ queued \in Seq(Received)
        BY <1>1, <1>2, <1>6 DEF RxTypes
      <3> QED BY <1>6, <3>1, TailFacts
    <2>2. RxTypes'
      BY <1>1, <1>2, <2>1 DEF RxTypes
    <2>3. InTurn'
      <3>1. \A i, j \in 1 .. Len(queued') : i < j => i + 1 < j + 1
        BY <2>1
      <3> QED BY <1>1, <1>2, <1>3, <2>1, <3>1 DEF InTurn
    <2>4. PoolBounded'
      BY <1>1, <1>2, <2>1, DawReceiverAssumption DEF RxTypes, PoolBounded, Holding
    <2> QED BY <1>4, <2>2, <2>3, <2>4 DEF RxIInv
  <1> QED BY <1>5, <1>6

LEMMA PushInv ==
  ASSUME RxIInv, Push
  PROVE  RxIInv'
  <1>1. RxTypes /\ InTurn /\ PlayedSoFar /\ PoolBounded
    BY DEF RxIInv
  <1>2. /\ rxPc = "push" /\ rxPc' = "loop"
        /\ queued' = IF Len(queued) < PoolSize THEN Append(queued, packet) ELSE queued
        /\ UNCHANGED <<packet, pool, current, offset, played, alive, number>>
    BY DEF Push, playState, runtimeVars, network
  <1>3. (\A k : Later(k)' = Later(k)) /\ Holding' = Holding
    BY <1>2 DEF Later, Holding
  <1>4. PlayedSoFar'
    BY <1>1, <1>2 DEF PlayedSoFar, Holding
  <1>5. Len(queued) \in Nat /\ packet \in Received
    BY <1>1, <1>2, LenProperties DEF RxTypes
  <1>6. CASE Len(queued) < PoolSize
    <2>1. /\ queued' \in Seq(Received) /\ Len(queued') = Len(queued) + 1
          /\ \A i \in 1 .. Len(queued) : queued'[i] = queued[i]
          /\ queued'[Len(queued) + 1] = packet
      BY <1>1, <1>2, <1>5, <1>6, AppendProperties DEF RxTypes
    <2>2. RxTypes'
      BY <1>1, <1>2, <2>1 DEF RxTypes
    <2>3. \A i \in 1 .. Len(queued') : i \in 1 .. Len(queued) \/ i = Len(queued) + 1
      BY <1>5, <2>1
    <2>4. \A i \in 1 .. Len(queued') : Later(queued[i].number)'
      BY <1>1, <1>2, <1>3, <2>1, <2>3 DEF InTurn
    <2>5. ASSUME NEW i \in 1 .. Len(queued'), NEW j \in 1 .. Len(queued'), i < j
          PROVE  queued'[i].number < queued'[j].number
      <3>1. i \in 1 .. Len(queued)
        BY <1>5, <2>1, <2>5
      <3>2. CASE j \in 1 .. Len(queued)
        BY <1>1, <2>1, <2>5, <3>1, <3>2 DEF InTurn
      <3>3. CASE j = Len(queued) + 1
        BY <1>1, <1>2, <2>1, <3>1, <3>3 DEF InTurn
      <3> QED BY <2>3, <3>2, <3>3
    <2>6. InTurn'
      BY <1>2, <2>4, <2>5 DEF InTurn
    <2>7. PoolBounded'
      <3>1. /\ alive' = alive /\ pool' = pool /\ pool \in Nat /\ Len(queued') = Len(queued) + 1
            /\ rxPc = "push" /\ rxPc' # "push" /\ Holding' = Holding
        BY <1>1, <1>2, <1>3, <2>1 DEF RxTypes
      <3> QED BY <1>1, <1>5, <3>1 DEF PoolBounded
    <2> QED BY <1>4, <2>2, <2>6, <2>7 DEF RxIInv
  <1>7. CASE ~ (Len(queued) < PoolSize)
    <2>1. queued' = queued
      BY <1>2, <1>7
    <2>2. RxTypes' /\ InTurn'
      BY <1>1, <1>2, <1>3, <2>1 DEF RxTypes, InTurn
    <2>3. PoolBounded'
      BY <1>1, <1>2, <1>3, <1>5, <1>7, <2>1, DawReceiverAssumption DEF RxTypes, PoolBounded
    <2> QED BY <1>4, <2>2, <2>3 DEF RxIInv
  <1> QED BY <1>6, <1>7

(* The callback's steps.                                                   *)

LEMMA GiveBackInv ==
  ASSUME RxIInv, GiveBack
  PROVE  RxIInv'
  <1>1. RxTypes /\ InTurn /\ PlayedSoFar /\ PoolBounded
    BY DEF RxIInv
  <1>2. /\ Holding /\ current' = NoPacket
        /\ pool' = IF pool < PoolSize THEN pool + 1 ELSE pool
        /\ UNCHANGED <<rxPc, packet, queued, offset, played, alive, number>>
    BY DEF GiveBack, workerState, runtimeVars, network
  <1>3. \A k : Later(k) => Later(k)'
    BY <1>2 DEF Later, Holding
  <1>4. RxTypes'
    BY <1>1, <1>2 DEF RxTypes
  <1>5. InTurn' /\ PlayedSoFar'
    BY <1>1, <1>2, <1>3 DEF InTurn, PlayedSoFar, Holding
  <1>6. PoolBounded'
    <2>1. ~ Holding' /\ Len(queued) \in Nat /\ pool \in Nat
      BY <1>1, <1>2, QueuedNumbers DEF RxTypes, Holding
    <2>2. UNCHANGED <<alive, rxPc, queued>>
      BY <1>2
    <2>3. CASE pool < PoolSize
      BY <1>1, <1>2, <2>1, <2>2, <2>3, DawReceiverAssumption DEF PoolBounded
    <2>4. CASE ~ (pool < PoolSize)
      BY <1>1, <1>2, <2>1, <2>2, <2>4, DawReceiverAssumption DEF PoolBounded
    <2> QED BY <2>3, <2>4
  <1> QED BY <1>4, <1>5, <1>6 DEF RxIInv

(* The next block is later than all that was played.                       *)
LEMMA TakeInv ==
  ASSUME RxIInv, Take
  PROVE  RxIInv'
  <1>1. RxTypes /\ InTurn /\ PlayedSoFar /\ PoolBounded
    BY DEF RxIInv
  <1>2. /\ ~ Holding /\ queued # << >> /\ current' = Head(queued) /\ queued' = Tail(queued)
        /\ offset' = 0
        /\ UNCHANGED <<rxPc, packet, pool, played, alive, number>>
    BY DEF Take, workerState, runtimeVars, network
  <1>3. /\ queued' \in Seq(Received) /\ Len(queued') = Len(queued) - 1 /\ Len(queued) \in Nat \ {0}
        /\ current' = queued[1] /\ queued[1] \in Received
        /\ \A i \in 1 .. Len(queued') : i + 1 \in 1 .. Len(queued) /\ queued'[i] = queued[i + 1]
    BY <1>1, <1>2, TailFacts DEF RxTypes
  <1>4. Holding' /\ Later(queued[1].number) /\ 1 \in 1 .. Len(queued)
    BY <1>1, <1>3, NoPacketNumber DEF InTurn, Holding
  <1>5. RxTypes'
    BY <1>1, <1>2, <1>3 DEF RxTypes
  <1>6. \A k : Later(k) /\ queued[1].number < k => Later(k)'
    BY <1>2, <1>3 DEF Later, Holding
  <1>7. InTurn'
    <2>1. \A i, j \in 1 .. Len(queued') : i < j => i + 1 < j + 1
      BY <1>3
    <2>2. \A i \in 1 .. Len(queued') : 1 < i + 1
      BY <1>3
    <2>3. \A i \in 1 .. Len(queued') : Later(queued[i].number)'
      BY <1>1, <1>3, <1>4, <1>6, <2>2 DEF InTurn
    <2>4. \A i, j \in 1 .. Len(queued') : i < j => queued'[i].number < queued'[j].number
      BY <1>1, <1>3, <2>1 DEF InTurn
    <2>5. rxPc \in {"push", "recycle"} =>
            /\ Later(packet.number)'
            /\ \A i \in 1 .. Len(queued') : queued'[i].number < packet.number
      BY <1>1, <1>2, <1>3, <1>4, <1>6 DEF InTurn
    <2> QED BY <1>2, <2>3, <2>4, <2>5 DEF InTurn
  <1>8. PlayedSoFar'
    <2>1. current'.stream \in Slots
      BY <1>3 DEF Received
    <2> QED BY <1>1, <1>2, <1>3, <1>4, <2>1 DEF PlayedSoFar, Later
  <1>9. PoolBounded'
    BY <1>1, <1>2, <1>3, <1>4, DawReceiverAssumption DEF RxTypes, PoolBounded
  <1> QED BY <1>5, <1>7, <1>8, <1>9 DEF RxIInv

LEMMA RenderFrameInv ==
  ASSUME RxIInv, RenderFrame
  PROVE  RxIInv'
  <1>1. RxTypes /\ InTurn /\ PlayedSoFar /\ PoolBounded
    BY DEF RxIInv
  <1>2. /\ Holding /\ offset' = offset + 1
        /\ played' = [played EXCEPT ![current.stream] = <<current.number, offset + 1>>]
        /\ UNCHANGED <<rxPc, packet, pool, queued, current, alive, number>>
    BY DEF RenderFrame, workerState, runtimeVars, network
  <1>3. current \in Received /\ current.stream \in Slots /\ current.number \in Nat /\ offset \in Nat
    BY <1>1, <1>2 DEF RxTypes, Received, Holding
  <1>4. /\ played' \in [Slots -> Nat \X Nat]
        /\ \A s \in Slots : played'[s] = IF s = current.stream THEN <<current.number, offset + 1>>
                                         ELSE played[s]
    BY <1>1, <1>2, <1>3 DEF RxTypes
  <1>5. RxTypes'
    BY <1>1, <1>2, <1>3, <1>4 DEF RxTypes
  <1>6. \A k : Later(k) => Later(k)'
    BY <1>2, <1>4 DEF Later, Holding
  <1>7. InTurn'
    BY <1>1, <1>2, <1>6 DEF InTurn
  <1>8. PlayedSoFar'
    BY <1>1, <1>2, <1>3, <1>4 DEF PlayedSoFar, Holding
  <1>9. PoolBounded'
    BY <1>1, <1>2 DEF PoolBounded, Holding
  <1> QED BY <1>5, <1>7, <1>8, <1>9 DEF RxIInv

-----------------------------------------------------------------------------
LEMMA RxStep ==
  ASSUME RxIInv, [RxNext]_rxVars
  PROVE  RxIInv'
  <1> DEFINE own == <<rxPc, packet, pool, queued, current, offset, played, alive, number>>
  <1>1. UNCHANGED own => RxIInv'
    <2> SUFFICES ASSUME UNCHANGED own PROVE RxIInv'
      OBVIOUS
    <2>1. \A k : Later(k)' = Later(k)
      BY DEF Later, Holding
    <2> QED BY <2>1 DEF RxIInv, RxTypes, InTurn, PlayedSoFar, PoolBounded, Holding
  <1>2. UNCHANGED rxVars => UNCHANGED own
    BY DEF rxVars, runtimeVars, workerState, playState, network
  <1>3. CASE \/ \E c \in Configs : SetParameters(c)
             \/ \E v \in BOOLEAN : SetReceive(v)
             \/ \E l \in leases : LeaseRunsOut(l)
             \/ Resubscribe \/ ProcessBegins \/ ProcessEnds
    BY <1>1, <1>3 DEF SetParameters, SetReceive, LeaseRunsOut, Resubscribe, ProcessBegins, ProcessEnds,
           runtimeVars, workerState, playState, network
  <1>4. CASE RxWorker \/ PacketLost \/ \E s \in Slots : ReceivePacket(s)
    BY <1>4, RxStopInv, ReceivePacketInv, PacketLostInv, RecycleInv, PushInv DEF RxWorker
  <1>5. CASE Restart \/ RestartFails \/ GiveBack \/ Take \/ RenderFrame
    BY <1>5, RxStartInv, RxStopInv, GiveBackInv, TakeInv, RenderFrameInv
  <1>6. CASE RxActivate \/ RxDeactivate \/ RxDeactivated
    BY <1>6, RxStartInv, RxStopInv
  <1> HIDE DEF own
  <1>7. CASE RxNext
    BY <1>1, <1>3, <1>4, <1>5, <1>6, <1>7 DEF RxNext, RxProcess
  <1> QED BY <1>1, <1>2, <1>7

LEMMA RxInvariant == RxSpec => []RxIInv
  BY RxInitInv, RxStep, PTL DEF RxSpec

(* The receiver's pool loses no buffer and gains none but the block kept   *)
(* over a restart, for any size of pool and any interleaving of worker,    *)
(* callback and restarts.                                                  *)
THEOREM PoolKept == RxSpec => []PoolBounded
  BY RxInvariant, PTL DEF RxIInv

(* Every frame is played once and in order of its stream, over recycled    *)
(* buffers, changes of slot and restarts inside the callback.              *)
THEOREM PlaysForward == RxSpec => PlayedForward
  <1> DEFINE Forward ==
        \A s \in Slots : played'[s] # played[s] =>
          \/ played'[s][1] > played[s][1] /\ played'[s][2] = 1
          \/ played'[s][1] = played[s][1] /\ played'[s][2] = played[s][2] + 1
  <1>1. RxIInv /\ [RxNext]_rxVars => Forward
    <2> SUFFICES ASSUME RxIInv, [RxNext]_rxVars PROVE Forward
      OBVIOUS
    <2>1. RenderFrame \/ played' = played
      BY DEF RxNext, RxWorker, RxProcess, rxVars, SetParameters, SetReceive, LeaseRunsOut, RxActivate,
             RxDeactivate, RxDeactivated, Resubscribe, RxExits, Recycle, Push, PacketLost,
             ReceivePacket, ProcessBegins, Restart, RestartFails, GiveBack, Take, ProcessEnds,
             playState
    <2>2. CASE RenderFrame
      <3>1. /\ Holding
            /\ played' = [played EXCEPT ![current.stream] = <<current.number, offset + 1>>]
        BY <2>2 DEF RenderFrame
      <3>2. /\ current.stream \in Slots /\ current.number \in Nat /\ offset \in Nat
            /\ played \in [Slots -> Nat \X Nat]
        BY <3>1 DEF RxIInv, RxTypes, Received, Holding
      <3>3. \A s \in Slots : played'[s] = IF s = current.stream THEN <<current.number, offset + 1>>
                                          ELSE played[s]
        BY <3>1, <3>2
      <3>4. LET p == played[current.stream]
            IN  \/ offset = 0 /\ p[1] < current.number
                \/ p[1] = current.number /\ p[2] = offset
        BY <3>1 DEF RxIInv, PlayedSoFar
      <3> QED BY <3>2, <3>3, <3>4
    <2> QED BY <2>1, <2>2
  <1>2. RxIInv /\ [RxNext]_rxVars => [Forward]_rxVars
    BY <1>1
  <1> QED BY <1>2, RxInvariant, PTL DEF RxSpec, PlayedForward

=============================================================================
