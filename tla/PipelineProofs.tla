----------------------------- MODULE PipelineProofs -----------------------------
(***************************************************************************)
(* Proofs about Pipeline and PipelineL3, for every number of slots, frames *)
(* and signals.                                                            *)
(*                                                                         *)
(* The inductive invariant IInv counts the frames at each place of the     *)
(* pipeline: how many recv_loop has numbered (frameNum), how many          *)
(* infer_loop has taken (Got) and put into ring B (Put), how many          *)
(* upload_loop has taken (Fetched).  Until the flag of a ring is set, its  *)
(* two semaphores and the slots in hand add up to kRingSlots; the indices  *)
(* are those counts modulo kRingSlots for ever, and a slot between two     *)
(* counts holds its frame whole.                                           *)
(*                                                                         *)
(* RA and RB read the state as that of one ring with its two threads: each *)
(* ring is shown to be used as RingBufferSPSC uses its ring, so that the   *)
(* theorems of RingBufferProofs hold of it (a bounded channel, nobody      *)
(* blocked for nothing), and from the two rings follows that the pipeline  *)
(* does not deadlock.  Last, level 3 is shown to implement level 4.        *)
(***************************************************************************)
EXTENDS PipelineL3, TLAPS

\* One thing, or none: what a thread has in hand, as a number.
One(b) == IF b THEN 1 ELSE 0

\* The loop has been left: only shutdown() of a ring, or nothing, is to come.
RecvLeft == recv \in {"leaving", "flagged", "wokeProducer", "done"}
InferLeft == infer \in {"leaving", "flagged", "wokeProducer", "done"}

\* The frames infer_loop has put into ring B: its cursor writeIdx is this number
\* modulo kRingSlots.  No variable of the code counts them (infer_loop has no
\* counter), but the frame it put there last is in the slot, so the count can be read
\* from the state: while that slot is being filled, from the slot it is copied from.
Put == IF infer = "copy" THEN slotsA[rA].frame_number ELSE slotsB[wB].frame_number
\* The frames infer_loop has taken out of ring A, those upload_loop has taken out of
\* ring B.
Got == Put + One(infer \in {"run", "waitingB", "wokenB", "giveUp"})
Fetched == uploaded + One(upload = "send")

\* The frames in a slot that recv_loop, or infer_loop, has committed.
FilledA == frameNum - One(RecvHolds)
FilledB == Put - One(InferHoldsB)

\* The frames infer_loop has taken out of ring A, after it has left its loop as well:
\* the detections it computed last are those of the last frame, or of the one before
\* the frame in hand.
Taken == dets + One(infer = "run")

-----------------------------------------------------------------------------
(* Each ring with the two threads it connects, as RingBufferSPSC has them:   *)
(* what the threads do outside that ring is left out.                       *)

\* recv_loop produces for ring A, infer_loop consumes from it.
ProducerOfA ==
  CASE recv \in {"top", "capture"} -> "loop"
    [] recv = "number" -> "writing"
    [] recv \in {"input", "orig", "commit"} -> "written"
    [] OTHER -> recv

ConsumerOfA ==
  CASE infer \in {"waiting", "woken"} -> infer
    [] infer = "commit" -> "waiting"
    [] InferHoldsA -> "reading"
    [] OTHER -> "done"

\* infer_loop produces for ring B, upload_loop consumes from it.
ProducerOfB ==
  CASE infer \in {"waiting", "woken", "run"} -> "loop"
    [] infer = "waitingB" -> "waiting"
    [] infer = "wokenB" -> "woken"
    [] infer = "copy" -> "writing"
    [] infer \in {"release", "commit"} -> "written"
    [] infer = "giveUp" -> "leaving"
    [] OTHER -> infer

ConsumerOfB == IF UploadHolds THEN "reading" ELSE upload

\* A handler closes ring A with its first three steps, ring B with the others.
ClosingAfter(steps) ==
  CASE steps <= 0 -> "idle"
    [] steps = 1 -> "flagged"
    [] steps = 2 -> "wokeProducer"
    [] OTHER -> "done"

ClosingA == [s \in Signals |-> ClosingAfter(handler[s])]
ClosingB == [s \in Signals |-> ClosingAfter(handler[s] - 3)]

\* Of what a slot holds, the number of its frame.
NumbersInA == [i \in A!SlotIdx |-> slotsA[i].frame_number]
NumbersInB == [i \in B!SlotIdx |-> slotsB[i].frame_number]

RA == INSTANCE RingBufferProofs WITH
  N <- Slots, MaxItems <- MaxFrames, Closers <- Signals,
  ring <- ringA,
  slots <- NumbersInA,
  prod <- ProducerOfA, cons <- ConsumerOfA, closing <- ClosingA,
  wslot <- wA, rslot <- rA,
  sent <- FilledA, received <- Taken

RB == INSTANCE RingBufferProofs WITH
  N <- Slots, MaxItems <- MaxFrames, Closers <- Signals,
  ring <- ringB,
  slots <- NumbersInB,
  prod <- ProducerOfB, cons <- ConsumerOfB, closing <- ClosingB,
  wslot <- wB, rslot <- rB,
  sent <- FilledB, received <- Fetched

-----------------------------------------------------------------------------
(* The inductive invariant.                                                *)

\* Each stage is behind the stage before it, by no more than the slots of the ring
\* between them: back-pressure, ring by ring.
Numbers ==
  /\ Put \in Nat
  /\ Got <= FilledA
  /\ Fetched <= FilledB
  /\ frameNum - Got + One(InferHoldsA) <= Slots
  /\ Put - Fetched + One(UploadHolds) <= Slots

\* recv_loop numbers each frame it captures; the one it has in hand when the ring
\* refuses a slot is lost.
Captures ==
  \/ captured = frameNum + One(recv \in {"waiting", "woken"})
  \/ RecvLeft /\ captured = frameNum + 1

\* Until shutdown() has set the flag, every slot of the ring is accounted for: a
\* token of empty_slots_, a slot in hand, a filled one, and each filled one has its
\* token of fill_slots_.
TokensA ==
  ~ringA.shutdown =>
    /\ ringA.emptyCount + One(recv = "woken") + frameNum - Got + One(InferHoldsA) = Slots
    /\ ringA.fillCount + One(infer = "woken") = FilledA - Got

TokensB ==
  ~ringB.shutdown =>
    /\ ringB.emptyCount + One(infer = "wokenB") + Put - Fetched + One(UploadHolds) = Slots
    /\ ringB.fillCount + One(upload = "woken") = FilledB - Fetched

\* The flag comes first: who has left a ring, or is past the first step of its
\* shutdown(), has found or made it shut down.  Ring B is never shut down before ring
\* A, by infer_loop (which leaves only a ring A that is shut down) or by the handler.
FlagFirst ==
  /\ RecvLeft \/ recv \in {"eofFlagged", "eofWoke"} => ringA.shutdown
  /\ InferLeft => ringA.shutdown
  /\ infer \in {"giveUp", "flagged", "wokeProducer", "done"} => ringB.shutdown
  /\ upload = "done" => ringB.shutdown
  /\ ringB.shutdown => ringA.shutdown
  /\ \A s \in Signals : (handler[s] > 0 => ringA.shutdown) /\ (handler[s] > 3 => ringB.shutdown)

\* The indices of a ring, and the slots in hand, are the counts modulo kRingSlots,
\* also after the shutdown() calls have put the semaphores out of step.
CursorsA ==
  /\ ringA.writeIdx = frameNum % Slots
  /\ ~InferLeft => ringA.readIdx = Got % Slots
  /\ RecvHolds => frameNum > 0 /\ wA = (frameNum - 1) % Slots
  /\ InferHoldsA => Got > 0 /\ rA = (Got - 1) % Slots

CursorsB ==
  /\ ringB.writeIdx = Put % Slots
  /\ ringB.readIdx = Fetched % Slots
  /\ InferHoldsB => Put > 0 /\ wB = (Put - 1) % Slots
  /\ UploadHolds => Fetched > 0 /\ rB = (Fetched - 1) % Slots

\* The oldest frame that is still in a slot of the ring.
FirstA == Got + 1 - One(InferHoldsA)
FirstB == Fetched + 1 - One(UploadHolds)

\* A slot that is filled holds one frame whole; the one recv_loop is filling holds the
\* parts it has written so far.  The detections in hand are those of the frame in hand.
ContentsA ==
  /\ \A k \in FirstA .. FilledA :
       slotsA[(k - 1) % Slots] = [frame_number |-> k, input |-> k, orig |-> k]
  /\ recv \in {"input", "orig", "commit"} => slotsA[wA].frame_number = frameNum
  /\ recv \in {"orig", "commit"} => slotsA[wA].input = frameNum
  /\ recv = "commit" => slotsA[wA].orig = frameNum

ContentsB ==
  /\ \A k \in FirstB .. Put - One(infer = "copy") :
       slotsB[(k - 1) % Slots] = [frame_number |-> k, dets |-> k, orig |-> k]
  /\ infer \in {"waitingB", "wokenB", "copy"} => dets = Got

\* The inductive invariant.
IInv ==
  /\ TypeOK
  /\ Numbers /\ Captures
  /\ TokensA /\ TokensB /\ FlagFirst
  /\ CursorsA /\ CursorsB
  /\ ContentsA /\ ContentsB

-----------------------------------------------------------------------------
\* The members of a ring.
Is(r, empty, fill, w, d, flag) ==
  /\ r \in A!RingType
  /\ r.emptyCount = empty /\ r.fillCount = fill
  /\ r.writeIdx = w /\ r.readIdx = d
  /\ (r.shutdown <=> flag)

\* Both rings have kRingSlots slots, at least one, numbered from 0.
LEMMA Idx ==
  /\ Slots \in Nat \ {0}
  /\ A!SlotIdx = 0 .. Slots - 1 /\ B!SlotIdx = 0 .. Slots - 1
  /\ A!RingType = B!RingType
BY SlotsAssumption DEF A!SlotIdx, B!SlotIdx, A!RingType, B!RingType

\* The steps of the methods of ring A, as Pipeline and as RingBufferSPSC name them.
LEMMA MethodsOfA ==
  /\ A!SemWaitEmpty <=> RA!SemWaitEmpty
  /\ A!TakeWriteSlot <=> RA!TakeWriteSlot
  /\ A!RefuseWrite <=> RA!RefuseWrite
  /\ A!InterruptWrite <=> RA!InterruptWrite
  /\ A!CommitWrite <=> RA!CommitWrite
  /\ A!SemWaitFill <=> RA!SemWaitFill
  /\ A!TakeReadSlot <=> RA!TakeReadSlot
  /\ A!RefuseRead <=> RA!RefuseRead
  /\ A!InterruptRead <=> RA!InterruptRead
  /\ A!CommitRead <=> RA!CommitRead
  /\ A!SetShutdown <=> RA!SetShutdown
  /\ A!WakeProducer <=> RA!WakeProducer
  /\ A!WakeConsumer <=> RA!WakeConsumer
BY DEF A!SemWaitEmpty, RA!SemWaitEmpty, A!TakeWriteSlot, RA!TakeWriteSlot,
  A!RefuseWrite, RA!RefuseWrite, A!InterruptWrite, RA!InterruptWrite,
  A!CommitWrite, RA!CommitWrite, A!SemWaitFill, RA!SemWaitFill,
  A!TakeReadSlot, RA!TakeReadSlot, A!RefuseRead, RA!RefuseRead,
  A!InterruptRead, RA!InterruptRead, A!CommitRead, RA!CommitRead,
  A!SetShutdown, RA!SetShutdown, A!WakeProducer, RA!WakeProducer,
  A!WakeConsumer, RA!WakeConsumer

\* The same for ring B.
LEMMA MethodsOfB ==
  /\ B!SemWaitEmpty <=> RB!SemWaitEmpty
  /\ B!TakeWriteSlot <=> RB!TakeWriteSlot
  /\ B!RefuseWrite <=> RB!RefuseWrite
  /\ B!InterruptWrite <=> RB!InterruptWrite
  /\ B!CommitWrite <=> RB!CommitWrite
  /\ B!SemWaitFill <=> RB!SemWaitFill
  /\ B!TakeReadSlot <=> RB!TakeReadSlot
  /\ B!RefuseRead <=> RB!RefuseRead
  /\ B!InterruptRead <=> RB!InterruptRead
  /\ B!CommitRead <=> RB!CommitRead
  /\ B!SetShutdown <=> RB!SetShutdown
  /\ B!WakeProducer <=> RB!WakeProducer
  /\ B!WakeConsumer <=> RB!WakeConsumer
BY DEF B!SemWaitEmpty, RB!SemWaitEmpty, B!TakeWriteSlot, RB!TakeWriteSlot,
  B!RefuseWrite, RB!RefuseWrite, B!InterruptWrite, RB!InterruptWrite,
  B!CommitWrite, RB!CommitWrite, B!SemWaitFill, RB!SemWaitFill,
  B!TakeReadSlot, RB!TakeReadSlot, B!RefuseRead, RB!RefuseRead,
  B!InterruptRead, RB!InterruptRead, B!CommitRead, RB!CommitRead,
  B!SetShutdown, RB!SetShutdown, B!WakeProducer, RB!WakeProducer,
  B!WakeConsumer, RB!WakeConsumer

\* What each step of ring A does to each of its members.
LEMMA StepsOfA ==
  ASSUME ringA \in A!RingType
  PROVE  LET e == ringA.emptyCount
             f == ringA.fillCount
             w == ringA.writeIdx
             r == ringA.readIdx
             down == ringA.shutdown
         IN  /\ e \in Nat /\ f \in Nat /\ w \in A!SlotIdx /\ r \in A!SlotIdx
             /\ A!SemWaitEmpty => e > 0 /\ Is(ringA', e - 1, f, w, r, down)
             /\ A!TakeWriteSlot => ~down /\ Is(ringA', e, f, (w + 1) % Slots, r, down)
             /\ A!CommitWrite => Is(ringA', e, f + 1, w, r, down)
             /\ A!SemWaitFill => f > 0 /\ Is(ringA', e, f - 1, w, r, down)
             /\ A!TakeReadSlot => ~down /\ Is(ringA', e, f, w, (r + 1) % Slots, down)
             /\ A!CommitRead => Is(ringA', e + 1, f, w, r, down)
             /\ A!SetShutdown => Is(ringA', e, f, w, r, TRUE)
             /\ A!WakeProducer => Is(ringA', e + 1, f, w, r, down)
             /\ A!WakeConsumer => Is(ringA', e, f + 1, w, r, down)
             /\ A!RefuseWrite => down /\ ringA' = ringA
             /\ A!RefuseRead => down /\ ringA' = ringA
             /\ A!InterruptWrite => down /\ ringA' = ringA
             /\ A!InterruptRead => down /\ ringA' = ringA
<1>1. A!RingType = RA!RingType
  BY DEF A!RingType, RA!RingType, A!SlotIdx, RA!SlotIdx
<1> QED
  BY SlotsAssumption, MaxFramesAssumption, <1>1, MethodsOfA, RA!SemWaitEmptyFields, RA!TakeWriteSlotFields,
     RA!CommitWriteFields, RA!SemWaitFillFields, RA!TakeReadSlotFields,
     RA!CommitReadFields, RA!SetShutdownFields, RA!WakeProducerFields,
     RA!WakeConsumerFields
  DEF Is, A!RingType, A!RefuseWrite, A!RefuseRead, A!InterruptWrite,
      A!InterruptRead, A!SemWaitEmpty, A!SemWaitFill, A!TakeWriteSlot,
      A!TakeReadSlot

\* What each step of ring B does to each of its members.
LEMMA StepsOfB ==
  ASSUME ringB \in A!RingType
  PROVE  LET e == ringB.emptyCount
             f == ringB.fillCount
             w == ringB.writeIdx
             r == ringB.readIdx
             down == ringB.shutdown
         IN  /\ e \in Nat /\ f \in Nat /\ w \in A!SlotIdx /\ r \in A!SlotIdx
             /\ B!SemWaitEmpty => e > 0 /\ Is(ringB', e - 1, f, w, r, down)
             /\ B!TakeWriteSlot => ~down /\ Is(ringB', e, f, (w + 1) % Slots, r, down)
             /\ B!CommitWrite => Is(ringB', e, f + 1, w, r, down)
             /\ B!SemWaitFill => f > 0 /\ Is(ringB', e, f - 1, w, r, down)
             /\ B!TakeReadSlot => ~down /\ Is(ringB', e, f, w, (r + 1) % Slots, down)
             /\ B!CommitRead => Is(ringB', e + 1, f, w, r, down)
             /\ B!SetShutdown => Is(ringB', e, f, w, r, TRUE)
             /\ B!WakeProducer => Is(ringB', e + 1, f, w, r, down)
             /\ B!WakeConsumer => Is(ringB', e, f + 1, w, r, down)
             /\ B!RefuseWrite => down /\ ringB' = ringB
             /\ B!RefuseRead => down /\ ringB' = ringB
             /\ B!InterruptWrite => down /\ ringB' = ringB
             /\ B!InterruptRead => down /\ ringB' = ringB
<1>1. A!RingType = RB!RingType
  BY DEF A!RingType, RB!RingType, A!SlotIdx, RB!SlotIdx
<1> QED
  BY SlotsAssumption, MaxFramesAssumption, <1>1, MethodsOfB, RB!SemWaitEmptyFields, RB!TakeWriteSlotFields,
     RB!CommitWriteFields, RB!SemWaitFillFields, RB!TakeReadSlotFields,
     RB!CommitReadFields, RB!SetShutdownFields, RB!WakeProducerFields,
     RB!WakeConsumerFields
  DEF Is, A!RingType, B!RefuseWrite, B!RefuseRead, B!InterruptWrite,
      B!InterruptRead, B!SemWaitEmpty, B!SemWaitFill, B!TakeWriteSlot,
      B!TakeReadSlot

\* A step of a method of a ring.
StepA ==
  \/ A!SemWaitEmpty \/ A!TakeWriteSlot \/ A!RefuseWrite \/ A!InterruptWrite
  \/ A!CommitWrite \/ A!SemWaitFill \/ A!TakeReadSlot \/ A!RefuseRead
  \/ A!InterruptRead \/ A!CommitRead \/ A!SetShutdown
  \/ A!WakeProducer \/ A!WakeConsumer

\* The same for ring B.
StepB ==
  \/ B!SemWaitEmpty \/ B!TakeWriteSlot \/ B!RefuseWrite \/ B!InterruptWrite
  \/ B!CommitWrite \/ B!SemWaitFill \/ B!TakeReadSlot \/ B!RefuseRead
  \/ B!InterruptRead \/ B!CommitRead \/ B!SetShutdown
  \/ B!WakeProducer \/ B!WakeConsumer

\* A ring stays a ring, and its indices are those of slots.
LEMMA RingsTyped ==
  ASSUME ringA \in A!RingType, ringB \in B!RingType
  PROVE  /\ ringA.writeIdx \in A!SlotIdx /\ ringA.readIdx \in A!SlotIdx
         /\ ringB.writeIdx \in B!SlotIdx /\ ringB.readIdx \in B!SlotIdx
         /\ StepA => ringA' \in A!RingType
         /\ StepB => ringB' \in B!RingType
<1>1. /\ ringA.writeIdx \in A!SlotIdx /\ ringA.readIdx \in A!SlotIdx
      /\ ringB.writeIdx \in B!SlotIdx /\ ringB.readIdx \in B!SlotIdx
  BY DEF A!RingType, B!RingType
<1>2. StepA => ringA' \in A!RingType
  BY StepsOfA DEF StepA, Is
<1>3. StepB => ringB' \in B!RingType
  BY Idx, StepsOfB DEF StepB, Is
<1> QED
  BY <1>1, <1>2, <1>3

-----------------------------------------------------------------------------
\* The threads start with every variable in its type.
LEMMA InitType == Init => TypeOK
BY Idx
DEF Init, TypeOK, A!NewRing, B!NewRing, A!RingType, B!RingType, A!SlotIdx, B!SlotIdx,
    RecvPC, InferPC, UploadPC, InferSlot, UploadSlot, None

\* No step of a thread or a handler takes a variable out of its type.
LEMMA NextType == TypeOK /\ [Next]_vars => TypeOK'
<1> SUFFICES ASSUME TypeOK, [Next]_vars PROVE TypeOK'
  OBVIOUS
<1> USE RingsTyped
    DEF TypeOK, RecvPC, InferPC, UploadPC, vars, StepA, StepB,
        OthersOfRecv, OthersOfInfer, OthersOfUpload, recvVars, inferVars, uploadVars
<1>1. CASE RecvStep
  <2>1. CASE RecvTop \/ RecvRefused
    BY <2>1 DEF RecvTop, RecvRefused
  <2>2. CASE RecvWake \/ RecvCommit
    BY <2>2 DEF RecvWake, RecvCommit
  <2>3. CASE RecvTake
    BY <2>3 DEF RecvTake
  <2>4. CASE RecvWrite
    BY <2>4 DEF RecvWrite, InferSlot
  <2>5. CASE RecvShutdown
    BY <2>5 DEF RecvShutdown
  <2> QED
    BY <1>1, <2>1, <2>2, <2>3, <2>4, <2>5 DEF RecvStep
<1>2. CASE RecvCapture \/ RecvSourceEnds
  BY <1>2 DEF RecvCapture, RecvSourceEnds
<1>3. CASE InferStep
  <2>1. CASE InferWake \/ InferTake \/ InferRefused
    BY <2>1 DEF InferWake, InferTake, InferRefused
  <2>2. CASE InferRun
    BY <2>2 DEF InferRun, InferSlot
  <2>3. CASE InferWakeB \/ InferTakeB \/ InferRefusedB
    BY <2>3 DEF InferWakeB, InferTakeB, InferRefusedB
  <2>4. CASE InferGiveUp \/ InferRelease \/ InferCommit
    BY <2>4 DEF InferGiveUp, InferRelease, InferCommit
  <2>5. CASE InferCopy
    BY <2>5 DEF InferCopy, InferSlot, UploadSlot
  <2>6. CASE InferShutdown
    BY <2>6 DEF InferShutdown
  <2> QED
    BY <1>3, <2>1, <2>2, <2>3, <2>4, <2>5, <2>6 DEF InferStep
<1>4. CASE UploadStep
  BY <1>4
  DEF UploadStep, UploadWake, UploadTake, UploadRefused, UploadSend, UploadRelease
<1>5. ASSUME NEW s \in Signals, HandlerStep(s) PROVE TypeOK'
  <2>1. CASE HandlerA(s)
    BY <2>1 DEF HandlerA
  <2>2. CASE HandlerB(s)
    BY <2>2 DEF HandlerB
  <2> QED
    BY <1>5, <2>1, <2>2 DEF HandlerStep
<1>6. CASE Interrupted
  BY <1>6 DEF Interrupted
<1>7. CASE Joined \/ UNCHANGED vars
  BY <1>7 DEF Joined
<1> QED
  BY <1>1, <1>2, <1>3, <1>4, <1>5, <1>6, <1>7 DEF Next

\* Every reachable state of pipeline.cpp's threads is well typed: neither ring's
\* semaphores go below zero and no index leaves the slots array of ring_buffer.h.
THEOREM TypeCorrect == Spec => []TypeOK
<1> QED
  BY InitType, NextType, PTL DEF Spec

-----------------------------------------------------------------------------
\* The slot recv_loop fills is not that of any frame that is still in ring A.
LEMMA WriterApartA ==
  ASSUME IInv, RecvHolds, NEW k \in FirstA .. FilledA
  PROVE  k - 1 \in Nat /\ (k - 1) % Slots # wA
<1>1. /\ frameNum \in Nat /\ Put \in Nat /\ Slots \in Nat \ {0}
      /\ frameNum > 0 /\ wA = (frameNum - 1) % Slots
  BY Idx DEF IInv, TypeOK, Numbers, CursorsA
<1>2. k - 1 \in Nat /\ k - 1 < frameNum - 1 /\ frameNum - 1 - (k - 1) < Slots
  BY <1>1 DEF IInv, Numbers, CursorsA, FirstA, FilledA, Got, One
<1> DEFINE a == k - 1
           b == frameNum - 1
<1>3. a \in Nat /\ b \in Nat /\ a < b /\ b - a < Slots
  BY <1>1, <1>2
<1> HIDE DEF a, b
<1>4. a % Slots # b % Slots
  BY <1>1, <1>3, RA!ModApart, SlotsAssumption, MaxFramesAssumption
<1> QED
  BY <1>1, <1>2, <1>4 DEF a, b

\* The slot infer_loop fills is not that of any frame that is still in ring B.
LEMMA WriterApartB ==
  ASSUME IInv, InferHoldsB, NEW k \in FirstB .. FilledB
  PROVE  k - 1 \in Nat /\ (k - 1) % Slots # wB
<1>1. /\ uploaded \in Nat /\ Put \in Nat /\ Slots \in Nat \ {0}
      /\ Put > 0 /\ wB = (Put - 1) % Slots
  BY Idx DEF IInv, TypeOK, Numbers, CursorsB
<1>2. k - 1 \in Nat /\ k - 1 < Put - 1 /\ Put - 1 - (k - 1) < Slots
  BY <1>1 DEF IInv, Numbers, CursorsB, FirstB, FilledB, Fetched, One
<1> DEFINE a == k - 1
           b == Put - 1
<1>3. a \in Nat /\ b \in Nat /\ a < b /\ b - a < Slots
  BY <1>1, <1>2
<1> HIDE DEF a, b
<1>4. a % Slots # b % Slots
  BY <1>1, <1>3, RA!ModApart, SlotsAssumption, MaxFramesAssumption
<1> QED
  BY <1>1, <1>2, <1>4 DEF a, b

\* The frame a thread reads is one of those still in the ring, so that the writer of
\* the ring is in another slot.
LEMMA Exclusion == IInv => SlotsExclusive
<1> SUFFICES ASSUME IInv PROVE SlotsExclusive
  OBVIOUS
<1>1. ASSUME RecvHolds, InferHoldsA PROVE wA # rA
  <2>1. Got \in FirstA .. FilledA /\ rA = (Got - 1) % Slots
    BY <1>1 DEF IInv, TypeOK, Numbers, CursorsA, FirstA, FilledA, Got, One
  <2> QED
    BY <1>1, <2>1, WriterApartA
<1>2. ASSUME InferHoldsB, UploadHolds PROVE wB # rB
  <2>1. Fetched \in FirstB .. FilledB /\ rB = (Fetched - 1) % Slots
    BY <1>2 DEF IInv, TypeOK, Numbers, CursorsB, FirstB, FilledB, Fetched, One
  <2> QED
    BY <1>2, <2>1, WriterApartB
<1> QED
  BY <1>1, <1>2 DEF SlotsExclusive

\* infer_loop's in_slot holds the frame it has taken last, whole, until
\* commit_read_slot(): also while it waits for a slot of ring B.
LEMMA HeldByInfer ==
  ASSUME IInv, InferHoldsA
  PROVE  slotsA[rA] = [frame_number |-> Got, input |-> Got, orig |-> Got]
<1>1. Got \in FirstA .. FilledA /\ rA = (Got - 1) % Slots
  BY DEF IInv, TypeOK, Numbers, CursorsA, FirstA, FilledA, Got, One
<1> QED
  BY <1>1 DEF IInv, ContentsA

\* upload_loop's slot holds the frame it has taken last, whole.
LEMMA HeldByUpload ==
  ASSUME IInv, UploadHolds
  PROVE  slotsB[rB] = [frame_number |-> Fetched, dets |-> Fetched, orig |-> Fetched]
<1>1. Fetched \in FirstB .. Put - One(infer = "copy") /\ rB = (Fetched - 1) % Slots
  BY DEF IInv, TypeOK, Numbers, CursorsB, FirstB, FilledB, InferHoldsB, Fetched, One
<1> QED
  BY <1>1 DEF IInv, ContentsB

\* Put grows by one when infer_loop gets a slot of ring B, and no other step changes
\* it: the writes of recv_loop do not reach the slot that infer_loop copies from, and
\* the copy leaves the number where Put looks for it next.
LEMMA PutStep ==
  ASSUME IInv, [Next]_vars
  PROVE  Put' = IF infer = "wokenB" /\ infer' = "copy" THEN Put + 1 ELSE Put
<1>1. CASE RecvStep
  <2>1. UNCHANGED <<slotsB, infer, rA, wB>>
    BY <1>1 DEF RecvStep, RecvTop, RecvWake, RecvTake, RecvRefused, RecvWrite, RecvCommit,
      RecvShutdown, OthersOfRecv, inferVars
  <2>2. infer = "copy" => slotsA'[rA].frame_number = slotsA[rA].frame_number
    <3>1. CASE RecvWrite
      BY <3>1, Exclusion
      DEF RecvWrite, IInv, TypeOK, InferSlot, SlotsExclusive, RecvHolds, InferHoldsA
    <3>2. CASE ~RecvWrite
      BY <1>1, <3>2 DEF RecvStep, RecvTop, RecvWake, RecvTake, RecvRefused, RecvCommit,
        RecvShutdown
    <3> QED
      BY <3>1, <3>2
  <2> QED
    BY <2>1, <2>2 DEF Put
<1>2. CASE RecvCapture \/ RecvSourceEnds
  BY <1>2 DEF RecvCapture, RecvSourceEnds, OthersOfRecv, inferVars, Put
<1>3. CASE InferTakeB
  BY <1>3, HeldByInfer DEF InferTakeB, OthersOfInfer, InferHoldsA, Put, Got, One
<1>4. CASE InferCopy
  BY <1>4 DEF InferCopy, OthersOfInfer, Put, IInv, TypeOK
<1>5. CASE InferStep /\ ~InferTakeB /\ ~InferCopy
  BY <1>5 DEF InferStep, InferWake, InferTake, InferRefused, InferRun, InferWakeB,
    InferRefusedB, InferGiveUp, InferRelease, InferCommit, InferShutdown, OthersOfInfer, Put
<1>6. CASE UploadStep
  BY <1>6 DEF UploadStep, UploadWake, UploadTake, UploadRefused, UploadSend,
    UploadRelease, OthersOfUpload, inferVars, Put
<1>7. ASSUME NEW s \in Signals, HandlerStep(s) PROVE UNCHANGED <<slotsA, slotsB, infer, rA, wB>>
  BY <1>7 DEF HandlerStep, HandlerA, HandlerB, inferVars
<1>8. CASE Interrupted
  BY <1>8 DEF Interrupted, Put
<1>9. CASE Joined \/ UNCHANGED vars
  BY <1>9 DEF Joined, vars, inferVars, Put
<1> QED
  BY <1>1, <1>2, <1>3, <1>4, <1>5, <1>6, <1>7, <1>8, <1>9 DEF Next, Put

-----------------------------------------------------------------------------
\* Once a handler has begun with a ring, the flag of that ring is set.
LEMMA HandlerFlags ==
  ASSUME ringA \in A!RingType, ringB \in A!RingType, handler \in [Signals -> 0 .. 6],
         FlagFirst, NEW s \in Signals
  PROVE  /\ HandlerA(s) => handler[s] < 3 /\ ringA'.shutdown
         /\ HandlerB(s) => handler[s] > 2 /\ ringB'.shutdown
<1>1. ASSUME HandlerA(s) PROVE handler[s] < 3 /\ ringA'.shutdown
  <2>1. CASE handler[s] = 0 /\ A!SetShutdown
    BY <2>1, StepsOfA DEF Is
  <2>2. CASE handler[s] \in {1, 2} /\ (A!WakeProducer \/ A!WakeConsumer)
    <3>1. ringA.shutdown
      BY <2>2 DEF FlagFirst
    <3> QED
      BY <2>2, <3>1, StepsOfA DEF Is
  <2> QED
    BY <1>1, <2>1, <2>2 DEF HandlerA
<1>2. ASSUME HandlerB(s) PROVE handler[s] > 2 /\ ringB'.shutdown
  <2>1. CASE handler[s] = 3 /\ B!SetShutdown
    BY <2>1, StepsOfB DEF Is
  <2>2. CASE handler[s] \in {4, 5} /\ (B!WakeProducer \/ B!WakeConsumer)
    <3>1. ringB.shutdown
      BY <2>2 DEF FlagFirst
    <3> QED
      BY <2>2, <3>1, StepsOfB DEF Is
  <2> QED
    BY <1>2, <2>1, <2>2 DEF HandlerB
<1> QED
  BY <1>1, <1>2

\* Each step keeps FlagFirst: nobody leaves a ring whose flag is not set.
LEMMA NextFlags == IInv /\ [Next]_vars => FlagFirst'
<1> SUFFICES ASSUME IInv, [Next]_vars PROVE FlagFirst'
  OBVIOUS
<1> USE DEF FlagFirst, RecvLeft, InferLeft, Is
<1>0. /\ ringA \in A!RingType /\ ringB \in A!RingType
      /\ handler \in [Signals -> 0 .. 6]
      /\ FlagFirst
  BY Idx DEF IInv, TypeOK
<1>1. CASE RecvStep \/ RecvCapture \/ RecvSourceEnds
  <2>1. UNCHANGED <<ringB, infer, upload, handler>>
    BY <1>1 DEF RecvStep, RecvTop, RecvCapture, RecvSourceEnds, RecvWake, RecvTake,
      RecvRefused, RecvWrite, RecvCommit, RecvShutdown, OthersOfRecv, inferVars, uploadVars
  <2>2. ringA.shutdown => ringA'.shutdown
    BY <1>0, <1>1, StepsOfA DEF RecvStep, RecvTop, RecvCapture, RecvSourceEnds, RecvWake,
      RecvTake, RecvRefused, RecvWrite, RecvCommit, RecvShutdown
  <2>3. RecvLeft' \/ recv' \in {"eofFlagged", "eofWoke"} => ringA'.shutdown
    BY <1>0, <1>1, StepsOfA DEF RecvStep, RecvTop, RecvCapture, RecvSourceEnds, RecvWake,
      RecvTake, RecvRefused, RecvWrite, RecvCommit, RecvShutdown
  <2> QED
    BY <1>0, <2>1, <2>2, <2>3
<1>2. CASE InferStep
  <2>1. UNCHANGED <<recv, upload, handler>>
    BY <1>2 DEF InferStep, InferWake, InferTake, InferRefused, InferRun, InferWakeB,
      InferTakeB, InferRefusedB, InferGiveUp, InferCopy, InferRelease, InferCommit,
      InferShutdown, OthersOfInfer, recvVars, uploadVars
  <2>2. (ringA.shutdown => ringA'.shutdown) /\ (ringB.shutdown => ringB'.shutdown)
    BY <1>0, <1>2, StepsOfA, StepsOfB DEF InferStep, InferWake, InferTake, InferRefused,
      InferRun, InferWakeB, InferTakeB, InferRefusedB, InferGiveUp, InferCopy,
      InferRelease, InferCommit, InferShutdown
  <2>3. /\ InferLeft' => ringA'.shutdown
        /\ infer' \in {"giveUp", "flagged", "wokeProducer", "done"} => ringB'.shutdown
        /\ ringB'.shutdown => ringA'.shutdown
    BY <1>0, <1>2, StepsOfA, StepsOfB DEF InferStep, InferWake, InferTake, InferRefused,
      InferRun, InferWakeB, InferTakeB, InferRefusedB, InferGiveUp, InferCopy,
      InferRelease, InferCommit, InferShutdown
  <2> QED
    BY <1>0, <2>1, <2>2, <2>3
<1>3. CASE UploadStep
  <2>1. UNCHANGED <<ringA, recv, infer, handler>>
    BY <1>3 DEF UploadStep, UploadWake, UploadTake, UploadRefused, UploadSend,
      UploadRelease, OthersOfUpload, recvVars, inferVars
  <2>2. (ringB'.shutdown <=> ringB.shutdown) /\ (upload' = "done" => ringB'.shutdown)
    BY <1>0, <1>3, StepsOfB DEF UploadStep, UploadWake, UploadTake, UploadRefused,
      UploadSend, UploadRelease
  <2> QED
    BY <1>0, <2>1, <2>2
<1>4. ASSUME NEW s \in Signals, HandlerStep(s) PROVE FlagFirst'
  <2>1. UNCHANGED <<recv, infer, upload>>
    BY <1>4 DEF HandlerStep, HandlerA, HandlerB, recvVars, inferVars, uploadVars
  <2>2. handler[s] \in 0 .. 6 /\ handler'[s] = handler[s] + 1
        /\ \A u \in Signals \ {s} : handler'[u] = handler[u]
    BY <1>0, <1>4 DEF HandlerStep, HandlerA, HandlerB
  <2>3. CASE HandlerA(s)
    <3>1. handler[s] < 3 /\ ringA'.shutdown /\ ringB' = ringB
      BY <1>0, <2>3, HandlerFlags DEF HandlerA
    <3> QED
      BY <1>0, <2>1, <2>2, <3>1
  <2>4. CASE HandlerB(s)
    <3>1. handler[s] > 2 /\ ringB'.shutdown /\ ringA' = ringA
      BY <1>0, <2>4, HandlerFlags DEF HandlerB
    <3>2. ringA.shutdown
      BY <1>0, <2>2, <3>1
    <3> QED
      BY <1>0, <2>1, <2>2, <3>1, <3>2
  <2> QED
    BY <1>4, <2>3, <2>4 DEF HandlerStep
<1>5. CASE Interrupted
  BY <1>0, <1>5, StepsOfA, StepsOfB DEF Interrupted
<1>6. CASE Joined \/ UNCHANGED vars
  BY <1>0, <1>6 DEF Joined, vars, recvVars, inferVars, uploadVars
<1> QED
  BY <1>1, <1>2, <1>3, <1>4, <1>5, <1>6 DEF Next

-----------------------------------------------------------------------------
\* The parts of IInv that are arithmetic.
Counts == Numbers /\ Captures /\ TokensA /\ TokensB

\* Each step keeps the counts: a slot changes hands with its token.
LEMMA NextCounts == IInv /\ [Next]_vars => Counts'
<1> SUFFICES ASSUME IInv, [Next]_vars PROVE Counts'
  OBVIOUS
<1> USE DEF Counts, Numbers, Captures, TokensA, TokensB, Got, Fetched, FilledA, FilledB,
      One, RecvHolds, InferHoldsA, InferHoldsB, UploadHolds, RecvLeft, Is
<1>0. /\ Counts /\ FlagFirst /\ handler \in [Signals -> 0 .. 6]
      /\ ringA \in A!RingType /\ ringB \in A!RingType
      /\ Slots \in Nat /\ Put \in Nat
      /\ frameNum \in Nat /\ captured \in Nat /\ uploaded \in Nat
      /\ Put' = IF infer = "wokenB" /\ infer' = "copy" THEN Put + 1 ELSE Put
  BY Idx, PutStep DEF IInv, TypeOK
<1>1. CASE RecvStep
  <2>0. UNCHANGED <<ringB, infer, upload, uploaded>>
    BY <1>1 DEF RecvStep, RecvTop, RecvWake, RecvTake,
      RecvRefused, RecvWrite, RecvCommit, RecvShutdown, OthersOfRecv, inferVars, uploadVars
  <2>1. CASE RecvTop
    BY <1>0, <2>0, <2>1 DEF RecvTop
  <2>2. CASE RecvWake
    BY <1>0, <2>0, <2>2, StepsOfA DEF RecvWake
  <2>3. CASE RecvTake
    BY <1>0, <2>0, <2>3, StepsOfA DEF RecvTake
  <2>4. CASE RecvRefused
    BY <1>0, <2>0, <2>4, StepsOfA DEF RecvRefused
  <2>5. CASE RecvWrite
    BY <1>0, <2>0, <2>5 DEF RecvWrite
  <2>6. CASE RecvCommit
    BY <1>0, <2>0, <2>6, StepsOfA DEF RecvCommit
  <2>7. CASE RecvShutdown
    BY <1>0, <2>0, <2>7, StepsOfA DEF RecvShutdown, IInv, FlagFirst
  <2> QED
    BY <1>1, <2>1, <2>2, <2>3, <2>4, <2>5, <2>6, <2>7 DEF RecvStep
<1>2. CASE RecvCapture \/ RecvSourceEnds
  BY <1>0, <1>2 DEF RecvCapture, RecvSourceEnds, OthersOfRecv, inferVars, uploadVars
<1>3. CASE InferStep
  <2>0. UNCHANGED <<recv, captured, frameNum, upload, uploaded>>
    BY <1>3 DEF InferStep, InferWake, InferTake, InferRefused, InferRun, InferWakeB,
      InferTakeB, InferRefusedB, InferGiveUp, InferCopy, InferRelease, InferCommit,
      InferShutdown, OthersOfInfer, recvVars, uploadVars
  <2>1. CASE InferWake
    BY <1>0, <2>0, <2>1, StepsOfA DEF InferWake
  <2>2. CASE InferTake
    BY <1>0, <2>0, <2>2, StepsOfA DEF InferTake
  <2>3. CASE InferRefused
    BY <1>0, <2>0, <2>3, StepsOfA DEF InferRefused
  <2>4. CASE InferRun
    BY <1>0, <2>0, <2>4 DEF InferRun
  <2>5. CASE InferWakeB
    BY <1>0, <2>0, <2>5, StepsOfB DEF InferWakeB
  <2>6. CASE InferTakeB
    BY <1>0, <2>0, <2>6, StepsOfB DEF InferTakeB
  <2>7. CASE InferRefusedB
    BY <1>0, <2>0, <2>7, StepsOfB DEF InferRefusedB
  <2>8. CASE InferGiveUp
    BY <1>0, <2>0, <2>8, StepsOfA DEF InferGiveUp, IInv, FlagFirst
  <2>9. CASE InferCopy
    BY <1>0, <2>0, <2>9 DEF InferCopy
  <2>10. CASE InferRelease
    BY <1>0, <2>0, <2>10, StepsOfA DEF InferRelease
  <2>11. CASE InferCommit
    BY <1>0, <2>0, <2>11, StepsOfB DEF InferCommit
  <2>12. CASE InferShutdown
    BY <1>0, <2>0, <2>12, StepsOfB DEF InferShutdown, IInv, FlagFirst
  <2> QED
    BY <1>3, <2>1, <2>2, <2>3, <2>4, <2>5, <2>6, <2>7, <2>8, <2>9, <2>10, <2>11, <2>12
    DEF InferStep
<1>4. CASE UploadStep
  <2>0. UNCHANGED <<ringA, recv, captured, frameNum, infer>>
    BY <1>4 DEF UploadStep, UploadWake, UploadTake, UploadRefused, UploadSend,
      UploadRelease, OthersOfUpload, recvVars, inferVars
  <2>1. CASE UploadWake
    BY <1>0, <2>0, <2>1, StepsOfB DEF UploadWake
  <2>2. CASE UploadTake
    BY <1>0, <2>0, <2>2, StepsOfB DEF UploadTake
  <2>3. CASE UploadRefused
    BY <1>0, <2>0, <2>3, StepsOfB DEF UploadRefused
  <2>4. CASE UploadSend
    BY <1>0, <2>0, <2>4 DEF UploadSend
  <2>5. CASE UploadRelease
    BY <1>0, <2>0, <2>5, StepsOfB DEF UploadRelease
  <2> QED
    BY <1>4, <2>1, <2>2, <2>3, <2>4, <2>5 DEF UploadStep
<1>5. ASSUME NEW s \in Signals, HandlerStep(s) PROVE Counts'
  <2>0. UNCHANGED <<recv, captured, frameNum, infer, upload, uploaded>>
    BY <1>5 DEF HandlerStep, HandlerA, HandlerB, recvVars, inferVars, uploadVars
  <2>1. CASE HandlerA(s)
    <3>1. ringA'.shutdown
      BY <1>0, <2>1, HandlerFlags
    <3> QED
      BY <1>0, <2>0, <2>1, <3>1 DEF HandlerA, recvVars, inferVars, uploadVars
  <2>2. CASE HandlerB(s)
    <3>1. ringB'.shutdown
      BY <1>0, <2>2, HandlerFlags
    <3> QED
      BY <1>0, <2>0, <2>2, <3>1 DEF HandlerB, recvVars, inferVars, uploadVars
  <2> QED
    BY <1>5, <2>1, <2>2 DEF HandlerStep
<1>6. CASE Interrupted
  BY <1>0, <1>6, StepsOfA, StepsOfB DEF Interrupted, IInv, FlagFirst
<1>7. CASE Joined \/ UNCHANGED vars
  BY <1>0, <1>7 DEF Joined, vars, recvVars, inferVars, uploadVars
<1> QED
  BY <1>1, <1>2, <1>3, <1>4, <1>5, <1>6, <1>7 DEF Next

-----------------------------------------------------------------------------
\* All but two actions leave the cursors of ring A and what they stand for alone.
LEMMA OthersA ==
  ASSUME IInv, [Next]_vars, ~RecvTake, ~InferTake
  PROVE  /\ ringA'.writeIdx = ringA.writeIdx /\ ringA'.readIdx = ringA.readIdx
         /\ UNCHANGED <<frameNum, wA, rA>>
         /\ RecvHolds' => RecvHolds
         /\ InferHoldsA' => InferHoldsA
         /\ ~InferLeft' => ~InferLeft /\ Got' = Got
<1> USE DEF RecvHolds, InferHoldsA, InferLeft, Got, One
<1>0. /\ ringA \in A!RingType /\ Put \in Nat
      /\ Put' = IF infer = "wokenB" /\ infer' = "copy" THEN Put + 1 ELSE Put
  BY PutStep DEF IInv, TypeOK, Numbers
<1>1. CASE RecvStep \/ RecvCapture \/ RecvSourceEnds
  <2>1. UNCHANGED <<infer, rA, frameNum, wA>> /\ (RecvHolds' => RecvHolds)
    BY <1>1 DEF RecvStep, RecvTop, RecvCapture, RecvSourceEnds, RecvWake, RecvRefused,
      RecvWrite, RecvCommit, RecvShutdown, OthersOfRecv, inferVars
  <2>2. ringA'.writeIdx = ringA.writeIdx /\ ringA'.readIdx = ringA.readIdx
    BY <1>0, <1>1, StepsOfA DEF RecvStep, RecvTop, RecvCapture, RecvSourceEnds, RecvWake,
      RecvRefused, RecvWrite, RecvCommit, RecvShutdown, Is
  <2> QED
    BY <1>0, <2>1, <2>2
<1>2. CASE InferStep
  <2>1. /\ UNCHANGED <<recv, rA, frameNum, wA>>
        /\ InferHoldsA' => InferHoldsA
        /\ ~InferLeft' => ~InferLeft /\ Got' = Got
    BY <1>0, <1>2 DEF InferStep, InferWake, InferRefused, InferRun, InferWakeB,
      InferTakeB, InferRefusedB, InferGiveUp, InferCopy, InferRelease, InferCommit,
      InferShutdown, OthersOfInfer, recvVars
  <2>2. ringA'.writeIdx = ringA.writeIdx /\ ringA'.readIdx = ringA.readIdx
    BY <1>0, <1>2, StepsOfA DEF InferStep, InferWake, InferRefused, InferRun, InferWakeB,
      InferTakeB, InferRefusedB, InferGiveUp, InferCopy, InferRelease, InferCommit,
      InferShutdown, Is
  <2> QED
    BY <2>1, <2>2
<1>3. CASE UploadStep
  BY <1>0, <1>3 DEF UploadStep, UploadWake, UploadTake, UploadRefused, UploadSend,
    UploadRelease, OthersOfUpload, recvVars, inferVars
<1>4. ASSUME NEW s \in Signals, HandlerStep(s)
      PROVE  /\ ringA'.writeIdx = ringA.writeIdx /\ ringA'.readIdx = ringA.readIdx
             /\ UNCHANGED <<recv, infer, frameNum, wA, rA>>
  <2>1. UNCHANGED <<recv, infer, frameNum, wA, rA>>
    BY <1>4 DEF HandlerStep, HandlerA, HandlerB, recvVars, inferVars
  <2>2. A!SetShutdown \/ A!WakeProducer \/ A!WakeConsumer \/ UNCHANGED ringA
    BY <1>4 DEF HandlerStep, HandlerA, HandlerB
  <2> QED
    BY <1>0, <2>1, <2>2, StepsOfA DEF Is
<1>5. CASE Interrupted
  BY <1>0, <1>5, StepsOfA DEF Interrupted
<1>6. CASE Joined \/ UNCHANGED vars
  BY <1>0, <1>6 DEF Joined, vars, recvVars, inferVars
<1> QED
  BY <1>0, <1>1, <1>2, <1>3, <1>4, <1>5, <1>6 DEF Next

\* Each step keeps CursorsA: acquire_write_slot() and acquire_read_slot() alone move
\* an index, each when its count goes up.
LEMMA NextCursorsA == IInv /\ [Next]_vars => CursorsA'
<1> SUFFICES ASSUME IInv, [Next]_vars PROVE CursorsA'
  OBVIOUS
<1>0. /\ CursorsA
      /\ ringA \in A!RingType /\ Slots \in Nat \ {0}
      /\ Put \in Nat /\ Got \in Nat /\ frameNum \in Nat
  BY Idx DEF IInv, TypeOK, Numbers, Got, One
<1>1. CASE RecvTake
  <2>1. UNCHANGED <<infer, rA>> /\ Got' = Got
    BY <1>1, PutStep DEF RecvTake, OthersOfRecv, inferVars, Got
  <2>2. /\ frameNum' = frameNum + 1 /\ frameNum' - 1 = frameNum /\ frameNum' > 0
        /\ wA' = frameNum % Slots
    BY <1>0, <1>1 DEF RecvTake, CursorsA
  <2>3. ringA'.writeIdx = frameNum' % Slots /\ ringA'.readIdx = ringA.readIdx
    <3>1. /\ ringA'.writeIdx = (ringA.writeIdx + 1) % Slots
          /\ ringA'.readIdx = ringA.readIdx
      BY <1>0, <1>1, StepsOfA DEF RecvTake, Is
    <3>2. ((frameNum % Slots) + 1) % Slots = (frameNum + 1) % Slots
      BY <1>0, RA!ModNext, SlotsAssumption, MaxFramesAssumption
    <3> QED
      BY <1>0, <2>2, <3>1, <3>2 DEF CursorsA
  <2> QED
    BY <1>0, <2>1, <2>2, <2>3 DEF CursorsA, InferLeft, InferHoldsA
<1>2. CASE InferTake
  <2>1. UNCHANGED <<recv, frameNum, wA>> /\ infer = "woken" /\ infer' = "run"
    BY <1>2 DEF InferTake, OthersOfInfer, recvVars
  <2>2. Got' = Got + 1 /\ Got' - 1 = Got /\ Got' > 0
    BY <1>0, <2>1, PutStep DEF Got, One
  <2>3. rA' = Got % Slots
    BY <1>0, <1>2, <2>1 DEF InferTake, CursorsA, InferLeft
  <2>4. ringA'.readIdx = Got' % Slots /\ ringA'.writeIdx = ringA.writeIdx
    <3>1. /\ ringA'.readIdx = (ringA.readIdx + 1) % Slots
          /\ ringA'.writeIdx = ringA.writeIdx
      BY <1>0, <1>2, StepsOfA DEF InferTake, Is
    <3>2. ((Got % Slots) + 1) % Slots = (Got + 1) % Slots
      BY <1>0, RA!ModNext, SlotsAssumption, MaxFramesAssumption
    <3> QED
      BY <1>0, <2>1, <2>2, <3>1, <3>2 DEF CursorsA, InferLeft
  <2> QED
    BY <1>0, <2>1, <2>2, <2>3, <2>4 DEF CursorsA, RecvHolds
<1>3. CASE ~RecvTake /\ ~InferTake
  <2>1. InferHoldsA' => ~InferLeft'
    BY DEF InferHoldsA, InferLeft
  <2> QED
    BY <1>0, <1>3, <2>1, OthersA DEF CursorsA
<1> QED
  BY <1>1, <1>2, <1>3

\* The same for ring B.
LEMMA OthersB ==
  ASSUME IInv, [Next]_vars, ~InferTakeB, ~UploadTake
  PROVE  /\ ringB'.writeIdx = ringB.writeIdx /\ ringB'.readIdx = ringB.readIdx
         /\ UNCHANGED <<wB, rB>>
         /\ InferHoldsB' => InferHoldsB
         /\ UploadHolds' => UploadHolds
         /\ Put' = Put /\ Fetched' = Fetched
<1> USE DEF InferHoldsB, UploadHolds, Fetched, One
<1>0. /\ ringB \in A!RingType /\ uploaded \in Nat
      /\ Put' = IF infer = "wokenB" /\ infer' = "copy" THEN Put + 1 ELSE Put
  BY PutStep, Idx DEF IInv, TypeOK
<1>1. CASE RecvStep \/ RecvCapture \/ RecvSourceEnds
  BY <1>0, <1>1 DEF RecvStep, RecvTop, RecvCapture, RecvSourceEnds, RecvWake, RecvTake,
    RecvRefused, RecvWrite, RecvCommit, RecvShutdown, OthersOfRecv, inferVars, uploadVars
<1>2. CASE InferStep
  <2>1. /\ UNCHANGED <<wB, rB, upload, uploaded>>
        /\ InferHoldsB' => InferHoldsB
        /\ ~(infer = "wokenB" /\ infer' = "copy")
    BY <1>2 DEF InferStep, InferWake, InferTake, InferRefused, InferRun, InferWakeB,
      InferRefusedB, InferGiveUp, InferCopy, InferRelease, InferCommit,
      InferShutdown, OthersOfInfer, uploadVars
  <2>2. ringB'.writeIdx = ringB.writeIdx /\ ringB'.readIdx = ringB.readIdx
    BY <1>0, <1>2, StepsOfB DEF InferStep, InferWake, InferTake, InferRefused, InferRun,
      InferWakeB, InferRefusedB, InferGiveUp, InferCopy, InferRelease, InferCommit,
      InferShutdown, Is
  <2> QED
    BY <1>0, <2>1, <2>2
<1>3. CASE UploadStep
  <2>1. UNCHANGED <<infer, wB, rB>> /\ (UploadHolds' => UploadHolds) /\ Fetched' = Fetched
    BY <1>0, <1>3 DEF UploadStep, UploadWake, UploadRefused, UploadSend,
      UploadRelease, OthersOfUpload, inferVars
  <2>2. ringB'.writeIdx = ringB.writeIdx /\ ringB'.readIdx = ringB.readIdx
    BY <1>0, <1>3, StepsOfB DEF UploadStep, UploadWake, UploadRefused, UploadSend,
      UploadRelease, Is
  <2> QED
    BY <1>0, <2>1, <2>2
<1>4. ASSUME NEW s \in Signals, HandlerStep(s)
      PROVE  /\ ringB'.writeIdx = ringB.writeIdx /\ ringB'.readIdx = ringB.readIdx
             /\ UNCHANGED <<infer, wB, upload, rB, uploaded>>
  <2>1. UNCHANGED <<infer, wB, upload, rB, uploaded>>
    BY <1>4 DEF HandlerStep, HandlerA, HandlerB, inferVars, uploadVars
  <2>2. B!SetShutdown \/ B!WakeProducer \/ B!WakeConsumer \/ UNCHANGED ringB
    BY <1>4 DEF HandlerStep, HandlerA, HandlerB
  <2> QED
    BY <1>0, <2>1, <2>2, StepsOfB DEF Is
<1>5. CASE Interrupted
  BY <1>0, <1>5, StepsOfB DEF Interrupted
<1>6. CASE Joined \/ UNCHANGED vars
  BY <1>0, <1>6 DEF Joined, vars, inferVars, uploadVars
<1> QED
  BY <1>0, <1>1, <1>2, <1>3, <1>4, <1>5, <1>6 DEF Next

\* Each step keeps CursorsB.
LEMMA NextCursorsB == IInv /\ [Next]_vars => CursorsB'
<1> SUFFICES ASSUME IInv, [Next]_vars PROVE CursorsB'
  OBVIOUS
<1>0. /\ CursorsB
      /\ ringB \in A!RingType /\ Slots \in Nat \ {0}
      /\ Put \in Nat /\ uploaded \in Nat /\ Fetched \in Nat
  BY Idx DEF IInv, TypeOK, Numbers, Fetched, One
<1>1. CASE InferTakeB
  <2>1. UNCHANGED <<upload, uploaded, rB>> /\ Fetched' = Fetched
    BY <1>1 DEF InferTakeB, OthersOfInfer, uploadVars, Fetched
  <2>2. /\ Put' = Put + 1 /\ Put' - 1 = Put /\ Put' > 0
        /\ wB' = Put % Slots
    BY <1>0, <1>1, PutStep DEF InferTakeB, CursorsB
  <2>3. ringB'.writeIdx = Put' % Slots /\ ringB'.readIdx = ringB.readIdx
    <3>1. /\ ringB'.writeIdx = (ringB.writeIdx + 1) % Slots
          /\ ringB'.readIdx = ringB.readIdx
      BY <1>0, <1>1, StepsOfB DEF InferTakeB, Is
    <3>2. ((Put % Slots) + 1) % Slots = (Put + 1) % Slots
      BY <1>0, RA!ModNext, SlotsAssumption, MaxFramesAssumption
    <3> QED
      BY <1>0, <2>2, <3>1, <3>2 DEF CursorsB
  <2> QED
    BY <1>0, <2>1, <2>2, <2>3 DEF CursorsB, UploadHolds
<1>2. CASE UploadTake
  <2>1. UNCHANGED <<infer, wB, uploaded>> /\ upload = "woken" /\ upload' = "send"
    BY <1>2 DEF UploadTake, OthersOfUpload, inferVars
  <2>2. Put' = Put /\ Fetched' = Fetched + 1 /\ Fetched' - 1 = Fetched /\ Fetched' > 0
    BY <1>0, <2>1, PutStep DEF Fetched, One
  <2>3. rB' = Fetched % Slots
    BY <1>0, <1>2 DEF UploadTake, CursorsB
  <2>4. ringB'.readIdx = Fetched' % Slots /\ ringB'.writeIdx = ringB.writeIdx
    <3>1. /\ ringB'.readIdx = (ringB.readIdx + 1) % Slots
          /\ ringB'.writeIdx = ringB.writeIdx
      BY <1>0, <1>2, StepsOfB DEF UploadTake, Is
    <3>2. ((Fetched % Slots) + 1) % Slots = (Fetched + 1) % Slots
      BY <1>0, RA!ModNext, SlotsAssumption, MaxFramesAssumption
    <3> QED
      BY <1>0, <2>2, <3>1, <3>2 DEF CursorsB
  <2> QED
    BY <1>0, <2>1, <2>2, <2>3, <2>4 DEF CursorsB, InferHoldsB
<1>3. CASE ~InferTakeB /\ ~UploadTake
  BY <1>0, <1>3, OthersB DEF CursorsB
<1> QED
  BY <1>1, <1>2, <1>3

-----------------------------------------------------------------------------
\* Apart from recv's writes and its commit, no step touches a slot of ring A that
\* holds a frame.
LEMMA QuietA ==
  ASSUME IInv, [Next]_vars, ~RecvWrite, ~RecvCommit
  PROVE  /\ slotsA' = slotsA
         /\ FirstA' >= FirstA /\ FilledA' = FilledA
         /\ recv' \in {"input", "orig", "commit"} => UNCHANGED <<recv, wA, frameNum>>
<1> USE DEF FirstA, FilledA, Got, One, RecvHolds, InferHoldsA
<1>0. /\ Put \in Nat /\ frameNum \in Nat
      /\ Put' = IF infer = "wokenB" /\ infer' = "copy" THEN Put + 1 ELSE Put
  BY PutStep DEF IInv, TypeOK, Numbers
<1>1. CASE RecvStep \/ RecvCapture \/ RecvSourceEnds
  BY <1>0, <1>1 DEF RecvStep, RecvTop, RecvCapture, RecvSourceEnds, RecvWake, RecvTake,
    RecvRefused, RecvShutdown, OthersOfRecv, inferVars
<1>2. CASE InferStep
  <2>1. UNCHANGED <<slotsA, recv, wA, frameNum>>
    BY <1>2 DEF InferStep, InferWake, InferTake, InferRefused, InferRun, InferWakeB,
      InferTakeB, InferRefusedB, InferGiveUp, InferCopy, InferRelease, InferCommit,
      InferShutdown, OthersOfInfer, recvVars
  <2>2. FirstA' >= FirstA
    BY <1>0, <1>2 DEF InferStep, InferWake, InferTake, InferRefused, InferRun, InferWakeB,
      InferTakeB, InferRefusedB, InferGiveUp, InferCopy, InferRelease, InferCommit,
      InferShutdown
  <2> QED
    BY <2>1, <2>2
<1>3. CASE UploadStep
  BY <1>0, <1>3 DEF UploadStep, UploadWake, UploadTake, UploadRefused, UploadSend,
    UploadRelease, OthersOfUpload, recvVars, inferVars
<1>4. ASSUME NEW s \in Signals, HandlerStep(s)
      PROVE  UNCHANGED <<slotsA, recv, wA, frameNum, infer>>
  BY <1>4 DEF HandlerStep, HandlerA, HandlerB, recvVars, inferVars
<1>5. CASE Interrupted
  BY <1>0, <1>5 DEF Interrupted
<1>6. CASE Joined \/ UNCHANGED vars
  BY <1>0, <1>6 DEF Joined, vars, recvVars, inferVars
<1> QED
  BY <1>0, <1>1, <1>2, <1>3, <1>4, <1>5, <1>6 DEF Next

\* Each step keeps ContentsA: recv_loop's writes hit no slot in use, and complete the
\* slot before the commit.
LEMMA NextContentsA == IInv /\ [Next]_vars => ContentsA'
<1> SUFFICES ASSUME IInv, [Next]_vars PROVE ContentsA'
  OBVIOUS
<1>0. /\ ContentsA
      /\ slotsA \in [0 .. Slots - 1 -> InferSlot] /\ wA \in 0 .. Slots - 1
      /\ Put \in Nat /\ Got \in Nat /\ frameNum \in Nat
      /\ FirstA \in Int /\ FilledA \in Int
  BY Idx DEF IInv, TypeOK, Numbers, FirstA, FilledA, Got, One
<1>1. CASE RecvWrite
  <2>1. UNCHANGED <<infer, frameNum, wA>> /\ RecvHolds /\ RecvHolds'
    BY <1>1 DEF RecvWrite, OthersOfRecv, inferVars, RecvHolds
  <2>2. captured = frameNum
    <3>1. recv \in {"number", "input", "orig"}
      BY <1>1 DEF RecvWrite
    <3>2. captured = frameNum + One(recv \in {"waiting", "woken"})
      BY <3>1 DEF IInv, Captures, RecvLeft
    <3> QED
      BY <1>0, <3>1, <3>2 DEF One
  <2>3. FirstA' = FirstA /\ FilledA' = FilledA
    BY <2>1, PutStep DEF FirstA, FilledA, Got, One, InferHoldsA
  <2>4. ASSUME NEW k \in FirstA .. FilledA
        PROVE  slotsA'[(k - 1) % Slots] = [frame_number |-> k, input |-> k, orig |-> k]
    <3>1. (k - 1) % Slots # wA
      BY <2>1, WriterApartA
    <3>2. (k - 1) % Slots \in 0 .. Slots - 1
      BY <2>1, Idx, WriterApartA, RA!ModFacts, SlotsAssumption, MaxFramesAssumption
    <3>3. slotsA[(k - 1) % Slots] = [frame_number |-> k, input |-> k, orig |-> k]
      BY <1>0 DEF ContentsA
    <3> DEFINE i == (k - 1) % Slots
    <3> HIDE DEF i
    <3>4. slotsA'[i] = slotsA[i]
      BY <1>0, <1>1, <3>1, <3>2 DEF RecvWrite, i
    <3> QED
      BY <3>3, <3>4 DEF i
  <2>5. /\ recv' = "input" => slotsA'[wA].frame_number = frameNum
        /\ recv' = "orig" => /\ slotsA'[wA].frame_number = frameNum
                             /\ slotsA'[wA].input = frameNum
        /\ recv' = "commit" => /\ slotsA'[wA].frame_number = frameNum
                               /\ slotsA'[wA].input = frameNum
                               /\ slotsA'[wA].orig = frameNum
    <3>1. slotsA[wA] \in InferSlot
      BY <1>0
    <3>2. CASE recv = "number"
      <4>1. recv' = "input" /\ slotsA' = [slotsA EXCEPT ![wA].frame_number = frameNum]
        BY <1>1, <3>2 DEF RecvWrite
      <4> QED
        BY <1>0, <3>1, <4>1 DEF InferSlot
    <3>3. CASE recv = "input"
      <4>1. /\ recv' = "orig" /\ slotsA' = [slotsA EXCEPT ![wA].input = captured]
            /\ slotsA[wA].frame_number = frameNum
        BY <1>0, <1>1, <3>3 DEF RecvWrite, ContentsA
      <4> QED
        BY <1>0, <2>2, <3>1, <4>1 DEF InferSlot
    <3>4. CASE recv = "orig"
      <4>1. /\ recv' = "commit" /\ slotsA' = [slotsA EXCEPT ![wA].orig = captured]
            /\ slotsA[wA].frame_number = frameNum /\ slotsA[wA].input = frameNum
        BY <1>0, <1>1, <3>4 DEF RecvWrite, ContentsA
      <4> QED
        BY <1>0, <2>2, <3>1, <4>1 DEF InferSlot
    <3> QED
      BY <1>1, <3>2, <3>3, <3>4 DEF RecvWrite
  <2>6. recv' \in {"input", "orig", "commit"}
    BY <1>1 DEF RecvWrite
  <2> QED
    BY <2>1, <2>3, <2>4, <2>5, <2>6 DEF ContentsA
<1>2. CASE RecvCommit
  <2>1. /\ UNCHANGED <<infer, frameNum, slotsA>>
        /\ recv = "commit" /\ recv' = "top"
    BY <1>2 DEF RecvCommit, OthersOfRecv, inferVars
  <2>2. FirstA' = FirstA /\ FilledA = frameNum - 1 /\ FilledA' = frameNum
    BY <1>0, <2>1, PutStep DEF FirstA, FilledA, Got, One, InferHoldsA, RecvHolds
  <2>3. slotsA[(frameNum - 1) % Slots] =
          [frame_number |-> frameNum, input |-> frameNum, orig |-> frameNum]
    BY <1>0, <2>1 DEF ContentsA, InferSlot, IInv, CursorsA, RecvHolds
  <2> QED
    BY <1>0, <2>1, <2>2, <2>3 DEF ContentsA
<1>3. CASE ~RecvWrite /\ ~RecvCommit
  <2>1. FirstA' \in Int
    BY <1>0, PutStep DEF FirstA, Got, One
  <2>2. /\ slotsA' = slotsA
        /\ FirstA' >= FirstA /\ FilledA' = FilledA
        /\ recv' \in {"input", "orig", "commit"} => UNCHANGED <<recv, wA, frameNum>>
    BY <1>3, QuietA
  <2>3. ASSUME NEW k \in FirstA' .. FilledA'
        PROVE  slotsA'[(k - 1) % Slots] = [frame_number |-> k, input |-> k, orig |-> k]
    <3>1. k \in FirstA .. FilledA
      BY <1>0, <2>1, <2>2
    <3> QED
      BY <1>0, <2>2, <3>1 DEF ContentsA
  <2>4. /\ recv' \in {"input", "orig", "commit"} => slotsA'[wA'].frame_number = frameNum'
        /\ recv' \in {"orig", "commit"} => slotsA'[wA'].input = frameNum'
        /\ recv' = "commit" => slotsA'[wA'].orig = frameNum'
    BY <1>0, <2>2 DEF ContentsA
  <2> QED
    BY <2>3, <2>4 DEF ContentsA
<1> QED
  BY <1>1, <1>2, <1>3

\* Apart from infer's copy, no step touches a slot of ring B that holds a frame.
LEMMA QuietB ==
  ASSUME IInv, [Next]_vars, ~InferCopy
  PROVE  /\ slotsB' = slotsB
         /\ FirstB' >= FirstB
         /\ Put' - One(infer' = "copy") = Put - One(infer = "copy")
<1> USE DEF FirstB, Fetched, One, UploadHolds
<1>0. /\ Put \in Nat /\ uploaded \in Nat
      /\ Put' = IF infer = "wokenB" /\ infer' = "copy" THEN Put + 1 ELSE Put
  BY PutStep DEF IInv, TypeOK, Numbers
<1>1. CASE RecvStep \/ RecvCapture \/ RecvSourceEnds
  BY <1>0, <1>1 DEF RecvStep, RecvTop, RecvCapture, RecvSourceEnds, RecvWake, RecvTake,
    RecvRefused, RecvWrite, RecvCommit, RecvShutdown, OthersOfRecv, inferVars, uploadVars
<1>2. CASE InferStep
  BY <1>0, <1>2 DEF InferStep, InferWake, InferTake, InferRefused, InferRun, InferWakeB,
    InferTakeB, InferRefusedB, InferGiveUp, InferRelease, InferCommit, InferShutdown,
    OthersOfInfer, uploadVars
<1>3. CASE UploadStep
  BY <1>0, <1>3 DEF UploadStep, UploadWake, UploadTake, UploadRefused, UploadSend,
    UploadRelease, OthersOfUpload, inferVars
<1>4. ASSUME NEW s \in Signals, HandlerStep(s)
      PROVE  UNCHANGED <<slotsB, infer, upload, uploaded>>
  BY <1>4 DEF HandlerStep, HandlerA, HandlerB, inferVars, uploadVars
<1>5. CASE Interrupted
  BY <1>0, <1>5 DEF Interrupted
<1>6. CASE Joined \/ UNCHANGED vars
  BY <1>0, <1>6 DEF Joined, vars, inferVars, uploadVars
<1> QED
  BY <1>0, <1>1, <1>2, <1>3, <1>4, <1>5, <1>6 DEF Next

\* The detections infer has in hand are those of the frame it has in hand.
LEMMA NextDets ==
  ASSUME IInv, [Next]_vars, infer' \in {"waitingB", "wokenB", "copy"}
  PROVE  dets' = Got'
<1> USE DEF Got, One
<1>0. /\ Put \in Nat
      /\ Put' = IF infer = "wokenB" /\ infer' = "copy" THEN Put + 1 ELSE Put
      /\ infer \in {"waitingB", "wokenB", "copy"} => dets = Got
  BY PutStep DEF IInv, TypeOK, Numbers, ContentsB
<1>1. CASE InferRun
  BY <1>0, <1>1, HeldByInfer DEF InferRun, InferHoldsA
<1>2. CASE InferStep /\ ~InferRun
  BY <1>0, <1>2 DEF InferStep, InferWake, InferTake, InferRefused, InferWakeB,
    InferTakeB, InferRefusedB, InferGiveUp, InferCopy, InferRelease, InferCommit,
    InferShutdown
<1>3. CASE ~InferStep
  <2>1. UNCHANGED <<infer, dets>> \/ infer' \in {"leaving", "giveUp"}
    BY <1>3 DEF Next, RecvStep, RecvTop, RecvCapture, RecvSourceEnds, RecvWake,
      RecvTake, RecvRefused, RecvWrite, RecvCommit, RecvShutdown, OthersOfRecv,
      UploadStep, UploadWake, UploadTake, UploadRefused, UploadSend, UploadRelease,
      OthersOfUpload, HandlerStep, HandlerA, HandlerB, Interrupted, Joined, vars, inferVars
  <2> QED
    BY <1>0, <2>1
<1> QED
  BY <1>1, <1>2, <1>3

\* Each step keeps ContentsB: infer_loop's copy hits no slot in use and puts number,
\* detections and image of one frame there.
LEMMA NextContentsB == IInv /\ [Next]_vars => ContentsB'
<1> SUFFICES ASSUME IInv, [Next]_vars PROVE ContentsB'
  OBVIOUS
<1>0. /\ ContentsB
      /\ slotsB \in [0 .. Slots - 1 -> UploadSlot] /\ wB \in 0 .. Slots - 1
      /\ Put \in Nat /\ uploaded \in Nat
      /\ FirstB \in Int /\ FilledB \in Int
  BY Idx DEF IInv, TypeOK, Numbers, FirstB, FilledB, Fetched, One
<1>1. CASE InferCopy
  <2>1. /\ UNCHANGED <<upload, uploaded, wB>>
        /\ infer = "copy" /\ infer' = "release"
    BY <1>1 DEF InferCopy, OthersOfInfer, uploadVars
  <2>2. FirstB' = FirstB /\ FilledB = Put - 1 /\ Put' = Put
    BY <2>1, PutStep DEF FirstB, FilledB, Fetched, One, UploadHolds, InferHoldsB
  <2>3. wB = (Put - 1) % Slots /\ Got = Put
    BY <1>0, <2>1 DEF IInv, CursorsB, InferHoldsB, Got, One
  <2>4. slotsB' = [slotsB EXCEPT ![wB] = [frame_number |-> Put, dets |-> Put, orig |-> Put]]
    <3>1. slotsA[rA].frame_number = Put /\ slotsA[rA].orig = Put
      BY <2>1, <2>3, HeldByInfer DEF InferHoldsA
    <3>2. dets = Put
      BY <1>0, <2>1, <2>3 DEF ContentsB
    <3> QED
      BY <1>1, <3>1, <3>2 DEF InferCopy
  <2>5. ASSUME NEW k \in FirstB .. Put
        PROVE  slotsB'[(k - 1) % Slots] = [frame_number |-> k, dets |-> k, orig |-> k]
    <3>1. CASE k = Put
      BY <1>0, <2>3, <2>4, <3>1
    <3>2. CASE k \in FirstB .. FilledB
      <4> DEFINE i == (k - 1) % Slots
      <4>1. i # wB /\ k - 1 \in Nat
        BY <2>1, <3>2, WriterApartB DEF InferHoldsB
      <4>2. i \in 0 .. Slots - 1
        BY <4>1, Idx, RA!ModFacts, SlotsAssumption, MaxFramesAssumption
      <4>3. slotsB[i] = [frame_number |-> k, dets |-> k, orig |-> k]
        BY <1>0, <2>1, <2>2, <3>2 DEF ContentsB, One
      <4> HIDE DEF i
      <4>4. slotsB'[i] = slotsB[i]
        BY <1>0, <2>4, <4>1, <4>2
      <4> QED
        BY <4>3, <4>4 DEF i
    <3> QED
      BY <1>0, <2>2, <3>1, <3>2
  <2> QED
    BY <1>0, <2>1, <2>2, <2>5 DEF ContentsB, One
<1>2. CASE ~InferCopy
  <2>1. FirstB' \in Int
    BY <1>0, PutStep, NextType DEF FirstB, Fetched, One, IInv, TypeOK
  <2>2. /\ slotsB' = slotsB
        /\ FirstB' >= FirstB
        /\ Put' - One(infer' = "copy") = Put - One(infer = "copy")
    BY <1>2, QuietB
  <2>3. ASSUME NEW k \in FirstB' .. Put' - One(infer' = "copy")
        PROVE  slotsB'[(k - 1) % Slots] = [frame_number |-> k, dets |-> k, orig |-> k]
    <3>1. k \in FirstB .. Put - One(infer = "copy")
      BY <1>0, <2>1, <2>2 DEF One
    <3> QED
      BY <1>0, <2>2, <3>1 DEF ContentsB
  <2> QED
    BY <2>3, NextDets DEF ContentsB
<1> QED
  BY <1>1, <1>2

-----------------------------------------------------------------------------
\* The rings start empty, with every slot free.
LEMMA InitIInv == Init => IInv
<1> SUFFICES ASSUME Init PROVE IInv
  OBVIOUS
<1>1. TypeOK
  BY InitType
<1>2. Put = 0 /\ Got = 0 /\ Fetched = 0
  BY Idx DEF Init, Put, Got, Fetched, One, None
<1>3. 0 % Slots = 0
  BY Idx
<1>4. /\ recv = "top" /\ infer = "waiting" /\ upload = "waiting"
      /\ frameNum = 0 /\ captured = 0 /\ Slots \in Nat
      /\ ringA.emptyCount = Slots /\ ringA.fillCount = 0
      /\ ringB.emptyCount = Slots /\ ringB.fillCount = 0
  BY Idx DEF Init, A!NewRing, B!NewRing
<1>5. /\ One(RecvHolds) = 0 /\ One(InferHoldsA) = 0
      /\ One(InferHoldsB) = 0 /\ One(UploadHolds) = 0
      /\ One(recv = "woken") = 0 /\ One(infer = "woken") = 0
      /\ One(infer = "wokenB") = 0 /\ One(upload = "woken") = 0
  BY <1>4 DEF One, RecvHolds, InferHoldsA, InferHoldsB, UploadHolds
<1>6. FilledA = 0 /\ FilledB = 0
  BY <1>2, <1>4, <1>5 DEF FilledA, FilledB
<1>7. Numbers /\ TokensA /\ TokensB
  BY <1>2, <1>4, <1>5, <1>6 DEF Numbers, TokensA, TokensB
<1>8. Captures
  BY <1>4 DEF Captures, One
<1>9. FlagFirst
  BY DEF Init, FlagFirst, RecvLeft, InferLeft, A!NewRing, B!NewRing
<1>10. CursorsA /\ CursorsB
  BY <1>2, <1>3
  DEF Init, CursorsA, CursorsB, RecvHolds, InferHoldsA, InferHoldsB, UploadHolds,
      A!NewRing, B!NewRing
<1>11. ContentsA /\ ContentsB
  BY <1>2
  DEF Init, ContentsA, ContentsB, FirstA, FirstB, FilledA, One, RecvHolds,
      InferHoldsA, UploadHolds
<1> QED
  BY <1>1, <1>9, <1>10, <1>11, <1>7, <1>8 DEF IInv

\* IInv is inductive: each step of each thread and handler keeps it.
LEMMA NextIInv == IInv /\ [Next]_vars => IInv'
BY NextType, NextCounts, NextFlags, NextCursorsA, NextCursorsB, NextContentsA,
   NextContentsB DEF IInv, Counts

\* The counts, the tokens, the indices and the contents of both rings agree in every
\* reachable state of pipeline.cpp's threads.
THEOREM Invariance == Spec => []IInv
<1> QED
  BY InitIInv, NextIInv, PTL DEF Spec

-----------------------------------------------------------------------------
\* No slot of either ring is written by one thread while another has it, for any
\* kRingSlots and any number of signals, through a shutdown included (recv_loop,
\* infer_loop and upload_loop of pipeline.cpp).
THEOREM SlotsApart == Spec => []SlotsExclusive
<1> QED
  BY Exclusion, Invariance, PTL

\* What upload_loop sends is the next frame in the order of capture, with number,
\* detections and image of that frame, whatever the signals and the end of the source
\* interrupt: nothing is skipped, repeated, reordered or mixed up.
THEOREM UploadsCoherent == Spec => []CoherentUpload
<1>1. IInv => CoherentUpload
  <2> SUFFICES ASSUME IInv PROVE CoherentUpload
    OBVIOUS
  <2>1. uploaded \in Nat
    BY DEF IInv, TypeOK
  <2>2. CASE upload = "send"
    BY <2>1, <2>2, HeldByUpload DEF CoherentUpload, UploadHolds, Fetched, One
  <2>3. CASE upload = "release"
    BY <2>1, <2>3, HeldByUpload DEF CoherentUpload, UploadHolds, Fetched, One
  <2> QED
    BY <2>2, <2>3 DEF CoherentUpload
<1> QED
  BY <1>1, Invariance, PTL

\* No more than two rings of frames, and the one in recv_loop's hand, are captured and
\* not uploaded: a slow send_detection() stops the capture.
THEOREM BackPressure == Spec => []InFlightBounded
<1>1. IInv => InFlightBounded
  BY Idx DEF IInv, TypeOK, Numbers, Captures, InFlightBounded, Got, Fetched, One,
    InferHoldsA, UploadHolds
<1> QED
  BY <1>1, Invariance, PTL

-----------------------------------------------------------------------------
(* Each ring of the pipeline is used as RingBufferSPSC uses its ring.      *)

\* Until infer_loop leaves, the two ways to count what it has taken agree.
TakenIsGot == ~InferLeft => Taken = Got

\* What the proofs of this section take from the states.
Linked == IInv /\ TakenIsGot /\ captured <= MaxFrames

\* The counts of ring A and ring B step by one, at a commit of the producer and at an
\* acquisition of the consumer.
LEMMA CountSteps ==
  ASSUME Linked, [Next]_vars
  PROVE  /\ FilledA' = IF recv = "commit" /\ recv' = "top" THEN FilledA + 1 ELSE FilledA
         /\ Taken' = IF infer = "woken" /\ infer' = "run" THEN Taken + 1 ELSE Taken
         /\ FilledB' = IF infer = "commit" /\ infer' = "waiting" THEN FilledB + 1 ELSE FilledB
         /\ Fetched' = IF upload = "woken" /\ upload' = "send" THEN Fetched + 1 ELSE Fetched
<1> USE DEF FilledA, Taken, FilledB, Fetched, One, RecvHolds, InferHoldsB
<1>0. /\ Put \in Nat /\ frameNum \in Nat /\ dets \in Nat /\ uploaded \in Nat
      /\ Put' = IF infer = "wokenB" /\ infer' = "copy" THEN Put + 1 ELSE Put
  BY PutStep DEF Linked, IInv, TypeOK, Numbers
<1>1. CASE RecvStep \/ RecvCapture \/ RecvSourceEnds
  BY <1>0, <1>1 DEF RecvStep, RecvTop, RecvCapture, RecvSourceEnds, RecvWake, RecvTake,
    RecvRefused, RecvWrite, RecvCommit, RecvShutdown, OthersOfRecv, inferVars, uploadVars
<1>2. CASE InferRun
  <2>1. infer = "run" /\ infer' = "waitingB" /\ dets' = Got
    BY <1>2, HeldByInfer DEF InferRun, Linked, InferHoldsA
  <2>2. Taken = Got
    BY <2>1 DEF Linked, TakenIsGot, InferLeft
  <2>3. Taken' = Taken
    BY <1>0, <2>1, <2>2 DEF Got
  <2>4. UNCHANGED <<recv, frameNum, upload, uploaded>>
    BY <1>2 DEF InferRun, OthersOfInfer, recvVars, uploadVars
  <2> QED
    BY <1>0, <2>1, <2>3, <2>4
<1>3. CASE InferStep /\ ~InferRun
  <2>1. UNCHANGED <<recv, frameNum, upload, uploaded, dets>>
    BY <1>3 DEF InferStep, InferWake, InferTake, InferRefused, InferWakeB,
      InferTakeB, InferRefusedB, InferGiveUp, InferCopy, InferRelease, InferCommit,
      InferShutdown, OthersOfInfer, recvVars, uploadVars
  <2> QED
    BY <1>0, <1>3, <2>1 DEF InferStep, InferWake, InferTake, InferRefused, InferWakeB,
      InferTakeB, InferRefusedB, InferGiveUp, InferCopy, InferRelease, InferCommit,
      InferShutdown
<1>4. CASE UploadStep
  BY <1>0, <1>4 DEF UploadStep, UploadWake, UploadTake, UploadRefused, UploadSend,
    UploadRelease, OthersOfUpload, recvVars, inferVars
<1>5. ASSUME NEW s \in Signals, HandlerStep(s)
      PROVE  UNCHANGED <<recv, frameNum, infer, dets, upload, uploaded>>
  BY <1>5 DEF HandlerStep, HandlerA, HandlerB, recvVars, inferVars, uploadVars
<1>6. CASE Interrupted
  BY <1>0, <1>6 DEF Interrupted
<1>7. CASE Joined \/ UNCHANGED vars
  BY <1>0, <1>7 DEF Joined, vars, recvVars, inferVars, uploadVars
<1> QED
  BY <1>0, <1>1, <1>2, <1>3, <1>4, <1>5, <1>6, <1>7 DEF Next

\* Each step keeps the agreement, and captures no frame beyond the last.
LEMMA NextLinked == Linked /\ [Next]_vars => Linked'
<1> SUFFICES ASSUME Linked, [Next]_vars PROVE Linked'
  OBVIOUS
<1>0. /\ Put \in Nat /\ dets \in Nat
      /\ Put' = IF infer = "wokenB" /\ infer' = "copy" THEN Put + 1 ELSE Put
      /\ Taken' = IF infer = "woken" /\ infer' = "run" THEN Taken + 1 ELSE Taken
      /\ TakenIsGot
  BY PutStep, CountSteps DEF Linked, IInv, TypeOK, Numbers
<1>1. TakenIsGot'
  <2> USE DEF TakenIsGot, InferLeft, Got, One, Taken
  <2>1. CASE InferStep
    BY <1>0, <2>1 DEF InferStep, InferWake, InferTake, InferRefused, InferRun, InferWakeB,
      InferTakeB, InferRefusedB, InferGiveUp, InferCopy, InferRelease, InferCommit,
      InferShutdown
  <2>2. CASE ~InferStep
    <3>1. infer' = infer \/ (infer = "waitingB" /\ infer' = "giveUp") \/ infer' = "leaving"
      BY <2>2 DEF Next, RecvStep, RecvTop, RecvCapture, RecvSourceEnds, RecvWake,
        RecvTake, RecvRefused, RecvWrite, RecvCommit, RecvShutdown, OthersOfRecv,
        UploadStep, UploadWake, UploadTake, UploadRefused, UploadSend, UploadRelease,
        OthersOfUpload, HandlerStep, HandlerA, HandlerB, Interrupted, Joined, vars, inferVars
    <3> QED
      BY <1>0, <3>1
  <2> QED
    BY <2>1, <2>2
<1>2. captured' <= MaxFrames
  <2>1. CASE RecvCapture
    BY <2>1, MaxFramesAssumption DEF RecvCapture, Linked, IInv, TypeOK
  <2>2. CASE ~RecvCapture
    <3>1. captured' = captured
      BY <2>2 DEF Next, RecvStep, RecvTop, RecvSourceEnds, RecvWake,
        RecvTake, RecvRefused, RecvWrite, RecvCommit, RecvShutdown,
        InferStep, InferWake, InferTake, InferRefused, InferRun, InferWakeB,
        InferTakeB, InferRefusedB, InferGiveUp, InferCopy, InferRelease, InferCommit,
        InferShutdown, OthersOfInfer,
        UploadStep, UploadWake, UploadTake, UploadRefused, UploadSend, UploadRelease,
        OthersOfUpload, HandlerStep, HandlerA, HandlerB, Interrupted, Joined, vars, recvVars
    <3> QED
      BY <3>1 DEF Linked
  <2> QED
    BY <2>1, <2>2
<1> QED
  BY <1>1, <1>2, NextIInv DEF Linked

\* The threads start as those of RingBufferSPSC, and no frame has been captured.
LEMMA InitLinked ==
  Init => Linked /\ RA!Init /\ RB!Init
<1> SUFFICES ASSUME Init PROVE Linked /\ RA!Init /\ RB!Init
  OBVIOUS
<1>1. /\ infer = "waiting" /\ upload = "waiting" /\ recv = "top"
      /\ frameNum = 0 /\ dets = 0 /\ uploaded = 0 /\ captured = 0
      /\ wA = 0 /\ rA = 0 /\ wB = 0 /\ rB = 0
      /\ Put = 0
  BY Idx DEF Init, Put, None
<1>2. FilledA = 0 /\ Taken = 0 /\ FilledB = 0 /\ Fetched = 0 /\ Got = 0
  <2>1. One(RecvHolds) = 0 /\ One(InferHoldsB) = 0
    BY <1>1 DEF One, RecvHolds, InferHoldsB
  <2>2. FilledA = 0 /\ FilledB = 0
    BY <1>1, <2>1 DEF FilledA, FilledB
  <2>3. Taken = 0 /\ Fetched = 0 /\ Got = 0
    BY <1>1 DEF Taken, Fetched, Got, One
  <2> QED
    BY <2>2, <2>3
<1>3. Linked
  BY <1>1, <1>2, InitIInv, MaxFramesAssumption DEF Linked, TakenIsGot
<1>4. ClosingA = [s \in Signals |-> "idle"] /\ ClosingB = [s \in Signals |-> "idle"]
  BY DEF Init, ClosingA, ClosingB, ClosingAfter
<1>5. /\ NumbersInA = [i \in RA!SlotIdx |-> 0] /\ NumbersInB = [i \in RB!SlotIdx |-> 0]
  BY DEF Init, NumbersInA, NumbersInB, None, A!SlotIdx, B!SlotIdx, RA!SlotIdx, RB!SlotIdx
<1>6. ringA = RA!NewRing /\ ringB = RB!NewRing
  BY DEF Init, A!NewRing, B!NewRing, RA!NewRing, RB!NewRing
<1>7. /\ ProducerOfA = "loop" /\ ConsumerOfA = "waiting"
      /\ ProducerOfB = "loop" /\ ConsumerOfB = "waiting"
  BY <1>1
  DEF ProducerOfA, ConsumerOfA, ProducerOfB, ConsumerOfB, InferHoldsA, UploadHolds
<1> QED
  BY <1>1, <1>2, <1>3, <1>4, <1>5, <1>6, <1>7 DEF RA!Init, RB!Init

\* A step of recv_loop is one of the producer of ring A, or none.
LEMMA RecvProduces ==
  ASSUME Linked, [Next]_vars, RecvStep \/ RecvCapture \/ RecvSourceEnds
  PROVE  RA!ProdStep \/ RA!ProdEnd \/ UNCHANGED RA!vars
<1>0. /\ UNCHANGED <<infer, rA, handler>> /\ Taken' = Taken
      /\ ConsumerOfA' = ConsumerOfA /\ ClosingA' = ClosingA
      /\ FilledA' = IF recv = "commit" /\ recv' = "top" THEN FilledA + 1 ELSE FilledA
  <2>1. UNCHANGED <<infer, rA, handler>>
    BY DEF RecvStep, RecvTop, RecvCapture, RecvSourceEnds, RecvWake, RecvTake,
      RecvRefused, RecvWrite, RecvCommit, RecvShutdown, OthersOfRecv, inferVars
  <2> QED
    BY <2>1, CountSteps DEF ConsumerOfA, ClosingA, InferHoldsA
<1>1. slotsA' = slotsA => NumbersInA' = NumbersInA
  BY DEF NumbersInA
<1> USE <1>0, <1>1, MethodsOfA DEF ProducerOfA, RA!ProdStep
<1>2. CASE RecvTop
  BY <1>2 DEF RecvTop, RA!ProdSeesFlag, RA!vars
<1>3. CASE RecvCapture
  <2>1. FilledA < MaxFrames
    BY <1>3, MaxFramesAssumption DEF RecvCapture, Linked, IInv, TypeOK, Captures, RecvLeft,
      FilledA, RecvHolds, One
  <2> QED
    BY <1>3, <2>1 DEF RecvCapture, RA!ProdCall
<1>4. CASE RecvSourceEnds
  BY <1>4 DEF RecvSourceEnds, RA!ProdEnd
<1>5. CASE RecvWake
  BY <1>5 DEF RecvWake, RA!ProdWake
<1>6. CASE RecvTake
  BY <1>6 DEF RecvTake, RA!ProdTake
<1>7. CASE RecvRefused
  BY <1>7 DEF RecvRefused, A!RefuseWrite, RA!ProdRefused
<1>8. CASE RecvWrite
  <2>1. CASE recv = "number"
    <3>1. /\ frameNum = FilledA + 1 /\ wA \in A!SlotIdx
          /\ slotsA \in [A!SlotIdx -> InferSlot]
      BY <2>1 DEF Linked, IInv, TypeOK, FilledA, RecvHolds, One
    <3>2. ASSUME NEW i \in A!SlotIdx
          PROVE  slotsA'[i].frame_number
                   = IF i = wA THEN frameNum ELSE slotsA[i].frame_number
      BY <1>8, <2>1, <3>1 DEF RecvWrite, InferSlot
    <3>3. NumbersInA' = [NumbersInA EXCEPT ![wA] = FilledA + 1]
      BY <3>1, <3>2, Zenon DEF NumbersInA
    <3> QED
      BY <1>8, <2>1, <3>3 DEF RecvWrite, RA!ProdWrite
  <2>2. CASE recv # "number"
    <3>1. ASSUME NEW i \in A!SlotIdx
          PROVE  slotsA'[i].frame_number = slotsA[i].frame_number
      BY <1>8, <2>2 DEF RecvWrite, InferSlot, Linked, IInv, TypeOK
    <3>2. NumbersInA' = NumbersInA
      BY <3>1, Zenon DEF NumbersInA
    <3> QED
      BY <1>8, <2>2, <3>2 DEF RecvWrite, RA!vars
  <2> QED
    BY <2>1, <2>2
<1>9. CASE RecvCommit
  BY <1>9 DEF RecvCommit, RA!ProdCommit
<1>10. CASE RecvShutdown
  BY <1>10 DEF RecvShutdown, RA!ProdShutdown
<1> QED
  BY <1>2, <1>3, <1>4, <1>5, <1>6, <1>7, <1>8, <1>9, <1>10 DEF RecvStep

\* A step of infer_loop is one of the consumer of ring A, or none.
LEMMA InferConsumes ==
  ASSUME Linked, [Next]_vars, InferStep
  PROVE  RA!Cons \/ UNCHANGED RA!vars
<1>0. /\ UNCHANGED <<slotsA, recv, wA, handler>> /\ FilledA' = FilledA
      /\ ProducerOfA' = ProducerOfA /\ ClosingA' = ClosingA /\ NumbersInA' = NumbersInA
      /\ Taken' = IF infer = "woken" /\ infer' = "run" THEN Taken + 1 ELSE Taken
  <2>1. UNCHANGED <<slotsA, recv, wA, frameNum, handler>>
    BY DEF InferStep, InferWake, InferTake, InferRefused, InferRun, InferWakeB,
      InferTakeB, InferRefusedB, InferGiveUp, InferCopy, InferRelease, InferCommit,
      InferShutdown, OthersOfInfer, recvVars
  <2> QED
    BY <2>1, CountSteps DEF ProducerOfA, ClosingA, NumbersInA, FilledA, RecvHolds
<1> USE <1>0, MethodsOfA DEF ConsumerOfA, InferHoldsA, RA!Cons
<1>1. CASE InferWake
  BY <1>1 DEF InferWake, RA!ConsWake
<1>2. CASE InferTake
  BY <1>2 DEF InferTake, RA!ConsTake
<1>3. CASE InferRefused
  BY <1>3 DEF InferRefused, A!RefuseRead, RA!ConsRefused
<1>4. CASE InferRelease
  BY <1>4 DEF InferRelease, RA!ConsCommit
<1>5. CASE InferGiveUp
  BY <1>5 DEF InferGiveUp, RA!ConsLeave, Linked, IInv, FlagFirst
<1>6. CASE InferRun \/ InferWakeB \/ InferTakeB \/ InferRefusedB
  BY <1>6 DEF InferRun, InferWakeB, InferTakeB, InferRefusedB, RA!vars
<1>7. CASE InferCopy \/ InferCommit \/ InferShutdown
  BY <1>7 DEF InferCopy, InferCommit, InferShutdown, RA!vars
<1> QED
  BY <1>1, <1>2, <1>3, <1>4, <1>5, <1>6, <1>7 DEF InferStep

\* A handler closes ring A with its first three steps; the others leave it alone.
LEMMA HandlerClosesA ==
  ASSUME Linked, [Next]_vars, NEW s \in Signals, HandlerStep(s)
  PROVE  RA!Close(s) \/ UNCHANGED RA!vars
<1>0. /\ handler \in [Signals -> 0 .. 6]
      /\ handler' = [handler EXCEPT ![s] = @ + 1]
  BY DEF Linked, IInv, TypeOK, HandlerStep, HandlerA, HandlerB
<1>1. /\ UNCHANGED <<slotsA, recv, infer, wA, rA>>
      /\ FilledA' = FilledA /\ Taken' = Taken
  <2>1. UNCHANGED <<slotsA, recv, infer, wA, rA>>
    BY DEF HandlerStep, HandlerA, HandlerB, recvVars, inferVars
  <2> QED
    BY <2>1, CountSteps
<1>2. /\ ProducerOfA' = ProducerOfA /\ ConsumerOfA' = ConsumerOfA
      /\ NumbersInA' = NumbersInA
  BY <1>1 DEF ProducerOfA, ConsumerOfA, InferHoldsA, NumbersInA
<1>3. ASSUME NEW u \in Signals
      PROVE  /\ ClosingA[u] = ClosingAfter(handler[u])
             /\ ClosingAfter(handler'[u])
                  = IF u = s THEN ClosingAfter(handler[s] + 1) ELSE ClosingAfter(handler[u])
  BY <1>0 DEF ClosingA
<1>4. ClosingA' = [ClosingA EXCEPT ![s] = ClosingAfter(handler[s] + 1)]
  BY <1>3, Zenon DEF ClosingA
<1>5. CASE HandlerA(s)
  <2>1. CASE handler[s] = 0 /\ A!SetShutdown
    <3>1. ClosingA[s] = "idle" /\ ClosingAfter(handler[s] + 1) = "flagged"
      BY <2>1, <1>3 DEF ClosingAfter
    <3> QED
      BY <1>1, <1>2, <1>4, <2>1, <3>1, MethodsOfA DEF RA!Close, RA!CloseBegin
  <2>2. CASE handler[s] = 1 /\ A!WakeProducer
    <3>1. ClosingA[s] = "flagged" /\ ClosingAfter(handler[s] + 1) = "wokeProducer"
      BY <2>2, <1>3 DEF ClosingAfter
    <3> QED
      BY <1>1, <1>2, <1>4, <2>2, <3>1, MethodsOfA DEF RA!Close, RA!CloseRest
  <2>3. CASE handler[s] = 2 /\ A!WakeConsumer
    <3>1. ClosingA[s] = "wokeProducer" /\ ClosingAfter(handler[s] + 1) = "done"
      BY <2>3, <1>3 DEF ClosingAfter
    <3> QED
      BY <1>1, <1>2, <1>4, <2>3, <3>1, MethodsOfA DEF RA!Close, RA!CloseRest
  <2> QED
    BY <1>5, <2>1, <2>2, <2>3 DEF HandlerA
<1>6. CASE HandlerB(s)
  <2>1. ClosingAfter(handler[s] + 1) = ClosingA[s] /\ ringA' = ringA
    BY <1>6, <1>0, <1>3 DEF HandlerB, ClosingAfter
  <2>2. ClosingA' = ClosingA
    BY <1>4, <2>1 DEF ClosingA
  <2> QED
    BY <1>1, <1>2, <2>1, <2>2 DEF RA!vars
<1> QED
  BY <1>5, <1>6 DEF HandlerStep

\* Every step of the pipeline is a step of the threads of ring A, or none.
LEMMA StepOfRingA ==
  ASSUME Linked, [Next]_vars
  PROVE  [RA!Next]_RA!vars
<1>1. CASE RecvStep \/ RecvCapture \/ RecvSourceEnds
  BY <1>1, RecvProduces DEF RA!Next
<1>2. CASE InferStep
  BY <1>2, InferConsumes DEF RA!Next
<1>3. CASE UploadStep
  <2>1. UNCHANGED <<ringA, slotsA, recv, frameNum, wA, infer, rA, dets, handler>>
    BY <1>3 DEF UploadStep, UploadWake, UploadTake, UploadRefused, UploadSend,
      UploadRelease, OthersOfUpload, recvVars, inferVars
  <2> QED
    BY <2>1 DEF RA!vars, ProducerOfA, ConsumerOfA, ClosingA, NumbersInA, FilledA, Taken,
      RecvHolds, InferHoldsA
<1>4. ASSUME NEW s \in Signals, HandlerStep(s) PROVE [RA!Next]_RA!vars
  <2>1. RA!Close(s) \/ UNCHANGED RA!vars
    BY <1>4, HandlerClosesA
  <2> QED
    BY <2>1 DEF RA!Next, RA!Close, RA!CloseBegin, RA!CloseRest
<1>5. CASE Interrupted
  <2>1. /\ UNCHANGED <<slotsA, frameNum, wA, rA, dets, handler>>
        /\ FilledA' = FilledA /\ Taken' = Taken
        /\ ClosingA' = ClosingA /\ NumbersInA' = NumbersInA
    BY <1>5, CountSteps DEF Interrupted, ClosingA, NumbersInA
  <2>2. CASE recv = "waiting" /\ A!InterruptWrite /\ recv' = "leaving" /\ infer' = infer
    BY <2>1, <2>2, MethodsOfA
    DEF RA!Next, RA!Interrupted, ProducerOfA, ConsumerOfA, InferHoldsA
  <2>3. CASE infer = "waiting" /\ A!InterruptRead /\ infer' = "leaving" /\ recv' = recv
    BY <2>1, <2>3, MethodsOfA
    DEF RA!Next, RA!Interrupted, ProducerOfA, ConsumerOfA, InferHoldsA
  <2>4. CASE /\ UNCHANGED <<ringA, recv>>
             /\ infer' = infer \/ (infer = "waitingB" /\ infer' = "giveUp")
    BY <2>1, <2>4 DEF RA!vars, ProducerOfA, ConsumerOfA, InferHoldsA
  <2>5. \/ recv = "waiting" /\ A!InterruptWrite /\ recv' = "leaving" /\ infer' = infer
        \/ infer = "waiting" /\ A!InterruptRead /\ infer' = "leaving" /\ recv' = recv
        \/ UNCHANGED <<ringA, recv>> /\ infer = "waitingB" /\ infer' = "giveUp"
        \/ UNCHANGED <<ringA, recv, infer>>
    BY <1>5 DEF Interrupted
  <2> QED
    BY <2>2, <2>3, <2>4, <2>5
<1>6. CASE Joined \/ UNCHANGED vars
  <2>1. UNCHANGED <<ringA, slotsA, recv, frameNum, wA, infer, rA, dets, handler>>
    BY <1>6 DEF Joined, vars, recvVars, inferVars
  <2> QED
    BY <2>1 DEF RA!vars, ProducerOfA, ConsumerOfA, ClosingA, NumbersInA, FilledA, Taken,
      RecvHolds, InferHoldsA
<1> QED
  BY <1>1, <1>2, <1>3, <1>4, <1>5, <1>6 DEF Next

\* A step of infer_loop is one of the producer of ring B, or none.
LEMMA InferProduces ==
  ASSUME Linked, [Next]_vars, InferStep
  PROVE  RB!ProdStep \/ RB!ProdEnd \/ UNCHANGED RB!vars
<1>0. /\ UNCHANGED <<upload, rB, handler>> /\ Fetched' = Fetched
      /\ ConsumerOfB' = ConsumerOfB /\ ClosingB' = ClosingB
      /\ FilledB' = IF infer = "commit" /\ infer' = "waiting" THEN FilledB + 1 ELSE FilledB
  <2>1. UNCHANGED <<upload, rB, handler>>
    BY DEF InferStep, InferWake, InferTake, InferRefused, InferRun, InferWakeB,
      InferTakeB, InferRefusedB, InferGiveUp, InferCopy, InferRelease, InferCommit,
      InferShutdown, OthersOfInfer, uploadVars
  <2>2. ~(upload = "woken" /\ upload' = "send")
    BY <2>1
  <2> QED
    BY <2>1, <2>2, CountSteps DEF ConsumerOfB, ClosingB, UploadHolds
<1>1. slotsB' = slotsB => NumbersInB' = NumbersInB
  BY DEF NumbersInB
<1> USE <1>0, <1>1, MethodsOfB DEF ProducerOfB, RB!ProdStep
<1>2. CASE InferWake \/ InferTake \/ InferGiveUp
  BY <1>2 DEF InferWake, InferTake, InferGiveUp, RB!vars
<1>3. CASE InferRefused
  BY <1>3 DEF InferRefused, RB!ProdEnd
<1>4. CASE InferRun
  <2>1. FilledB < MaxFrames
    <3>1. Put + 1 <= FilledA /\ FilledB = Put
      <4>1. infer = "run"
        BY <1>4 DEF InferRun
      <4> QED
        BY <4>1 DEF Linked, IInv, Numbers, Got, FilledB, InferHoldsB, One
    <3>2. FilledA <= captured /\ FilledA \in Int
      BY DEF Linked, IInv, TypeOK, Captures, FilledA, RecvHolds, One
    <3> QED
      BY <3>1, <3>2, MaxFramesAssumption DEF Linked, IInv, TypeOK, Numbers
  <2> QED
    BY <1>4, <2>1 DEF InferRun, RB!ProdCall
<1>5. CASE InferWakeB
  BY <1>5 DEF InferWakeB, RB!ProdWake
<1>6. CASE InferTakeB
  BY <1>6 DEF InferTakeB, RB!ProdTake
<1>7. CASE InferRefusedB
  BY <1>7 DEF InferRefusedB, B!RefuseWrite, RB!ProdRefused
<1>8. CASE InferCopy
  <2>1. /\ infer = "copy" /\ infer' = "release" /\ UNCHANGED <<ringB, wB>>
        /\ slotsA[rA].frame_number = FilledB + 1 /\ wB \in B!SlotIdx
        /\ slotsB \in [B!SlotIdx -> UploadSlot]
    BY <1>8 DEF InferCopy, Linked, IInv, TypeOK, Numbers, FilledB, Put, InferHoldsB, One
  <2>2. ASSUME NEW i \in B!SlotIdx
        PROVE  slotsB'[i].frame_number
                 = IF i = wB THEN slotsA[rA].frame_number ELSE slotsB[i].frame_number
    BY <1>8, <2>1 DEF InferCopy
  <2>3. NumbersInB' = [NumbersInB EXCEPT ![wB] = FilledB + 1]
    BY <2>1, <2>2, Zenon DEF NumbersInB
  <2> QED
    BY <2>1, <2>3 DEF RB!ProdWrite
<1>9. CASE InferRelease
  BY <1>9 DEF InferRelease, RB!vars
<1>10. CASE InferCommit
  BY <1>10 DEF InferCommit, RB!ProdCommit
<1>11. CASE InferShutdown
  BY <1>11 DEF InferShutdown, RB!ProdShutdown
<1> QED
  BY <1>2, <1>3, <1>4, <1>5, <1>6, <1>7, <1>8, <1>9, <1>10, <1>11 DEF InferStep

\* A step of upload_loop is one of the consumer of ring B, or none.
LEMMA UploadConsumes ==
  ASSUME Linked, [Next]_vars, UploadStep
  PROVE  RB!Cons \/ UNCHANGED RB!vars
<1>0. /\ UNCHANGED <<slotsB, infer, wB, handler>> /\ FilledB' = FilledB
      /\ ProducerOfB' = ProducerOfB /\ ClosingB' = ClosingB /\ NumbersInB' = NumbersInB
      /\ Fetched' = IF upload = "woken" /\ upload' = "send" THEN Fetched + 1 ELSE Fetched
  <2>1. UNCHANGED <<slotsB, infer, wB, handler>>
    BY DEF UploadStep, UploadWake, UploadTake, UploadRefused, UploadSend,
      UploadRelease, OthersOfUpload, inferVars
  <2>2. ~(infer = "commit" /\ infer' = "waiting")
    BY <2>1
  <2> QED
    BY <2>1, <2>2, CountSteps DEF ProducerOfB, ClosingB, NumbersInB
<1> USE <1>0, MethodsOfB DEF ConsumerOfB, UploadHolds, RB!Cons
<1>1. CASE UploadWake
  BY <1>1 DEF UploadWake, RB!ConsWake
<1>2. CASE UploadTake
  BY <1>2 DEF UploadTake, RB!ConsTake
<1>3. CASE UploadRefused
  BY <1>3 DEF UploadRefused, B!RefuseRead, RB!ConsRefused
<1>4. CASE UploadSend
  BY <1>4 DEF UploadSend, RB!vars
<1>5. CASE UploadRelease
  BY <1>5 DEF UploadRelease, RB!ConsCommit
<1> QED
  BY <1>1, <1>2, <1>3, <1>4, <1>5 DEF UploadStep

\* A handler closes ring B with its last three steps; the others leave it alone.
LEMMA HandlerClosesB ==
  ASSUME Linked, [Next]_vars, NEW s \in Signals, HandlerStep(s)
  PROVE  RB!Close(s) \/ UNCHANGED RB!vars
<1>0. /\ handler \in [Signals -> 0 .. 6]
      /\ handler' = [handler EXCEPT ![s] = @ + 1]
  BY DEF Linked, IInv, TypeOK, HandlerStep, HandlerA, HandlerB
<1>1. /\ UNCHANGED <<slotsB, infer, upload, wB, rB>>
      /\ FilledB' = FilledB /\ Fetched' = Fetched
  <2>1. UNCHANGED <<slotsB, infer, upload, wB, rB>>
    BY DEF HandlerStep, HandlerA, HandlerB, inferVars, uploadVars
  <2> QED
    BY <2>1, CountSteps
<1>2. /\ ProducerOfB' = ProducerOfB /\ ConsumerOfB' = ConsumerOfB
      /\ NumbersInB' = NumbersInB
  BY <1>1 DEF ProducerOfB, ConsumerOfB, UploadHolds, NumbersInB
<1>3. ASSUME NEW u \in Signals
      PROVE  /\ ClosingB[u] = ClosingAfter(handler[u] - 3)
             /\ ClosingAfter(handler'[u] - 3)
                  = IF u = s THEN ClosingAfter(handler[s] - 2)
                             ELSE ClosingAfter(handler[u] - 3)
  <2>1. handler'[u] - 3 = IF u = s THEN handler[s] - 2 ELSE handler[u] - 3
    BY <1>0
  <2> QED
    BY <2>1 DEF ClosingB
<1>4. ClosingB' = [ClosingB EXCEPT ![s] = ClosingAfter(handler[s] - 2)]
  BY <1>3, Zenon DEF ClosingB
<1>5. CASE HandlerB(s)
  <2>1. CASE handler[s] = 3 /\ B!SetShutdown
    <3>1. ClosingB[s] = "idle" /\ ClosingAfter(handler[s] - 2) = "flagged"
      BY <2>1, <1>3 DEF ClosingAfter
    <3> QED
      BY <1>1, <1>2, <1>4, <2>1, <3>1, MethodsOfB DEF RB!Close, RB!CloseBegin
  <2>2. CASE handler[s] = 4 /\ B!WakeProducer
    <3>1. ClosingB[s] = "flagged" /\ ClosingAfter(handler[s] - 2) = "wokeProducer"
      BY <2>2, <1>3 DEF ClosingAfter
    <3> QED
      BY <1>1, <1>2, <1>4, <2>2, <3>1, MethodsOfB DEF RB!Close, RB!CloseRest
  <2>3. CASE handler[s] = 5 /\ B!WakeConsumer
    <3>1. ClosingB[s] = "wokeProducer" /\ ClosingAfter(handler[s] - 2) = "done"
      BY <2>3, <1>3 DEF ClosingAfter
    <3> QED
      BY <1>1, <1>2, <1>4, <2>3, <3>1, MethodsOfB DEF RB!Close, RB!CloseRest
  <2> QED
    BY <1>5, <2>1, <2>2, <2>3 DEF HandlerB
<1>6. CASE HandlerA(s)
  <2>1. ClosingAfter(handler[s] - 2) = ClosingB[s] /\ ringB' = ringB
    BY <1>6, <1>0, <1>3 DEF HandlerA, ClosingAfter
  <2>2. ClosingB' = ClosingB
    BY <1>4, <2>1 DEF ClosingB
  <2> QED
    BY <1>1, <1>2, <2>1, <2>2 DEF RB!vars
<1> QED
  BY <1>5, <1>6 DEF HandlerStep

\* Every step of the pipeline is a step of the threads of ring B, or none.
LEMMA StepOfRingB ==
  ASSUME Linked, [Next]_vars
  PROVE  [RB!Next]_RB!vars
<1>1. CASE RecvStep \/ RecvCapture \/ RecvSourceEnds
  <2>1. UNCHANGED <<ringB, slotsB, infer, wB, upload, rB, uploaded, handler>>
    BY <1>1 DEF RecvStep, RecvTop, RecvCapture, RecvSourceEnds, RecvWake, RecvTake,
      RecvRefused, RecvWrite, RecvCommit, RecvShutdown, OthersOfRecv, inferVars, uploadVars
  <2>2. FilledB' = FilledB /\ Fetched' = Fetched
    BY <2>1, CountSteps
  <2> QED
    BY <2>1, <2>2 DEF RB!vars, ProducerOfB, ConsumerOfB, ClosingB, NumbersInB, UploadHolds
<1>2. CASE InferStep
  BY <1>2, InferProduces DEF RB!Next
<1>3. CASE UploadStep
  BY <1>3, UploadConsumes DEF RB!Next
<1>4. ASSUME NEW s \in Signals, HandlerStep(s) PROVE [RB!Next]_RB!vars
  <2>1. RB!Close(s) \/ UNCHANGED RB!vars
    BY <1>4, HandlerClosesB
  <2> QED
    BY <2>1 DEF RB!Next, RB!Close, RB!CloseBegin, RB!CloseRest
<1>5. CASE Interrupted
  <2>1. /\ UNCHANGED <<slotsB, wB, rB, handler>>
        /\ FilledB' = FilledB /\ Fetched' = Fetched
        /\ ClosingB' = ClosingB /\ NumbersInB' = NumbersInB
    BY <1>5, CountSteps DEF Interrupted, ClosingB, NumbersInB
  <2>2. CASE infer = "waiting" /\ infer' = "leaving" /\ UNCHANGED <<ringB, upload>>
    BY <2>1, <2>2 DEF RB!Next, RB!ProdEnd, ProducerOfB, ConsumerOfB, UploadHolds
  <2>3. CASE infer = "waitingB" /\ B!InterruptWrite /\ infer' = "giveUp" /\ upload' = upload
    BY <2>1, <2>3, MethodsOfB
    DEF RB!Next, RB!Interrupted, ProducerOfB, ConsumerOfB, UploadHolds
  <2>4. CASE upload = "waiting" /\ B!InterruptRead /\ upload' = "done" /\ infer' = infer
    BY <2>1, <2>4, MethodsOfB
    DEF RB!Next, RB!Interrupted, ProducerOfB, ConsumerOfB, UploadHolds
  <2>5. CASE UNCHANGED <<ringB, infer, upload>>
    BY <2>1, <2>5 DEF RB!vars, ProducerOfB, ConsumerOfB, UploadHolds
  <2>6. \/ infer = "waiting" /\ infer' = "leaving" /\ UNCHANGED <<ringB, upload>>
        \/ infer = "waitingB" /\ B!InterruptWrite /\ infer' = "giveUp" /\ upload' = upload
        \/ upload = "waiting" /\ B!InterruptRead /\ upload' = "done" /\ infer' = infer
        \/ UNCHANGED <<ringB, infer, upload>>
    BY <1>5 DEF Interrupted
  <2> QED
    BY <2>2, <2>3, <2>4, <2>5, <2>6
<1>6. CASE Joined \/ UNCHANGED vars
  <2>1. UNCHANGED <<ringB, slotsB, infer, wB, upload, rB, uploaded, handler>>
    BY <1>6 DEF Joined, vars, inferVars, uploadVars
  <2>2. FilledB' = FilledB /\ Fetched' = Fetched
    BY <2>1, CountSteps
  <2> QED
    BY <2>1, <2>2 DEF RB!vars, ProducerOfB, ConsumerOfB, ClosingB, NumbersInB, UploadHolds
<1> QED
  BY <1>1, <1>2, <1>3, <1>4, <1>5, <1>6 DEF Next

\* The pipeline is two rings of ring_buffer.h, each with one producer, one consumer and
\* the handlers around it: what RingBufferProofs proves of a ring holds of both.
THEOREM RingsCompose == Spec => RA!Spec /\ RB!Spec
<1>1. Spec => []Linked
  BY InitLinked, NextLinked, PTL DEF Spec
<1>2. Init => RA!Init /\ RB!Init
  BY InitLinked
<1>3. Linked /\ [Next]_vars => [RA!Next]_RA!vars /\ [RB!Next]_RB!vars
  BY StepOfRingA, StepOfRingB
<1> QED
  BY <1>1, <1>2, <1>3, PTL DEF Spec, RA!Spec, RB!Spec

\* So ring A and ring B of pipeline.cpp, with the threads around them, are closable
\* bounded channels, of the captured frames and of the frames infer_loop has run on.
THEOREM RingsAreChannels == Spec => RA!ImplementsChannel /\ RB!ImplementsChannel
<1>1. RA!Spec => RA!ImplementsChannel
  BY SlotsAssumption, MaxFramesAssumption, RA!Refinement
<1>2. RB!Spec => RB!ImplementsChannel
  BY SlotsAssumption, MaxFramesAssumption, RB!Refinement
<1> QED
  BY <1>1, <1>2, RingsCompose

-----------------------------------------------------------------------------
(* No deadlock.  What each thread needs to go on: the token it waits for.   *)

RecvCanGo == recv # "done" /\ (recv = "waiting" => ringA.emptyCount > 0)

InferCanGo ==
  /\ infer # "done"
  /\ infer = "waiting" => ringA.fillCount > 0
  /\ infer = "waitingB" => ringB.emptyCount > 0

UploadCanGo == upload # "done" /\ (upload = "waiting" => ringB.fillCount > 0)

HandlerUnderWay == \E s \in Signals : handler[s] \in 1 .. 5

\* Every thread has returned, or somebody is not blocked.
SomebodyCanGo ==
  AllDone \/ RecvCanGo \/ InferCanGo \/ UploadCanGo \/ HandlerUnderWay

\* A shutdown() that has its first post still to make is that of a handler under way.
LEMMA FlaggedIsUnderWay ==
  ASSUME TypeOK
  PROVE  /\ (\E s \in Signals : ClosingA[s] = "flagged") => HandlerUnderWay
         /\ (\E s \in Signals : ClosingB[s] = "flagged") => HandlerUnderWay
<1>1. ASSUME NEW s \in Signals PROVE handler[s] \in 0 .. 6
  BY <1>1 DEF TypeOK
<1>2. ASSUME NEW s \in Signals, ClosingA[s] = "flagged" PROVE handler[s] \in 1 .. 5
  BY <1>1, <1>2 DEF ClosingA, ClosingAfter
<1>3. ASSUME NEW s \in Signals, ClosingB[s] = "flagged" PROVE handler[s] \in 1 .. 5
  BY <1>1, <1>3 DEF ClosingB, ClosingAfter
<1> QED
  BY <1>2, <1>3 DEF HandlerUnderWay

\* A chain of threads that wait for each other ends at upload_loop, at a thread that
\* has left with a shutdown() behind it, or at a handler.
LEMMA ChainEnds ==
  ASSUME TypeOK, RA!NeverStuck, RB!NeverStuck
  PROVE  SomebodyCanGo
<1> USE DEF SomebodyCanGo, RecvCanGo, InferCanGo, UploadCanGo
<1>1. /\ ringA.emptyCount \in Nat /\ ringA.fillCount \in Nat
      /\ ringB.emptyCount \in Nat /\ ringB.fillCount \in Nat
      /\ recv \in RecvPC /\ infer \in InferPC /\ upload \in UploadPC
  BY DEF TypeOK, A!RingType, B!RingType
<1>2. CASE infer = "waitingB" /\ ringB.emptyCount = 0
  <2>1. \/ ConsumerOfB \in {"woken", "reading"}
        \/ ConsumerOfB = "waiting" /\ ringB.fillCount > 0
        \/ \E s \in Signals : ClosingB[s] = "flagged"
    BY <1>2 DEF RB!NeverStuck, ProducerOfB
  <2>2. CASE ConsumerOfB \in {"woken", "reading"}
    BY <2>2 DEF ConsumerOfB, UploadHolds
  <2>3. CASE ConsumerOfB = "waiting" /\ ringB.fillCount > 0
    BY <2>3 DEF ConsumerOfB, UploadHolds
  <2> QED
    BY <2>1, <2>2, <2>3, FlaggedIsUnderWay
<1>3. CASE infer = "waiting" /\ ringA.fillCount = 0
  <2>1. \/ ProducerOfA \notin {"waiting", "done"}
        \/ ProducerOfA = "waiting" /\ ringA.emptyCount > 0
    BY <1>3 DEF RA!NeverStuck, ConsumerOfA, InferHoldsA
  <2> QED
    BY <2>1 DEF ProducerOfA
<1>4. CASE infer = "done" /\ recv = "waiting" /\ ringA.emptyCount = 0
  <2>1. \E s \in Signals : ClosingA[s] = "flagged"
    BY <1>4 DEF RA!NeverStuck, ProducerOfA, ConsumerOfA, InferHoldsA
  <2> QED
    BY <2>1, FlaggedIsUnderWay
<1>5. CASE infer = "done" /\ upload = "waiting" /\ ringB.fillCount = 0
  BY <1>5 DEF RB!NeverStuck, ProducerOfB, ConsumerOfB, UploadHolds
<1> QED
  BY <1>1, <1>2, <1>3, <1>4, <1>5 DEF AllDone

\* The pipeline never stops with a thread in it: as long as one has not returned, one
\* is not blocked, whatever was shut down, by whom and in which order ("unblock any
\* waiting threads", ring_buffer.h:91): stop(), which joins the three threads, waits
\* for threads that can move.
THEOREM NoDeadlock == Spec => []SomebodyCanGo
<1>1. Spec => []RA!NeverStuck
  BY RingsCompose, RA!NobodyStuck, SlotsAssumption, MaxFramesAssumption
<1>2. Spec => []RB!NeverStuck
  BY RingsCompose, RB!NobodyStuck, SlotsAssumption, MaxFramesAssumption
<1>3. TypeOK /\ RA!NeverStuck /\ RB!NeverStuck => SomebodyCanGo
  BY ChainEnds
<1> QED
  BY <1>1, <1>2, <1>3, TypeCorrect, PTL

-----------------------------------------------------------------------------
(* One line of frames.                                                     *)

\* infer_loop has run on all it has put into ring B, after it has left as well.
Finished == Linked /\ Put <= dets

\* Each step keeps it: what is put there next is the frame run on last.
LEMMA NextFinished == Finished /\ [Next]_vars => Finished'
<1> SUFFICES ASSUME Finished, [Next]_vars PROVE Finished'
  OBVIOUS
<1>1. Linked /\ Linked'
  BY NextLinked DEF Finished
<1>2. Put \in Nat /\ dets \in Nat /\ Put' \in Nat /\ dets' \in Nat
  BY <1>1 DEF Linked, IInv, TypeOK, Numbers
<1>3. CASE ~InferLeft'
  BY <1>1, <1>2, <1>3 DEF Finished, Linked, TakenIsGot, Taken, Got, One
<1>4. CASE InferLeft'
  <2>1. Put' = Put
    BY <1>1, <1>4, PutStep DEF Linked, InferLeft
  <2>2. Taken' = Taken
    BY <1>1, <1>4, CountSteps DEF InferLeft
  <2>3. infer' # "run"
    BY <1>4 DEF InferLeft
  <2>4. Taken' = dets'
    <3>1. One(infer = "run")' = 0
      BY <2>3 DEF One
    <3>2. Taken' = dets' + One(infer = "run")'
      BY DEF Taken
    <3> QED
      BY <1>2, <3>1, <3>2
  <2>5. Taken >= dets
    BY <1>2 DEF Taken, One
  <2> QED
    BY <1>1, <1>2, <2>1, <2>2, <2>4, <2>5 DEF Finished
<1> QED
  BY <1>1, <1>3, <1>4 DEF Finished

\* What the threads work on is one frame each, the next one.  The counts follow each
\* other; who has returned has found the line closed.
InTurn ==
  /\ captured \in Nat /\ dets \in Nat /\ uploaded \in Nat
  /\ ringA \in A!RingType /\ handler \in [Signals -> 0 .. 6]
  /\ Inferring = IF infer = "run" THEN {dets + 1} ELSE {}
  /\ Sending = IF upload = "send" THEN {uploaded + 1} ELSE {}
  /\ infer = "run" => dets < captured
  /\ upload = "send" => uploaded < dets
  /\ captured - uploaded <= 2 * Slots + 1
  /\ AllDone \/ Signalled => ringA.shutdown

\* It follows from the counts and the contents of the rings.
LEMMA FinishedInTurn == Finished => InTurn
<1> SUFFICES ASSUME Finished PROVE InTurn
  OBVIOUS
<1>1. /\ captured \in Nat /\ frameNum \in Nat /\ dets \in Nat /\ uploaded \in Nat
      /\ Put \in Nat /\ ringA \in A!RingType /\ handler \in [Signals -> 0 .. 6]
      /\ IInv /\ Numbers /\ Captures /\ FlagFirst /\ TakenIsGot /\ Put <= dets
  BY DEF Finished, Linked, IInv, TypeOK, Numbers
<1>2. infer = "run" => dets + 1 = Got
  BY <1>1 DEF TakenIsGot, InferLeft, Taken, Got, One
<1>3. infer = "run" => slotsA[rA].input = dets + 1
  BY <1>1, <1>2, HeldByInfer DEF InferHoldsA
<1>4. upload = "send" =>
        slotsB[rB] = [frame_number |-> uploaded + 1, dets |-> uploaded + 1,
                      orig |-> uploaded + 1]
  BY <1>1, HeldByUpload DEF UploadHolds, Fetched, One
<1>5. infer = "run" => dets < captured
  BY <1>1, <1>2 DEF Numbers, Captures, Got, FilledA, One
<1>6. upload = "send" => uploaded < dets
  BY <1>1 DEF Numbers, Fetched, FilledB, One
<1>7. captured - uploaded <= 2 * Slots + 1
  BY <1>1, Idx DEF Numbers, Captures, Got, Fetched, One, InferHoldsA, UploadHolds
<1>8. AllDone \/ Signalled => ringA.shutdown
  BY <1>1 DEF FlagFirst, AllDone, RecvLeft, Signalled
<1>9. /\ Inferring = IF infer = "run" THEN {dets + 1} ELSE {}
      /\ Sending = IF upload = "send" THEN {uploaded + 1} ELSE {}
  BY <1>3, <1>4 DEF Inferring, Sending
<1> QED
  BY <1>1, <1>5, <1>6, <1>7, <1>8, <1>9 DEF InTurn

\* A step that only ends the last thread is the return of the line.
LEMMA LastReturns ==
  ASSUME InTurn, InTurn', AllDone = FALSE,
         UNCHANGED <<captured, dets, uploaded, ringA.shutdown, Signalled>>,
         infer' = "run" <=> infer = "run", upload' = "send" <=> upload = "send"
  PROVE  [Line!Next]_(Line!vars)
<1>1. Inferring' = Inferring /\ Sending' = Sending
  BY DEF InTurn
<1>2. CASE AllDone'
  <2>1. ringA.shutdown = TRUE
    BY <1>2 DEF InTurn, A!RingType
  <2>2. Inferring = {} /\ Sending = {}
    BY <1>1, <1>2 DEF AllDone, Inferring, Sending
  <2>3. Line!Return
    BY <1>1, <1>2, <2>1, <2>2 DEF Line!Return
  <2> QED
    BY <2>3 DEF Line!Next
<1>3. CASE ~AllDone'
  <2>1. AllDone' = AllDone
    BY <1>3 DEF AllDone
  <2> QED
    BY <1>1, <2>1 DEF Line!vars
<1> QED
  BY <1>2, <1>3

\* What recv_loop does to the line: it captures, and it closes it.
LEMMA RecvOnLine ==
  ASSUME InTurn, InTurn', RecvStep \/ RecvCapture \/ RecvSourceEnds
  PROVE  [Line!Next]_(Line!vars)
<1>1. /\ UNCHANGED <<infer, dets, upload, uploaded, handler>>
      /\ AllDone = FALSE /\ Signalled' = Signalled
  BY DEF RecvStep, RecvTop, RecvCapture, RecvSourceEnds, RecvWake, RecvTake, RecvRefused,
    RecvWrite, RecvCommit, RecvShutdown, OthersOfRecv, inferVars, uploadVars, AllDone,
    Signalled
<1>2. Inferring' = Inferring /\ Sending' = Sending
  BY <1>1 DEF InTurn
<1>3. CASE RecvCapture
  <2>1. recv = "capture" /\ captured' = captured + 1 /\ ringA' = ringA /\ AllDone' = FALSE
    BY <1>3 DEF RecvCapture, AllDone
  <2>2. captured - uploaded < 2 * Slots + 1
    BY <1>1, <2>1, Idx DEF InTurn
  <2>3. Line!Capture
    BY <1>1, <1>2, <2>1, <2>2 DEF Line!Capture
  <2> QED
    BY <2>3 DEF Line!Next
<1>4. CASE recv \in {"eof", "leaving"}
  <2>1. A!SetShutdown /\ captured' = captured /\ recv' # "done"
    BY <1>4 DEF RecvStep, RecvTop, RecvCapture, RecvSourceEnds, RecvWake, RecvTake,
      RecvRefused, RecvWrite, RecvCommit, RecvShutdown
  <2>2. ringA'.shutdown = TRUE /\ AllDone' = FALSE
    BY <2>1, StepsOfA DEF Is, InTurn, A!RingType, AllDone
  <2>3. Line!Close
    BY <1>1, <1>2, <2>1, <2>2 DEF Line!Close
  <2> QED
    BY <2>3 DEF Line!Next
<1>5. CASE ~RecvCapture /\ recv \notin {"eof", "leaving"}
  <2>1. /\ captured' = captured
        /\ \/ ringA' = ringA
           \/ A!SemWaitEmpty \/ A!TakeWriteSlot \/ A!RefuseWrite \/ A!CommitWrite
           \/ A!WakeProducer \/ A!WakeConsumer
    BY <1>5 DEF RecvStep, RecvTop, RecvSourceEnds, RecvWake, RecvTake,
      RecvRefused, RecvWrite, RecvCommit, RecvShutdown
  <2>2. ringA'.shutdown = ringA.shutdown
    <3>1. ringA \in A!RingType
      BY DEF InTurn
    <3> QED
      BY <2>1, <3>1, StepsOfA DEF Is, A!RingType
  <2> QED
    BY <1>1, <2>1, <2>2, LastReturns
<1> QED
  BY <1>3, <1>4, <1>5

\* infer_loop takes the next frame as long as the line is open, and finishes it.
LEMMA InferOnLine ==
  ASSUME InTurn, InTurn', InferStep
  PROVE  [Line!Next]_(Line!vars)
<1>1. /\ UNCHANGED <<recv, captured, upload, uploaded, handler>>
      /\ AllDone = FALSE /\ Signalled' = Signalled
  BY DEF InferStep, InferWake, InferTake, InferRefused, InferRun, InferWakeB,
    InferTakeB, InferRefusedB, InferGiveUp, InferCopy, InferRelease, InferCommit,
    InferShutdown, OthersOfInfer, recvVars, uploadVars, AllDone, Signalled
<1>2. /\ Sending' = Sending
      /\ Inferring = IF infer = "run" THEN {dets + 1} ELSE {}
      /\ Inferring' = IF infer' = "run" THEN {dets' + 1} ELSE {}
  BY <1>1 DEF InTurn
<1>3. ringA \in A!RingType
  BY DEF InTurn
<1>4. CASE InferTake
  <2>1. infer = "woken" /\ infer' = "run" /\ dets' = dets /\ AllDone' = FALSE
    BY <1>4 DEF InferTake, AllDone
  <2>2. ringA.shutdown = FALSE /\ ringA'.shutdown = FALSE
    BY <1>3, <1>4, StepsOfA DEF InferTake, Is, A!RingType
  <2>3. dets < captured
    BY <1>1, <2>1 DEF InTurn
  <2>4. Line!BeginInfer
    BY <1>1, <1>2, <2>1, <2>2, <2>3 DEF Line!BeginInfer
  <2> QED
    BY <2>4 DEF Line!Next
<1>5. CASE InferRun
  <2>1. infer = "run" /\ infer' = "waitingB" /\ ringA' = ringA /\ AllDone' = FALSE
    BY <1>5 DEF InferRun, AllDone
  <2>2. dets' = dets + 1
    BY <1>2, <1>5, <2>1 DEF InferRun, Inferring
  <2>3. Line!EndInfer
    BY <1>1, <1>2, <2>1, <2>2 DEF Line!EndInfer
  <2> QED
    BY <2>3 DEF Line!Next
<1>6. CASE ~InferTake /\ ~InferRun
  <2>1. /\ infer # "run" /\ infer' # "run" /\ dets' = dets
        /\ ringA' = ringA \/ A!SemWaitFill \/ A!RefuseRead \/ A!CommitRead
    BY <1>6 DEF InferStep, InferWake, InferRefused, InferWakeB,
      InferTakeB, InferRefusedB, InferGiveUp, InferCopy, InferRelease, InferCommit,
      InferShutdown
  <2>2. ringA'.shutdown = ringA.shutdown
    BY <1>3, <2>1, StepsOfA DEF Is, A!RingType
  <2> QED
    BY <1>1, <2>1, <2>2, LastReturns
<1> QED
  BY <1>4, <1>5, <1>6

\* upload_loop sends the next frame that inference has finished.
LEMMA UploadOnLine ==
  ASSUME InTurn, InTurn', UploadStep
  PROVE  [Line!Next]_(Line!vars)
<1>1. /\ UNCHANGED <<ringA, recv, captured, infer, dets, handler>>
      /\ AllDone = FALSE /\ Signalled' = Signalled
  BY DEF UploadStep, UploadWake, UploadTake, UploadRefused, UploadSend, UploadRelease,
    OthersOfUpload, recvVars, inferVars, AllDone, Signalled
<1>2. /\ Inferring' = Inferring
      /\ Sending = IF upload = "send" THEN {uploaded + 1} ELSE {}
      /\ Sending' = IF upload' = "send" THEN {uploaded' + 1} ELSE {}
  BY <1>1 DEF InTurn
<1>3. CASE UploadTake
  <2>1. upload = "woken" /\ upload' = "send" /\ uploaded' = uploaded /\ AllDone' = FALSE
    BY <1>3 DEF UploadTake, AllDone
  <2>2. uploaded < dets
    BY <1>1, <2>1 DEF InTurn
  <2>3. Line!BeginSend
    BY <1>1, <1>2, <2>1, <2>2 DEF Line!BeginSend
  <2> QED
    BY <2>3 DEF Line!Next
<1>4. CASE UploadSend
  <2>1. upload = "send" /\ upload' = "release" /\ uploaded' = uploaded + 1 /\ AllDone' = FALSE
    BY <1>4 DEF UploadSend, AllDone
  <2>2. Line!EndSend
    BY <1>1, <1>2, <2>1 DEF Line!EndSend
  <2> QED
    BY <2>2 DEF Line!Next
<1>5. CASE ~UploadTake /\ ~UploadSend
  <2>1. upload # "send" /\ upload' # "send" /\ uploaded' = uploaded
    BY <1>5 DEF UploadStep, UploadWake, UploadRefused, UploadRelease
  <2> QED
    BY <1>1, <2>1, LastReturns
<1> QED
  BY <1>3, <1>4, <1>5

\* A handler interrupts the line with its first step, which closes it; the others, and
\* those of the second handler, find it interrupted and closed.
LEMMA HandlerOnLine ==
  ASSUME InTurn, InTurn', NEW s \in Signals, HandlerStep(s)
  PROVE  [Line!Next]_(Line!vars)
<1>1. UNCHANGED <<recv, captured, infer, dets, upload, uploaded>>
  BY DEF HandlerStep, HandlerA, HandlerB, recvVars, inferVars, uploadVars
<1>2. /\ Inferring' = Inferring /\ Sending' = Sending
      /\ (AllDone' <=> AllDone)
  BY <1>1 DEF InTurn, AllDone
<1>3. handler'[s] > 0
  <2>1. handler \in [Signals -> 0 .. 6]
    BY DEF InTurn
  <2> QED
    BY <2>1 DEF HandlerStep, HandlerA, HandlerB
<1>4. Signalled' = TRUE /\ ringA'.shutdown = TRUE
  BY <1>3 DEF InTurn, Signalled, A!RingType
<1>5. Line!Interrupt
  BY <1>1, <1>2, <1>4 DEF Line!Interrupt
<1> QED
  BY <1>5 DEF Line!Next

\* Each step of the pipeline is one of the line, or none.
LEMMA StepOnLine == InTurn /\ InTurn' /\ [Next]_vars => [Line!Next]_(Line!vars)
<1> SUFFICES ASSUME InTurn, InTurn', [Next]_vars PROVE [Line!Next]_(Line!vars)
  OBVIOUS
<1>1. CASE Interrupted
  <2>1. /\ UNCHANGED <<captured, dets, uploaded, handler, ringA.shutdown>>
        /\ (infer' = "run" <=> infer = "run") /\ (upload' = "send" <=> upload = "send")
        /\ AllDone = FALSE
    BY <1>1 DEF Interrupted, A!InterruptWrite, A!InterruptRead, AllDone
  <2>2. Signalled' = Signalled
    BY <2>1 DEF Signalled
  <2> QED
    BY <2>1, <2>2, LastReturns
<1>2. CASE Joined \/ UNCHANGED vars
  <2>1. UNCHANGED <<ringA, slotsA, slotsB, recv, captured, infer, rA, dets, upload, rB,
                    uploaded, handler>>
    BY <1>2 DEF Joined, vars, recvVars, inferVars, uploadVars
  <2>2. Signalled' = Signalled /\ AllDone' = AllDone
    BY <2>1 DEF Signalled, AllDone
  <2> QED
    BY <2>1, <2>2 DEF Line!vars, Inferring, Sending
<1> QED
  BY <1>1, <1>2, RecvOnLine, InferOnLine, UploadOnLine, HandlerOnLine DEF Next

\* pipeline.cpp implements the line of frames: captured, inferred and sent in order and
\* one at a time, at most 2 * kRingSlots + 1 on the way, nothing inferred after the
\* shutdown, returned only after it and with nothing in hand.
THEOREM LineImplemented == Spec => ImplementsLine
<1>1. Init => Finished /\ Line!Init
  <2> SUFFICES ASSUME Init PROVE Finished /\ Line!Init
    OBVIOUS
  <2>1. Linked
    BY InitLinked
  <2>2. /\ infer = "waiting" /\ upload = "waiting" /\ recv = "top"
        /\ dets = 0 /\ uploaded = 0 /\ captured = 0 /\ ringA.shutdown = FALSE
        /\ handler = [s \in Signals |-> 0] /\ wB = 0 /\ slotsB[0].frame_number = 0
    BY Idx DEF Init, None, A!NewRing
  <2>3. Put <= dets
    BY <2>2 DEF Put
  <2>4. Signalled = FALSE /\ AllDone = FALSE
    BY <2>2 DEF Signalled, AllDone
  <2> QED
    BY <2>1, <2>2, <2>3, <2>4 DEF Finished, Line!Init, Inferring, Sending
<1>2. Finished /\ [Next]_vars => Finished'
  BY NextFinished
<1>3. Finished => InTurn
  BY FinishedInTurn
<1>4. InTurn /\ InTurn' /\ [Next]_vars => [Line!Next]_(Line!vars)
  BY StepOnLine
<1> QED
  BY <1>1, <1>2, <1>3, <1>4, PTL DEF Spec, ImplementsLine, Line!Spec

-----------------------------------------------------------------------------
(* Level 3 implements level 4.                                             *)

\* The vector is only written between the capture of a frame and its commit: each
\* step of each thread keeps ResizedInHand.
LEMMA ResizedStep ==
  ASSUME ResizedInHand, [NextL3]_varsL3
  PROVE  ResizedInHand'
<1> USE DEF ResizedInHand
<1>1. CASE RecvResize
  BY <1>1 DEF RecvResize, vars, recvVars
<1>2. CASE RecvCopyInput
  BY <1>2 DEF RecvCopyInput, None
<1>3. CASE RecvCommitL3
  BY <1>3 DEF RecvCommitL3, RecvCommit
<1>4. CASE (RecvTop \/ RecvCapture \/ RecvSourceEnds \/ RecvWake) /\ UNCHANGED resized
  BY <1>4 DEF RecvTop, RecvCapture, RecvSourceEnds, RecvWake
<1>5. CASE (RecvTake \/ RecvRefused \/ RecvShutdown) /\ UNCHANGED resized
  BY <1>5 DEF RecvTake, RecvRefused, RecvShutdown
<1>6. CASE recv # "input" /\ RecvWrite /\ UNCHANGED resized
  BY <1>6 DEF RecvWrite
<1>7. CASE InferLoop
  <2>1. UNCHANGED <<recv, captured, resized>>
    BY <1>7 DEF InferLoop, InferStep, OthersOfInfer, recvVars, InferWake, InferTake,
      InferRefused, InferRun, InferWakeB, InferTakeB, InferRefusedB, InferGiveUp,
      InferCopy, InferRelease, InferCommit, InferShutdown
  <2> QED BY <2>1
<1>8. CASE UploadLoop
  <2>1. UNCHANGED <<recv, captured, resized>>
    BY <1>8 DEF UploadLoop, UploadStep, OthersOfUpload, recvVars, UploadWake,
      UploadTake, UploadRefused, UploadSend, UploadRelease
  <2> QED BY <2>1
<1>9. CASE RequestShutdown
  <2>1. UNCHANGED <<recv, captured, resized>>
    BY <1>9 DEF RequestShutdown, HandlerStep, HandlerA, HandlerB, recvVars
  <2> QED BY <2>1
<1>10. CASE InterruptedL3
  BY <1>10 DEF InterruptedL3, Interrupted
<1>11. CASE JoinedL3 \/ UNCHANGED varsL3
  BY <1>11 DEF JoinedL3, Joined, varsL3, vars, recvVars
<1> QED
  BY <1>1, <1>2, <1>3, <1>4, <1>5, <1>6, <1>7, <1>8, <1>9, <1>10, <1>11
     DEF NextL3, RecvLoop

\* Every step of level 3 is a step of level 4 or leaves the state of level 4 as it
\* is: the resize is invisible, the copy writes what resize_into() would write.
LEMMA StepMaps ==
  ASSUME ResizedInHand, [NextL3]_varsL3
  PROVE  [Next]_vars
<1>1. CASE RecvResize
  BY <1>1 DEF RecvResize
<1>2. CASE RecvCopyInput
  <2>1. resized = captured
    BY <1>2 DEF RecvCopyInput, ResizedInHand
  <2>2. RecvWrite
    BY <1>2, <2>1 DEF RecvCopyInput, RecvWrite
  <2> QED BY <2>2 DEF Next, RecvStep
<1>3. CASE RecvLoop /\ ~RecvResize /\ ~RecvCopyInput
  BY <1>3 DEF RecvLoop, RecvCommitL3, Next, RecvStep
<1>4. CASE InferLoop \/ UploadLoop \/ RequestShutdown \/ InterruptedL3 \/ JoinedL3
  BY <1>4 DEF InferLoop, UploadLoop, RequestShutdown, InterruptedL3, JoinedL3, Next
<1>5. CASE UNCHANGED varsL3
  BY <1>5 DEF varsL3
<1> QED BY <1>1, <1>2, <1>3, <1>4, <1>5 DEF NextL3

\* Level 3 (pipeline_l3.cpp) implements level 4 (pipeline.cpp) for any number of
\* slots, frames and signals: what holds of level 4 in every state or step holds of
\* level 3.
THEOREM Level3ImplementsLevel4 == SpecL3 => Spec
<1>1. InitL3 => Init /\ ResizedInHand
  BY DEF InitL3, Init, ResizedInHand
<1>2. ResizedInHand /\ [NextL3]_varsL3 => ResizedInHand' /\ [Next]_vars
  BY ResizedStep, StepMaps
<1> QED BY <1>1, <1>2, PTL DEF SpecL3, Spec

\* So level 3, too, keeps the slots of its rings apart, uploads each frame whole and in
\* order, stops capturing when the upload is slow, its rings are bounded channels, and
\* its threads do not wait for each other for ever.
COROLLARY Level3Correct ==
  SpecL3 => /\ [](TypeOK /\ SlotsExclusive /\ CoherentUpload /\ InFlightBounded)
            /\ RA!ImplementsChannel /\ RB!ImplementsChannel
            /\ []SomebodyCanGo
            /\ ImplementsLine
<1> QED
  BY Level3ImplementsLevel4, TypeCorrect, SlotsApart, UploadsCoherent, BackPressure,
     RingsAreChannels, NoDeadlock, LineImplemented, PTL
=============================================================================
