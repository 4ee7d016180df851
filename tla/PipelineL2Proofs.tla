---------------------------- MODULE PipelineL2Proofs ----------------------------
(***************************************************************************)
(* Proofs about PipelineL2, for every capacity of the queues, every number *)
(* of frames and of signals.                                               *)
(*                                                                         *)
(* A queue holds consecutive frames, those after the one its consumer has  *)
(* taken last; how many is what the producer has pushed less what the      *)
(* consumer has popped.  Until the flag of a queue is set its tokens add   *)
(* up to its capacity, and what shutdown() posts afterwards does no harm:  *)
(* push() tests the flag before it appends, a draining pop() tests the     *)
(* queue.                                                                  *)
(***************************************************************************)
EXTENDS PipelineL2, TLAPS

\* One thing, or none: what a thread has in hand, as a number.
One(b) == IF b THEN 1 ELSE 0

\* The frames a sequence holds, one after the other, after the one with number k.
Following(s, k) == \A i \in 1 .. Len(s) : s[i] = k + i

\* How many frames are in each queue, and sent.
QueuedA == Len(queueA.items)
QueuedB == Len(queueB.items)
NumSent == Len(uploaded)

\* A frame in hand that is not yet in the next queue, or not yet sent.
RecvHas == recv \in {"waiting", "woken", "append"}
InferHas == infer \in {"postEmpty", "run", "waitingB", "wokenB", "append"}
UploadHas == upload \in {"postEmpty", "send"}

RecvLeft == recv \in {"leaving", "flagged", "wokeProducer", "done"}
InferLeft == infer \in {"leaving", "flagged", "wokeProducer", "done"}

RecvFlagged == recv \in {"flagged", "wokeProducer", "done"}
InferFlagged == infer \in {"flagged", "wokeProducer", "done"}

\* Every frame captured is in exactly one place, in order: sent, in a thread's hand or
\* in a queue.  A thread that has left may have dropped the one it had in hand.
InOrder ==
  /\ Following(uploaded, 0)
  /\ Following(queueB.items, uploadItem)
  /\ Following(queueA.items, inferItem)

Chain ==
  /\ NumSent + One(UploadHas) = uploadItem
  /\ \/ uploadItem + QueuedB + One(InferHas) = inferItem
     \/ InferLeft /\ uploadItem + QueuedB + 1 = inferItem
  /\ \/ inferItem + QueuedA + One(RecvHas) = captured
     \/ RecvLeft /\ inferItem + QueuedA + 1 = captured

\* Until shutdown() has set the flag, each place of a queue is a token of emptySlots, an
\* item, or in the hand of a thread between its sem_wait and its sem_post; and each
\* item has its token of fillCount.
TokensA ==
  ~queueA.shutdown =>
    /\ queueA.emptySlots + One(recv \in {"woken", "append"})
         + QueuedA + One(infer = "postEmpty") = Capacity
    /\ queueA.fillCount + One(recv = "post") + One(infer \in {"woken", "take"})
         = QueuedA

TokensB ==
  ~queueB.shutdown =>
    /\ queueB.emptySlots + One(infer \in {"wokenB", "append"})
         + QueuedB + One(upload = "postEmpty") = Capacity
    /\ queueB.fillCount + One(infer = "post") + One(upload \in {"woken", "take"})
         = QueuedB

\* Whoever is past the test of the flag has a place, or an item, of his own: also when
\* the flag has been set since.
Granted ==
  /\ QueuedA + One(recv = "append") <= Capacity
  /\ QueuedB + One(infer = "append") <= Capacity
  /\ infer = "take" => QueuedA > 0
  /\ upload = "take" => QueuedB > 0

\* The flag comes first: who posts for shutdown(), or drains, has set it or seen it set.
FlagFirst ==
  /\ RecvFlagged \/ infer = "drain" => queueA.shutdown
  /\ InferFlagged \/ upload = "drain" => queueB.shutdown
  /\ \A s \in Signals :
       (handler[s] > 0 => queueA.shutdown) /\ (handler[s] > 3 => queueB.shutdown)

\* Without a signal, a queue is shut down by its producer alone, after the last frame;
\* its consumer leaves when it is empty, and nothing is dropped.
Unsignalled ==
  ~Signalled =>
    /\ queueA.shutdown => RecvFlagged
    /\ RecvLeft => inferItem + QueuedA = captured
    /\ InferLeft => /\ RecvFlagged /\ QueuedA = 0
                    /\ uploadItem + QueuedB = inferItem
    /\ queueB.shutdown => InferFlagged
    /\ upload = "done" => InferFlagged /\ QueuedB = 0

\* The inductive invariant.
IInv ==
  /\ TypeOK
  /\ InOrder /\ Chain
  /\ TokensA /\ TokensB /\ Granted /\ FlagFirst
  /\ Unsignalled

-----------------------------------------------------------------------------
(* Sequences of consecutive frames.                                        *)

\* push() puts the next frame at the end.
LEMMA FollowingAppend ==
  ASSUME NEW S, NEW s \in Seq(S), NEW k \in Nat, NEW x \in S,
         Following(s, k), x = k + Len(s) + 1
  PROVE  /\ Append(s, x) \in Seq(S)
         /\ Len(Append(s, x)) = Len(s) + 1
         /\ Following(Append(s, x), k)
BY DEF Following

\* pop() takes the next frame from the front.
LEMMA FollowingTail ==
  ASSUME NEW S, NEW s \in Seq(S), NEW k \in Nat, Following(s, k), Len(s) > 0
  PROVE  /\ Head(s) \in S /\ Head(s) = k + 1
         /\ Tail(s) \in Seq(S) /\ Len(Tail(s)) = Len(s) - 1
         /\ Following(Tail(s), k + 1)
<1>1. s # <<>> /\ Len(s) \in Nat
  OBVIOUS
<1>2. /\ Head(s) \in S /\ Head(s) = s[1]
      /\ Tail(s) \in Seq(S) /\ Len(Tail(s)) = Len(s) - 1
  BY <1>1
<1>3. ASSUME NEW i \in 1 .. Len(Tail(s)) PROVE Tail(s)[i] = k + 1 + i
  <2>1. Tail(s)[i] = s[i + 1] /\ i + 1 \in 1 .. Len(s)
    BY <1>1, <1>2
  <2> QED
    BY <2>1 DEF Following
<1> QED
  BY <1>1, <1>2, <1>3 DEF Following

-----------------------------------------------------------------------------
(* What each step of a queue does to each of its members.                  *)

Is(r, items, empty, fill, flag) ==
  /\ r \in A!QueueType(Frames)
  /\ r.items = items
  /\ r.emptySlots = empty /\ r.fillCount = fill
  /\ (r.shutdown <=> flag)

\* The steps of push(), pop() and shutdown() of queue A.
LEMMA StepsOfA ==
  ASSUME queueA \in A!QueueType(Frames)
  PROVE  LET i == queueA.items
             e == queueA.emptySlots
             f == queueA.fillCount
             down == queueA.shutdown
         IN  /\ i \in Seq(Frames) /\ QueuedA \in Nat /\ e \in Nat /\ f \in Nat
             /\ A!SemWaitEmpty => e > 0 /\ Is(queueA', i, e - 1, f, down)
             /\ A!PushGranted => ~down /\ queueA' = queueA
             /\ A!PushRefused => down /\ queueA' = queueA
             /\ \A k \in Frames : A!Append1(k) => Is(queueA', Append(i, k), e, f, down)
             /\ A!PostFill => Is(queueA', i, e, f + 1, down)
             /\ A!SemWaitFill => f > 0 /\ Is(queueA', i, e, f - 1, down)
             /\ A!PopNormally => ~down /\ queueA' = queueA
             /\ A!PopDraining => down /\ queueA' = queueA
             /\ A!TakeFront /\ QueuedA > 0 => Is(queueA', Tail(i), e, f, down)
             /\ A!DrainSome => QueuedA > 0
             /\ A!DrainEnds => QueuedA = 0 /\ queueA' = queueA
             /\ A!PostEmpty => Is(queueA', i, e + 1, f, down)
             /\ A!Interrupted => down /\ queueA' = queueA
             /\ A!SetShutdown => Is(queueA', i, e, f, TRUE)
             /\ A!WakeProducer => Is(queueA', i, e + 1, f, down)
             /\ A!WakeConsumer => Is(queueA', i, e, f + 1, down)
<1> USE DEF Is, A!QueueType, QueuedA
<1>1. /\ queueA.items \in Seq(Frames) /\ QueuedA \in Nat
      /\ queueA.emptySlots \in Nat /\ queueA.fillCount \in Nat
      /\ queueA.shutdown \in BOOLEAN
  OBVIOUS
<1>2. \A k \in Frames : A!Append1(k) =>
        Is(queueA', Append(queueA.items, k), queueA.emptySlots, queueA.fillCount, queueA.shutdown)
  <2> SUFFICES ASSUME NEW k \in Frames, A!Append1(k)
               PROVE  Is(queueA', Append(queueA.items, k), queueA.emptySlots,
                         queueA.fillCount, queueA.shutdown)
    OBVIOUS
  <2>1. Append(queueA.items, k) \in Seq(Frames)
    BY <1>1
  <2> QED
    BY <2>1 DEF A!Append1
<1>3. A!TakeFront /\ QueuedA > 0 =>
        Is(queueA', Tail(queueA.items), queueA.emptySlots, queueA.fillCount, queueA.shutdown)
  <2> SUFFICES ASSUME A!TakeFront, QueuedA > 0
               PROVE  Is(queueA', Tail(queueA.items), queueA.emptySlots,
                         queueA.fillCount, queueA.shutdown)
    OBVIOUS
  <2>1. Tail(queueA.items) \in Seq(Frames)
    BY <1>1
  <2> QED
    BY <2>1 DEF A!TakeFront
<1>4. (A!DrainSome => QueuedA > 0) /\ (A!DrainEnds => QueuedA = 0)
  BY <1>1 DEF A!DrainSome, A!DrainEnds
<1>5. /\ A!PushGranted => ~queueA.shutdown /\ queueA' = queueA
      /\ A!PushRefused => queueA.shutdown /\ queueA' = queueA
      /\ A!PopNormally => ~queueA.shutdown /\ queueA' = queueA
      /\ A!PopDraining => queueA.shutdown /\ queueA' = queueA
      /\ A!Interrupted => queueA.shutdown /\ queueA' = queueA
      /\ A!DrainEnds => queueA' = queueA
  BY DEF A!PushGranted, A!PushRefused, A!PopNormally, A!PopDraining, A!Interrupted,
     A!DrainEnds
<1>6. A!SemWaitEmpty => /\ queueA.emptySlots > 0
                        /\ Is(queueA', queueA.items, queueA.emptySlots - 1,
                              queueA.fillCount, queueA.shutdown)
  BY <1>1 DEF A!SemWaitEmpty
<1>7. A!SemWaitFill => /\ queueA.fillCount > 0
                       /\ Is(queueA', queueA.items, queueA.emptySlots,
                             queueA.fillCount - 1, queueA.shutdown)
  BY <1>1 DEF A!SemWaitFill
<1>8. /\ A!PostFill => Is(queueA', queueA.items, queueA.emptySlots,
                          queueA.fillCount + 1, queueA.shutdown)
      /\ A!WakeConsumer => Is(queueA', queueA.items, queueA.emptySlots,
                              queueA.fillCount + 1, queueA.shutdown)
  BY <1>1 DEF A!PostFill, A!WakeConsumer
<1>9. /\ A!PostEmpty => Is(queueA', queueA.items, queueA.emptySlots + 1,
                           queueA.fillCount, queueA.shutdown)
      /\ A!WakeProducer => Is(queueA', queueA.items, queueA.emptySlots + 1,
                              queueA.fillCount, queueA.shutdown)
  BY <1>1 DEF A!PostEmpty, A!WakeProducer
<1>10. A!SetShutdown => Is(queueA', queueA.items, queueA.emptySlots, queueA.fillCount, TRUE)
  BY <1>1 DEF A!SetShutdown
<1> HIDE DEF Is, A!QueueType, QueuedA
<1> QED
  BY <1>1, <1>2, <1>3, <1>4, <1>5, <1>6, <1>7, <1>8, <1>9, <1>10

\* The steps of push(), pop() and shutdown() of queue B.
LEMMA StepsOfB ==
  ASSUME queueB \in A!QueueType(Frames)
  PROVE  LET i == queueB.items
             e == queueB.emptySlots
             f == queueB.fillCount
             down == queueB.shutdown
         IN  /\ i \in Seq(Frames) /\ QueuedB \in Nat /\ e \in Nat /\ f \in Nat
             /\ B!SemWaitEmpty => e > 0 /\ Is(queueB', i, e - 1, f, down)
             /\ B!PushGranted => ~down /\ queueB' = queueB
             /\ B!PushRefused => down /\ queueB' = queueB
             /\ \A k \in Frames : B!Append1(k) => Is(queueB', Append(i, k), e, f, down)
             /\ B!PostFill => Is(queueB', i, e, f + 1, down)
             /\ B!SemWaitFill => f > 0 /\ Is(queueB', i, e, f - 1, down)
             /\ B!PopNormally => ~down /\ queueB' = queueB
             /\ B!PopDraining => down /\ queueB' = queueB
             /\ B!TakeFront /\ QueuedB > 0 => Is(queueB', Tail(i), e, f, down)
             /\ B!DrainSome => QueuedB > 0
             /\ B!DrainEnds => QueuedB = 0 /\ queueB' = queueB
             /\ B!PostEmpty => Is(queueB', i, e + 1, f, down)
             /\ B!Interrupted => down /\ queueB' = queueB
             /\ B!SetShutdown => Is(queueB', i, e, f, TRUE)
             /\ B!WakeProducer => Is(queueB', i, e + 1, f, down)
             /\ B!WakeConsumer => Is(queueB', i, e, f + 1, down)
<1> USE DEF Is, A!QueueType, QueuedB
<1>1. /\ queueB.items \in Seq(Frames) /\ QueuedB \in Nat
      /\ queueB.emptySlots \in Nat /\ queueB.fillCount \in Nat
      /\ queueB.shutdown \in BOOLEAN
  OBVIOUS
<1>2. \A k \in Frames : B!Append1(k) =>
        Is(queueB', Append(queueB.items, k), queueB.emptySlots, queueB.fillCount, queueB.shutdown)
  <2> SUFFICES ASSUME NEW k \in Frames, B!Append1(k)
               PROVE  Is(queueB', Append(queueB.items, k), queueB.emptySlots,
                         queueB.fillCount, queueB.shutdown)
    OBVIOUS
  <2>1. Append(queueB.items, k) \in Seq(Frames)
    BY <1>1
  <2> QED
    BY <2>1 DEF B!Append1
<1>3. B!TakeFront /\ QueuedB > 0 =>
        Is(queueB', Tail(queueB.items), queueB.emptySlots, queueB.fillCount, queueB.shutdown)
  <2> SUFFICES ASSUME B!TakeFront, QueuedB > 0
               PROVE  Is(queueB', Tail(queueB.items), queueB.emptySlots,
                         queueB.fillCount, queueB.shutdown)
    OBVIOUS
  <2>1. Tail(queueB.items) \in Seq(Frames)
    BY <1>1
  <2> QED
    BY <2>1 DEF B!TakeFront
<1>4. (B!DrainSome => QueuedB > 0) /\ (B!DrainEnds => QueuedB = 0)
  BY <1>1 DEF B!DrainSome, B!DrainEnds
<1>5. /\ B!PushGranted => ~queueB.shutdown /\ queueB' = queueB
      /\ B!PushRefused => queueB.shutdown /\ queueB' = queueB
      /\ B!PopNormally => ~queueB.shutdown /\ queueB' = queueB
      /\ B!PopDraining => queueB.shutdown /\ queueB' = queueB
      /\ B!Interrupted => queueB.shutdown /\ queueB' = queueB
      /\ B!DrainEnds => queueB' = queueB
  BY DEF B!PushGranted, B!PushRefused, B!PopNormally, B!PopDraining, B!Interrupted,
     B!DrainEnds
<1>6. B!SemWaitEmpty => /\ queueB.emptySlots > 0
                        /\ Is(queueB', queueB.items, queueB.emptySlots - 1,
                              queueB.fillCount, queueB.shutdown)
  BY <1>1 DEF B!SemWaitEmpty
<1>7. B!SemWaitFill => /\ queueB.fillCount > 0
                       /\ Is(queueB', queueB.items, queueB.emptySlots,
                             queueB.fillCount - 1, queueB.shutdown)
  BY <1>1 DEF B!SemWaitFill
<1>8. /\ B!PostFill => Is(queueB', queueB.items, queueB.emptySlots,
                          queueB.fillCount + 1, queueB.shutdown)
      /\ B!WakeConsumer => Is(queueB', queueB.items, queueB.emptySlots,
                              queueB.fillCount + 1, queueB.shutdown)
  BY <1>1 DEF B!PostFill, B!WakeConsumer
<1>9. /\ B!PostEmpty => Is(queueB', queueB.items, queueB.emptySlots + 1,
                           queueB.fillCount, queueB.shutdown)
      /\ B!WakeProducer => Is(queueB', queueB.items, queueB.emptySlots + 1,
                              queueB.fillCount, queueB.shutdown)
  BY <1>1 DEF B!PostEmpty, B!WakeProducer
<1>10. B!SetShutdown => Is(queueB', queueB.items, queueB.emptySlots, queueB.fillCount, TRUE)
  BY <1>1 DEF B!SetShutdown
<1> HIDE DEF Is, A!QueueType, QueuedB
<1> QED
  BY <1>1, <1>2, <1>3, <1>4, <1>5, <1>6, <1>7, <1>8, <1>9, <1>10

-----------------------------------------------------------------------------
(* The five steps that move a frame.                                       *)

\* recv_loop appends the frame it has captured last, which is the one after those
\* already in queue A.
LEMMA PushA ==
  ASSUME IInv, RecvPush, recv = "append"
  PROVE  /\ captured \in Frames
         /\ Is(queueA', Append(queueA.items, captured), queueA.emptySlots,
               queueA.fillCount, queueA.shutdown)
         /\ QueuedA' = QueuedA + 1
         /\ Following(queueA'.items, inferItem)
         /\ recv' = "post"
         /\ UNCHANGED <<captured, queueB, infer, inferItem, upload, uploadItem,
                        uploaded, handler, QueuedB, NumSent>>
<1> USE DEF QueuedA, QueuedB, NumSent
<1>0. /\ queueA \in A!QueueType(Frames) /\ inferItem \in Nat /\ Frames = 1 .. MaxFrames
      /\ captured \in Nat /\ captured <= MaxFrames /\ MaxFrames \in Nat
  BY MaxFramesAssumption DEF IInv, TypeOK, Frames
<1>1. queueA.items \in Seq(Frames) /\ QueuedA \in Nat
  BY <1>0, StepsOfA
<1>2. captured = inferItem + QueuedA + 1
  BY <1>0, <1>1 DEF IInv, Chain, RecvHas, RecvLeft, One
<1>3. captured \in Frames
  BY <1>0, <1>1, <1>2
<1>4. /\ A!Append1(captured) /\ recv' = "post"
      /\ UNCHANGED <<captured, queueB, infer, inferItem, upload, uploadItem,
                     uploaded, handler>>
  BY DEF RecvPush, OthersOfRecv, inferVars, uploadVars
<1>5. Is(queueA', Append(queueA.items, captured), queueA.emptySlots,
         queueA.fillCount, queueA.shutdown)
  BY <1>0, <1>3, <1>4, StepsOfA
<1>6. Following(queueA.items, inferItem)
  BY DEF IInv, InOrder
<1>7. /\ Len(Append(queueA.items, captured)) = QueuedA + 1
      /\ Following(Append(queueA.items, captured), inferItem)
  BY <1>0, <1>1, <1>2, <1>3, <1>6, FollowingAppend
<1> QED
  BY <1>3, <1>4, <1>5, <1>7 DEF Is

\* infer_loop takes the next frame from queue A, normally or draining.
LEMMA PopA ==
  ASSUME IInv, InferTake
  PROVE  /\ inferItem' = inferItem + 1 /\ inferItem' \in Frames
         /\ Is(queueA', Tail(queueA.items), queueA.emptySlots,
               queueA.fillCount, queueA.shutdown)
         /\ QueuedA > 0 /\ QueuedA' = QueuedA - 1
         /\ Following(queueA'.items, inferItem')
         /\ \/ infer = "take" /\ infer' = "postEmpty"
            \/ infer = "drain" /\ infer' = "run" /\ queueA.shutdown
         /\ UNCHANGED <<queueB, recv, captured, upload, uploadItem, uploaded, handler,
                        QueuedB, NumSent>>
<1> USE DEF QueuedA, QueuedB, NumSent
<1>0. queueA \in A!QueueType(Frames) /\ inferItem \in Nat
  BY MaxFramesAssumption DEF IInv, TypeOK
<1>1. queueA.items \in Seq(Frames) /\ QueuedA \in Nat
  BY <1>0, StepsOfA
<1>2. /\ A!TakeFront /\ inferItem' = Head(queueA.items)
      /\ \/ infer = "take" /\ infer' = "postEmpty"
         \/ infer = "drain" /\ infer' = "run" /\ A!DrainSome
      /\ UNCHANGED <<queueB, recv, captured, upload, uploadItem, uploaded, handler>>
  BY DEF InferTake, OthersOfInfer, recvVars, uploadVars
<1>3. /\ QueuedA > 0
      /\ infer = "drain" => queueA.shutdown
  <2>1. QueuedA > 0
    BY <1>0, <1>2, StepsOfA DEF IInv, Granted
  <2>2. infer = "drain" => queueA.shutdown
    BY DEF IInv, FlagFirst
  <2> QED
    BY <2>1, <2>2
<1>4. Following(queueA.items, inferItem)
  BY DEF IInv, InOrder
<1>5. /\ Head(queueA.items) = inferItem + 1 /\ Head(queueA.items) \in Frames
      /\ Len(Tail(queueA.items)) = QueuedA - 1
      /\ Following(Tail(queueA.items), inferItem + 1)
  BY <1>0, <1>1, <1>3, <1>4, FollowingTail
<1>6. Is(queueA', Tail(queueA.items), queueA.emptySlots, queueA.fillCount, queueA.shutdown)
  BY <1>0, <1>2, <1>3, StepsOfA
<1> QED
  BY <1>2, <1>3, <1>5, <1>6 DEF Is

\* infer_loop appends the frame it has in hand, which is the one after those already
\* in queue B.
LEMMA PushB ==
  ASSUME IInv, InferPush, infer = "append"
  PROVE  /\ Is(queueB', Append(queueB.items, inferItem), queueB.emptySlots,
               queueB.fillCount, queueB.shutdown)
         /\ QueuedB' = QueuedB + 1
         /\ Following(queueB'.items, uploadItem)
         /\ infer' = "post"
         /\ UNCHANGED <<queueA, recv, captured, inferItem, upload, uploadItem,
                        uploaded, handler, QueuedA, NumSent>>
<1> USE DEF QueuedA, QueuedB, NumSent
<1>0. /\ queueB \in A!QueueType(Frames) /\ uploadItem \in Nat
      /\ inferItem \in Nat /\ inferItem <= MaxFrames /\ Frames = 1 .. MaxFrames
      /\ MaxFrames \in Nat
  BY MaxFramesAssumption DEF IInv, TypeOK, Frames, A!QueueType, B!QueueType
<1>1. queueB.items \in Seq(Frames) /\ QueuedB \in Nat
  BY <1>0, StepsOfB
<1>2. inferItem = uploadItem + QueuedB + 1
  BY <1>0, <1>1 DEF IInv, Chain, InferHas, InferLeft, One
<1>3. inferItem \in Frames
  BY <1>0, <1>1, <1>2
<1>4. /\ B!Append1(inferItem) /\ infer' = "post"
      /\ UNCHANGED <<queueA, recv, captured, inferItem, upload, uploadItem,
                     uploaded, handler>>
  BY DEF InferPush, OthersOfInfer, recvVars, uploadVars
<1>5. Is(queueB', Append(queueB.items, inferItem), queueB.emptySlots,
         queueB.fillCount, queueB.shutdown)
  BY <1>0, <1>3, <1>4, StepsOfB
<1>6. Following(queueB.items, uploadItem)
  BY DEF IInv, InOrder
<1>7. /\ Len(Append(queueB.items, inferItem)) = QueuedB + 1
      /\ Following(Append(queueB.items, inferItem), uploadItem)
  BY <1>0, <1>1, <1>2, <1>3, <1>6, FollowingAppend
<1> QED
  BY <1>4, <1>5, <1>7 DEF Is

\* upload_loop takes the next frame from queue B, normally or draining.
LEMMA PopB ==
  ASSUME IInv, UploadTake
  PROVE  /\ uploadItem' = uploadItem + 1 /\ uploadItem' \in Frames
         /\ Is(queueB', Tail(queueB.items), queueB.emptySlots,
               queueB.fillCount, queueB.shutdown)
         /\ QueuedB > 0 /\ QueuedB' = QueuedB - 1
         /\ Following(queueB'.items, uploadItem')
         /\ \/ upload = "take" /\ upload' = "postEmpty"
            \/ upload = "drain" /\ upload' = "send" /\ queueB.shutdown
         /\ UNCHANGED <<queueA, recv, captured, infer, inferItem, uploaded, handler,
                        QueuedA, NumSent>>
<1> USE DEF QueuedA, QueuedB, NumSent
<1>0. queueB \in A!QueueType(Frames) /\ uploadItem \in Nat
  BY MaxFramesAssumption DEF IInv, TypeOK, A!QueueType, B!QueueType
<1>1. queueB.items \in Seq(Frames) /\ QueuedB \in Nat
  BY <1>0, StepsOfB
<1>2. /\ B!TakeFront /\ uploadItem' = Head(queueB.items)
      /\ \/ upload = "take" /\ upload' = "postEmpty"
         \/ upload = "drain" /\ upload' = "send" /\ B!DrainSome
      /\ UNCHANGED <<queueA, recv, captured, infer, inferItem, uploaded, handler>>
  BY DEF UploadTake, OthersOfUpload, recvVars, inferVars
<1>3. /\ QueuedB > 0
      /\ upload = "drain" => queueB.shutdown
  <2>1. QueuedB > 0
    BY <1>0, <1>2, StepsOfB DEF IInv, Granted
  <2>2. upload = "drain" => queueB.shutdown
    BY DEF IInv, FlagFirst
  <2> QED
    BY <2>1, <2>2
<1>4. Following(queueB.items, uploadItem)
  BY DEF IInv, InOrder
<1>5. /\ Head(queueB.items) = uploadItem + 1 /\ Head(queueB.items) \in Frames
      /\ Len(Tail(queueB.items)) = QueuedB - 1
      /\ Following(Tail(queueB.items), uploadItem + 1)
  BY <1>0, <1>1, <1>3, <1>4, FollowingTail
<1>6. Is(queueB', Tail(queueB.items), queueB.emptySlots, queueB.fillCount, queueB.shutdown)
  BY <1>0, <1>2, <1>3, StepsOfB
<1> QED
  BY <1>2, <1>3, <1>5, <1>6 DEF Is

\* upload_loop sends the frame it has in hand, which is the next one.
LEMMA Sent ==
  ASSUME IInv, UploadSend
  PROVE  /\ uploaded' \in Seq(Frames)
         /\ NumSent' = NumSent + 1
         /\ Following(uploaded', 0)
         /\ upload = "send" /\ upload' = "waiting"
         /\ UNCHANGED <<queueA, queueB, recv, captured, infer, inferItem, uploadItem,
                        handler, QueuedA, QueuedB>>
<1> USE DEF QueuedA, QueuedB, NumSent
<1>0. /\ uploaded \in Seq(Frames) /\ NumSent \in Nat
      /\ uploadItem \in Nat /\ uploadItem <= MaxFrames /\ Frames = 1 .. MaxFrames
      /\ MaxFrames \in Nat
  BY MaxFramesAssumption DEF IInv, TypeOK, Frames
<1>1. /\ upload = "send" /\ upload' = "waiting"
      /\ uploaded' = Append(uploaded, uploadItem)
      /\ UNCHANGED <<queueA, queueB, recv, captured, infer, inferItem, uploadItem, handler>>
  BY DEF UploadSend, OthersOfUpload, recvVars, inferVars
<1>2. uploadItem = 0 + NumSent + 1
  BY <1>0, <1>1 DEF IInv, Chain, UploadHas, One
<1>3. uploadItem \in Frames
  BY <1>0, <1>2
<1>4. Following(uploaded, 0)
  BY DEF IInv, InOrder
<1>5. /\ Append(uploaded, uploadItem) \in Seq(Frames)
      /\ Len(Append(uploaded, uploadItem)) = NumSent + 1
      /\ Following(Append(uploaded, uploadItem), 0)
  BY <1>0, <1>2, <1>3, <1>4, FollowingAppend
<1> QED
  BY <1>1, <1>5

\* A step that moves a frame.
Moves ==
  \/ RecvPush /\ recv = "append"
  \/ InferTake
  \/ InferPush /\ infer = "append"
  \/ UploadTake
  \/ UploadSend

\* Every other step leaves the queues' items and the frames in hand alone; the queues
\* stay queues.
LEMMA Others ==
  ASSUME IInv, [Next]_vars, ~Moves
  PROVE  /\ queueA' \in A!QueueType(Frames) /\ queueA'.items = queueA.items
         /\ queueB' \in A!QueueType(Frames) /\ queueB'.items = queueB.items
         /\ UNCHANGED <<QueuedA, QueuedB, NumSent, inferItem, uploadItem, uploaded>>
<1> SUFFICES /\ queueA' \in A!QueueType(Frames) /\ queueA'.items = queueA.items
             /\ queueB' \in A!QueueType(Frames) /\ queueB'.items = queueB.items
             /\ UNCHANGED <<inferItem, uploadItem, uploaded>>
  BY DEF QueuedA, QueuedB, NumSent
<1> USE StepsOfA, StepsOfB DEF Is
<1>0. queueA \in A!QueueType(Frames) /\ queueB \in A!QueueType(Frames)
  BY DEF IInv, TypeOK, A!QueueType, B!QueueType
<1>1. CASE RecvCapture \/ RecvSourceEnds
  BY <1>0, <1>1 DEF RecvCapture, RecvSourceEnds, OthersOfRecv, inferVars, uploadVars
<1>2. CASE RecvPush /\ recv # "append"
  BY <1>0, <1>2 DEF RecvPush, OthersOfRecv, inferVars, uploadVars
<1>3. CASE RecvShutdown
  BY <1>0, <1>3 DEF RecvShutdown, OthersOfRecv, inferVars, uploadVars
<1>4. CASE InferPop
  BY <1>0, <1>4 DEF InferPop, OthersOfInfer, uploadVars
<1>5. CASE InferPush /\ infer # "append"
  BY <1>0, <1>5 DEF InferPush, OthersOfInfer, uploadVars
<1>6. CASE InferShutdown
  BY <1>0, <1>6 DEF InferShutdown, OthersOfInfer, uploadVars
<1>7. CASE UploadPop
  BY <1>0, <1>7 DEF UploadPop, OthersOfUpload, inferVars
<1>8. ASSUME NEW s \in Signals, HandlerStep(s)
      PROVE  /\ queueA' \in A!QueueType(Frames) /\ queueA'.items = queueA.items
             /\ queueB' \in A!QueueType(Frames) /\ queueB'.items = queueB.items
             /\ UNCHANGED <<inferItem, uploadItem, uploaded>>
  BY <1>0, <1>8 DEF HandlerStep, inferVars, uploadVars
<1>9. CASE Interrupted
  BY <1>0, <1>9 DEF Interrupted
<1>10. CASE Joined \/ UNCHANGED vars
  BY <1>0, <1>10 DEF Joined, vars, inferVars, uploadVars
<1> QED
  BY <1>1, <1>2, <1>3, <1>4, <1>5, <1>6, <1>7, <1>8, <1>9, <1>10
  DEF Next, InferStep, UploadStep, Moves

-----------------------------------------------------------------------------
(* IInv is inductive.                                                      *)

\* What is in the queues, in hand and sent stays in order.
LEMMA NextInOrder == IInv /\ [Next]_vars => InOrder'
<1> SUFFICES ASSUME IInv, [Next]_vars PROVE InOrder'
  OBVIOUS
<1>0. InOrder
  BY DEF IInv
<1>1. CASE RecvPush /\ recv = "append"
  BY <1>0, <1>1, PushA DEF InOrder
<1>2. CASE InferTake
  BY <1>0, <1>2, PopA DEF InOrder
<1>3. CASE InferPush /\ infer = "append"
  BY <1>0, <1>3, PushB DEF InOrder
<1>4. CASE UploadTake
  BY <1>0, <1>4, PopB DEF InOrder
<1>5. CASE UploadSend
  BY <1>0, <1>5, Sent DEF InOrder
<1>6. CASE ~Moves
  BY <1>0, <1>6, Others DEF InOrder, Following
<1> QED
  BY <1>1, <1>2, <1>3, <1>4, <1>5, <1>6 DEF Moves

\* No step takes a variable out of its type: in particular front() and pop() are
\* called on a queue with an item.
LEMMA NextType == IInv /\ [Next]_vars => TypeOK'
<1> SUFFICES ASSUME IInv, [Next]_vars PROVE TypeOK'
  OBVIOUS
<1>0. /\ MaxFrames \in Nat /\ Frames = 1 .. MaxFrames
      /\ A!QueueType(Frames) = B!QueueType(Frames) /\ TypeOK
  BY MaxFramesAssumption DEF Frames, A!QueueType, B!QueueType, IInv
<1>1. queueA' \in A!QueueType(Frames) /\ queueB' \in B!QueueType(Frames)
  BY <1>0, PushA, PopA, PushB, PopB, Sent, Others DEF Moves, Is, TypeOK
<1>2. /\ inferItem' \in 0 .. MaxFrames /\ uploadItem' \in 0 .. MaxFrames
      /\ uploaded' \in Seq(Frames)
  BY <1>0, PushA, PopA, PushB, PopB, Sent, Others DEF Moves, TypeOK
<1>3. captured' \in 0 .. MaxFrames
  BY <1>0 DEF TypeOK, Next, RecvCapture, RecvSourceEnds, RecvPush, RecvShutdown,
    InferStep, InferPop, InferTake, InferPush, InferShutdown, OthersOfInfer, UploadStep,
    UploadPop, UploadTake, UploadSend, OthersOfUpload, HandlerStep, Interrupted, Joined,
    vars, recvVars
<1>4. recv' \in RecvPC
  BY <1>0 DEF TypeOK, RecvPC, Next, RecvCapture, RecvSourceEnds, RecvPush, RecvShutdown,
    InferStep, InferPop, InferTake, InferPush, InferShutdown, OthersOfInfer, UploadStep,
    UploadPop, UploadTake, UploadSend, OthersOfUpload, HandlerStep, Interrupted, Joined,
    vars, recvVars
<1>5. infer' \in InferPC
  BY <1>0 DEF TypeOK, InferPC, Next, RecvCapture, RecvSourceEnds, RecvPush, RecvShutdown,
    OthersOfRecv, InferStep, InferPop, InferTake, InferPush, InferShutdown, UploadStep,
    UploadPop, UploadTake, UploadSend, OthersOfUpload, HandlerStep, Interrupted, Joined,
    vars, inferVars
<1>6. upload' \in UploadPC
  BY <1>0 DEF TypeOK, UploadPC, Next, RecvCapture, RecvSourceEnds, RecvPush, RecvShutdown,
    OthersOfRecv, InferStep, InferPop, InferTake, InferPush, InferShutdown, OthersOfInfer,
    UploadStep, UploadPop, UploadTake, UploadSend, HandlerStep, Interrupted, Joined,
    vars, uploadVars
<1>7. handler' \in [Signals -> 0 .. 6]
  <2>1. ASSUME NEW s \in Signals, HandlerStep(s) PROVE handler' \in [Signals -> 0 .. 6]
    <3>1. handler[s] \in 0 .. 5 /\ handler' = [handler EXCEPT ![s] = handler[s] + 1]
      BY <2>1 DEF HandlerStep
    <3> QED
      BY <1>0, <3>1 DEF TypeOK
  <2>2. CASE ~\E s \in Signals : HandlerStep(s)
    BY <1>0, <2>2 DEF TypeOK, Next, RecvCapture, RecvSourceEnds, RecvPush, RecvShutdown,
      OthersOfRecv, InferStep, InferPop, InferTake, InferPush, InferShutdown,
      OthersOfInfer, UploadStep, UploadPop, UploadTake, UploadSend, OthersOfUpload,
      Interrupted, Joined, vars
  <2> QED
    BY <2>1, <2>2
<1> QED
  BY <1>1, <1>2, <1>3, <1>4, <1>5, <1>6, <1>7 DEF TypeOK

\* A step of a handler is one of a shutdown() whose flag is then set.
LEMMA HandlerFlags ==
  ASSUME IInv, NEW s \in Signals, HandlerStep(s)
  PROVE  /\ handler[s] \in 0 .. 5 /\ handler' = [handler EXCEPT ![s] = handler[s] + 1]
         /\ \/ handler[s] < 3 /\ queueA'.shutdown /\ queueB' = queueB
            \/ handler[s] > 2 /\ queueB'.shutdown /\ queueA' = queueA
<1>0. /\ queueA \in A!QueueType(Frames) /\ queueB \in A!QueueType(Frames) /\ FlagFirst
  BY DEF IInv, TypeOK, A!QueueType, B!QueueType
<1>1. handler[s] \in 0 .. 5 /\ handler' = [handler EXCEPT ![s] = handler[s] + 1]
  BY DEF HandlerStep
<1>2. CASE handler[s] = 0
  BY <1>0, <1>2, StepsOfA DEF HandlerStep, Is
<1>3. CASE handler[s] \in {1, 2}
  <2>1. queueA.shutdown
    BY <1>0, <1>3 DEF FlagFirst
  <2> QED
    BY <1>0, <1>1, <1>3, <2>1, StepsOfA DEF HandlerStep, Is
<1>4. CASE handler[s] = 3
  BY <1>0, <1>1, <1>4, StepsOfB DEF HandlerStep, Is
<1>5. CASE handler[s] \in {4, 5}
  <2>1. queueB.shutdown
    BY <1>0, <1>5 DEF FlagFirst
  <2> QED
    BY <1>0, <1>1, <1>5, <2>1, StepsOfB DEF HandlerStep, Is
<1> QED
  BY <1>1, <1>2, <1>3, <1>4, <1>5

\* Each step keeps FlagFirst: a flag once set stays set.
LEMMA NextFlags == IInv /\ [Next]_vars => FlagFirst'
<1> SUFFICES ASSUME IInv, [Next]_vars PROVE FlagFirst'
  OBVIOUS
<1> USE DEF FlagFirst, RecvFlagged, InferFlagged, Is
<1>0. /\ queueA \in A!QueueType(Frames) /\ queueB \in A!QueueType(Frames) /\ FlagFirst
      /\ handler \in [Signals -> 0 .. 6]
  BY DEF IInv, TypeOK, A!QueueType, B!QueueType
<1>1. CASE RecvCapture \/ RecvSourceEnds \/ RecvPush \/ RecvShutdown
  <2>1. UNCHANGED <<queueB, infer, upload, handler>>
    BY <1>1 DEF RecvCapture, RecvSourceEnds, RecvPush, RecvShutdown, OthersOfRecv,
      inferVars, uploadVars
  <2>2. (queueA.shutdown => queueA'.shutdown) /\ (RecvFlagged' => queueA'.shutdown)
    <3>1. CASE RecvPush /\ recv = "append"
      BY <1>0, <3>1, PushA
    <3>2. CASE RecvCapture \/ RecvSourceEnds \/ (RecvPush /\ recv # "append") \/ RecvShutdown
      BY <1>0, <3>2, StepsOfA DEF RecvCapture, RecvSourceEnds, RecvPush, RecvShutdown
    <3> QED
      BY <1>1, <3>1, <3>2
  <2> QED
    BY <1>0, <2>1, <2>2
<1>2. CASE InferStep
  <2>1. UNCHANGED <<recv, upload, handler>>
    BY <1>2 DEF InferStep, InferPop, InferTake, InferPush, InferShutdown, OthersOfInfer,
      recvVars, uploadVars
  <2>2. /\ (queueA.shutdown => queueA'.shutdown) /\ (queueB.shutdown => queueB'.shutdown)
        /\ infer' = "drain" => queueA'.shutdown
        /\ InferFlagged' => queueB'.shutdown
    <3>1. CASE InferTake
      BY <1>0, <3>1, PopA
    <3>2. CASE InferPush /\ infer = "append"
      BY <1>0, <3>2, PushB
    <3>3. CASE InferPop \/ InferShutdown
      BY <1>0, <3>3, StepsOfA, StepsOfB DEF InferPop, InferShutdown
    <3>4. CASE InferPush /\ infer # "append"
      BY <1>0, <3>4, StepsOfB DEF InferPush
    <3> QED
      BY <1>2, <3>1, <3>2, <3>3, <3>4 DEF InferStep
  <2> QED
    BY <1>0, <2>1, <2>2
<1>3. CASE UploadStep
  <2>1. UNCHANGED <<queueA, recv, infer, handler>>
    BY <1>3 DEF UploadStep, UploadPop, UploadTake, UploadSend, OthersOfUpload, recvVars,
      inferVars
  <2>2. /\ queueB.shutdown => queueB'.shutdown
        /\ upload' = "drain" => queueB'.shutdown
    <3>1. CASE UploadTake
      BY <1>0, <3>1, PopB
    <3>2. CASE UploadPop \/ UploadSend
      BY <1>0, <3>2, StepsOfB DEF UploadPop, UploadSend
    <3> QED
      BY <1>3, <3>1, <3>2 DEF UploadStep
  <2> QED
    BY <1>0, <2>1, <2>2
<1>4. ASSUME NEW s \in Signals, HandlerStep(s) PROVE FlagFirst'
  <2>1. UNCHANGED <<recv, infer, upload>>
    BY <1>4 DEF HandlerStep, recvVars, inferVars, uploadVars
  <2>2. /\ handler[s] \in 0 .. 5 /\ handler'[s] = handler[s] + 1
        /\ \A u \in Signals \ {s} : handler'[u] = handler[u]
    BY <1>0, <1>4, HandlerFlags
  <2> QED
    BY <1>0, <1>4, <2>1, <2>2, HandlerFlags
<1>5. CASE Interrupted
  BY <1>0, <1>5, StepsOfA, StepsOfB DEF Interrupted
<1>6. CASE Joined \/ UNCHANGED vars
  BY <1>0, <1>6 DEF Joined, vars, recvVars, inferVars, uploadVars
<1> QED
  BY <1>1, <1>2, <1>3, <1>4, <1>5, <1>6 DEF Next

\* The parts of IInv that are arithmetic.
Counts == Chain /\ TokensA /\ TokensB /\ Granted

\* Each step keeps the counts: what leaves one place arrives in the next, with its token.
LEMMA NextCounts == IInv /\ [Next]_vars => Counts'
<1> SUFFICES ASSUME IInv, [Next]_vars PROVE Counts'
  OBVIOUS
<1> USE DEF Counts, Chain, TokensA, TokensB, Granted, One, RecvHas, InferHas, UploadHas,
      RecvLeft, InferLeft, Is
<1>0. /\ Counts /\ FlagFirst
      /\ queueA \in A!QueueType(Frames) /\ queueB \in A!QueueType(Frames)
      /\ QueuedA \in Nat /\ QueuedB \in Nat
      /\ queueA.emptySlots \in Nat /\ queueA.fillCount \in Nat
      /\ queueB.emptySlots \in Nat /\ queueB.fillCount \in Nat
      /\ NumSent \in Nat /\ Capacity \in Nat
      /\ captured \in Nat /\ inferItem \in Nat /\ uploadItem \in Nat
  BY CapacityAssumption, MaxFramesAssumption
  DEF IInv, TypeOK, A!QueueType, B!QueueType, QueuedA, QueuedB, NumSent
<1>1. CASE RecvPush /\ recv = "append"
  <2>1. /\ QueuedA' = QueuedA + 1 /\ recv' = "post"
        /\ UNCHANGED <<captured, queueB, infer, inferItem, upload, uploadItem,
                       QueuedB, NumSent>>
        /\ queueA'.emptySlots = queueA.emptySlots
        /\ queueA'.fillCount = queueA.fillCount
        /\ (queueA'.shutdown <=> queueA.shutdown)
    BY <1>1, PushA
  <2>2. Chain' /\ TokensB'
    BY <1>0, <1>1, <2>1
  <2>3. TokensA'
    BY <1>0, <1>1, <2>1
  <2>4. Granted'
    BY <1>0, <1>1, <2>1
  <2> QED
    BY <2>2, <2>3, <2>4
<1>2. CASE InferTake
  BY <1>0, <1>2, PopA
<1>3. CASE InferPush /\ infer = "append"
  <2>1. /\ QueuedB' = QueuedB + 1 /\ infer' = "post"
        /\ UNCHANGED <<queueA, recv, captured, inferItem, upload, uploadItem,
                       QueuedA, NumSent>>
        /\ queueB'.emptySlots = queueB.emptySlots
        /\ queueB'.fillCount = queueB.fillCount
        /\ (queueB'.shutdown <=> queueB.shutdown)
    BY <1>3, PushB
  <2>2. Chain' /\ TokensA'
    BY <1>0, <1>3, <2>1
  <2>3. TokensB'
    BY <1>0, <1>3, <2>1
  <2>4. Granted'
    BY <1>0, <1>3, <2>1
  <2> QED
    BY <2>2, <2>3, <2>4
<1>4. CASE UploadTake
  BY <1>0, <1>4, PopB
<1>5. CASE UploadSend
  BY <1>0, <1>5, Sent
<1>6. CASE ~Moves
  <2>0. UNCHANGED <<QueuedA, QueuedB, NumSent, inferItem, uploadItem>>
    BY <1>6, Others
  <2>1. CASE RecvCapture \/ RecvSourceEnds
    BY <1>0, <2>0, <2>1 DEF RecvCapture, RecvSourceEnds, OthersOfRecv, inferVars, uploadVars
  <2>2. CASE RecvPush /\ recv # "append"
    <3>1. UNCHANGED <<captured, queueB, infer, upload>>
      BY <2>2 DEF RecvPush, OthersOfRecv, inferVars, uploadVars
    <3>2. CASE recv = "waiting"
      BY <1>0, <2>0, <2>2, <3>1, <3>2, StepsOfA DEF RecvPush
    <3>3. CASE recv = "woken"
      BY <1>0, <2>0, <2>2, <3>1, <3>3, StepsOfA DEF RecvPush
    <3>4. CASE recv = "post"
      BY <1>0, <2>0, <2>2, <3>1, <3>4, StepsOfA DEF RecvPush
    <3> QED
      BY <2>2, <3>2, <3>3, <3>4 DEF RecvPush
  <2>3. CASE RecvShutdown
    <3>1. UNCHANGED <<captured, queueB, infer, upload>>
      BY <2>3 DEF RecvShutdown, OthersOfRecv, inferVars, uploadVars
    <3>2. RecvLeft /\ RecvLeft' /\ queueA'.shutdown
      BY <1>0, <2>3, StepsOfA DEF RecvShutdown, FlagFirst, RecvFlagged
    <3> QED
      BY <1>0, <2>0, <3>1, <3>2
  <2>4. CASE InferPop
    <3>1. UNCHANGED <<recv, captured, queueB, upload>>
      BY <2>4 DEF InferPop, OthersOfInfer, recvVars, uploadVars
    <3>2. CASE infer = "waiting"
      BY <1>0, <2>0, <2>4, <3>1, <3>2, StepsOfA DEF InferPop
    <3>4. CASE infer = "postEmpty"
      <4>1. /\ infer' = "run"
            /\ queueA'.emptySlots = queueA.emptySlots + 1
            /\ queueA'.fillCount = queueA.fillCount
            /\ (queueA'.shutdown <=> queueA.shutdown)
        BY <1>0, <2>4, <3>4, StepsOfA DEF InferPop
      <4>2. Chain' /\ TokensB' /\ Granted'
        BY <1>0, <2>0, <3>1, <3>4, <4>1
      <4>3. TokensA'
        BY <1>0, <2>0, <3>1, <3>4, <4>1
      <4> QED
        BY <4>2, <4>3
    <3>3. CASE infer \in {"woken", "drain"}
      BY <1>0, <2>0, <2>4, <3>1, <3>3, StepsOfA DEF InferPop
    <3> QED
      BY <2>4, <3>2, <3>3, <3>4 DEF InferPop
  <2>5. CASE InferPush /\ infer # "append"
    <3>1. UNCHANGED <<queueA, recv, captured, upload>>
      BY <2>5 DEF InferPush, OthersOfInfer, recvVars, uploadVars
    <3>2. CASE infer \in {"run", "waitingB"}
      BY <1>0, <2>0, <2>5, <3>1, <3>2, StepsOfB DEF InferPush
    <3>3. CASE infer = "wokenB"
      BY <1>0, <2>0, <2>5, <3>1, <3>3, StepsOfB DEF InferPush
    <3>4. CASE infer = "post"
      BY <1>0, <2>0, <2>5, <3>1, <3>4, StepsOfB DEF InferPush
    <3> QED
      BY <2>5, <3>2, <3>3, <3>4 DEF InferPush
  <2>6. CASE InferShutdown
    <3>1. UNCHANGED <<queueA, recv, captured, upload>>
      BY <2>6 DEF InferShutdown, OthersOfInfer, recvVars, uploadVars
    <3>2. InferLeft /\ InferLeft' /\ queueB'.shutdown
      BY <1>0, <2>6, StepsOfB DEF InferShutdown, FlagFirst, InferFlagged
    <3> QED
      BY <1>0, <2>0, <3>1, <3>2
  <2>7. CASE UploadPop
    <3>1. UNCHANGED <<queueA, recv, captured, infer>>
      BY <2>7 DEF UploadPop, OthersOfUpload, recvVars, inferVars
    <3>2. CASE upload = "waiting"
      BY <1>0, <2>0, <2>7, <3>1, <3>2, StepsOfB DEF UploadPop
    <3>4. CASE upload = "postEmpty"
      <4>1. /\ upload' = "send"
            /\ queueB'.emptySlots = queueB.emptySlots + 1
            /\ queueB'.fillCount = queueB.fillCount
            /\ (queueB'.shutdown <=> queueB.shutdown)
        BY <1>0, <2>7, <3>4, StepsOfB DEF UploadPop
      <4>2. Chain' /\ TokensA' /\ Granted'
        BY <1>0, <2>0, <3>1, <3>4, <4>1
      <4>3. TokensB'
        BY <1>0, <2>0, <3>1, <3>4, <4>1
      <4> QED
        BY <4>2, <4>3
    <3>3. CASE upload \in {"woken", "drain"}
      BY <1>0, <2>0, <2>7, <3>1, <3>3, StepsOfB DEF UploadPop
    <3> QED
      BY <2>7, <3>2, <3>3, <3>4 DEF UploadPop
  <2>8. ASSUME NEW s \in Signals, HandlerStep(s) PROVE Counts'
    <3>1. UNCHANGED <<recv, captured, infer, upload>>
      BY <2>8 DEF HandlerStep, recvVars, inferVars, uploadVars
    <3> QED
      BY <1>0, <2>0, <2>8, <3>1, HandlerFlags
  <2>9. CASE Interrupted
    BY <1>0, <2>0, <2>9, StepsOfA, StepsOfB DEF Interrupted
  <2>10. CASE Joined \/ UNCHANGED vars
    BY <1>0, <2>0, <2>10 DEF Joined, vars, recvVars, inferVars, uploadVars
  <2> QED
    BY <1>6, <2>1, <2>2, <2>3, <2>4, <2>5, <2>6, <2>7, <2>8, <2>9, <2>10
    DEF Next, InferStep, UploadStep, Moves
<1> QED
  BY <1>1, <1>2, <1>3, <1>4, <1>5, <1>6 DEF Moves

\* Without a signal, each step keeps Unsignalled; the first step of a handler ends it.
LEMMA NextUnsignalled == IInv /\ [Next]_vars => Unsignalled'
<1> SUFFICES ASSUME IInv, [Next]_vars, ~Signalled' PROVE Unsignalled'
  BY DEF Unsignalled
<1>0. /\ handler \in [Signals -> 0 .. 6]
      /\ queueA \in A!QueueType(Frames) /\ queueB \in A!QueueType(Frames)
      /\ QueuedA \in Nat /\ QueuedB \in Nat
      /\ captured \in Nat /\ inferItem \in Nat /\ uploadItem \in Nat
  BY DEF IInv, TypeOK, A!QueueType, B!QueueType, QueuedA, QueuedB
<1>1. ~\E s \in Signals : HandlerStep(s)
  <2> SUFFICES ASSUME NEW s \in Signals, HandlerStep(s) PROVE FALSE
    OBVIOUS
  <2>1. handler[s] \in 0 .. 5 /\ handler' = [handler EXCEPT ![s] = handler[s] + 1]
    BY DEF HandlerStep
  <2>2. handler'[s] > 0
    BY <1>0, <2>1
  <2> QED
    BY <2>2 DEF Signalled
<1>2. handler' = handler
  BY <1>1 DEF Next, RecvCapture, RecvSourceEnds, RecvPush, RecvShutdown,
    OthersOfRecv, InferStep, InferPop, InferTake, InferPush, InferShutdown,
    OthersOfInfer, UploadStep, UploadPop, UploadTake, UploadSend, OthersOfUpload,
    Interrupted, Joined, vars
<1>3. ~Signalled
  BY <1>2 DEF Signalled
<1>4. /\ queueA.shutdown => RecvFlagged
      /\ RecvLeft => inferItem + QueuedA = captured
      /\ InferLeft => /\ RecvFlagged /\ QueuedA = 0
                      /\ uploadItem + QueuedB = inferItem
      /\ queueB.shutdown => InferFlagged
      /\ upload = "done" => InferFlagged /\ QueuedB = 0
      /\ Chain
      /\ infer = "drain" => queueA.shutdown
      /\ upload = "drain" => queueB.shutdown
  BY <1>3 DEF IInv, Unsignalled, FlagFirst
<1> DEFINE Kept ==
      /\ queueA'.shutdown => RecvFlagged'
      /\ RecvLeft' => inferItem' + QueuedA' = captured'
      /\ InferLeft' => /\ RecvFlagged' /\ QueuedA' = 0
                       /\ uploadItem' + QueuedB' = inferItem'
      /\ queueB'.shutdown => InferFlagged'
      /\ upload' = "done" => InferFlagged' /\ QueuedB' = 0
<1> SUFFICES Kept
  BY DEF Unsignalled
<1> USE DEF RecvFlagged, InferFlagged, RecvLeft, InferLeft, RecvHas, InferHas, Chain, One, Is
<1>5. CASE RecvPush /\ recv = "append"
  BY <1>0, <1>4, <1>5, PushA
<1>6. CASE InferTake
  BY <1>0, <1>4, <1>6, PopA
<1>7. CASE InferPush /\ infer = "append"
  BY <1>0, <1>4, <1>7, PushB
<1>8. CASE UploadTake
  BY <1>0, <1>4, <1>8, PopB
<1>9. CASE UploadSend
  BY <1>0, <1>4, <1>9, Sent
<1>10. CASE ~Moves
  <2>0. UNCHANGED <<QueuedA, QueuedB, inferItem, uploadItem>>
    BY <1>10, Others
  <2>1. CASE RecvCapture \/ RecvSourceEnds
    BY <1>0, <1>4, <2>0, <2>1 DEF RecvCapture, RecvSourceEnds, OthersOfRecv, inferVars,
      uploadVars
  <2>2. CASE RecvPush /\ recv # "append"
    BY <1>0, <1>4, <2>0, <2>2, StepsOfA DEF RecvPush, OthersOfRecv, inferVars, uploadVars
  <2>3. CASE RecvShutdown
    BY <1>0, <1>4, <2>0, <2>3, StepsOfA DEF RecvShutdown, OthersOfRecv, inferVars,
      uploadVars
  <2>4. CASE InferPop
    BY <1>0, <1>4, <2>0, <2>4, StepsOfA DEF InferPop, OthersOfInfer, recvVars, uploadVars
  <2>5. CASE InferPush /\ infer # "append"
    BY <1>0, <1>4, <2>0, <2>5, StepsOfB DEF InferPush, OthersOfInfer, recvVars, uploadVars
  <2>6. CASE InferShutdown
    BY <1>0, <1>4, <2>0, <2>6, StepsOfB DEF InferShutdown, OthersOfInfer, recvVars,
      uploadVars
  <2>7. CASE UploadPop
    BY <1>0, <1>4, <2>0, <2>7, StepsOfB DEF UploadPop, OthersOfUpload, recvVars, inferVars
  <2>8. CASE Interrupted
    BY <1>3, <2>8 DEF Interrupted
  <2>9. CASE Joined \/ UNCHANGED vars
    BY <1>0, <1>4, <2>0, <2>9 DEF Joined, vars, recvVars, inferVars, uploadVars
  <2> QED
    BY <1>1, <1>10, <2>1, <2>2, <2>3, <2>4, <2>5, <2>6, <2>7, <2>8, <2>9
    DEF Next, InferStep, UploadStep, Moves
<1> QED
  BY <1>5, <1>6, <1>7, <1>8, <1>9, <1>10 DEF Moves

\* The queues start empty, with every place free.
LEMMA InitIInv == Init => IInv
<1> SUFFICES ASSUME Init PROVE IInv
  OBVIOUS
<1>1. Len(<<>>) = 0 /\ <<>> \in Seq(Frames)
  OBVIOUS
<1>2. /\ queueA.items = <<>> /\ queueB.items = <<>> /\ uploaded = <<>>
      /\ queueA.emptySlots = Capacity /\ queueA.fillCount = 0 /\ ~queueA.shutdown
      /\ queueB.emptySlots = Capacity /\ queueB.fillCount = 0 /\ ~queueB.shutdown
      /\ recv = "capture" /\ infer = "waiting" /\ upload = "waiting"
      /\ captured = 0 /\ inferItem = 0 /\ uploadItem = 0
      /\ handler = [s \in Signals |-> 0]
  BY DEF Init, A!NewQueue, B!NewQueue
<1>3. QueuedA = 0 /\ QueuedB = 0 /\ NumSent = 0
  BY <1>1, <1>2 DEF QueuedA, QueuedB, NumSent
<1>4. TypeOK
  BY <1>1, <1>2, CapacityAssumption, MaxFramesAssumption
  DEF Init, TypeOK, A!NewQueue, B!NewQueue, A!QueueType, B!QueueType, RecvPC, InferPC,
      UploadPC
<1>5. InOrder
  BY <1>1, <1>2 DEF InOrder, Following
<1>6. Chain /\ TokensA /\ TokensB /\ Granted
  BY <1>2, <1>3, CapacityAssumption
  DEF Chain, TokensA, TokensB, Granted, One, RecvHas, InferHas, UploadHas
<1>7. FlagFirst
  BY <1>2 DEF FlagFirst, RecvFlagged, InferFlagged
<1>8. Unsignalled
  BY <1>1, <1>2 DEF Unsignalled, RecvLeft, InferLeft
<1> QED
  BY <1>4, <1>5, <1>6, <1>7, <1>8 DEF IInv

\* IInv is inductive.
LEMMA NextIInv == IInv /\ [Next]_vars => IInv'
BY NextType, NextInOrder, NextCounts, NextFlags, NextUnsignalled DEF IInv, Counts

\* Order, counts, tokens and what the flags say hold in every reachable state of the
\* threads of pipeline_l2.cpp.
THEOREM Invariance == Spec => []IInv
<1> QED
  BY InitIInv, NextIInv, PTL DEF Spec

-----------------------------------------------------------------------------
\* Every variable of the threads and queues of pipeline_l2.cpp stays in its type.
THEOREM TypeCorrect == Spec => []TypeOK
<1>1. IInv => TypeOK
  BY DEF IInv
<1> QED
  BY <1>1, Invariance, PTL

\* pop() of pipeline_l2.cpp never calls front() on an empty queue: outside a drain the
\* token it has taken stands for an item, also when shutdown() is called meanwhile.
THEOREM FrontSafe == Spec => []FrontExists
<1>1. IInv => FrontExists
  <2>1. Len(<<>>) = 0
    OBVIOUS
  <2> QED
    BY <2>1 DEF IInv, Granted, FrontExists, QueuedA, QueuedB
<1> QED
  BY <1>1, Invariance, PTL

\* No queue ever holds more than kQueueCapacity items, whatever shutdown() posts.
THEOREM Bounded == Spec => []QueuesBounded
<1>1. IInv => QueuesBounded
  <2> SUFFICES ASSUME IInv PROVE QueuesBounded
    OBVIOUS
  <2>1. QueuedA \in Nat /\ QueuedB \in Nat /\ Capacity \in Nat
    BY CapacityAssumption DEF IInv, TypeOK, A!QueueType, B!QueueType, QueuedA, QueuedB
  <2>2. QueuedA <= Capacity /\ QueuedB <= Capacity
    BY <2>1 DEF IInv, Granted, One
  <2> QED
    BY <2>2 DEF QueuesBounded, QueuedA, QueuedB
<1> QED
  BY <1>1, Invariance, PTL

\* What upload_loop has sent is 1, 2, 3 and so on: a prefix of what was captured.
THEOREM InOrderSent == Spec => []SentInOrder
<1>1. IInv => SentInOrder
  <2> SUFFICES ASSUME IInv, NEW i \in 1 .. Len(uploaded) PROVE uploaded[i] = i
    BY DEF SentInOrder
  <2>1. uploaded[i] = 0 + i /\ i \in Nat
    BY DEF IInv, InOrder, Following
  <2> QED
    BY <2>1
<1> QED
  BY <1>1, Invariance, PTL

\* Once the threads have returned, and no signal has come, both queues are empty and
\* no hand holds a frame.
LEMMA DrainsFromIInv == IInv => EndDrains
<1> SUFFICES ASSUME IInv, AllDone, ~Signalled PROVE NumSent = captured
  BY DEF EndDrains, NumSent
<1>1. /\ NumSent \in Nat /\ uploadItem \in Nat /\ inferItem \in Nat
      /\ captured \in Nat
  BY DEF IInv, TypeOK, NumSent
<1>2. /\ inferItem + QueuedA = captured
      /\ QueuedA = 0 /\ QueuedB = 0
      /\ uploadItem + QueuedB = inferItem
  BY DEF IInv, Unsignalled, AllDone, RecvLeft, InferLeft
<1>3. NumSent = uploadItem
  BY <1>1 DEF IInv, Chain, AllDone, UploadHas, One
<1> QED
  BY <1>1, <1>2, <1>3

\* When no signal has come and all three threads have returned, every frame captured has
\* been sent: pop() drains both queues after the end of the source.
THEOREM Drained == Spec => []EndDrains
  BY DrainsFromIInv, Invariance, PTL
-----------------------------------------------------------------------------
(* No deadlock.                                                            *)

\* How far the handlers are: the flag set, the producer's semaphore posted, the
\* consumer's.
FlagA == \E s \in Signals : handler[s] > 0
EmptyA == \E s \in Signals : handler[s] > 1
FillA == \E s \in Signals : handler[s] > 2
FlagB == \E s \in Signals : handler[s] > 3
EmptyB == \E s \in Signals : handler[s] > 4
FillB == \E s \in Signals : handler[s] > 5

\* After the post of a handler the producer finds a token as long as it comes back to
\* wait: the flag keeps it from spending the one it has taken.
Spare ==
  /\ EmptyA /\ recv \in {"capture", "waiting", "woken", "append", "post"} =>
       queueA.emptySlots + One(recv = "woken") >= 1
  /\ EmptyB /\ infer \notin {"leaving", "flagged", "wokeProducer", "done"} =>
       queueB.emptySlots + One(infer = "wokenB") >= 1

\* As long as the consumer pops, every item has its token of fillCount, or is about to
\* get it, while draining as well; a post of shutdown() is a token more.
EnoughA ==
  ~InferLeft =>
    queueA.fillCount + One(recv = "post") + One(infer \in {"woken", "take", "drain"})
      >= QueuedA + One(recv = "done" \/ FillA)

EnoughB ==
  upload # "done" =>
    queueB.fillCount + One(infer = "post") + One(upload \in {"woken", "take", "drain"})
      >= QueuedB + One(infer = "done" \/ FillB)

\* A queue is shut down by its producer or by a handler, and a consumer that has left
\* has a queue that is shut down.
Closed ==
  /\ queueA.shutdown => RecvFlagged \/ FlagA
  /\ queueB.shutdown => InferFlagged \/ FlagB
  /\ InferLeft => queueA.shutdown
  /\ upload = "done" => queueB.shutdown

Waits == Spare /\ EnoughA /\ EnoughB /\ Closed

\* What each thread needs to go on: the token it waits for.
RecvCanGo == recv # "done" /\ (recv = "waiting" => queueA.emptySlots > 0)

InferCanGo ==
  /\ infer # "done"
  /\ infer = "waiting" => queueA.fillCount > 0
  /\ infer = "waitingB" => queueB.emptySlots > 0

UploadCanGo == upload # "done" /\ (upload = "waiting" => queueB.fillCount > 0)

HandlerUnderWay == \E s \in Signals : handler[s] \in 1 .. 5

SomebodyCanGo ==
  AllDone \/ RecvCanGo \/ InferCanGo \/ UploadCanGo \/ HandlerUnderWay

\* Who is not a handler leaves the handlers where they are.
LEMMA HandlersStay ==
  ASSUME handler' = handler
  PROVE  /\ (FlagA' <=> FlagA) /\ (EmptyA' <=> EmptyA) /\ (FillA' <=> FillA)
         /\ (FlagB' <=> FlagB) /\ (EmptyB' <=> EmptyB) /\ (FillB' <=> FillB)
BY DEF FlagA, EmptyA, FillA, FlagB, EmptyB, FillB

\* Each step of a handler is one of the six of request_shutdown().
LEMMA HandlerPosts ==
  ASSUME handler \in [Signals -> 0 .. 6], NEW s \in Signals, HandlerStep(s)
  PROVE  /\ UNCHANGED <<recv, infer, upload>>
         /\ \/ /\ A!SetShutdown /\ queueB' = queueB /\ FlagA'
               /\ (EmptyA' <=> EmptyA) /\ (FillA' <=> FillA) /\ (FlagB' <=> FlagB)
               /\ (EmptyB' <=> EmptyB) /\ (FillB' <=> FillB)
            \/ /\ A!WakeProducer /\ queueB' = queueB /\ EmptyA'
               /\ (FlagA' <=> FlagA) /\ (FillA' <=> FillA) /\ (FlagB' <=> FlagB)
               /\ (EmptyB' <=> EmptyB) /\ (FillB' <=> FillB)
            \/ /\ A!WakeConsumer /\ queueB' = queueB /\ FillA'
               /\ (FlagA' <=> FlagA) /\ (EmptyA' <=> EmptyA) /\ (FlagB' <=> FlagB)
               /\ (EmptyB' <=> EmptyB) /\ (FillB' <=> FillB)
            \/ /\ B!SetShutdown /\ queueA' = queueA /\ FlagB'
               /\ (FlagA' <=> FlagA) /\ (EmptyA' <=> EmptyA) /\ (FillA' <=> FillA)
               /\ (EmptyB' <=> EmptyB) /\ (FillB' <=> FillB)
            \/ /\ B!WakeProducer /\ queueA' = queueA /\ EmptyB'
               /\ (FlagA' <=> FlagA) /\ (EmptyA' <=> EmptyA) /\ (FillA' <=> FillA)
               /\ (FlagB' <=> FlagB) /\ (FillB' <=> FillB)
            \/ /\ B!WakeConsumer /\ queueA' = queueA /\ FillB'
               /\ (FlagA' <=> FlagA) /\ (EmptyA' <=> EmptyA) /\ (FillA' <=> FillA)
               /\ (FlagB' <=> FlagB) /\ (EmptyB' <=> EmptyB)
<1> USE DEF FlagA, EmptyA, FillA, FlagB, EmptyB, FillB
<1>1. /\ UNCHANGED <<recv, infer, upload>>
      /\ handler[s] \in 0 .. 5 /\ handler'[s] = handler[s] + 1
      /\ \A u \in Signals \ {s} : handler'[u] = handler[u]
  BY DEF HandlerStep, recvVars, inferVars, uploadVars
<1>2. CASE handler[s] = 0
  <2>1. A!SetShutdown /\ queueB' = queueB /\ FlagA'
    BY <1>1, <1>2 DEF HandlerStep
  <2>2. /\ (EmptyA' <=> EmptyA) /\ (FillA' <=> FillA) /\ (FlagB' <=> FlagB)
        /\ (EmptyB' <=> EmptyB) /\ (FillB' <=> FillB)
    BY <1>1, <1>2
  <2> HIDE DEF FlagA, EmptyA, FillA, FlagB, EmptyB, FillB
  <2> QED
    BY <1>1, <2>1, <2>2
<1>3. CASE handler[s] = 1
  <2>1. A!WakeProducer /\ queueB' = queueB /\ EmptyA'
    BY <1>1, <1>3 DEF HandlerStep
  <2>2. /\ (FlagA' <=> FlagA) /\ (FillA' <=> FillA) /\ (FlagB' <=> FlagB)
        /\ (EmptyB' <=> EmptyB) /\ (FillB' <=> FillB)
    BY <1>1, <1>3
  <2> HIDE DEF FlagA, EmptyA, FillA, FlagB, EmptyB, FillB
  <2> QED
    BY <1>1, <2>1, <2>2
<1>4. CASE handler[s] = 2
  <2>1. A!WakeConsumer /\ queueB' = queueB /\ FillA'
    BY <1>1, <1>4 DEF HandlerStep
  <2>2. /\ (FlagA' <=> FlagA) /\ (EmptyA' <=> EmptyA) /\ (FlagB' <=> FlagB)
        /\ (EmptyB' <=> EmptyB) /\ (FillB' <=> FillB)
    BY <1>1, <1>4
  <2> HIDE DEF FlagA, EmptyA, FillA, FlagB, EmptyB, FillB
  <2> QED
    BY <1>1, <2>1, <2>2
<1>5. CASE handler[s] = 3
  <2>1. B!SetShutdown /\ queueA' = queueA /\ FlagB'
    BY <1>1, <1>5 DEF HandlerStep
  <2>2. /\ (FlagA' <=> FlagA) /\ (EmptyA' <=> EmptyA) /\ (FillA' <=> FillA)
        /\ (EmptyB' <=> EmptyB) /\ (FillB' <=> FillB)
    BY <1>1, <1>5
  <2> HIDE DEF FlagA, EmptyA, FillA, FlagB, EmptyB, FillB
  <2> QED
    BY <1>1, <2>1, <2>2
<1>6. CASE handler[s] = 4
  <2>1. B!WakeProducer /\ queueA' = queueA /\ EmptyB'
    BY <1>1, <1>6 DEF HandlerStep
  <2>2. /\ (FlagA' <=> FlagA) /\ (EmptyA' <=> EmptyA) /\ (FillA' <=> FillA)
        /\ (FlagB' <=> FlagB) /\ (FillB' <=> FillB)
    BY <1>1, <1>6
  <2> HIDE DEF FlagA, EmptyA, FillA, FlagB, EmptyB, FillB
  <2> QED
    BY <1>1, <2>1, <2>2
<1>7. CASE handler[s] = 5
  <2>1. B!WakeConsumer /\ queueA' = queueA /\ FillB'
    BY <1>1, <1>7 DEF HandlerStep
  <2>2. /\ (FlagA' <=> FlagA) /\ (EmptyA' <=> EmptyA) /\ (FillA' <=> FillA)
        /\ (FlagB' <=> FlagB) /\ (EmptyB' <=> EmptyB)
    BY <1>1, <1>7
  <2> HIDE DEF FlagA, EmptyA, FillA, FlagB, EmptyB, FillB
  <2> QED
    BY <1>1, <2>1, <2>2
<1> HIDE DEF FlagA, EmptyA, FillA, FlagB, EmptyB, FillB
<1> QED
  BY <1>1, <1>2, <1>3, <1>4, <1>5, <1>6, <1>7

\* What FlagFirst says of the handlers: the flag of a queue comes before its posts.
LEMMA PostsAfterFlag ==
  ASSUME FlagFirst, handler \in [Signals -> 0 .. 6]
  PROVE  /\ FlagA \/ EmptyA \/ FillA => queueA.shutdown
         /\ FlagB \/ EmptyB \/ FillB => queueA.shutdown /\ queueB.shutdown
BY DEF FlagFirst, FlagA, EmptyA, FillA, FlagB, EmptyB, FillB

\* Each step keeps the tokens of the blocked, and closes a queue before its consumer
\* leaves.
LEMMA NextWaits == IInv /\ Waits /\ [Next]_vars => Waits'
<1> SUFFICES ASSUME IInv, Waits, [Next]_vars PROVE Waits'
  OBVIOUS
<1> USE DEF Waits, Spare, EnoughA, EnoughB, Closed, One, RecvFlagged, InferFlagged,
      InferLeft, Is
<1>0. /\ FlagFirst /\ handler \in [Signals -> 0 .. 6]
      /\ queueA \in A!QueueType(Frames) /\ queueB \in A!QueueType(Frames)
      /\ QueuedA \in Nat /\ QueuedB \in Nat
      /\ queueA.emptySlots \in Nat /\ queueA.fillCount \in Nat
      /\ queueB.emptySlots \in Nat /\ queueB.fillCount \in Nat
  BY DEF IInv, TypeOK, A!QueueType, B!QueueType, QueuedA, QueuedB
<1>00. /\ FlagA \/ EmptyA \/ FillA => queueA.shutdown
       /\ FlagB \/ EmptyB \/ FillB => queueA.shutdown /\ queueB.shutdown
  BY <1>0, PostsAfterFlag
<1>1. CASE RecvPush /\ recv = "append"
  <2>1. /\ QueuedA' = QueuedA + 1 /\ recv' = "post"
        /\ UNCHANGED <<queueB, infer, upload, handler, QueuedB>>
        /\ queueA'.emptySlots = queueA.emptySlots
        /\ queueA'.fillCount = queueA.fillCount
        /\ (queueA'.shutdown <=> queueA.shutdown)
    BY <1>1, PushA
  <2> QED
    BY <1>0, <1>1, <2>1, HandlersStay
<1>2. CASE InferTake
  <2>1. /\ QueuedA' = QueuedA - 1
        /\ infer \in {"take", "drain"} /\ infer' \in {"postEmpty", "run"}
        /\ UNCHANGED <<queueB, recv, upload, handler, QueuedB>>
        /\ queueA'.emptySlots = queueA.emptySlots
        /\ queueA'.fillCount = queueA.fillCount
        /\ (queueA'.shutdown <=> queueA.shutdown)
    BY <1>2, PopA
  <2> QED
    BY <1>0, <2>1, HandlersStay
<1>3. CASE InferPush /\ infer = "append"
  <2>1. /\ QueuedB' = QueuedB + 1 /\ infer' = "post"
        /\ UNCHANGED <<queueA, recv, upload, handler, QueuedA>>
        /\ queueB'.emptySlots = queueB.emptySlots
        /\ queueB'.fillCount = queueB.fillCount
        /\ (queueB'.shutdown <=> queueB.shutdown)
    BY <1>3, PushB
  <2> QED
    BY <1>0, <1>3, <2>1, HandlersStay
<1>4. CASE UploadTake
  <2>1. /\ QueuedB' = QueuedB - 1
        /\ upload \in {"take", "drain"} /\ upload' \in {"postEmpty", "send"}
        /\ UNCHANGED <<queueA, recv, infer, handler, QueuedA>>
        /\ queueB'.emptySlots = queueB.emptySlots
        /\ queueB'.fillCount = queueB.fillCount
        /\ (queueB'.shutdown <=> queueB.shutdown)
    BY <1>4, PopB
  <2> QED
    BY <1>0, <2>1, HandlersStay
<1>5. CASE UploadSend
  BY <1>0, <1>5, Sent, HandlersStay
<1>6. CASE ~Moves
  <2>0. UNCHANGED <<QueuedA, QueuedB>>
    BY <1>6, Others
  <2>1. CASE RecvCapture \/ RecvSourceEnds
    BY <1>0, <2>0, <2>1, HandlersStay
    DEF RecvCapture, RecvSourceEnds, OthersOfRecv, inferVars, uploadVars
  <2>2. CASE RecvPush /\ recv # "append"
    <3>1. UNCHANGED <<queueB, infer, upload, handler>>
      BY <2>2 DEF RecvPush, OthersOfRecv, inferVars, uploadVars
    <3> USE <1>0, <1>00, <2>0, <2>2, <3>1, HandlersStay, StepsOfA
    <3>2. CASE recv = "waiting"
      BY <3>2 DEF RecvPush
    <3>3. CASE recv = "woken"
      BY <3>3 DEF RecvPush
    <3>4. CASE recv = "post"
      BY <3>4 DEF RecvPush
    <3> QED
      BY <3>2, <3>3, <3>4 DEF RecvPush
  <2>3. CASE RecvShutdown
    <3>1. UNCHANGED <<queueB, infer, upload, handler>>
      BY <2>3 DEF RecvShutdown, OthersOfRecv, inferVars, uploadVars
    <3> USE <1>0, <2>0, <2>3, <3>1, HandlersStay, StepsOfA
    <3>2. CASE recv = "leaving"
      BY <3>2 DEF RecvShutdown
    <3>3. CASE recv = "flagged"
      BY <3>3 DEF RecvShutdown
    <3>4. CASE recv = "wokeProducer"
      BY <3>4 DEF RecvShutdown
    <3> QED
      BY <3>2, <3>3, <3>4 DEF RecvShutdown
  <2>4. CASE InferPop
    <3>1. UNCHANGED <<queueB, recv, upload, handler>>
      BY <2>4 DEF InferPop, OthersOfInfer, recvVars, uploadVars
    <3> USE <1>0, <2>0, <2>4, <3>1, HandlersStay, StepsOfA
    <3>2. CASE infer = "waiting"
      BY <3>2 DEF InferPop
    <3>3. CASE infer = "woken"
      BY <3>3 DEF InferPop
    <3>4. CASE infer = "drain"
      BY <3>4 DEF InferPop, FlagFirst
    <3>5. CASE infer = "postEmpty"
      BY <3>5 DEF InferPop
    <3> QED
      BY <3>2, <3>3, <3>4, <3>5 DEF InferPop
  <2>5. CASE InferPush /\ infer # "append"
    <3>1. UNCHANGED <<queueA, recv, upload, handler>>
      BY <2>5 DEF InferPush, OthersOfInfer, recvVars, uploadVars
    <3> USE <1>0, <1>00, <2>0, <2>5, <3>1, HandlersStay, StepsOfB
    <3>2. CASE infer = "run"
      BY <3>2 DEF InferPush
    <3>3. CASE infer = "waitingB"
      BY <3>3 DEF InferPush
    <3>4. CASE infer = "wokenB"
      BY <3>4 DEF InferPush
    <3>5. CASE infer = "post"
      BY <3>5 DEF InferPush
    <3> QED
      BY <3>2, <3>3, <3>4, <3>5 DEF InferPush
  <2>6. CASE InferShutdown
    <3>1. UNCHANGED <<queueA, recv, upload, handler>>
      BY <2>6 DEF InferShutdown, OthersOfInfer, recvVars, uploadVars
    <3> USE <1>0, <2>0, <2>6, <3>1, HandlersStay, StepsOfB
    <3>2. CASE infer = "leaving"
      BY <3>2 DEF InferShutdown
    <3>3. CASE infer = "flagged"
      BY <3>3 DEF InferShutdown
    <3>4. CASE infer = "wokeProducer"
      BY <3>4 DEF InferShutdown
    <3> QED
      BY <3>2, <3>3, <3>4 DEF InferShutdown
  <2>7. CASE UploadPop
    <3>1. UNCHANGED <<queueA, recv, infer, handler>>
      BY <2>7 DEF UploadPop, OthersOfUpload, recvVars, inferVars
    <3> USE <1>0, <2>0, <2>7, <3>1, HandlersStay, StepsOfB
    <3>2. CASE upload = "waiting"
      BY <3>2 DEF UploadPop
    <3>3. CASE upload = "woken"
      BY <3>3 DEF UploadPop
    <3>4. CASE upload = "drain"
      BY <3>4 DEF UploadPop, FlagFirst
    <3>5. CASE upload = "postEmpty"
      BY <3>5 DEF UploadPop
    <3> QED
      BY <3>2, <3>3, <3>4, <3>5 DEF UploadPop
  <2>8. ASSUME NEW s \in Signals, HandlerStep(s) PROVE Waits'
    <3>1. UNCHANGED <<recv, infer, upload>>
      BY <1>0, <2>8, HandlerPosts
    <3> USE <1>0, <2>0, <3>1
    <3>2. CASE /\ A!SetShutdown /\ queueB' = queueB /\ FlagA'
               /\ (EmptyA' <=> EmptyA) /\ (FillA' <=> FillA) /\ (FlagB' <=> FlagB)
               /\ (EmptyB' <=> EmptyB) /\ (FillB' <=> FillB)
      BY <3>2, StepsOfA
    <3>3. CASE /\ A!WakeProducer /\ queueB' = queueB /\ EmptyA'
               /\ (FlagA' <=> FlagA) /\ (FillA' <=> FillA) /\ (FlagB' <=> FlagB)
               /\ (EmptyB' <=> EmptyB) /\ (FillB' <=> FillB)
      BY <3>3, StepsOfA
    <3>4. CASE /\ A!WakeConsumer /\ queueB' = queueB /\ FillA'
               /\ (FlagA' <=> FlagA) /\ (EmptyA' <=> EmptyA) /\ (FlagB' <=> FlagB)
               /\ (EmptyB' <=> EmptyB) /\ (FillB' <=> FillB)
      BY <3>4, StepsOfA
    <3>5. CASE /\ B!SetShutdown /\ queueA' = queueA /\ FlagB'
               /\ (FlagA' <=> FlagA) /\ (EmptyA' <=> EmptyA) /\ (FillA' <=> FillA)
               /\ (EmptyB' <=> EmptyB) /\ (FillB' <=> FillB)
      BY <3>5, StepsOfB
    <3>6. CASE /\ B!WakeProducer /\ queueA' = queueA /\ EmptyB'
               /\ (FlagA' <=> FlagA) /\ (EmptyA' <=> EmptyA) /\ (FillA' <=> FillA)
               /\ (FlagB' <=> FlagB) /\ (FillB' <=> FillB)
      BY <3>6, StepsOfB
    <3>7. CASE /\ B!WakeConsumer /\ queueA' = queueA /\ FillB'
               /\ (FlagA' <=> FlagA) /\ (EmptyA' <=> EmptyA) /\ (FillA' <=> FillA)
               /\ (FlagB' <=> FlagB) /\ (EmptyB' <=> EmptyB)
      BY <3>7, StepsOfB
    <3> QED
      BY <2>8, <3>2, <3>3, <3>4, <3>5, <3>6, <3>7, HandlerPosts
  <2>9. CASE Interrupted
    BY <1>0, <1>00, <2>0, <2>9, StepsOfA, StepsOfB, HandlersStay DEF Interrupted
  <2>10. CASE Joined \/ UNCHANGED vars
    BY <1>0, <2>0, <2>10, HandlersStay DEF Joined, vars, recvVars, inferVars, uploadVars
  <2> QED
    BY <1>6, <2>1, <2>2, <2>3, <2>4, <2>5, <2>6, <2>7, <2>8, <2>9, <2>10
    DEF Next, InferStep, UploadStep, Moves
<1> QED
  BY <1>1, <1>2, <1>3, <1>4, <1>5, <1>6 DEF Moves

\* At first no token is posted for nothing, and no queue is shut down.
LEMMA InitWaits == Init => Waits
<1> SUFFICES ASSUME Init PROVE Waits
  OBVIOUS
<1>1. /\ queueA.items = <<>> /\ queueB.items = <<>>
      /\ queueA.emptySlots = Capacity /\ queueA.fillCount = 0 /\ ~queueA.shutdown
      /\ queueB.emptySlots = Capacity /\ queueB.fillCount = 0 /\ ~queueB.shutdown
      /\ recv = "capture" /\ infer = "waiting" /\ upload = "waiting"
  BY DEF Init, A!NewQueue, B!NewQueue
<1>2. Len(<<>>) = 0
  OBVIOUS
<1>3. QueuedA = 0 /\ QueuedB = 0
  BY <1>1, <1>2 DEF QueuedA, QueuedB
<1>4. ~EmptyA /\ ~FillA /\ ~EmptyB /\ ~FillB
  BY DEF Init, EmptyA, FillA, EmptyB, FillB
<1> QED
  BY <1>1, <1>3, <1>4, CapacityAssumption
  DEF Waits, Spare, EnoughA, EnoughB, Closed, InferLeft, RecvFlagged, InferFlagged, One

\* The chain of who waits for whom ends: a thread that finds no token waits for one
\* that has it or an item in hand, or for a handler that has not yet posted.
LEMMA WaitsSuffice == IInv /\ Waits => SomebodyCanGo
<1> SUFFICES ASSUME IInv, Waits, ~HandlerUnderWay PROVE SomebodyCanGo
  BY DEF SomebodyCanGo
<1> USE DEF SomebodyCanGo, RecvCanGo, InferCanGo, UploadCanGo, One
<1>0. /\ FlagFirst /\ handler \in [Signals -> 0 .. 6]
      /\ recv \in RecvPC /\ infer \in InferPC /\ upload \in UploadPC
      /\ QueuedA \in Nat /\ QueuedB \in Nat
      /\ queueA.emptySlots \in Nat /\ queueA.fillCount \in Nat
      /\ queueB.emptySlots \in Nat /\ queueB.fillCount \in Nat
      /\ Capacity \in Nat /\ Capacity > 0
  BY CapacityAssumption DEF IInv, TypeOK, A!QueueType, B!QueueType, QueuedA, QueuedB
\* A handler that has begun has made all its posts.
<1>1. /\ FlagA => EmptyA /\ FillA
      /\ FlagB => EmptyB /\ FillB
  <2>1. \A s \in Signals : handler[s] = 0 \/ handler[s] = 6
    BY <1>0 DEF HandlerUnderWay
  <2> QED
    BY <2>1 DEF FlagA, EmptyA, FillA, FlagB, EmptyB, FillB
<1>2. CASE infer = "waitingB" /\ queueB.emptySlots = 0
  <2>1. ~EmptyB
    BY <1>0, <1>2 DEF Waits, Spare
  <2>2. ~queueB.shutdown
    BY <1>1, <1>2, <2>1 DEF Waits, Closed, InferFlagged
  <2>3. /\ QueuedB + One(upload = "postEmpty") = Capacity
        /\ queueB.fillCount + One(upload \in {"woken", "take"}) = QueuedB
    BY <1>0, <1>2, <2>2 DEF IInv, TokensB
  <2>4. upload # "done"
    BY <2>2 DEF Waits, Closed
  <2> QED
    BY <1>0, <2>3, <2>4
<1>3. CASE infer = "waiting" /\ queueA.fillCount = 0
  <2>1. One(recv = "post") >= QueuedA + One(recv = "done" \/ FillA)
    BY <1>0, <1>3 DEF Waits, EnoughA, InferLeft
  <2>2. CASE recv = "post"
    BY <2>2
  <2>3. CASE recv # "post"
    <3>1. recv # "done" /\ ~FillA /\ QueuedA = 0
      BY <1>0, <2>1, <2>3
    <3>2. CASE recv = "waiting"
      <4>1. ~queueA.shutdown
        BY <1>1, <3>1, <3>2 DEF Waits, Closed, RecvFlagged
      <4> QED
        BY <1>0, <1>3, <3>1, <3>2, <4>1 DEF IInv, TokensA
    <3> QED
      BY <3>1, <3>2
  <2> QED
    BY <2>2, <2>3
<1>4. CASE infer = "done" /\ recv = "waiting"
  <2>1. FlagA
    BY <1>4 DEF Waits, Closed, InferLeft, RecvFlagged
  <2> QED
    BY <1>0, <1>1, <1>4, <2>1 DEF Waits, Spare
<1>5. CASE infer = "done" /\ upload = "waiting"
  BY <1>0, <1>5 DEF Waits, EnoughB
<1> QED
  BY <1>0, <1>2, <1>3, <1>4, <1>5 DEF AllDone

\* The threads of pipeline_l2.cpp never block each other for good, whatever signals
\* come, and while a shutdown drains the queues: as long as a thread has not returned,
\* one of them, or a handler, can go on.
THEOREM NoDeadlock == Spec => []SomebodyCanGo
<1>1. Init => IInv /\ Waits
  BY InitIInv, InitWaits
<1>2. IInv /\ Waits /\ [Next]_vars => (IInv /\ Waits)'
  BY NextIInv, NextWaits
<1>3. IInv /\ Waits => SomebodyCanGo
  BY WaitsSuffice
<1> QED
  BY <1>1, <1>2, <1>3, PTL DEF Spec
-----------------------------------------------------------------------------
(* One line of frames.                                                     *)

\* What the threads work on is one frame each, the next one.  The counts follow each
\* other; who has returned has found the queue of recv_loop shut down, and without a
\* signal everything sent.
InTurn ==
  /\ captured \in Nat /\ inferItem \in Nat /\ NumSent \in Nat
  /\ queueA \in A!QueueType(Frames) /\ handler \in [Signals -> 0 .. 6]
  /\ uploadItem = IF UploadHas THEN NumSent + 1 ELSE NumSent
  /\ infer \in {"postEmpty", "run"} => inferItem <= captured
  /\ uploadItem <= Inferred
  /\ captured - NumSent <= 2 * Capacity + 3
  /\ AllDone \/ Signalled => queueA.shutdown
  /\ AllDone /\ ~Signalled => NumSent = captured

\* It follows from the chain of queues and hands.
LEMMA InTurnFromIInv == IInv => InTurn
<1> SUFFICES ASSUME IInv PROVE InTurn
  OBVIOUS
<1>1. /\ captured \in Nat /\ inferItem \in Nat /\ uploadItem \in Nat /\ NumSent \in Nat
      /\ QueuedA \in Nat /\ QueuedB \in Nat /\ Capacity \in Nat
      /\ queueA \in A!QueueType(Frames) /\ handler \in [Signals -> 0 .. 6]
      /\ QueuedA <= Capacity /\ QueuedB <= Capacity
      /\ Chain /\ FlagFirst /\ Unsignalled
  BY CapacityAssumption, MaxFramesAssumption
  DEF IInv, TypeOK, A!QueueType, B!QueueType, QueuedA, QueuedB, NumSent, Granted, One
<1>2. uploadItem = IF UploadHas THEN NumSent + 1 ELSE NumSent
  BY <1>1 DEF Chain, One
<1>3. infer \in {"postEmpty", "run"} => inferItem <= captured
  BY <1>1 DEF Chain, One
<1>4. uploadItem <= Inferred
  BY <1>1 DEF Chain, One, Inferred, InferHas, InferLeft
<1>5. captured - NumSent <= 2 * Capacity + 3
  BY <1>1 DEF Chain, One
<1>6. AllDone \/ Signalled => queueA.shutdown
  BY <1>1 DEF FlagFirst, AllDone, RecvFlagged, Signalled
<1>7. AllDone /\ ~Signalled => NumSent = captured
  BY DrainsFromIInv DEF EndDrains, NumSent
<1> QED
  BY <1>1, <1>2, <1>3, <1>4, <1>5, <1>6, <1>7 DEF InTurn

\* Where the threads are, and whether the line is closed, is all that shows of a step
\* between two takes: unless it ends the last thread, which is the return of the line.
LEMMA LastReturns ==
  ASSUME InTurn, InTurn', AllDone = FALSE,
         UNCHANGED <<captured, inferItem, uploadItem, uploaded, queueA.shutdown, Signalled>>,
         infer' \in {"postEmpty", "run"} <=> infer \in {"postEmpty", "run"},
         upload' \in {"postEmpty", "send"} <=> upload \in {"postEmpty", "send"}
  PROVE  [Line!Next]_(Line!vars)
<1>1. Inferring' = Inferring /\ Inferred' = Inferred /\ Sending' = Sending
  BY DEF Inferring, Inferred, Sending
<1>2. CASE AllDone'
  <2>1. queueA.shutdown = TRUE
    BY <1>2 DEF InTurn, A!QueueType
  <2>2. Inferring = {} /\ Sending = {}
    BY <1>1, <1>2 DEF AllDone, Inferring, Sending
  <2>3. ~Signalled => Len(uploaded) = captured
    BY <1>2 DEF InTurn, NumSent
  <2>4. Line!Return
    BY <1>1, <1>2, <2>1, <2>2, <2>3 DEF Line!Return
  <2> QED
    BY <2>4 DEF Line!Next
<1>3. CASE ~AllDone'
  <2>1. AllDone' = AllDone
    BY <1>3 DEF AllDone
  <2> QED
    BY <1>1, <2>1 DEF Line!vars
<1> QED
  BY <1>2, <1>3

\* What recv_loop does to the line: it captures, and it closes it.
LEMMA RecvOnLine ==
  ASSUME InTurn, InTurn', RecvCapture \/ RecvSourceEnds \/ RecvPush \/ RecvShutdown
  PROVE  [Line!Next]_(Line!vars)
<1>1. /\ UNCHANGED <<infer, inferItem, upload, uploadItem, uploaded, handler>>
      /\ AllDone = FALSE /\ Signalled' = Signalled
  BY DEF RecvCapture, RecvSourceEnds, RecvPush, RecvShutdown, OthersOfRecv, inferVars,
    uploadVars, AllDone, Signalled
<1>2. Inferring' = Inferring /\ Inferred' = Inferred /\ Sending' = Sending
  BY <1>1 DEF Inferring, Inferred, Sending
<1>3. CASE RecvCapture
  <2>1. /\ captured' = captured + 1 /\ UNCHANGED <<queueA, uploaded>>
        /\ AllDone' = FALSE
    BY <1>1, <1>3 DEF RecvCapture, AllDone
  <2>2. captured - Len(uploaded) < 2 * Capacity + 3
    BY <2>1, CapacityAssumption DEF InTurn, NumSent
  <2>3. Line!Capture
    BY <1>1, <1>2, <2>1, <2>2 DEF Line!Capture
  <2> QED
    BY <2>3 DEF Line!Next
<1>4. CASE RecvShutdown /\ recv = "leaving"
  <2>1. A!SetShutdown /\ captured' = captured /\ recv' # "done"
    BY <1>4 DEF RecvShutdown
  <2>2. queueA'.shutdown = TRUE /\ AllDone' = FALSE
    BY <2>1, StepsOfA DEF Is, InTurn, A!QueueType, AllDone
  <2>3. Line!Close
    BY <1>1, <1>2, <2>1, <2>2 DEF Line!Close
  <2> QED
    BY <2>3 DEF Line!Next
<1>5. CASE RecvPush \/ RecvSourceEnds \/ (RecvShutdown /\ recv # "leaving")
  <2>1. captured' = captured
    BY <1>5 DEF RecvPush, RecvSourceEnds, RecvShutdown
  <2>2. queueA'.shutdown = queueA.shutdown
    <3>1. /\ queueA' = queueA \/ A!SemWaitEmpty \/ A!Append1(captured) \/ A!PostFill
             \/ A!WakeProducer \/ A!WakeConsumer
      BY <1>5 DEF RecvPush, RecvSourceEnds, RecvShutdown, A!PushRefused, A!PushGranted
    <3> QED
      BY <3>1 DEF InTurn, A!QueueType, A!SemWaitEmpty, A!Append1, A!PostFill,
        A!WakeProducer, A!WakeConsumer
  <2> QED
    BY <1>1, <2>1, <2>2, LastReturns
<1> QED
  BY <1>3, <1>4, <1>5

\* infer_loop takes the next frame, and finishes it.
LEMMA InferOnLine ==
  ASSUME IInv, InTurn, InTurn', InferStep
  PROVE  [Line!Next]_(Line!vars)
<1>1. /\ UNCHANGED <<recv, captured, upload, uploadItem, uploaded, handler>>
      /\ AllDone = FALSE /\ Signalled' = Signalled
  BY DEF InferStep, InferPop, InferTake, InferPush, InferShutdown, OthersOfInfer, recvVars,
    uploadVars, AllDone, Signalled
<1>2. Sending' = Sending
  BY <1>1 DEF Sending
<1>3. queueA \in A!QueueType(Frames) /\ inferItem \in Nat
  BY DEF InTurn
<1>4. CASE InferTake
  <2>1. /\ infer \in {"take", "drain"} /\ infer' \in {"postEmpty", "run"}
        /\ A!TakeFront /\ inferItem' = Head(queueA.items)
        /\ infer = "drain" => A!DrainSome
    BY <1>4 DEF InferTake
  <2>2. QueuedA > 0
    BY <1>3, <2>1, StepsOfA DEF IInv, Granted
  <2>3. inferItem' = inferItem + 1
    BY <1>3, <2>1, <2>2, FollowingTail DEF IInv, InOrder, QueuedA, A!QueueType
  <2>4. queueA'.shutdown = queueA.shutdown /\ AllDone' = FALSE
    BY <1>3, <2>1 DEF A!TakeFront, A!QueueType, AllDone
  <2>5. /\ Inferring = {} /\ Inferred = inferItem
        /\ Inferring' = {inferItem + 1} /\ Inferred' = inferItem
    BY <1>3, <2>1, <2>3 DEF Inferring, Inferred
  <2>6. inferItem < captured
    BY <1>1, <1>3, <2>1, <2>3 DEF InTurn
  <2>7. Line!BeginInfer
    BY <1>1, <1>2, <2>4, <2>5, <2>6 DEF Line!BeginInfer
  <2> QED
    BY <2>7 DEF Line!Next
<1>5. CASE InferPush /\ infer = "run"
  <2>1. /\ infer' = "waitingB" /\ UNCHANGED <<queueA, inferItem>> /\ AllDone' = FALSE
    BY <1>5 DEF InferPush, AllDone
  <2>2. /\ Inferring = {inferItem} /\ Inferred = inferItem - 1
        /\ Inferring' = {} /\ Inferred' = Inferred + 1
    BY <1>3, <1>5, <2>1 DEF Inferring, Inferred
  <2>3. Line!EndInfer
    BY <1>1, <1>2, <2>1, <2>2 DEF Line!EndInfer
  <2> QED
    BY <2>3 DEF Line!Next
<1>6. CASE InferPop \/ (InferPush /\ infer # "run") \/ InferShutdown
  <2>1. /\ infer' \in {"postEmpty", "run"} <=> infer \in {"postEmpty", "run"}
        /\ inferItem' = inferItem
        /\ queueA' = queueA \/ A!SemWaitFill \/ A!PostEmpty
    BY <1>6 DEF InferPop, InferPush, InferShutdown, A!PopNormally, A!PopDraining,
      A!DrainEnds
  <2>2. queueA'.shutdown = queueA.shutdown
    BY <1>3, <2>1 DEF A!QueueType, A!SemWaitFill, A!PostEmpty
  <2> QED
    BY <1>1, <2>1, <2>2, LastReturns
<1> QED
  BY <1>4, <1>5, <1>6 DEF InferStep

\* upload_loop sends the next frame that inference has finished.
LEMMA UploadOnLine ==
  ASSUME IInv, InTurn, InTurn', UploadStep
  PROVE  [Line!Next]_(Line!vars)
<1>1. /\ UNCHANGED <<queueA, recv, captured, infer, inferItem, handler>>
      /\ AllDone = FALSE /\ Signalled' = Signalled
  BY DEF UploadStep, UploadPop, UploadTake, UploadSend, OthersOfUpload, recvVars,
    inferVars, AllDone, Signalled
<1>2. Inferring' = Inferring /\ Inferred' = Inferred
  BY <1>1 DEF Inferring, Inferred
<1>3. CASE UploadTake
  <2>1. /\ upload \in {"take", "drain"} /\ upload' \in {"postEmpty", "send"}
        /\ uploaded' = uploaded /\ AllDone' = FALSE
    BY <1>3 DEF UploadTake, AllDone
  <2>2. uploadItem' = NumSent + 1 /\ NumSent < Inferred
    <3>1. NumSent' = NumSent /\ uploadItem' <= Inferred
      BY <1>2, <2>1 DEF InTurn, NumSent
    <3>2. uploadItem' = NumSent + 1
      BY <2>1, <3>1 DEF InTurn, UploadHas
    <3>3. Inferred \in Int /\ NumSent \in Nat
      BY DEF InTurn, Inferred
    <3> QED
      BY <3>1, <3>2, <3>3
  <2>3. Sending = {} /\ Sending' = {NumSent + 1}
    BY <2>1, <2>2 DEF Sending
  <2>4. Line!BeginSend
    BY <1>1, <1>2, <2>1, <2>2, <2>3 DEF Line!BeginSend, NumSent
  <2> QED
    BY <2>4 DEF Line!Next
<1>4. CASE UploadSend
  <2>1. upload = "send" /\ upload' = "waiting" /\ AllDone' = FALSE
    BY <1>4 DEF UploadSend, AllDone
  <2>2. Len(uploaded') = Len(uploaded) + 1
    BY <1>4 DEF UploadSend, IInv, TypeOK
  <2>3. Sending # {} /\ Sending' = {}
    BY <2>1 DEF Sending
  <2>4. Line!EndSend
    BY <1>1, <1>2, <2>1, <2>2, <2>3 DEF Line!EndSend
  <2> QED
    BY <2>4 DEF Line!Next
<1>5. CASE UploadPop
  <2>1. /\ upload' \in {"postEmpty", "send"} <=> upload \in {"postEmpty", "send"}
        /\ UNCHANGED <<uploadItem, uploaded>>
    BY <1>5 DEF UploadPop
  <2> QED
    BY <1>1, <2>1, LastReturns
<1> QED
  BY <1>3, <1>4, <1>5 DEF UploadStep

\* A handler interrupts the line with its first step, which closes it; the others, and
\* those of a second handler, find it interrupted and closed.
LEMMA HandlerOnLine ==
  ASSUME InTurn, InTurn', NEW s \in Signals, HandlerStep(s)
  PROVE  [Line!Next]_(Line!vars)
<1>1. UNCHANGED <<recv, captured, infer, inferItem, upload, uploadItem, uploaded>>
  BY DEF HandlerStep, recvVars, inferVars, uploadVars
<1>2. /\ Inferring' = Inferring /\ Inferred' = Inferred /\ Sending' = Sending
      /\ AllDone' = AllDone
  BY <1>1 DEF Inferring, Inferred, Sending, AllDone
<1>3. handler'[s] > 0
  <2>1. handler \in [Signals -> 0 .. 6]
    BY DEF InTurn
  <2> QED
    BY <2>1 DEF HandlerStep
<1>4. Signalled' = TRUE /\ queueA'.shutdown = TRUE
  BY <1>3 DEF InTurn, Signalled, A!QueueType
<1>5. Line!Interrupt
  BY <1>1, <1>2, <1>4 DEF Line!Interrupt
<1> QED
  BY <1>5 DEF Line!Next

\* Each step of the pipeline is one of the line, or none.
LEMMA StepOnLine ==
  IInv /\ InTurn /\ InTurn' /\ [Next]_vars => [Line!Next]_(Line!vars)
<1> SUFFICES ASSUME IInv, InTurn, InTurn', [Next]_vars PROVE [Line!Next]_(Line!vars)
  OBVIOUS
<1>1. CASE Interrupted
  <2>1. /\ UNCHANGED <<captured, inferItem, uploadItem, uploaded, handler, queueA.shutdown>>
        /\ infer' \in {"postEmpty", "run"} <=> infer \in {"postEmpty", "run"}
        /\ upload' \in {"postEmpty", "send"} <=> upload \in {"postEmpty", "send"}
        /\ AllDone = FALSE
    BY <1>1 DEF Interrupted, A!Interrupted, B!Interrupted, AllDone
  <2>2. Signalled' = Signalled
    BY <2>1 DEF Signalled
  <2> QED
    BY <2>1, <2>2, LastReturns
<1>2. CASE Joined \/ UNCHANGED vars
  <2>1. UNCHANGED <<queueA, recv, captured, infer, inferItem, upload, uploadItem, uploaded,
                    handler>>
    BY <1>2 DEF Joined, vars, recvVars, inferVars, uploadVars
  <2>2. Signalled' = Signalled /\ AllDone' = AllDone
    BY <2>1 DEF Signalled, AllDone
  <2> QED
    BY <2>1, <2>2 DEF Line!vars, Inferring, Inferred, Sending
<1> QED
  BY <1>1, <1>2, RecvOnLine, InferOnLine, UploadOnLine, HandlerOnLine DEF Next

\* pipeline_l2.cpp implements the line of frames: captured, inferred and sent in order
\* and one at a time, at most 2 * kQueueCapacity + 3 on the way, returned only after a
\* shutdown and, without a signal, with everything sent.
THEOREM LineImplemented == Spec => ImplementsLine
<1>1. Init => Line!Init
  <2> SUFFICES ASSUME Init PROVE Line!Init
    OBVIOUS
  <2>1. Signalled = FALSE /\ AllDone = FALSE
    BY DEF Init, Signalled, AllDone
  <2>2. /\ captured = 0 /\ Inferring = {} /\ Inferred = 0 /\ Sending = {}
        /\ Len(uploaded) = 0 /\ queueA.shutdown = FALSE
    BY DEF Init, Inferring, Inferred, Sending, A!NewQueue
  <2> QED
    BY <2>1, <2>2 DEF Line!Init
<1>2. IInv => InTurn
  BY InTurnFromIInv
<1>3. IInv /\ InTurn /\ InTurn' /\ [Next]_vars => [Line!Next]_(Line!vars)
  BY StepOnLine
<1> QED
  BY <1>1, <1>2, <1>3, Invariance, PTL DEF Spec, ImplementsLine, Line!Spec
=============================================================================
