---------------------------- MODULE PipelineL1Proofs ----------------------------
(***************************************************************************)
(* Proofs about PipelineL1, for every number of frames followed and every  *)
(* choice of the threads a signal may be delivered to.                     *)
(*                                                                         *)
(* push() never fails, so each frame captured is in exactly one place: in  *)
(* a thread's hand, in a queue or sent.  Each queue holds consecutive      *)
(* frames, those after the one its consumer has taken last.                *)
(***************************************************************************)
EXTENDS PipelineL1, TLAPS

\* One thing, or none: what a thread has in hand, as a number.
One(b) == IF b THEN 1 ELSE 0

\* The frames a sequence holds, one after the other, after the one with number k.
Following(s, k) == \A i \in 1 .. Len(s) : s[i] = k + i

\* How many frames are in each queue, and sent.
QueuedA == Len(queueA.items)
QueuedB == Len(queueB.items)
NumSent == Len(uploaded)

\* A frame in hand that is not yet in the next queue, or not yet sent.  recv_loop may
\* also have one beyond the bound.
RecvHas == recv \in {"push", "append"} /\ recvItem # Untracked
InferHas == infer \in {"run", "push", "append"}
UploadHas == upload = "send"

InferLeft == infer \in {"leaving", "flag", "notifyAll", "done"}

\* shutdown() has set the flag.
RecvFlagged == recv \in {"notifyAll", "done"}
InferFlagged == infer \in {"notifyAll", "done"}

InOrder ==
  /\ Following(uploaded, 0)
  /\ Following(queueB.items, uploadItem)
  /\ Following(queueA.items, inferItem)

Chain ==
  /\ NumSent + One(UploadHas) = uploadItem
  /\ uploadItem + QueuedB + One(InferHas) = inferItem
  /\ inferItem + QueuedA + One(RecvHas) = captured
  /\ RecvHas => recvItem = captured

\* Without a signal, the flag of a queue is set by its producer alone, after its last
\* frame, and the consumer leaves when the queue is then empty.
Unsignalled ==
  handler = 0 =>
    /\ queueA.shutdown => RecvFlagged
    /\ InferLeft => RecvFlagged /\ QueuedA = 0
    /\ queueB.shutdown => InferFlagged
    /\ upload = "done" => InferFlagged /\ QueuedB = 0

\* A signal that has arrived is handled on top of a thread.
HostNamed == handler > 0 => host \in Threads

\* The inductive invariant.
IInv == TypeOK /\ HostNamed /\ InOrder /\ Chain /\ Unsignalled

-----------------------------------------------------------------------------
(* Sequences of consecutive frames.                                        *)

\* push() puts the next frame at the end.
LEMMA FollowingAppend ==
  ASSUME NEW S, NEW s \in Seq(S), NEW k \in Nat, NEW x \in S,
         Following(s, k), x = k + Len(s) + 1
  PROVE  /\ Append(s, x) \in Seq(S)
         /\ Len(Append(s, x)) = Len(s) + 1
         /\ Following(Append(s, x), k)
BY DEF Following

\* pop() takes the next frame from the front.
LEMMA FollowingTail ==
  ASSUME NEW S, NEW s \in Seq(S), NEW k \in Nat, Following(s, k), Len(s) > 0
  PROVE  /\ Head(s) \in S /\ Head(s) = k + 1
         /\ Tail(s) \in Seq(S) /\ Len(Tail(s)) = Len(s) - 1
         /\ Following(Tail(s), k + 1)
<1>1. s # <<>> /\ Len(s) \in Nat
  OBVIOUS
<1>2. /\ Head(s) \in S /\ Head(s) = s[1]
      /\ Tail(s) \in Seq(S) /\ Len(Tail(s)) = Len(s) - 1
  BY <1>1
<1>3. ASSUME NEW i \in 1 .. Len(Tail(s)) PROVE Tail(s)[i] = k + 1 + i
  <2>1. Tail(s)[i] = s[i + 1] /\ i + 1 \in 1 .. Len(s)
    BY <1>1, <1>2
  <2> QED
    BY <2>1 DEF Following
<1> QED
  BY <1>1, <1>2, <1>3 DEF Following

-----------------------------------------------------------------------------
(* What each step of a queue does to its items and its flag.               *)

\* A queue with these items and this flag, whoever owns its mutex.
Is(r, items, flag) ==
  /\ r \in A!QueueType(Frames, Threads)
  /\ r.items = items
  /\ (r.shutdown <=> flag)

\* The steps of push(), pop(), size() and shutdown() of queue A.
LEMMA StepsOfA ==
  ASSUME queueA \in A!QueueType(Frames, Threads)
  PROVE  LET i == queueA.items
             down == queueA.shutdown
         IN  /\ i \in Seq(Frames) /\ QueuedA \in Nat
             /\ \A t \in Threads : A!Lock(t) \/ A!Relock(t) => Is(queueA', i, down)
             /\ A!Unlock \/ A!Notify \/ A!Spurious => Is(queueA', i, down)
             /\ A!WaitSleeps => ~down /\ Is(queueA', i, down)
             /\ A!PopFalse => down /\ QueuedA = 0 /\ Is(queueA', i, down)
             /\ \A k \in Frames : A!AppendUnlock(k) => Is(queueA', Append(i, k), down)
             /\ A!PopFront => QueuedA > 0 /\ Is(queueA', Tail(i), down)
             /\ A!FlagUnlock => Is(queueA', i, TRUE)
<1> USE DEF Is, A!QueueType, QueuedA, A!Free
<1>1. /\ queueA.items \in Seq(Frames) /\ QueuedA \in Nat
      /\ queueA.shutdown \in BOOLEAN /\ queueA.asleep \in BOOLEAN
      /\ queueA.owner \in Threads \cup {A!Free}
  OBVIOUS
<1>2. \A t \in Threads :
        A!Lock(t) \/ A!Relock(t) => Is(queueA', queueA.items, queueA.shutdown)
  BY <1>1 DEF A!Lock, A!Relock
<1>3. A!Unlock \/ A!Notify \/ A!Spurious => Is(queueA', queueA.items, queueA.shutdown)
  BY <1>1 DEF A!Unlock, A!Notify, A!Spurious
<1>4. A!WaitSleeps => ~queueA.shutdown /\ Is(queueA', queueA.items, queueA.shutdown)
  BY <1>1 DEF A!WaitSleeps
<1>5. A!PopFalse =>
        queueA.shutdown /\ QueuedA = 0 /\ Is(queueA', queueA.items, queueA.shutdown)
  BY <1>1 DEF A!PopFalse
<1>6. ASSUME NEW k \in Frames, A!AppendUnlock(k)
      PROVE  Is(queueA', Append(queueA.items, k), queueA.shutdown)
  <2>1. Append(queueA.items, k) \in Seq(Frames)
    BY <1>1
  <2> QED
    BY <1>6, <2>1 DEF A!AppendUnlock
<1>7. ASSUME A!PopFront
      PROVE  QueuedA > 0 /\ Is(queueA', Tail(queueA.items), queueA.shutdown)
  <2>1. QueuedA > 0 /\ Tail(queueA.items) \in Seq(Frames)
    BY <1>1, <1>7 DEF A!PopFront
  <2> QED
    BY <1>7, <2>1 DEF A!PopFront
<1>8. A!FlagUnlock => Is(queueA', queueA.items, TRUE)
  BY <1>1 DEF A!FlagUnlock
<1> HIDE DEF Is, A!QueueType, QueuedA, A!Free
<1> QED
  BY <1>1, <1>2, <1>3, <1>4, <1>5, <1>6, <1>7, <1>8

\* The steps of push(), pop(), size() and shutdown() of queue B.
LEMMA StepsOfB ==
  ASSUME queueB \in A!QueueType(Frames, Threads)
  PROVE  LET i == queueB.items
             down == queueB.shutdown
         IN  /\ i \in Seq(Frames) /\ QueuedB \in Nat
             /\ \A t \in Threads : B!Lock(t) \/ B!Relock(t) => Is(queueB', i, down)
             /\ B!Unlock \/ B!Notify \/ B!Spurious => Is(queueB', i, down)
             /\ B!WaitSleeps => ~down /\ Is(queueB', i, down)
             /\ B!PopFalse => down /\ QueuedB = 0 /\ Is(queueB', i, down)
             /\ \A k \in Frames : B!AppendUnlock(k) => Is(queueB', Append(i, k), down)
             /\ B!PopFront => QueuedB > 0 /\ Is(queueB', Tail(i), down)
             /\ B!FlagUnlock => Is(queueB', i, TRUE)
<1> USE DEF Is, A!QueueType, QueuedB, A!Free, B!Free
<1>1. /\ queueB.items \in Seq(Frames) /\ QueuedB \in Nat
      /\ queueB.shutdown \in BOOLEAN /\ queueB.asleep \in BOOLEAN
      /\ queueB.owner \in Threads \cup {A!Free}
  OBVIOUS
<1>2. \A t \in Threads :
        B!Lock(t) \/ B!Relock(t) => Is(queueB', queueB.items, queueB.shutdown)
  BY <1>1 DEF B!Lock, B!Relock
<1>3. B!Unlock \/ B!Notify \/ B!Spurious => Is(queueB', queueB.items, queueB.shutdown)
  BY <1>1 DEF B!Unlock, B!Notify, B!Spurious
<1>4. B!WaitSleeps => ~queueB.shutdown /\ Is(queueB', queueB.items, queueB.shutdown)
  BY <1>1 DEF B!WaitSleeps
<1>5. B!PopFalse =>
        queueB.shutdown /\ QueuedB = 0 /\ Is(queueB', queueB.items, queueB.shutdown)
  BY <1>1 DEF B!PopFalse
<1>6. ASSUME NEW k \in Frames, B!AppendUnlock(k)
      PROVE  Is(queueB', Append(queueB.items, k), queueB.shutdown)
  <2>1. Append(queueB.items, k) \in Seq(Frames)
    BY <1>1
  <2> QED
    BY <1>6, <2>1 DEF B!AppendUnlock
<1>7. ASSUME B!PopFront
      PROVE  QueuedB > 0 /\ Is(queueB', Tail(queueB.items), queueB.shutdown)
  <2>1. QueuedB > 0 /\ Tail(queueB.items) \in Seq(Frames)
    BY <1>1, <1>7 DEF B!PopFront
  <2> QED
    BY <1>7, <2>1 DEF B!PopFront
<1>8. B!FlagUnlock => Is(queueB', queueB.items, TRUE)
  BY <1>1 DEF B!FlagUnlock
<1> HIDE DEF Is, A!QueueType, QueuedB, A!Free, B!Free
<1> QED
  BY <1>1, <1>2, <1>3, <1>4, <1>5, <1>6, <1>7, <1>8

-----------------------------------------------------------------------------
(* The five steps that move a frame.                                       *)

\* recv_loop appends the frame it has in hand, which is the one after those already in
\* queue A.
LEMMA PushA ==
  ASSUME IInv, RecvAppend, recvItem # Untracked
  PROVE  /\ Is(queueA', Append(queueA.items, captured), queueA.shutdown)
         /\ QueuedA' = QueuedA + 1
         /\ Following(queueA'.items, inferItem)
         /\ recv = "append" /\ recv' = "notify" /\ RecvHas
         /\ UNCHANGED <<captured, recvItem, queueB, infer, inferItem, upload, uploadItem,
                        uploaded, host, handler, QueuedB, NumSent>>
<1> USE DEF QueuedA, QueuedB, NumSent
<1>0. /\ queueA \in A!QueueType(Frames, Threads) /\ inferItem \in Nat
      /\ Frames = 1 .. MaxFrames /\ MaxFrames \in Nat
      /\ captured \in Nat /\ captured <= MaxFrames
  BY MaxFramesAssumption DEF IInv, TypeOK, Frames
<1>1. queueA.items \in Seq(Frames) /\ QueuedA \in Nat
  BY <1>0, StepsOfA
<1>2. RecvHas
  BY DEF RecvAppend, RecvHas
<1>3. captured = inferItem + QueuedA + 1 /\ recvItem = captured
  BY <1>0, <1>1, <1>2 DEF IInv, Chain, One
<1>4. captured \in Frames
  BY <1>0, <1>1, <1>3
<1>5. /\ A!AppendUnlock(captured) /\ recv = "append" /\ recv' = "notify"
      /\ UNCHANGED <<captured, recvItem, queueB, infer, inferItem, upload, uploadItem,
                     uploaded, host, handler>>
  BY <1>3 DEF RecvAppend, OthersOfRecv, inferVars, uploadVars, sigVars
<1>6. Is(queueA', Append(queueA.items, captured), queueA.shutdown)
  BY <1>0, <1>4, <1>5, StepsOfA
<1>7. Following(queueA.items, inferItem)
  BY DEF IInv, InOrder
<1>8. /\ Len(Append(queueA.items, captured)) = QueuedA + 1
      /\ Following(Append(queueA.items, captured), inferItem)
  BY <1>0, <1>1, <1>3, <1>4, <1>7, FollowingAppend
<1> QED
  BY <1>2, <1>5, <1>6, <1>8 DEF Is

\* infer_loop takes the next frame from queue A.
LEMMA PopA ==
  ASSUME IInv, InferPop, infer' = "run"
  PROVE  /\ inferItem' = inferItem + 1 /\ inferItem' \in Frames
         /\ Is(queueA', Tail(queueA.items), queueA.shutdown)
         /\ QueuedA > 0 /\ QueuedA' = QueuedA - 1
         /\ Following(queueA'.items, inferItem')
         /\ infer = "test"
         /\ UNCHANGED <<queueB, recv, captured, recvItem, upload, uploadItem, uploaded,
                        host, handler, QueuedB, NumSent>>
<1> USE DEF QueuedA, QueuedB, NumSent
<1>0. queueA \in A!QueueType(Frames, Threads) /\ inferItem \in Nat
  BY MaxFramesAssumption DEF IInv, TypeOK
<1>1. queueA.items \in Seq(Frames) /\ QueuedA \in Nat
  BY <1>0, StepsOfA
<1>2. /\ A!PopFront /\ inferItem' = Head(queueA.items) /\ infer = "test"
      /\ UNCHANGED <<queueB, recv, captured, recvItem, upload, uploadItem, uploaded,
                     host, handler>>
  BY DEF InferPop, OthersOfInfer, recvVars, uploadVars, sigVars
<1>3. /\ QueuedA > 0
      /\ Is(queueA', Tail(queueA.items), queueA.shutdown)
  BY <1>0, <1>2, StepsOfA
<1>4. Following(queueA.items, inferItem)
  BY DEF IInv, InOrder
<1>5. /\ Head(queueA.items) = inferItem + 1 /\ Head(queueA.items) \in Frames
      /\ Len(Tail(queueA.items)) = QueuedA - 1
      /\ Following(Tail(queueA.items), inferItem + 1)
  BY <1>0, <1>1, <1>3, <1>4, FollowingTail
<1> QED
  BY <1>2, <1>3, <1>5 DEF Is

\* infer_loop appends the frame it has in hand, which is the one after those already
\* in queue B.
LEMMA PushB ==
  ASSUME IInv, InferPush, infer = "append"
  PROVE  /\ Is(queueB', Append(queueB.items, inferItem), queueB.shutdown)
         /\ QueuedB' = QueuedB + 1
         /\ Following(queueB'.items, uploadItem)
         /\ infer' = "notify"
         /\ UNCHANGED <<queueA, recv, captured, recvItem, inferItem, upload, uploadItem,
                        uploaded, host, handler, QueuedA, NumSent>>
<1> USE DEF QueuedA, QueuedB, NumSent
<1>0. /\ queueB \in A!QueueType(Frames, Threads) /\ uploadItem \in Nat
      /\ inferItem \in Nat /\ inferItem <= MaxFrames /\ Frames = 1 .. MaxFrames
      /\ MaxFrames \in Nat
  BY MaxFramesAssumption DEF IInv, TypeOK, Frames, A!QueueType, B!QueueType, A!Free, B!Free
<1>1. queueB.items \in Seq(Frames) /\ QueuedB \in Nat
  BY <1>0, StepsOfB
<1>2. inferItem = uploadItem + QueuedB + 1
  BY <1>0, <1>1 DEF IInv, Chain, InferHas, One
<1>3. inferItem \in Frames
  BY <1>0, <1>1, <1>2
<1>4. /\ B!AppendUnlock(inferItem) /\ infer' = "notify"
      /\ UNCHANGED <<queueA, recv, captured, recvItem, inferItem, upload, uploadItem,
                     uploaded, host, handler>>
  BY DEF InferPush, OthersOfInfer, recvVars, uploadVars, sigVars
<1>5. Is(queueB', Append(queueB.items, inferItem), queueB.shutdown)
  BY <1>0, <1>3, <1>4, StepsOfB
<1>6. Following(queueB.items, uploadItem)
  BY DEF IInv, InOrder
<1>7. /\ Len(Append(queueB.items, inferItem)) = QueuedB + 1
      /\ Following(Append(queueB.items, inferItem), uploadItem)
  BY <1>0, <1>1, <1>2, <1>3, <1>6, FollowingAppend
<1> QED
  BY <1>4, <1>5, <1>7 DEF Is

\* upload_loop takes the next frame from queue B.
LEMMA PopB ==
  ASSUME IInv, UploadPop, upload' = "send"
  PROVE  /\ uploadItem' = uploadItem + 1 /\ uploadItem' \in Frames
         /\ Is(queueB', Tail(queueB.items), queueB.shutdown)
         /\ QueuedB > 0 /\ QueuedB' = QueuedB - 1
         /\ Following(queueB'.items, uploadItem')
         /\ upload = "test"
         /\ UNCHANGED <<queueA, recv, captured, recvItem, infer, inferItem, uploaded,
                        host, handler, QueuedA, NumSent>>
<1> USE DEF QueuedA, QueuedB, NumSent
<1>0. queueB \in A!QueueType(Frames, Threads) /\ uploadItem \in Nat
  BY MaxFramesAssumption DEF IInv, TypeOK, A!QueueType, B!QueueType, A!Free, B!Free
<1>1. queueB.items \in Seq(Frames) /\ QueuedB \in Nat
  BY <1>0, StepsOfB
<1>2. /\ B!PopFront /\ uploadItem' = Head(queueB.items) /\ upload = "test"
      /\ UNCHANGED <<queueA, recv, captured, recvItem, infer, inferItem, uploaded,
                     host, handler>>
  BY DEF UploadPop, OthersOfUpload, recvVars, inferVars, sigVars
<1>3. /\ QueuedB > 0
      /\ Is(queueB', Tail(queueB.items), queueB.shutdown)
  BY <1>0, <1>2, StepsOfB
<1>4. Following(queueB.items, uploadItem)
  BY DEF IInv, InOrder
<1>5. /\ Head(queueB.items) = uploadItem + 1 /\ Head(queueB.items) \in Frames
      /\ Len(Tail(queueB.items)) = QueuedB - 1
      /\ Following(Tail(queueB.items), uploadItem + 1)
  BY <1>0, <1>1, <1>3, <1>4, FollowingTail
<1> QED
  BY <1>2, <1>3, <1>5 DEF Is

\* upload_loop sends the frame it has in hand, which is the next one.
LEMMA Sent ==
  ASSUME IInv, UploadSend
  PROVE  /\ uploaded' \in Seq(Frames)
         /\ NumSent' = NumSent + 1
         /\ Following(uploaded', 0)
         /\ upload = "send" /\ upload' \in {"sizeAB", "sizeBA"}
         /\ UNCHANGED <<queueA, queueB, recv, captured, recvItem, infer, inferItem,
                        uploadItem, host, handler, QueuedA, QueuedB>>
<1> USE DEF QueuedA, QueuedB, NumSent
<1>0. /\ uploaded \in Seq(Frames) /\ NumSent \in Nat
      /\ uploadItem \in Nat /\ uploadItem <= MaxFrames /\ Frames = 1 .. MaxFrames
      /\ MaxFrames \in Nat
  BY MaxFramesAssumption DEF IInv, TypeOK, Frames
<1>1. /\ upload = "send" /\ upload' \in {"sizeAB", "sizeBA"}
      /\ uploaded' = Append(uploaded, uploadItem)
      /\ UNCHANGED <<queueA, queueB, recv, captured, recvItem, infer, inferItem,
                     uploadItem, host, handler>>
  BY DEF UploadSend, OthersOfUpload, recvVars, inferVars, sigVars
<1>2. uploadItem = 0 + NumSent + 1
  BY <1>0, <1>1 DEF IInv, Chain, UploadHas, One
<1>3. uploadItem \in Frames
  BY <1>0, <1>2
<1>4. Following(uploaded, 0)
  BY DEF IInv, InOrder
<1>5. /\ Append(uploaded, uploadItem) \in Seq(Frames)
      /\ Len(Append(uploaded, uploadItem)) = NumSent + 1
      /\ Following(Append(uploaded, uploadItem), 0)
  BY <1>0, <1>2, <1>3, <1>4, FollowingAppend
<1> QED
  BY <1>1, <1>5

\* A step that moves a frame.
Moves ==
  \/ RecvAppend /\ recvItem # Untracked
  \/ InferPop /\ infer' = "run"
  \/ InferPush /\ infer = "append"
  \/ UploadPop /\ upload' = "send"
  \/ UploadSend

\* Every other step leaves the queues' items and the frames in hand alone; the queues
\* stay queues.
LEMMA Others ==
  ASSUME IInv, [Next]_vars, ~Moves
  PROVE  /\ queueA' \in A!QueueType(Frames, Threads) /\ queueA'.items = queueA.items
         /\ queueB' \in A!QueueType(Frames, Threads) /\ queueB'.items = queueB.items
         /\ UNCHANGED <<QueuedA, QueuedB, NumSent, inferItem, uploadItem, uploaded>>
<1> DEFINE Kept ==
      /\ queueA' \in A!QueueType(Frames, Threads) /\ queueA'.items = queueA.items
      /\ queueB' \in A!QueueType(Frames, Threads) /\ queueB'.items = queueB.items
      /\ UNCHANGED <<inferItem, uploadItem, uploaded>>
<1> SUFFICES Kept
  BY DEF QueuedA, QueuedB, NumSent
<1> USE StepsOfA, StepsOfB DEF Is, Threads
<1>0. /\ queueA \in A!QueueType(Frames, Threads) /\ queueB \in A!QueueType(Frames, Threads)
      /\ HostNamed
  BY DEF IInv, TypeOK, A!QueueType, B!QueueType, A!Free, B!Free
<1>1. CASE RecvCapture \/ RecvSourceEnds
  BY <1>0, <1>1 DEF RecvCapture, RecvSourceEnds, OthersOfRecv, inferVars, uploadVars
<1>2. CASE RecvAppend /\ recvItem = Untracked
  BY <1>0, <1>2 DEF RecvAppend, OthersOfRecv, inferVars, uploadVars
<1>3. CASE RecvLock \/ RecvNotify
  BY <1>0, <1>3 DEF RecvLock, RecvNotify, OthersOfRecv, inferVars, uploadVars
<1>4. CASE RecvShutdown
  BY <1>0, <1>4 DEF RecvShutdown, OthersOfRecv, inferVars, uploadVars
<1>5. CASE InferPop /\ infer' # "run"
  BY <1>0, <1>5 DEF InferPop, OthersOfInfer, uploadVars
<1>6. CASE InferPush /\ infer # "append"
  BY <1>0, <1>6 DEF InferPush, OthersOfInfer, uploadVars
<1>7. CASE InferShutdown
  BY <1>0, <1>7 DEF InferShutdown, OthersOfInfer, uploadVars
<1>8. CASE UploadPop /\ upload' # "send"
  BY <1>0, <1>8 DEF UploadPop, OthersOfUpload, inferVars
<1>9. CASE UploadSizes
  BY <1>0, <1>9 DEF UploadSizes, inferVars
<1>10. CASE SpuriousWakeup
  BY <1>0, <1>10 DEF SpuriousWakeup, inferVars, uploadVars
<1>11. CASE \E t \in Hosts : SignalArrives(t)
  BY <1>0, <1>11 DEF SignalArrives, inferVars, uploadVars
<1>12. CASE HandlerStep
  <2>1. host \in Threads
    BY <1>0, <1>12 DEF HandlerStep, HostNamed
  <2> HIDE DEF Threads
  <2> QED
    BY <1>0, <1>12, <2>1 DEF HandlerStep, inferVars, uploadVars
<1>13. CASE Joined \/ UNCHANGED vars
  BY <1>0, <1>13 DEF Joined, vars, inferVars, uploadVars
<1> QED
  BY <1>1, <1>2, <1>3, <1>4, <1>5, <1>6, <1>7, <1>8, <1>9, <1>10, <1>11, <1>12, <1>13
  DEF Next, RecvStep, InferStep, UploadStep, Moves

-----------------------------------------------------------------------------
(* IInv is inductive.                                                      *)

\* What is in the queues, in hand and sent stays in order.
LEMMA NextInOrder == IInv /\ [Next]_vars => InOrder'
<1> SUFFICES ASSUME IInv, [Next]_vars PROVE InOrder'
  OBVIOUS
<1>0. InOrder
  BY DEF IInv
<1>1. CASE RecvAppend /\ recvItem # Untracked
  BY <1>0, <1>1, PushA DEF InOrder
<1>2. CASE InferPop /\ infer' = "run"
  BY <1>0, <1>2, PopA DEF InOrder
<1>3. CASE InferPush /\ infer = "append"
  BY <1>0, <1>3, PushB DEF InOrder
<1>4. CASE UploadPop /\ upload' = "send"
  BY <1>0, <1>4, PopB DEF InOrder
<1>5. CASE UploadSend
  BY <1>0, <1>5, Sent DEF InOrder
<1>6. CASE ~Moves
  BY <1>0, <1>6, Others DEF InOrder, Following
<1> QED
  BY <1>1, <1>2, <1>3, <1>4, <1>5, <1>6 DEF Moves

\* No step takes a variable out of its type, and a handler keeps its host.
LEMMA NextType == IInv /\ [Next]_vars => TypeOK' /\ HostNamed'
<1> SUFFICES ASSUME IInv, [Next]_vars PROVE TypeOK' /\ HostNamed'
  OBVIOUS
<1>0. /\ MaxFrames \in Nat /\ Frames = 1 .. MaxFrames
      /\ A!QueueType(Frames, Threads) = B!QueueType(Frames, Threads)
      /\ TypeOK /\ HostNamed
  BY MaxFramesAssumption DEF Frames, A!QueueType, B!QueueType, A!Free, B!Free, IInv
<1>1. /\ queueA' \in A!QueueType(Frames, Threads)
      /\ queueB' \in B!QueueType(Frames, Threads)
  BY <1>0, PushA, PopA, PushB, PopB, Sent, Others DEF Moves, Is, TypeOK
<1>2. /\ inferItem' \in 0 .. MaxFrames /\ uploadItem' \in 0 .. MaxFrames
      /\ uploaded' \in Seq(Frames)
  BY <1>0, PushA, PopA, PushB, PopB, Sent, Others DEF Moves, TypeOK
<1>3. captured' \in 0 .. MaxFrames /\ recvItem' \in 0 .. MaxFrames /\ recv' \in RecvPC
  BY <1>0 DEF TypeOK, RecvPC, Untracked, Next, RecvStep, RecvCapture, RecvSourceEnds,
    RecvAppend, RecvNotify, RecvLock, RecvShutdown, InferStep, InferPop, InferPush,
    InferShutdown, OthersOfInfer, UploadStep, UploadPop, UploadSend, UploadSizes,
    OthersOfUpload, SpuriousWakeup, SignalArrives, HandlerStep, Joined, vars, recvVars
<1>4. infer' \in InferPC
  BY <1>0 DEF TypeOK, InferPC, Next, RecvStep, RecvCapture, RecvSourceEnds, RecvAppend,
    RecvNotify, RecvLock, RecvShutdown, OthersOfRecv, InferStep, InferPop, InferPush,
    InferShutdown, UploadStep, UploadPop, UploadSend, UploadSizes, OthersOfUpload,
    SpuriousWakeup, SignalArrives, HandlerStep, Joined, vars, inferVars
<1>5. upload' \in UploadPC
  BY <1>0 DEF TypeOK, UploadPC, Next, RecvStep, RecvCapture, RecvSourceEnds, RecvAppend,
    RecvNotify, RecvLock, RecvShutdown, OthersOfRecv, InferStep, InferPop, InferPush,
    InferShutdown, OthersOfInfer, UploadStep, UploadPop, UploadSend, UploadSizes,
    SpuriousWakeup, SignalArrives, HandlerStep, Joined, vars, uploadVars
<1>6. /\ host' \in Threads \cup {Nobody} /\ handler' \in 0 .. 7
      /\ HostNamed'
  <2>1. CASE \E t \in Hosts : SignalArrives(t)
    BY <1>0, <2>1, HostsAssumption DEF TypeOK, HostNamed, SignalArrives
  <2>2. CASE HandlerStep
    BY <1>0, <2>2 DEF TypeOK, HostNamed, HandlerStep
  <2>3. CASE ~HandlerStep /\ ~\E t \in Hosts : SignalArrives(t)
    <3>1. UNCHANGED sigVars
      BY <2>3 DEF Next, RecvStep, RecvCapture, RecvSourceEnds, RecvAppend, RecvNotify,
        RecvLock, RecvShutdown, OthersOfRecv, InferStep, InferPop, InferPush,
        InferShutdown, OthersOfInfer, UploadStep, UploadPop, UploadSend, UploadSizes,
        OthersOfUpload, SpuriousWakeup, Joined, vars
    <3> QED
      BY <1>0, <3>1 DEF TypeOK, HostNamed, sigVars
  <2> QED
    BY <2>1, <2>2, <2>3
<1> QED
  BY <1>1, <1>2, <1>3, <1>4, <1>5, <1>6 DEF TypeOK

\* A frame leaves one place and arrives in the next.
LEMMA NextChain == IInv /\ [Next]_vars => Chain'
<1> SUFFICES ASSUME IInv, [Next]_vars PROVE Chain'
  OBVIOUS
<1>0. /\ Chain
      /\ queueA \in A!QueueType(Frames, Threads) /\ queueB \in A!QueueType(Frames, Threads)
      /\ NumSent \in Nat
      /\ captured \in Nat /\ inferItem \in Nat /\ uploadItem \in Nat /\ recvItem \in Nat
  BY DEF IInv, TypeOK, NumSent, A!QueueType, B!QueueType, A!Free, B!Free
<1>1. QueuedA \in Nat /\ QueuedB \in Nat
  BY <1>0, StepsOfA, StepsOfB
<1> USE DEF Chain, RecvHas, InferHas, UploadHas, One, Untracked
<1>2. CASE RecvAppend /\ recvItem # Untracked
  BY <1>0, <1>1, <1>2, PushA
<1>3. CASE InferPop /\ infer' = "run"
  BY <1>0, <1>1, <1>3, PopA
<1>4. CASE InferPush /\ infer = "append"
  BY <1>0, <1>1, <1>4, PushB
<1>5. CASE UploadPop /\ upload' = "send"
  BY <1>0, <1>1, <1>5, PopB
<1>6. CASE UploadSend
  BY <1>0, <1>1, <1>6, Sent
<1>7. CASE ~Moves
  <2>0. UNCHANGED <<QueuedA, QueuedB, NumSent, inferItem, uploadItem>>
    BY <1>7, Others
  <2>1. CASE RecvCapture
    BY <1>0, <1>1, <2>0, <2>1 DEF RecvCapture, OthersOfRecv, inferVars, uploadVars
  <2>2. CASE RecvAppend /\ recvItem = Untracked
    BY <1>0, <1>1, <2>0, <2>2 DEF RecvAppend, OthersOfRecv, inferVars, uploadVars
  <2>3. CASE RecvSourceEnds \/ RecvLock \/ RecvNotify \/ RecvShutdown
    BY <1>0, <1>1, <2>0, <2>3 DEF RecvSourceEnds, RecvLock, RecvNotify, RecvShutdown,
      OthersOfRecv, inferVars, uploadVars
  <2>4. CASE InferPop /\ infer' # "run"
    BY <1>0, <1>1, <2>0, <2>4 DEF InferPop, OthersOfInfer, recvVars, uploadVars
  <2>5. CASE InferPush /\ infer # "append"
    BY <1>0, <1>1, <2>0, <2>5 DEF InferPush, OthersOfInfer, recvVars, uploadVars
  <2>6. CASE InferShutdown
    BY <1>0, <1>1, <2>0, <2>6 DEF InferShutdown, OthersOfInfer, recvVars, uploadVars
  <2>7. CASE UploadPop /\ upload' # "send"
    BY <1>0, <1>1, <2>0, <2>7 DEF UploadPop, OthersOfUpload, recvVars, inferVars
  <2>8. CASE UploadSizes
    BY <1>0, <1>1, <2>0, <2>8 DEF UploadSizes, recvVars, inferVars
  <2>9. CASE SpuriousWakeup \/ HandlerStep \/ \E t \in Hosts : SignalArrives(t)
    BY <1>0, <1>1, <2>0, <2>9 DEF SpuriousWakeup, HandlerStep, SignalArrives, recvVars,
      inferVars, uploadVars
  <2>10. CASE Joined \/ UNCHANGED vars
    BY <1>0, <1>1, <2>0, <2>10 DEF Joined, vars, recvVars, inferVars, uploadVars
  <2> QED
    BY <1>7, <2>1, <2>2, <2>3, <2>4, <2>5, <2>6, <2>7, <2>8, <2>9, <2>10
    DEF Next, RecvStep, InferStep, UploadStep, Moves
<1> QED
  BY <1>2, <1>3, <1>4, <1>5, <1>6, <1>7 DEF Moves

\* Without a signal, each step keeps Unsignalled: pop() answers false on an empty queue
\* only, whose producer has left.
LEMMA NextUnsignalled == IInv /\ [Next]_vars => Unsignalled'
<1> SUFFICES ASSUME IInv, [Next]_vars, handler' = 0 PROVE Unsignalled'
  BY DEF Unsignalled
<1>0. /\ queueA \in A!QueueType(Frames, Threads) /\ queueB \in A!QueueType(Frames, Threads)
      /\ handler \in 0 .. 7
  BY DEF IInv, TypeOK, A!QueueType, B!QueueType, A!Free, B!Free
<1>1. QueuedA \in Nat /\ QueuedB \in Nat
  BY <1>0, StepsOfA, StepsOfB
<1>2. ~HandlerStep /\ ~\E t \in Hosts : SignalArrives(t)
  BY <1>0 DEF HandlerStep, SignalArrives
<1>3. handler = 0
  BY <1>2 DEF Next, RecvStep, RecvCapture, RecvSourceEnds, RecvAppend, RecvNotify,
    RecvLock, RecvShutdown, OthersOfRecv, InferStep, InferPop, InferPush,
    InferShutdown, OthersOfInfer, UploadStep, UploadPop, UploadSend, UploadSizes,
    OthersOfUpload, SpuriousWakeup, Joined, vars, sigVars
<1>4. /\ queueA.shutdown => RecvFlagged
      /\ InferLeft => RecvFlagged /\ QueuedA = 0
      /\ queueB.shutdown => InferFlagged
      /\ upload = "done" => InferFlagged /\ QueuedB = 0
  BY <1>3 DEF IInv, Unsignalled
<1> DEFINE Kept ==
      /\ queueA'.shutdown => RecvFlagged'
      /\ InferLeft' => RecvFlagged' /\ QueuedA' = 0
      /\ queueB'.shutdown => InferFlagged'
      /\ upload' = "done" => InferFlagged' /\ QueuedB' = 0
<1> SUFFICES Kept
  BY DEF Unsignalled
<1> USE DEF RecvFlagged, InferFlagged, InferLeft, Is
<1>5. CASE RecvAppend /\ recvItem # Untracked
  BY <1>0, <1>1, <1>4, <1>5, PushA
<1>6. CASE InferPop /\ infer' = "run"
  BY <1>0, <1>1, <1>4, <1>6, PopA
<1>7. CASE InferPush /\ infer = "append"
  BY <1>0, <1>1, <1>4, <1>7, PushB
<1>8. CASE UploadPop /\ upload' = "send"
  BY <1>0, <1>1, <1>4, <1>8, PopB
<1>9. CASE UploadSend
  BY <1>0, <1>1, <1>4, <1>9, Sent
<1>10. CASE ~Moves
  <2>0. UNCHANGED <<QueuedA, QueuedB>>
    BY <1>10, Others
  <2>1. CASE RecvCapture \/ RecvSourceEnds
    BY <1>4, <2>0, <2>1 DEF RecvCapture, RecvSourceEnds, OthersOfRecv, inferVars, uploadVars
  <2>2. CASE RecvAppend /\ recvItem = Untracked
    BY <1>0, <1>4, <2>0, <2>2, StepsOfA DEF RecvAppend, OthersOfRecv, inferVars, uploadVars
  <2>3. CASE RecvLock \/ RecvNotify
    BY <1>0, <1>4, <2>0, <2>3, StepsOfA DEF RecvLock, RecvNotify, OthersOfRecv, inferVars,
      uploadVars, Threads
  <2>4. CASE RecvShutdown
    BY <1>0, <1>4, <2>0, <2>4, StepsOfA DEF RecvShutdown, OthersOfRecv, inferVars,
      uploadVars, Threads
  <2>5. CASE InferPop /\ infer' # "run"
    BY <1>0, <1>4, <2>0, <2>5, StepsOfA DEF InferPop, OthersOfInfer, recvVars, uploadVars,
      Threads
  <2>6. CASE InferPush /\ infer # "append"
    BY <1>0, <1>4, <2>0, <2>6, StepsOfB DEF InferPush, OthersOfInfer, recvVars, uploadVars,
      Threads
  <2>7. CASE InferShutdown
    BY <1>0, <1>4, <2>0, <2>7, StepsOfB DEF InferShutdown, OthersOfInfer, recvVars,
      uploadVars, Threads
  <2>8. CASE UploadPop /\ upload' # "send"
    BY <1>0, <1>4, <2>0, <2>8, StepsOfB DEF UploadPop, OthersOfUpload, recvVars, inferVars,
      Threads
  <2>9. CASE UploadSizes
    BY <1>0, <1>4, <2>0, <2>9, StepsOfA, StepsOfB DEF UploadSizes, recvVars, inferVars,
      Threads
  <2>10. CASE SpuriousWakeup
    BY <1>0, <1>4, <2>0, <2>10, StepsOfA, StepsOfB DEF SpuriousWakeup, recvVars, inferVars,
      uploadVars
  <2>11. CASE Joined \/ UNCHANGED vars
    BY <1>4, <2>0, <2>11 DEF Joined, vars, recvVars, inferVars, uploadVars
  <2> QED
    BY <1>2, <1>10, <2>1, <2>2, <2>3, <2>4, <2>5, <2>6, <2>7, <2>8, <2>9, <2>10, <2>11
    DEF Next, RecvStep, InferStep, UploadStep, Moves
<1> QED
  BY <1>5, <1>6, <1>7, <1>8, <1>9, <1>10 DEF Moves

\* The queues start empty, with nobody's frame in hand.
LEMMA InitIInv == Init => IInv
<1> SUFFICES ASSUME Init PROVE IInv
  OBVIOUS
<1>1. Len(<<>>) = 0 /\ <<>> \in Seq(Frames)
  OBVIOUS
<1>2. /\ queueA.items = <<>> /\ queueB.items = <<>> /\ uploaded = <<>>
      /\ ~queueA.shutdown /\ ~queueB.shutdown
      /\ recv = "capture" /\ infer = "pop" /\ upload = "pop"
      /\ captured = 0 /\ recvItem = 0 /\ inferItem = 0 /\ uploadItem = 0
      /\ handler = 0
  BY DEF Init, A!NewQueue, B!NewQueue, Untracked
<1>3. QueuedA = 0 /\ QueuedB = 0 /\ NumSent = 0
  BY <1>1, <1>2 DEF QueuedA, QueuedB, NumSent
<1>4. TypeOK
  BY <1>1, <1>2, MaxFramesAssumption
  DEF Init, TypeOK, A!NewQueue, B!NewQueue, A!QueueType, B!QueueType, A!Free, B!Free,
      RecvPC, InferPC, UploadPC
<1>5. HostNamed
  BY <1>2 DEF HostNamed
<1>6. InOrder
  BY <1>1, <1>2 DEF InOrder, Following
<1>7. Chain
  BY <1>2, <1>3 DEF Chain, One, RecvHas, InferHas, UploadHas
<1>8. Unsignalled
  BY <1>2 DEF Unsignalled, InferLeft
<1> QED
  BY <1>4, <1>5, <1>6, <1>7, <1>8 DEF IInv

\* IInv is inductive.
LEMMA NextIInv == IInv /\ [Next]_vars => IInv'
BY NextType, NextInOrder, NextChain, NextUnsignalled DEF IInv

\* Each frame captured is in exactly one place and in order, in every reachable state of
\* the threads of pipeline_l1.cpp, signal or not.
THEOREM Invariance == Spec => []IInv
<1> QED
  BY InitIInv, NextIInv, PTL DEF Spec

-----------------------------------------------------------------------------
\* Every variable of the threads and queues of pipeline_l1.cpp stays in its type.
THEOREM TypeCorrect == Spec => []TypeOK
<1>1. IInv => TypeOK
  BY DEF IInv
<1> QED
  BY <1>1, Invariance, PTL

\* What upload_loop has sent is 1, 2, 3 and so on: a prefix of what was captured.
THEOREM InOrderSent == Spec => []SentInOrder
<1>1. IInv => SentInOrder
  <2> SUFFICES ASSUME IInv, NEW i \in 1 .. Len(uploaded) PROVE uploaded[i] = i
    BY DEF SentInOrder
  <2>1. uploaded[i] = 0 + i /\ i \in Nat
    BY DEF IInv, InOrder, Following
  <2> QED
    BY <2>1
<1> QED
  BY <1>1, Invariance, PTL

\* Once the threads have returned, and no signal has come, both queues are empty and
\* no hand holds a frame.
LEMMA DrainsFromIInv == IInv => EndDrains
<1> SUFFICES ASSUME IInv, AllDone, handler = 0 PROVE NumSent = captured
  BY DEF EndDrains, NumSent
<1>1. /\ NumSent \in Nat /\ uploadItem \in Nat /\ inferItem \in Nat
      /\ captured \in Nat
  BY DEF IInv, TypeOK, NumSent
<1>2. QueuedA = 0 /\ QueuedB = 0
  BY DEF IInv, Unsignalled, AllDone, InferLeft
<1>3. NumSent = uploadItem /\ uploadItem = inferItem /\ inferItem = captured
  BY <1>1, <1>2 DEF IInv, Chain, AllDone, RecvHas, InferHas, UploadHas, One
<1> QED
  BY <1>3

\* When no signal has come and all three threads have returned, every frame captured has
\* been sent: pop() answers false on an empty queue only.
THEOREM Drained == Spec => []EndDrains
  BY DrainsFromIInv, Invariance, PTL
-----------------------------------------------------------------------------
(* Who blocks whom.                                                        *)

\* The steps between lock and unlock, of a thread and of the handler on top of it.
HoldsA(t) ==
  \/ t = "recv" /\ recv \in {"append", "flag"}
  \/ t = "infer" /\ infer = "test"
  \/ t = "upload" /\ upload \in {"ownsAB", "ownsA"}
  \/ t = host /\ handler = 2

HoldsB(t) ==
  \/ t = "infer" /\ infer \in {"append", "flag"}
  \/ t = "upload" /\ upload \in {"test", "ownsBA", "ownsB"}
  \/ t = host /\ handler = 5

Owned ==
  /\ queueA.owner # A!Free => HoldsA(queueA.owner)
  /\ queueB.owner # B!Free => HoldsB(queueB.owner)

\* A consumer asleep next to an item, or after shutdown(), is about to be notified: the
\* notification comes after the mutex has been released.
AwakeSoon ==
  /\ queueA.asleep /\ (QueuedA > 0 \/ queueA.shutdown) =>
       recv \in {"notify", "notifyAll"} \/ handler = 3
  /\ queueB.asleep /\ (QueuedB > 0 \/ queueB.shutdown) =>
       infer \in {"notify", "notifyAll"} \/ handler = 6

\* A producer that is past its shutdown() has set the flag.
Flagged ==
  /\ RecvFlagged => queueA.shutdown
  /\ InferFlagged => queueB.shutdown

Waits == Owned /\ AwakeSoon /\ Flagged

\* A queue whose mutex has this owner, and whose consumer is asleep or not.
Mutex(r, owner, asleep) == r.owner = owner /\ (r.asleep <=> asleep)

\* What the steps of queue A do to its mutex and to its condition variable.
LEMMA MutexOfA ==
  ASSUME queueA \in A!QueueType(Frames, Threads)
  PROVE  LET o == queueA.owner
             z == queueA.asleep
         IN  /\ o \in Threads \cup {A!Free} /\ QueuedA \in Nat
             /\ \A t \in Threads : A!Lock(t) => o = A!Free /\ Mutex(queueA', t, z)
             /\ \A t \in Threads : A!Relock(t) => o = A!Free /\ ~z /\ Mutex(queueA', t, z)
             /\ A!Unlock => Mutex(queueA', A!Free, z)
             /\ \A k \in Frames : A!AppendUnlock(k) => Mutex(queueA', A!Free, z)
             /\ A!WaitSleeps => /\ QueuedA = 0 /\ ~queueA.shutdown
                                /\ Mutex(queueA', A!Free, TRUE)
             /\ A!PopFalse \/ A!PopFront => Mutex(queueA', A!Free, z)
             /\ A!Notify \/ A!Spurious => Mutex(queueA', o, FALSE)
             /\ A!FlagUnlock => Mutex(queueA', A!Free, z)
<1> USE DEF Mutex, A!QueueType, A!Free
<1>1. /\ queueA.owner \in Threads \cup {A!Free} /\ QueuedA \in Nat
      /\ queueA.asleep \in BOOLEAN /\ queueA.shutdown \in BOOLEAN
      /\ queueA.items \in Seq(Frames)
  BY DEF QueuedA
<1>2. \A t \in Threads :
        A!Lock(t) => queueA.owner = A!Free /\ Mutex(queueA', t, queueA.asleep)
  BY <1>1 DEF A!Lock
<1>3. \A t \in Threads :
        A!Relock(t) => /\ queueA.owner = A!Free /\ ~queueA.asleep
                       /\ Mutex(queueA', t, queueA.asleep)
  BY <1>2 DEF A!Relock
<1>4. A!Unlock => Mutex(queueA', A!Free, queueA.asleep)
  BY <1>1 DEF A!Unlock
<1>5. \A k \in Frames : A!AppendUnlock(k) => Mutex(queueA', A!Free, queueA.asleep)
  BY <1>1 DEF A!AppendUnlock
<1>6. A!WaitSleeps => /\ QueuedA = 0 /\ ~queueA.shutdown
                      /\ Mutex(queueA', A!Free, TRUE)
  BY <1>1 DEF A!WaitSleeps, QueuedA
<1>7. A!PopFalse \/ A!PopFront => Mutex(queueA', A!Free, queueA.asleep)
  BY <1>1 DEF A!PopFalse, A!PopFront
<1>8. A!Notify \/ A!Spurious => Mutex(queueA', queueA.owner, FALSE)
  BY <1>1 DEF A!Notify, A!Spurious
<1>9. A!FlagUnlock => Mutex(queueA', A!Free, queueA.asleep)
  BY <1>1 DEF A!FlagUnlock
<1> HIDE DEF Mutex, A!QueueType, A!Free
<1> QED
  BY <1>1, <1>2, <1>3, <1>4, <1>5, <1>6, <1>7, <1>8, <1>9

\* The same for queue B.
LEMMA MutexOfB ==
  ASSUME queueB \in A!QueueType(Frames, Threads)
  PROVE  LET o == queueB.owner
             z == queueB.asleep
         IN  /\ o \in Threads \cup {A!Free} /\ QueuedB \in Nat
             /\ \A t \in Threads : B!Lock(t) => o = B!Free /\ Mutex(queueB', t, z)
             /\ \A t \in Threads : B!Relock(t) => o = B!Free /\ ~z /\ Mutex(queueB', t, z)
             /\ B!Unlock => Mutex(queueB', B!Free, z)
             /\ \A k \in Frames : B!AppendUnlock(k) => Mutex(queueB', B!Free, z)
             /\ B!WaitSleeps => /\ QueuedB = 0 /\ ~queueB.shutdown
                                /\ Mutex(queueB', B!Free, TRUE)
             /\ B!PopFalse \/ B!PopFront => Mutex(queueB', B!Free, z)
             /\ B!Notify \/ B!Spurious => Mutex(queueB', o, FALSE)
             /\ B!FlagUnlock => Mutex(queueB', B!Free, z)
<1> USE DEF Mutex, A!QueueType, A!Free, B!Free
<1>1. /\ queueB.owner \in Threads \cup {A!Free} /\ QueuedB \in Nat
      /\ queueB.asleep \in BOOLEAN /\ queueB.shutdown \in BOOLEAN
      /\ queueB.items \in Seq(Frames)
  BY DEF QueuedB
<1>2. \A t \in Threads :
        B!Lock(t) => queueB.owner = A!Free /\ Mutex(queueB', t, queueB.asleep)
  BY <1>1 DEF B!Lock
<1>3. \A t \in Threads :
        B!Relock(t) => /\ queueB.owner = A!Free /\ ~queueB.asleep
                       /\ Mutex(queueB', t, queueB.asleep)
  BY <1>2 DEF B!Relock
<1>4. B!Unlock => Mutex(queueB', A!Free, queueB.asleep)
  BY <1>1 DEF B!Unlock
<1>5. \A k \in Frames : B!AppendUnlock(k) => Mutex(queueB', A!Free, queueB.asleep)
  BY <1>1 DEF B!AppendUnlock
<1>6. B!WaitSleeps => /\ QueuedB = 0 /\ ~queueB.shutdown
                      /\ Mutex(queueB', A!Free, TRUE)
  BY <1>1 DEF B!WaitSleeps, QueuedB
<1>7. B!PopFalse \/ B!PopFront => Mutex(queueB', A!Free, queueB.asleep)
  BY <1>1 DEF B!PopFalse, B!PopFront
<1>8. B!Notify \/ B!Spurious => Mutex(queueB', queueB.owner, FALSE)
  BY <1>1 DEF B!Notify, B!Spurious
<1>9. B!FlagUnlock => Mutex(queueB', A!Free, queueB.asleep)
  BY <1>1 DEF B!FlagUnlock
<1>10. B!Free = A!Free
  OBVIOUS
<1> HIDE DEF Mutex, A!QueueType, A!Free, B!Free
<1> QED
  BY <1>1, <1>2, <1>3, <1>4, <1>5, <1>6, <1>7, <1>8, <1>9, <1>10

\* The mutexes are owned by who is between lock and unlock.
LEMMA NextOwned == IInv /\ Owned /\ [Next]_vars => Owned'
<1> SUFFICES ASSUME IInv, Owned, [Next]_vars PROVE Owned'
  OBVIOUS
<1> USE DEF Owned, HoldsA, HoldsB, Mutex, A!Free, B!Free
<1>0. /\ queueA \in A!QueueType(Frames, Threads) /\ queueB \in A!QueueType(Frames, Threads)
      /\ HostNamed /\ recvItem \in 0 .. MaxFrames /\ inferItem \in 0 .. MaxFrames
      /\ handler \in 0 .. 7
  BY DEF IInv, TypeOK, A!QueueType, B!QueueType
<1>1. CASE RecvStep \/ RecvSourceEnds
  <2>1. UNCHANGED <<queueB, infer, upload, host, handler>>
    BY <1>1 DEF RecvStep, RecvSourceEnds, RecvCapture, RecvLock, RecvAppend, RecvNotify,
      RecvShutdown, OthersOfRecv, inferVars, uploadVars, sigVars
  <2>2. CASE RecvCapture \/ RecvSourceEnds
    BY <2>1, <2>2 DEF RecvCapture, RecvSourceEnds
  <2>3. CASE RecvLock
    BY <1>0, <2>1, <2>3, MutexOfA DEF RecvLock, Threads
  <2>4. CASE RecvAppend
    <3>1. recvItem = Untracked \/ recvItem \in Frames
      BY <1>0, MaxFramesAssumption DEF Untracked, Frames
    <3> QED
      BY <1>0, <2>1, <2>4, <3>1, MutexOfA DEF RecvAppend
  <2>5. CASE RecvNotify
    BY <1>0, <2>1, <2>5, MutexOfA DEF RecvNotify
  <2>6. CASE RecvShutdown
    BY <1>0, <2>1, <2>6, MutexOfA DEF RecvShutdown, Threads
  <2> QED
    BY <1>1, <2>2, <2>3, <2>4, <2>5, <2>6 DEF RecvStep
<1>2. CASE InferStep
  <2>1. UNCHANGED <<recv, upload, host, handler>>
    BY <1>2 DEF InferStep, InferPop, InferPush, InferShutdown, OthersOfInfer, recvVars,
      uploadVars, sigVars
  <2>2. CASE InferPop
    BY <1>0, <2>1, <2>2, MutexOfA DEF InferPop, Threads
  <2>3. CASE InferPush
    <3>1. infer = "append" => inferItem \in Frames
      <4>1. QueuedB \in Nat /\ uploadItem \in Nat /\ MaxFrames \in Nat
        BY <1>0, StepsOfB, MaxFramesAssumption DEF IInv, TypeOK
      <4> QED
        BY <1>0, <4>1 DEF IInv, Chain, InferHas, One, Frames
    <3> QED
      BY <1>0, <2>1, <2>3, <3>1, MutexOfB DEF InferPush, Threads
  <2>4. CASE InferShutdown
    BY <1>0, <2>1, <2>4, MutexOfB DEF InferShutdown, Threads
  <2> QED
    BY <1>2, <2>2, <2>3, <2>4 DEF InferStep
<1>3. CASE UploadStep
  <2>1. UNCHANGED <<recv, infer, host, handler>>
    BY <1>3 DEF UploadStep, UploadPop, UploadSend, UploadSizes, OthersOfUpload, recvVars,
      inferVars, sigVars
  <2>2. CASE UploadPop
    BY <1>0, <2>1, <2>2, MutexOfB DEF UploadPop, OthersOfUpload, Threads
  <2>3. CASE UploadSend
    BY <2>1, <2>3 DEF UploadSend, OthersOfUpload
  <2>4. CASE UploadSizes
    BY <1>0, <2>1, <2>4, MutexOfA, MutexOfB DEF UploadSizes, Threads
  <2> QED
    BY <1>3, <2>2, <2>3, <2>4 DEF UploadStep
<1>4. CASE SpuriousWakeup
  BY <1>0, <1>4, MutexOfA, MutexOfB
  DEF SpuriousWakeup, recvVars, inferVars, uploadVars, sigVars
<1>5. CASE \E t \in Hosts : SignalArrives(t)
  BY <1>5 DEF SignalArrives, recvVars, inferVars, uploadVars
<1>6. CASE HandlerStep
  <2>1. host \in Threads
    BY <1>0, <1>6 DEF HandlerStep, HostNamed
  <2>2. /\ UNCHANGED <<recv, infer, upload, host>>
        /\ handler' = handler + 1
    BY <1>6 DEF HandlerStep, recvVars, inferVars, uploadVars
  <2>3. CASE handler \in 1 .. 3
    BY <1>0, <1>6, <2>1, <2>2, <2>3, MutexOfA DEF HandlerStep
  <2>4. CASE handler \in 4 .. 6
    BY <1>0, <1>6, <2>1, <2>2, <2>4, MutexOfB DEF HandlerStep
  <2> QED
    BY <1>6, <2>3, <2>4 DEF HandlerStep
<1>7. CASE Joined \/ UNCHANGED vars
  BY <1>7 DEF Joined, vars, recvVars, inferVars, uploadVars, sigVars
<1> QED
  BY <1>1, <1>2, <1>3, <1>4, <1>5, <1>6, <1>7 DEF Next

\* Whoever makes a sleeping consumer's wait come true, notifies it next.
LEMMA NextAwake == IInv /\ AwakeSoon /\ Flagged /\ [Next]_vars => AwakeSoon' /\ Flagged'
<1> SUFFICES ASSUME IInv, AwakeSoon, Flagged, [Next]_vars PROVE AwakeSoon' /\ Flagged'
  OBVIOUS
<1> USE DEF AwakeSoon, Flagged, RecvFlagged, InferFlagged, Mutex, Is
<1>0. /\ queueA \in A!QueueType(Frames, Threads) /\ queueB \in A!QueueType(Frames, Threads)
      /\ HostNamed /\ handler \in 0 .. 7
      /\ queueA.shutdown \in BOOLEAN /\ queueB.shutdown \in BOOLEAN
  BY DEF IInv, TypeOK, A!QueueType, B!QueueType, A!Free, B!Free
<1>1. QueuedA \in Nat /\ QueuedB \in Nat
  BY <1>0, StepsOfA, StepsOfB
<1>2. ASSUME RecvAppend, recvItem # Untracked PROVE AwakeSoon' /\ Flagged'
  <2>1. /\ recv = "append" /\ recv' = "notify" /\ UNCHANGED <<queueB, infer, handler, QueuedB>>
        /\ (queueA'.shutdown <=> queueA.shutdown)
    BY <1>2, PushA DEF RecvAppend
  <2> QED
    BY <2>1
<1>3. ASSUME InferPop, infer' = "run" PROVE AwakeSoon' /\ Flagged'
  <2>1. /\ infer = "test" /\ QueuedA' = QueuedA - 1
        /\ UNCHANGED <<queueB, recv, handler, QueuedB>>
        /\ (queueA'.shutdown <=> queueA.shutdown)
    BY <1>3, PopA DEF InferPop
  <2>2. queueA'.asleep <=> queueA.asleep
    BY <1>0, <1>3, MutexOfA DEF InferPop
  <2> QED
    BY <1>1, <1>3, <2>1, <2>2
<1>4. ASSUME InferPush, infer = "append" PROVE AwakeSoon' /\ Flagged'
  <2>1. /\ infer' = "notify" /\ UNCHANGED <<queueA, recv, handler, QueuedA>>
        /\ (queueB'.shutdown <=> queueB.shutdown)
    BY <1>4, PushB
  <2> QED
    BY <1>4, <2>1
<1>5. ASSUME UploadPop, upload' = "send" PROVE AwakeSoon' /\ Flagged'
  <2>1. /\ QueuedB' = QueuedB - 1
        /\ UNCHANGED <<queueA, recv, infer, handler, QueuedA>>
        /\ (queueB'.shutdown <=> queueB.shutdown)
    BY <1>5, PopB
  <2>2. queueB'.asleep <=> queueB.asleep
    BY <1>0, <1>5, MutexOfB DEF UploadPop
  <2> QED
    BY <1>1, <2>1, <2>2
<1>6. CASE UploadSend
  BY <1>6, Sent
<1>7. CASE ~Moves
  <2>0. UNCHANGED <<QueuedA, QueuedB>>
    BY <1>7, Others
  <2>1. CASE RecvCapture \/ RecvSourceEnds
    BY <2>0, <2>1 DEF RecvCapture, RecvSourceEnds, OthersOfRecv, inferVars, sigVars
  <2>2. CASE RecvAppend /\ recvItem = Untracked
    BY <1>0, <2>0, <2>2, StepsOfA, MutexOfA DEF RecvAppend, OthersOfRecv, inferVars, sigVars
  <2>3. CASE RecvLock
    BY <1>0, <2>0, <2>3, StepsOfA, MutexOfA DEF RecvLock, OthersOfRecv, inferVars, sigVars,
      Threads
  <2>4. CASE RecvNotify
    BY <1>0, <2>0, <2>4, StepsOfA, MutexOfA DEF RecvNotify, OthersOfRecv, inferVars, sigVars
  <2>5. CASE RecvShutdown
    BY <1>0, <2>0, <2>5, StepsOfA, MutexOfA DEF RecvShutdown, OthersOfRecv, inferVars,
      sigVars, Threads
  <2>6. CASE InferPop /\ infer' # "run"
    BY <1>0, <2>0, <2>6, StepsOfA, MutexOfA DEF InferPop, OthersOfInfer, recvVars, sigVars,
      Threads
  <2>7. CASE InferPush /\ infer # "append"
    BY <1>0, <2>0, <2>7, StepsOfB, MutexOfB DEF InferPush, OthersOfInfer, recvVars, sigVars,
      Threads
  <2>8. CASE InferShutdown
    BY <1>0, <2>0, <2>8, StepsOfB, MutexOfB DEF InferShutdown, OthersOfInfer, recvVars,
      sigVars, Threads
  <2>9. CASE UploadPop /\ upload' # "send"
    BY <1>0, <2>0, <2>9, StepsOfB, MutexOfB DEF UploadPop, OthersOfUpload, recvVars,
      inferVars, sigVars, Threads
  <2>10. CASE UploadSizes
    BY <1>0, <2>0, <2>10, StepsOfA, StepsOfB, MutexOfA, MutexOfB DEF UploadSizes, recvVars,
      inferVars, sigVars, Threads
  <2>11. CASE SpuriousWakeup
    BY <1>0, <2>0, <2>11, StepsOfA, StepsOfB, MutexOfA, MutexOfB DEF SpuriousWakeup,
      recvVars, inferVars, sigVars
  <2>12. CASE \E t \in Hosts : SignalArrives(t)
    BY <2>0, <2>12 DEF SignalArrives, recvVars, inferVars
  <2>13. CASE HandlerStep
    <3>1. host \in Threads
      BY <1>0, <2>13 DEF HandlerStep, HostNamed
    <3>2. UNCHANGED <<recv, infer>> /\ handler' = handler + 1
      BY <2>13 DEF HandlerStep, recvVars, inferVars
    <3>3. CASE handler \in 1 .. 3
      BY <1>0, <2>0, <2>13, <3>1, <3>2, <3>3, StepsOfA, MutexOfA DEF HandlerStep
    <3>4. CASE handler \in 4 .. 6
      BY <1>0, <2>0, <2>13, <3>1, <3>2, <3>4, StepsOfB, MutexOfB DEF HandlerStep
    <3> QED
      BY <2>13, <3>3, <3>4 DEF HandlerStep
  <2>14. CASE Joined \/ UNCHANGED vars
    BY <2>0, <2>14 DEF Joined, vars, recvVars, inferVars, sigVars
  <2> QED
    BY <1>7, <2>1, <2>2, <2>3, <2>4, <2>5, <2>6, <2>7, <2>8, <2>9, <2>10, <2>11, <2>12,
       <2>13, <2>14
    DEF Next, RecvStep, InferStep, UploadStep, Moves
<1> QED
  BY <1>2, <1>3, <1>4, <1>5, <1>6, <1>7 DEF Moves

\* At first every mutex is free and nobody sleeps.
LEMMA InitWaits == Init => Waits
BY DEF Init, A!NewQueue, B!NewQueue, Waits, Owned, AwakeSoon, Flagged, RecvFlagged,
  InferFlagged

\* Who is blocked waits for the owner of a mutex, who can go on unless a signal has
\* interrupted it there, or for a notification that is under way.
LEMMA WaitsSuffice == IInv /\ Waits => OnlySignalBlocks
<1> SUFFICES ASSUME IInv, Waits PROVE OnlySignalBlocks
  OBVIOUS
<1> USE DEF OnlySignalBlocks
<1>0. /\ queueA.owner \in Threads \cup {A!Free} /\ queueB.owner \in Threads \cup {B!Free}
      /\ recv \in RecvPC /\ infer \in InferPC /\ upload \in UploadPC
      /\ handler \in 0 .. 7 /\ QueuedA \in Nat /\ QueuedB \in Nat
      /\ (queueA.items = <<>> <=> QueuedA = 0) /\ (queueB.items = <<>> <=> QueuedB = 0)
  BY DEF IInv, TypeOK, A!QueueType, B!QueueType, QueuedA, QueuedB
<1>1. ASSUME queueA.owner # A!Free, ~Suspended(queueA.owner)
      PROVE  OnlySignalBlocks
  <2>1. HoldsA(queueA.owner)
    BY <1>1 DEF Waits, Owned
  <2>2. CASE queueA.owner = "recv" /\ recv \in {"append", "flag"}
    BY <1>1, <2>2 DEF RecvCanGo
  <2>3. CASE queueA.owner = "infer" /\ infer = "test"
    BY <1>1, <2>3 DEF InferCanGo
  <2>4. CASE queueA.owner = "upload" /\ upload \in {"ownsAB", "ownsA"}
    BY <1>1, <2>4 DEF UploadCanGo
  <2>5. CASE handler = 2
    BY <2>5 DEF HandlerCanGo
  <2> QED
    BY <2>1, <2>2, <2>3, <2>4, <2>5 DEF HoldsA
<1>2. ASSUME queueB.owner # B!Free, ~Suspended(queueB.owner)
      PROVE  OnlySignalBlocks
  <2>1. HoldsB(queueB.owner)
    BY <1>2 DEF Waits, Owned
  <2>2. CASE queueB.owner = "infer" /\ infer \in {"append", "flag"}
    BY <1>2, <2>2 DEF InferCanGo
  <2>3. CASE queueB.owner = "upload" /\ upload \in {"test", "ownsBA", "ownsB"}
    BY <1>2, <2>3 DEF UploadCanGo
  <2>4. CASE handler = 5
    BY <2>4 DEF HandlerCanGo
  <2> QED
    BY <2>1, <2>2, <2>3, <2>4 DEF HoldsB
<1>3. CASE handler \in 1 .. 6
  <2>1. CASE handler = 1 /\ queueA.owner # A!Free
    BY <1>1, <2>1 DEF OwnMutex, Suspended
  <2>2. CASE handler = 4 /\ queueB.owner # B!Free
    BY <1>2, <2>2 DEF OwnMutex, Suspended
  <2>3. CASE ~(handler = 1 /\ queueA.owner # A!Free) /\ ~(handler = 4 /\ queueB.owner # B!Free)
    BY <1>3, <2>3 DEF HandlerCanGo
  <2> QED
    BY <2>1, <2>2, <2>3
<1>4. CASE handler \notin 1 .. 6 /\ queueA.owner = A!Free /\ queueB.owner = B!Free
  <2>1. \A t \in Threads : ~Suspended(t)
    BY <1>4 DEF Suspended
  <2>2. CASE recv # "done"
    BY <1>4, <2>1, <2>2 DEF RecvCanGo, Threads
  <2>3. CASE recv = "done" /\ infer # "done"
    <3>1. ~(infer = "asleep" /\ queueA.asleep)
      BY <1>4, <2>3 DEF Waits, AwakeSoon, Flagged, RecvFlagged
    <3> QED
      BY <1>4, <2>1, <2>3, <3>1 DEF InferCanGo, Threads
  <2>4. CASE infer = "done" /\ upload # "done"
    <3>1. ~(upload = "asleep" /\ queueB.asleep)
      BY <1>4, <2>4 DEF Waits, AwakeSoon, Flagged, InferFlagged
    <3> QED
      BY <1>4, <2>1, <2>4, <3>1 DEF UploadCanGo, Threads
  <2> QED
    BY <2>2, <2>3, <2>4 DEF AllDone
<1>5. handler \notin 1 .. 6 => ~Suspended(queueA.owner) /\ ~Suspended(queueB.owner)
  BY DEF Suspended
<1> QED
  BY <1>1, <1>2, <1>3, <1>4, <1>5

\* The threads of pipeline_l1.cpp never wait for each other for ever: the mutexes are
\* taken one at a time and no notification is lost.  Only request_shutdown() can block
\* the process, called by a handler on top of the owner of the mutex (line 281).
THEOREM BlockedBySignalOnly == Spec => []OnlySignalBlocks
<1>1. Init => IInv /\ Waits
  BY InitIInv, InitWaits
<1>2. IInv /\ Waits /\ [Next]_vars => (IInv /\ Waits)'
  BY NextIInv, NextOwned, NextAwake DEF Waits
<1>3. IInv /\ Waits => OnlySignalBlocks
  BY WaitsSuffice
<1> QED
  BY <1>1, <1>2, <1>3, PTL DEF Spec

\* A handler that runs on the main thread, which stays outside the queues, blocks
\* nobody: with SIGINT masked in the three threads level 1 would be free of deadlock.
THEOREM MainHandlesSafely == Hosts \subseteq {"main"} => (Spec => []~OwnMutex)
<1> SUFFICES ASSUME Hosts \subseteq {"main"} PROVE Spec => []~OwnMutex
  OBVIOUS
<1> DEFINE OnMain == handler > 0 => host = "main"
<1>1. Init => OnMain
  BY DEF Init
<1>2. IInv /\ OnMain /\ [Next]_vars => OnMain'
  <2> SUFFICES ASSUME IInv, OnMain, [Next]_vars PROVE OnMain'
    OBVIOUS
  <2>1. CASE \E t \in Hosts : SignalArrives(t)
    BY <2>1 DEF SignalArrives
  <2>2. CASE HandlerStep
    BY <2>2 DEF HandlerStep
  <2>3. CASE ~(\E t \in Hosts : SignalArrives(t)) /\ ~HandlerStep
    BY <2>3 DEF Next, RecvStep, RecvCapture, RecvSourceEnds, RecvAppend, RecvNotify,
      RecvLock, RecvShutdown, OthersOfRecv, InferStep, InferPop, InferPush,
      InferShutdown, OthersOfInfer, UploadStep, UploadPop, UploadSend, UploadSizes,
      OthersOfUpload, SpuriousWakeup, Joined, vars, sigVars
  <2> QED
    BY <2>1, <2>2, <2>3
<1>3. IInv /\ Waits /\ OnMain => ~OwnMutex
  BY DEF OwnMutex, Waits, Owned, HoldsA, HoldsB, A!Free, B!Free
<1>4. Init => IInv /\ Waits
  BY InitIInv, InitWaits
<1>5. IInv /\ Waits /\ [Next]_vars => (IInv /\ Waits)'
  BY NextIInv, NextOwned, NextAwake DEF Waits
<1> QED
  BY <1>1, <1>2, <1>3, <1>4, <1>5, PTL DEF Spec
-----------------------------------------------------------------------------
(* One line of frames.                                                     *)

\* What the threads work on is one frame each, the next one.  The counts follow each
\* other; who has returned has found queue A shut down, and without a signal everything
\* sent.
InTurn ==
  /\ captured \in 0 .. MaxFrames /\ inferItem \in Nat /\ NumSent \in Nat
  /\ queueA \in A!QueueType(Frames, Threads) /\ handler \in 0 .. 7
  /\ uploadItem = IF UploadHas THEN NumSent + 1 ELSE NumSent
  /\ infer = "run" => inferItem <= captured
  /\ uploadItem <= Inferred
  /\ AllDone => queueA.shutdown
  /\ AllDone /\ ~Signalled => NumSent = captured

\* It follows from the chain of queues and hands.
LEMMA InTurnFromIInv == IInv /\ Flagged => InTurn
<1> SUFFICES ASSUME IInv, Flagged PROVE InTurn
  OBVIOUS
<1>1. /\ captured \in 0 .. MaxFrames /\ captured \in Nat /\ inferItem \in Nat
      /\ uploadItem \in Nat /\ NumSent \in Nat /\ QueuedA \in Nat /\ QueuedB \in Nat
      /\ queueA \in A!QueueType(Frames, Threads) /\ handler \in 0 .. 7
      /\ Chain
  BY MaxFramesAssumption
  DEF IInv, TypeOK, A!QueueType, B!QueueType, QueuedA, QueuedB, NumSent
<1>2. uploadItem = IF UploadHas THEN NumSent + 1 ELSE NumSent
  BY <1>1 DEF Chain, One
<1>3. inferItem <= captured
  BY <1>1 DEF Chain, One
<1>4. uploadItem <= Inferred
  BY <1>1 DEF Chain, One, Inferred, InferHas
<1>5. AllDone => queueA.shutdown
  BY DEF Flagged, AllDone, RecvFlagged
<1>6. AllDone /\ ~Signalled => NumSent = captured
  BY <1>1, DrainsFromIInv DEF EndDrains, NumSent, Signalled
<1> QED
  BY <1>1, <1>2, <1>3, <1>4, <1>5, <1>6 DEF InTurn

\* A step that neither takes, finishes nor sends a frame, nor closes the line, does not
\* show: unless it ends the last thread, which is the return of the line.
LEMMA LastReturns ==
  ASSUME InTurn, InTurn', AllDone = FALSE,
         UNCHANGED <<captured, inferItem, uploadItem, uploaded, queueA.shutdown, Signalled>>,
         infer' = "run" <=> infer = "run",
         upload' = "send" <=> upload = "send"
  PROVE  [Line!Next]_(Line!vars)
<1>1. Inferring' = Inferring /\ Inferred' = Inferred /\ Sending' = Sending
  BY DEF Inferring, Inferred, Sending
<1>2. CASE AllDone'
  <2>1. queueA.shutdown = TRUE
    BY <1>2 DEF InTurn, A!QueueType
  <2>2. Inferring = {} /\ Sending = {}
    BY <1>1, <1>2 DEF AllDone, Inferring, Sending
  <2>3. ~Signalled => Len(uploaded) = captured
    BY <1>2 DEF InTurn, NumSent
  <2>4. Line!Return
    BY <1>1, <1>2, <2>1, <2>2, <2>3 DEF Line!Return
  <2> QED
    BY <2>4 DEF Line!Next
<1>3. CASE ~AllDone'
  <2>1. AllDone' = AllDone
    BY <1>3 DEF AllDone
  <2> QED
    BY <1>1, <2>1 DEF Line!vars
<1> QED
  BY <1>2, <1>3

\* What the steps of queue A that leave its flag alone have in common.
LEMMA FlagKept ==
  ASSUME InTurn,
         \/ queueA' = queueA \/ A!Unlock \/ A!Notify \/ A!Spurious \/ A!WaitSleeps
         \/ A!PopFalse \/ A!PopFront
         \/ \E t : A!Lock(t) \/ A!Relock(t)
         \/ \E k : A!AppendUnlock(k)
  PROVE  queueA'.shutdown = queueA.shutdown
BY DEF InTurn, A!QueueType, A!Unlock, A!Notify, A!Spurious, A!WaitSleeps, A!PopFalse,
  A!PopFront, A!Lock, A!Relock, A!AppendUnlock

\* What recv_loop does to the line: it captures, and it closes it.
LEMMA RecvOnLine ==
  ASSUME InTurn, InTurn', RecvStep \/ RecvSourceEnds
  PROVE  [Line!Next]_(Line!vars)
<1>1. /\ UNCHANGED <<infer, inferItem, upload, uploadItem, uploaded, handler>>
      /\ AllDone = FALSE
  BY DEF RecvStep, RecvCapture, RecvSourceEnds, RecvLock, RecvAppend, RecvNotify,
    RecvShutdown, OthersOfRecv, inferVars, uploadVars, sigVars, AllDone
<1>2. /\ Inferring' = Inferring /\ Inferred' = Inferred /\ Sending' = Sending
      /\ Signalled' = Signalled
  BY <1>1 DEF Inferring, Inferred, Sending, Signalled
<1>3. CASE RecvCapture /\ captured < MaxFrames
  <2>1. /\ captured' = captured + 1 /\ UNCHANGED <<queueA, uploaded>>
        /\ AllDone' = FALSE
    BY <1>1, <1>3 DEF RecvCapture, AllDone
  <2>2. captured - Len(uploaded) < MaxFrames
    BY <1>3, MaxFramesAssumption DEF InTurn, NumSent
  <2>3. Line!Capture
    BY <1>1, <1>2, <2>1, <2>2 DEF Line!Capture
  <2> QED
    BY <2>3 DEF Line!Next
<1>4. CASE RecvShutdown /\ recv = "flag"
  <2>1. A!FlagUnlock /\ captured' = captured /\ recv' # "done"
    BY <1>4 DEF RecvShutdown
  <2>2. queueA'.shutdown = TRUE /\ AllDone' = FALSE
    BY <2>1 DEF A!FlagUnlock, InTurn, A!QueueType, AllDone
  <2>3. Line!Close
    BY <1>1, <1>2, <2>1, <2>2 DEF Line!Close
  <2> QED
    BY <2>3 DEF Line!Next
<1>5. CASE \/ RecvCapture /\ ~(captured < MaxFrames)
           \/ RecvSourceEnds \/ RecvLock \/ RecvAppend \/ RecvNotify
           \/ RecvShutdown /\ recv # "flag"
  <2>1. captured' = captured
    BY <1>5 DEF RecvCapture, RecvSourceEnds, RecvLock, RecvAppend, RecvNotify,
      RecvShutdown
  <2>2. \/ queueA' = queueA \/ A!Lock("recv") \/ A!Unlock \/ A!AppendUnlock(recvItem)
        \/ A!Notify
    BY <1>5 DEF RecvCapture, RecvSourceEnds, RecvLock, RecvAppend, RecvNotify,
      RecvShutdown
  <2>3. queueA'.shutdown = queueA.shutdown
    BY <2>2, FlagKept
  <2> QED
    BY <1>1, <1>2, <2>1, <2>3, LastReturns
<1> QED
  BY <1>3, <1>4, <1>5 DEF RecvStep

\* infer_loop takes the next frame, and finishes it.
LEMMA InferOnLine ==
  ASSUME IInv, InTurn, InTurn', InferStep
  PROVE  [Line!Next]_(Line!vars)
<1>1. /\ UNCHANGED <<recv, captured, upload, uploadItem, uploaded, handler>>
      /\ AllDone = FALSE
  BY DEF InferStep, InferPop, InferPush, InferShutdown, OthersOfInfer, recvVars,
    uploadVars, sigVars, AllDone
<1>2. Sending' = Sending /\ Signalled' = Signalled
  BY <1>1 DEF Sending, Signalled
<1>3. inferItem \in Nat /\ captured \in Nat
  BY MaxFramesAssumption DEF InTurn
<1>4. CASE InferPop /\ infer' = "run"
  <2>1. inferItem' = inferItem + 1 /\ infer = "test" /\ A!PopFront
    BY <1>4, PopA DEF InferPop
  <2>2. queueA'.shutdown = queueA.shutdown /\ AllDone' = FALSE
    BY <1>4, <2>1, FlagKept DEF AllDone
  <2>3. /\ Inferring = {} /\ Inferred = inferItem
        /\ Inferring' = {inferItem + 1} /\ Inferred' = inferItem
    BY <1>3, <1>4, <2>1 DEF Inferring, Inferred
  <2>4. inferItem < captured
    <3>1. inferItem' <= captured'
      BY <1>4 DEF InTurn
    <3> QED
      BY <1>1, <1>3, <2>1, <3>1
  <2>5. Line!BeginInfer
    BY <1>1, <1>2, <2>2, <2>3, <2>4 DEF Line!BeginInfer
  <2> QED
    BY <2>5 DEF Line!Next
<1>5. CASE InferPush /\ infer = "run"
  <2>1. /\ infer' = "push" /\ UNCHANGED <<queueA, inferItem>> /\ AllDone' = FALSE
    BY <1>5 DEF InferPush, AllDone
  <2>2. /\ Inferring = {inferItem} /\ Inferred = inferItem - 1
        /\ Inferring' = {} /\ Inferred' = Inferred + 1
    BY <1>3, <1>5, <2>1 DEF Inferring, Inferred
  <2>3. Line!EndInfer
    BY <1>1, <1>2, <2>1, <2>2 DEF Line!EndInfer
  <2> QED
    BY <2>3 DEF Line!Next
<1>6. CASE \/ InferPop /\ infer' # "run"
           \/ InferPush /\ infer # "run"
           \/ InferShutdown
  <2>1. /\ infer' = "run" <=> infer = "run"
        /\ inferItem' = inferItem
        /\ \/ queueA' = queueA \/ A!Lock("infer") \/ A!Relock("infer") \/ A!WaitSleeps
           \/ A!PopFalse
    BY <1>6 DEF InferPop, InferPush, InferShutdown
  <2>2. queueA'.shutdown = queueA.shutdown
    BY <2>1, FlagKept
  <2> QED
    BY <1>1, <1>2, <2>1, <2>2, LastReturns
<1> QED
  BY <1>4, <1>5, <1>6 DEF InferStep

\* upload_loop sends the next frame that inference has finished.
LEMMA UploadOnLine ==
  ASSUME IInv, InTurn, InTurn', UploadStep
  PROVE  [Line!Next]_(Line!vars)
<1>1. /\ UNCHANGED <<recv, captured, infer, inferItem, handler>>
      /\ AllDone = FALSE
  BY DEF UploadStep, UploadPop, UploadSizes, UploadSend, OthersOfUpload, recvVars,
    inferVars, sigVars, AllDone
<1>2. Inferring' = Inferring /\ Inferred' = Inferred /\ Signalled' = Signalled
  BY <1>1 DEF Inferring, Inferred, Signalled
<1>3. CASE UploadPop /\ upload' = "send"
  <2>1. /\ uploadItem' = uploadItem + 1 /\ upload = "test"
        /\ UNCHANGED <<queueA, uploaded>>
    BY <1>3, PopB
  <2>2. NumSent' = NumSent /\ AllDone' = FALSE
    BY <1>3, <2>1 DEF NumSent, AllDone
  <2>3. uploadItem = NumSent /\ uploadItem' <= Inferred'
    BY <2>1 DEF InTurn, UploadHas
  <2>4. NumSent < Inferred
    <3>1. Inferred \in Int /\ NumSent \in Nat
      BY DEF InTurn, Inferred
    <3> QED
      BY <1>2, <2>1, <2>3, <3>1
  <2>5. Sending = {} /\ Sending' = {NumSent + 1}
    BY <1>3, <2>1, <2>3 DEF Sending
  <2>6. Line!BeginSend
    BY <1>1, <1>2, <2>1, <2>2, <2>4, <2>5 DEF Line!BeginSend, NumSent
  <2> QED
    BY <2>6 DEF Line!Next
<1>4. CASE UploadSend
  <2>1. /\ upload = "send" /\ upload' \in {"sizeAB", "sizeBA"} /\ queueA' = queueA
        /\ NumSent' = NumSent + 1
    BY <1>4, Sent
  <2>2. AllDone' = FALSE
    BY <2>1 DEF AllDone
  <2>3. Sending # {} /\ Sending' = {}
    BY <2>1 DEF Sending
  <2>4. Line!EndSend
    BY <1>1, <1>2, <2>1, <2>2, <2>3 DEF Line!EndSend, NumSent
  <2> QED
    BY <2>4 DEF Line!Next
<1>5. CASE (UploadPop /\ upload' # "send") \/ UploadSizes
  <2>1. /\ upload' = "send" <=> upload = "send"
        /\ UNCHANGED <<uploadItem, uploaded>>
        /\ queueA' = queueA \/ A!Lock("upload") \/ A!Unlock
    BY <1>5 DEF UploadPop, UploadSizes, OthersOfUpload
  <2>2. queueA'.shutdown = queueA.shutdown
    BY <2>1, FlagKept
  <2> QED
    BY <1>1, <1>2, <2>1, <2>2, LastReturns
<1> QED
  BY <1>3, <1>4, <1>5 DEF UploadStep

\* A signal interrupts the line when it arrives; its handler closes it with its second
\* step, the other steps find it interrupted.
LEMMA SignalOnLine ==
  ASSUME InTurn, InTurn', HandlerStep \/ \E t \in Hosts : SignalArrives(t)
  PROVE  [Line!Next]_(Line!vars)
<1>1. UNCHANGED <<recv, captured, infer, inferItem, upload, uploadItem, uploaded>>
  BY DEF HandlerStep, SignalArrives, recvVars, inferVars, uploadVars
<1>2. /\ Inferring' = Inferring /\ Inferred' = Inferred /\ Sending' = Sending
      /\ AllDone' = AllDone
  BY <1>1 DEF Inferring, Inferred, Sending, AllDone
<1>3. Signalled' = TRUE
  BY DEF InTurn, HandlerStep, SignalArrives, Signalled
<1>4. queueA'.shutdown \in {queueA.shutdown, TRUE}
  <2>1. CASE A!FlagUnlock
    BY <2>1 DEF A!FlagUnlock, InTurn, A!QueueType
  <2>2. CASE queueA' = queueA \/ A!Lock(host) \/ A!Notify
    BY <2>2, FlagKept
  <2> QED
    BY <2>1, <2>2 DEF HandlerStep, SignalArrives
<1>5. Line!Interrupt
  BY <1>1, <1>2, <1>3, <1>4 DEF Line!Interrupt
<1> QED
  BY <1>5 DEF Line!Next

\* Each step of the pipeline is one of the line, or none.
LEMMA StepOnLine ==
  IInv /\ InTurn /\ InTurn' /\ [Next]_vars => [Line!Next]_(Line!vars)
<1> SUFFICES ASSUME IInv, InTurn, InTurn', [Next]_vars PROVE [Line!Next]_(Line!vars)
  OBVIOUS
<1>1. CASE SpuriousWakeup \/ Joined \/ UNCHANGED vars
  <2>1. UNCHANGED <<recv, captured, infer, inferItem, upload, uploadItem, uploaded,
                    handler>>
    BY <1>1 DEF SpuriousWakeup, Joined, vars, recvVars, inferVars, uploadVars, sigVars
  <2>2. queueA'.shutdown = queueA.shutdown
    BY <1>1, FlagKept DEF SpuriousWakeup, Joined, vars
  <2>3. Signalled' = Signalled /\ AllDone' = AllDone
    BY <2>1 DEF Signalled, AllDone
  <2> QED
    BY <2>1, <2>2, <2>3 DEF Line!vars, Inferring, Inferred, Sending
<1> QED
  BY <1>1, RecvOnLine, InferOnLine, UploadOnLine, SignalOnLine DEF Next

\* pipeline_l1.cpp implements the line of frames: captured, inferred and sent in order
\* and one at a time, returned only after a shutdown and, without a signal, with
\* everything sent.  Its queues are unbounded: nothing is said of the frames on the way.
THEOREM LineImplemented == Spec => ImplementsLine
<1>1. Init => Line!Init
  <2> SUFFICES ASSUME Init PROVE Line!Init
    OBVIOUS
  <2>1. Signalled = FALSE /\ AllDone = FALSE
    BY DEF Init, Signalled, AllDone
  <2>2. /\ captured = 0 /\ Inferring = {} /\ Inferred = 0 /\ Sending = {}
        /\ Len(uploaded) = 0 /\ queueA.shutdown = FALSE
    BY DEF Init, Inferring, Inferred, Sending, A!NewQueue, Untracked
  <2> QED
    BY <2>1, <2>2 DEF Line!Init
<1>2. Init => IInv /\ Waits
  BY InitIInv, InitWaits
<1>3. IInv /\ Waits /\ [Next]_vars => (IInv /\ Waits)'
  BY NextIInv, NextOwned, NextAwake DEF Waits
<1>4. IInv /\ Waits => InTurn
  BY InTurnFromIInv DEF Waits
<1>5. IInv /\ InTurn /\ InTurn' /\ [Next]_vars => [Line!Next]_(Line!vars)
  BY StepOnLine
<1> QED
  BY <1>1, <1>2, <1>3, <1>4, <1>5, PTL DEF Spec, ImplementsLine, Line!Spec
=============================================================================
