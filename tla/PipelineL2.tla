------------------------------ MODULE PipelineL2 ------------------------------
(***************************************************************************)
(* Level 2 of the pipeline, device/src/pipeline_l2.cpp: the same three     *)
(* threads over two PosixQueues.  Items are moved by value, so an item is  *)
(* the number of its frame.  Unlike the ring, pop() goes on delivering     *)
(* after shutdown() until the queue is empty.                              *)
(***************************************************************************)
EXTENDS Integers, Sequences

CONSTANTS
  Capacity,     \* kQueueCapacity = 8
  MaxFrames,    \* bound: frames the source can return
  Signals       \* deliveries of SIGINT / SIGTERM

ASSUME CapacityAssumption == Capacity \in Nat \ {0}
ASSUME MaxFramesAssumption == MaxFrames \in Nat

VARIABLES
  queueA, queueB,
  recv, captured,      \* recv_loop; frames captured (its frame_num)
  infer, inferItem,    \* infer_loop; the frame it has in hand
  upload, uploadItem,  \* upload_loop; the frame it has in hand
  uploaded,            \* frames sent, in order
  handler              \* how far each sig_handler is, 0 .. 6

recvVars == <<recv, captured>>
inferVars == <<infer, inferItem>>
uploadVars == <<upload, uploadItem, uploaded>>
vars == <<queueA, queueB, recvVars, inferVars, uploadVars, handler>>

A == INSTANCE PosixQueue WITH q <- queueA
B == INSTANCE PosixQueue WITH q <- queueB

Frames == 1 .. MaxFrames

RecvPC == {"capture", "waiting", "woken", "append", "post",
           "leaving", "flagged", "wokeProducer", "done"}
InferPC == {"waiting", "woken", "take", "postEmpty", "drain", "run",
            "waitingB", "wokenB", "append", "post",
            "leaving", "flagged", "wokeProducer", "done"}
UploadPC == {"waiting", "woken", "take", "postEmpty", "drain", "send", "done"}

Init ==
  /\ queueA = A!NewQueue /\ queueB = B!NewQueue
  /\ recv = "capture" /\ captured = 0
  /\ infer = "waiting" /\ inferItem = 0
  /\ upload = "waiting" /\ uploadItem = 0 /\ uploaded = <<>>
  /\ handler = [s \in Signals |-> 0]

-----------------------------------------------------------------------------
(* recv_loop *)

OthersOfRecv == UNCHANGED <<queueB, inferVars, uploadVars, handler>>

RecvCapture ==
  /\ recv = "capture"
  /\ captured < MaxFrames
  /\ captured' = captured + 1
  /\ recv' = "waiting"
  /\ UNCHANGED queueA /\ OthersOfRecv

RecvSourceEnds ==
  /\ recv = "capture"
  /\ recv' = "leaving"
  /\ UNCHANGED <<queueA, captured>> /\ OthersOfRecv

\* queue_a.push(item); false ends the loop.
RecvPush ==
  /\ \/ recv = "waiting" /\ A!SemWaitEmpty /\ recv' = "woken"
     \/ recv = "woken" /\ A!PushRefused /\ recv' = "leaving"
     \/ recv = "woken" /\ A!PushGranted /\ recv' = "append"
     \/ recv = "append" /\ A!Append1(captured) /\ recv' = "post"
     \/ recv = "post" /\ A!PostFill /\ recv' = "capture"
  /\ UNCHANGED captured /\ OthersOfRecv

\* queue_a.shutdown()
RecvShutdown ==
  /\ \/ recv = "leaving" /\ A!SetShutdown /\ recv' = "flagged"
     \/ recv = "flagged" /\ A!WakeProducer /\ recv' = "wokeProducer"
     \/ recv = "wokeProducer" /\ A!WakeConsumer /\ recv' = "done"
  /\ UNCHANGED captured /\ OthersOfRecv

-----------------------------------------------------------------------------
(* infer_loop *)

OthersOfInfer == UNCHANGED <<recvVars, uploadVars, handler>>

\* queue_a.pop(item) up to the point where the item is taken.
InferPop ==
  /\ \/ infer = "waiting" /\ A!SemWaitFill /\ infer' = "woken"
     \/ infer = "woken" /\ A!PopNormally /\ infer' = "take"
     \/ infer = "woken" /\ A!PopDraining /\ infer' = "drain"
     \/ infer = "drain" /\ A!DrainEnds /\ infer' = "leaving"
     \/ infer = "postEmpty" /\ A!PostEmpty /\ infer' = "run"
  /\ UNCHANGED <<queueB, inferItem>> /\ OthersOfInfer

\* The item is taken; a draining pop() does not post the empty slot.
InferTake ==
  /\ \/ infer = "take" /\ infer' = "postEmpty"
     \/ infer = "drain" /\ A!DrainSome /\ infer' = "run"
  /\ A!TakeFront
  /\ inferItem' = Head(queueA.items)
  /\ UNCHANGED queueB /\ OthersOfInfer

\* Inference and NMS, then queue_b.push(up).
InferPush ==
  /\ \/ infer = "run" /\ UNCHANGED queueB /\ infer' = "waitingB"
     \/ infer = "waitingB" /\ B!SemWaitEmpty /\ infer' = "wokenB"
     \/ infer = "wokenB" /\ B!PushRefused /\ infer' = "leaving"
     \/ infer = "wokenB" /\ B!PushGranted /\ infer' = "append"
     \/ infer = "append" /\ B!Append1(inferItem) /\ infer' = "post"
     \/ infer = "post" /\ B!PostFill /\ infer' = "waiting"
  /\ UNCHANGED <<queueA, inferItem>> /\ OthersOfInfer

\* queue_b.shutdown()
InferShutdown ==
  /\ \/ infer = "leaving" /\ B!SetShutdown /\ infer' = "flagged"
     \/ infer = "flagged" /\ B!WakeProducer /\ infer' = "wokeProducer"
     \/ infer = "wokeProducer" /\ B!WakeConsumer /\ infer' = "done"
  /\ UNCHANGED <<queueA, inferItem>> /\ OthersOfInfer

InferStep == InferPop \/ InferTake \/ InferPush \/ InferShutdown

-----------------------------------------------------------------------------
(* upload_loop *)

OthersOfUpload == UNCHANGED <<queueA, recvVars, inferVars, handler>>

UploadPop ==
  /\ \/ upload = "waiting" /\ B!SemWaitFill /\ upload' = "woken"
     \/ upload = "woken" /\ B!PopNormally /\ upload' = "take"
     \/ upload = "woken" /\ B!PopDraining /\ upload' = "drain"
     \/ upload = "drain" /\ B!DrainEnds /\ upload' = "done"
     \/ upload = "postEmpty" /\ B!PostEmpty /\ upload' = "send"
  /\ UNCHANGED <<uploadItem, uploaded>> /\ OthersOfUpload

UploadTake ==
  /\ \/ upload = "take" /\ upload' = "postEmpty"
     \/ upload = "drain" /\ B!DrainSome /\ upload' = "send"
  /\ B!TakeFront
  /\ uploadItem' = Head(queueB.items)
  /\ UNCHANGED uploaded /\ OthersOfUpload

\* send_detection(); its result is ignored.
UploadSend ==
  /\ upload = "send"
  /\ uploaded' = Append(uploaded, uploadItem)
  /\ upload' = "waiting"
  /\ UNCHANGED <<queueB, uploadItem>> /\ OthersOfUpload

UploadStep == UploadPop \/ UploadTake \/ UploadSend

-----------------------------------------------------------------------------
(* request_shutdown() in sig_handler *)

HandlerStep(s) ==
  /\ \/ handler[s] = 0 /\ A!SetShutdown /\ UNCHANGED queueB
     \/ handler[s] = 1 /\ A!WakeProducer /\ UNCHANGED queueB
     \/ handler[s] = 2 /\ A!WakeConsumer /\ UNCHANGED queueB
     \/ handler[s] = 3 /\ B!SetShutdown /\ UNCHANGED queueA
     \/ handler[s] = 4 /\ B!WakeProducer /\ UNCHANGED queueA
     \/ handler[s] = 5 /\ B!WakeConsumer /\ UNCHANGED queueA
  /\ handler' = [handler EXCEPT ![s] = @ + 1]
  /\ UNCHANGED <<recvVars, inferVars, uploadVars>>

Signalled == \E s \in Signals : handler[s] > 0

\* A thread whose sem_wait a signal has interrupted (EINTR) leaves it if the flag
\* is set, whatever is queued.  No thread may rely on it.
Interrupted ==
  /\ Signalled
  /\ \/ /\ recv = "waiting" /\ A!Interrupted /\ recv' = "leaving"
        /\ UNCHANGED <<queueB, infer, upload>>
     \/ /\ infer = "waiting" /\ A!Interrupted /\ infer' = "leaving"
        /\ UNCHANGED <<queueB, recv, upload>>
     \/ /\ infer = "waitingB" /\ B!Interrupted /\ infer' = "leaving"
        /\ UNCHANGED <<queueA, recv, upload>>
     \/ /\ upload = "waiting" /\ B!Interrupted /\ upload' = "done"
        /\ UNCHANGED <<queueA, recv, infer>>
  /\ UNCHANGED <<captured, inferItem, uploadItem, uploaded, handler>>

-----------------------------------------------------------------------------
AllDone == recv = "done" /\ infer = "done" /\ upload = "done"

Joined == AllDone /\ UNCHANGED vars

Next ==
  \/ RecvCapture \/ RecvSourceEnds \/ RecvPush \/ RecvShutdown
  \/ InferStep
  \/ UploadStep
  \/ \E s \in Signals : HandlerStep(s)
  \/ Interrupted
  \/ Joined

Spec == Init /\ [][Next]_vars

\* As in module Pipeline: threads are scheduled and their calls return, the
\* source has to answer at the bound once the pipeline is shut down, and EINTR is
\* left to chance.
Fairness ==
  /\ WF_vars(\/ RecvPush \/ RecvShutdown \/ RecvCapture
             \/ RecvSourceEnds /\ queueA.shutdown)
  /\ WF_vars(InferStep)
  /\ WF_vars(UploadStep)
  /\ \A s \in Signals : WF_vars(handler[s] > 0 /\ HandlerStep(s))

FairSpec == Spec /\ Fairness

-----------------------------------------------------------------------------
(* Properties. *)

TypeOK ==
  /\ queueA \in A!QueueType(Frames) /\ queueB \in B!QueueType(Frames)
  /\ recv \in RecvPC /\ infer \in InferPC /\ upload \in UploadPC
  /\ captured \in 0 .. MaxFrames
  /\ inferItem \in 0 .. MaxFrames /\ uploadItem \in 0 .. MaxFrames
  /\ uploaded \in Seq(Frames)
  /\ handler \in [Signals -> 0 .. 6]

\* front() is called on a queue that is not empty: outside a shutdown nothing
\* but the semaphore says so.
FrontExists ==
  /\ infer = "take" => queueA.items # <<>>
  /\ upload = "take" => queueB.items # <<>>

\* The queues stay within kQueueCapacity, also with the tokens of shutdown().
QueuesBounded ==
  Len(queueA.items) <= Capacity /\ Len(queueB.items) <= Capacity

\* Frames are sent in the order of capture with no gap, also when a shutdown
\* makes infer drop the one it has in hand.
SentInOrder == \A i \in 1 .. Len(uploaded) : uploaded[i] = i

\* When the source ends by itself, every frame captured is sent before the
\* threads are joined: pop() drains ("Drain remaining items", line 69).
EndDrains ==
  AllDone /\ ~Signalled => Len(uploaded) = captured

\* The frame a thread works on, from the moment it has popped it, for the abstract line
\* of frames.
Inferring == IF infer \in {"postEmpty", "run"} THEN {inferItem} ELSE {}
Inferred == IF infer \in {"postEmpty", "run"} THEN inferItem - 1 ELSE inferItem
Sending == IF upload \in {"postEmpty", "send"} THEN {uploadItem} ELSE {}

Line == INSTANCE FrameLine WITH
  InFlight <- 2 * Capacity + 3, Drains <- TRUE,
  inferring <- Inferring, inferred <- Inferred,
  sending <- Sending, sent <- Len(uploaded),
  closed <- queueA.shutdown,
  interrupted <- Signalled,
  returned <- AllDone

\* The three threads, the two queues and the handlers are one line of frames.
ImplementsLine == Line!Spec

\* The end of the source or a signal ends all three threads.
ShutdownJoins == queueA.shutdown ~> AllDone
=============================================================================
