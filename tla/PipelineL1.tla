------------------------------ MODULE PipelineL1 ------------------------------
(***************************************************************************)
(* Level 1 of the pipeline, device/src/pipeline_l1.cpp: three std::threads *)
(* over two unbounded queues, and one signal whose handler runs on top of  *)
(* one of the threads, which does nothing else meanwhile.                  *)
(***************************************************************************)
EXTENDS Integers, Sequences

CONSTANTS
  MaxFrames,    \* bound: frames followed by number
  Hosts         \* threads the signal may be delivered to, {} for no signal

Threads == {"main", "recv", "infer", "upload"}
Nobody == "nobody"

ASSUME MaxFramesAssumption == MaxFrames \in Nat
ASSUME HostsAssumption == Hosts \subseteq Threads

VARIABLES
  queueA, queueB,
  recv, captured, recvItem,    \* recv_loop; frames captured; the one in hand
  infer, inferItem,            \* infer_loop; the frame in hand
  upload, uploadItem,          \* upload_loop; the frame in hand
  uploaded,                    \* frames sent, in order
  host,                        \* the thread under sig_handler
  handler                      \* how far sig_handler is, 0 .. 7

recvVars == <<recv, captured, recvItem>>
inferVars == <<infer, inferItem>>
uploadVars == <<upload, uploadItem, uploaded>>
sigVars == <<host, handler>>
vars == <<queueA, queueB, recvVars, inferVars, uploadVars, sigVars>>

A == INSTANCE CondQueue WITH q <- queueA
B == INSTANCE CondQueue WITH q <- queueB

Untracked == 0      \* a frame beyond the bound: captured, pushed, not followed

RecvPC == {"capture", "push", "append", "notify",
           "leaving", "flag", "notifyAll", "done"}
InferPC == {"pop", "test", "asleep", "run", "push", "append", "notify",
            "leaving", "flag", "notifyAll", "done"}
UploadPC == {"pop", "test", "asleep", "send",
             "sizeAB", "ownsAB", "sizeBA", "ownsBA", "sizeA", "ownsA", "sizeB", "ownsB",
             "done"}

Init ==
  /\ queueA = A!NewQueue /\ queueB = B!NewQueue
  /\ recv = "capture" /\ captured = 0 /\ recvItem = Untracked
  /\ infer = "pop" /\ inferItem = Untracked
  /\ upload = "pop" /\ uploadItem = Untracked /\ uploaded = <<>>
  /\ host = Nobody /\ handler = 0

\* sig_handler runs on top of thread t.
Suspended(t) == host = t /\ handler \in 1 .. 6

-----------------------------------------------------------------------------
(* recv_loop *)

OthersOfRecv == UNCHANGED <<queueB, inferVars, uploadVars, sigVars>>

\* while (true): the loop never looks at shutdown_.  Frames beyond the bound
\* keep the thread going but are not followed.
RecvCapture ==
  /\ recv = "capture"
  /\ captured' = IF captured < MaxFrames THEN captured + 1 ELSE captured
  /\ recvItem' = IF captured < MaxFrames THEN captured + 1 ELSE Untracked
  /\ recv' = "push"
  /\ UNCHANGED queueA /\ OthersOfRecv

RecvSourceEnds ==
  /\ recv = "capture" /\ ~Suspended("recv")
  /\ recv' = "leaving"
  /\ UNCHANGED <<queueA, captured, recvItem>> /\ OthersOfRecv

RecvAppend ==
  /\ recv = "append"
  /\ IF recvItem = Untracked THEN A!Unlock
                             ELSE A!AppendUnlock(recvItem)
  /\ recv' = "notify"
  /\ UNCHANGED <<captured, recvItem>> /\ OthersOfRecv

RecvNotify ==
  /\ recv = "notify"
  /\ A!Notify
  /\ recv' = "capture"
  /\ UNCHANGED <<captured, recvItem>> /\ OthersOfRecv

RecvLock ==
  /\ recv = "push"
  /\ A!Lock("recv")
  /\ recv' = "append"
  /\ UNCHANGED <<captured, recvItem>> /\ OthersOfRecv

\* queue_a.shutdown()
RecvShutdown ==
  /\ \/ recv = "leaving" /\ A!Lock("recv") /\ recv' = "flag"
     \/ recv = "flag" /\ A!FlagUnlock /\ recv' = "notifyAll"
     \/ recv = "notifyAll" /\ A!Notify /\ recv' = "done"
  /\ UNCHANGED <<captured, recvItem>> /\ OthersOfRecv

RecvStep ==
  /\ ~Suspended("recv")
  /\ RecvCapture \/ RecvLock \/ RecvAppend \/ RecvNotify \/ RecvShutdown

-----------------------------------------------------------------------------
(* infer_loop *)

OthersOfInfer == UNCHANGED <<recvVars, uploadVars, sigVars>>

\* queue_a.pop(item)
InferPop ==
  /\ \/ infer = "pop" /\ A!Lock("infer") /\ infer' = "test" /\ UNCHANGED inferItem
     \/ infer = "test" /\ A!WaitSleeps /\ infer' = "asleep" /\ UNCHANGED inferItem
     \/ infer = "asleep" /\ A!Relock("infer") /\ infer' = "test" /\ UNCHANGED inferItem
     \/ infer = "test" /\ A!PopFalse /\ infer' = "leaving" /\ UNCHANGED inferItem
     \/ /\ infer = "test" /\ A!PopFront /\ infer' = "run"
        /\ inferItem' = Head(queueA.items)
  /\ UNCHANGED queueB /\ OthersOfInfer

\* InferPush with an UploadItem whose frame_number is never set (mutated form, see
\* PROJECT.json).
InferPushNoNumber ==
  /\ \/ infer = "run" /\ UNCHANGED queueB /\ infer' = "push"
     \/ infer = "push" /\ B!Lock("infer") /\ infer' = "append"
     \/ infer = "append" /\ B!AppendUnlock(Untracked) /\ infer' = "notify"
     \/ infer = "notify" /\ B!Notify /\ infer' = "pop"
  /\ UNCHANGED <<queueA, inferItem>> /\ OthersOfInfer

\* Inference and NMS, then queue_b.push(up).
InferPush ==
  /\ \/ infer = "run" /\ UNCHANGED queueB /\ infer' = "push"
     \/ infer = "push" /\ B!Lock("infer") /\ infer' = "append"
     \/ infer = "append" /\ B!AppendUnlock(inferItem) /\ infer' = "notify"
     \/ infer = "notify" /\ B!Notify /\ infer' = "pop"
  /\ UNCHANGED <<queueA, inferItem>> /\ OthersOfInfer

\* queue_b.shutdown()
InferShutdown ==
  /\ \/ infer = "leaving" /\ B!Lock("infer") /\ infer' = "flag"
     \/ infer = "flag" /\ B!FlagUnlock /\ infer' = "notifyAll"
     \/ infer = "notifyAll" /\ B!Notify /\ infer' = "done"
  /\ UNCHANGED <<queueA, inferItem>> /\ OthersOfInfer

InferStep ==
  /\ ~Suspended("infer")
  /\ InferPop \/ InferPush \/ InferShutdown

-----------------------------------------------------------------------------
(* upload_loop *)

OthersOfUpload == UNCHANGED <<queueA, recvVars, inferVars, sigVars>>

UploadPop ==
  /\ \/ upload = "pop" /\ B!Lock("upload") /\ upload' = "test" /\ UNCHANGED uploadItem
     \/ upload = "test" /\ B!WaitSleeps /\ upload' = "asleep" /\ UNCHANGED uploadItem
     \/ upload = "asleep" /\ B!Relock("upload") /\ upload' = "test" /\ UNCHANGED uploadItem
     \/ upload = "test" /\ B!PopFalse /\ upload' = "done" /\ UNCHANGED uploadItem
     \/ /\ upload = "test" /\ B!PopFront /\ upload' = "send"
        /\ uploadItem' = Head(queueB.items)
  /\ UNCHANGED uploaded /\ OthersOfUpload

UploadSend ==
  /\ upload = "send"
  /\ uploaded' = Append(uploaded, uploadItem)
  /\ upload' \in {"sizeAB", "sizeBA"}
  /\ UNCHANGED <<queueB, uploadItem>> /\ OthersOfUpload

\* The progress line asks queue_a.size() and queue_b.size(), each under its mutex, in
\* an order that C++ leaves open.
UploadSizes ==
  /\ \/ upload = "sizeAB" /\ A!Lock("upload") /\ upload' = "ownsAB" /\ UNCHANGED queueB
     \/ upload = "ownsAB" /\ A!Unlock /\ upload' = "sizeB" /\ UNCHANGED queueB
     \/ upload = "sizeB" /\ B!Lock("upload") /\ upload' = "ownsB" /\ UNCHANGED queueA
     \/ upload = "ownsB" /\ B!Unlock /\ upload' = "pop" /\ UNCHANGED queueA
     \/ upload = "sizeBA" /\ B!Lock("upload") /\ upload' = "ownsBA" /\ UNCHANGED queueA
     \/ upload = "ownsBA" /\ B!Unlock /\ upload' = "sizeA" /\ UNCHANGED queueA
     \/ upload = "sizeA" /\ A!Lock("upload") /\ upload' = "ownsA" /\ UNCHANGED queueB
     \/ upload = "ownsA" /\ A!Unlock /\ upload' = "pop" /\ UNCHANGED queueB
  /\ UNCHANGED <<uploadItem, uploaded, recvVars, inferVars, sigVars>>

UploadStep ==
  /\ ~Suspended("upload")
  /\ UploadPop \/ UploadSend \/ UploadSizes

-----------------------------------------------------------------------------
\* cv_.wait() may return without a notification.
SpuriousWakeup ==
  /\ \/ A!Spurious /\ UNCHANGED queueB
     \/ B!Spurious /\ UNCHANGED queueA
  /\ UNCHANGED <<recvVars, inferVars, uploadVars, sigVars>>

\* The threads stop() joins one after the other; a signal on one that has
\* returned is delivered elsewhere.
Alive(t) ==
  CASE t = "main" -> TRUE
    [] t = "recv" -> recv # "done"
    [] t = "infer" -> infer # "done"
    [] t = "upload" -> upload # "done"

SignalArrives(t) ==
  /\ handler = 0 /\ Alive(t)
  /\ host' = t /\ handler' = 1
  /\ UNCHANGED <<queueA, queueB, recvVars, inferVars, uploadVars>>

\* request_shutdown(): queue_a.shutdown(); queue_b.shutdown();
HandlerStep ==
  /\ \/ handler = 1 /\ A!Lock(host) /\ UNCHANGED queueB
     \/ handler = 2 /\ A!FlagUnlock /\ UNCHANGED queueB
     \/ handler = 3 /\ A!Notify /\ UNCHANGED queueB
     \/ handler = 4 /\ B!Lock(host) /\ UNCHANGED queueA
     \/ handler = 5 /\ B!FlagUnlock /\ UNCHANGED queueA
     \/ handler = 6 /\ B!Notify /\ UNCHANGED queueA
  /\ handler' = handler + 1
  /\ UNCHANGED <<recvVars, inferVars, uploadVars, host>>

-----------------------------------------------------------------------------
AllDone == recv = "done" /\ infer = "done" /\ upload = "done"

Joined == AllDone /\ UNCHANGED vars

Next ==
  \/ RecvStep \/ RecvSourceEnds
  \/ InferStep
  \/ UploadStep
  \/ SpuriousWakeup
  \/ \E t \in Hosts : SignalArrives(t)
  \/ HandlerStep
  \/ Joined

Spec == Init /\ [][Next]_vars

\* Threads are scheduled and their calls return; a mutex does not pass a waiting
\* thread over for ever (SF).  The source never has to end (FileFrameSource
\* repeats its directory for ever); no spurious wake-up is relied on.
Fairness ==
  /\ SF_vars(RecvStep)
  /\ SF_vars(InferStep)
  /\ SF_vars(UploadStep)
  /\ SF_vars(HandlerStep)

FairSpec == Spec /\ Fairness

-----------------------------------------------------------------------------
(* Properties. *)

Frames == 1 .. MaxFrames

TypeOK ==
  /\ queueA \in A!QueueType(Frames, Threads)
  /\ queueB \in B!QueueType(Frames, Threads)
  /\ recv \in RecvPC /\ infer \in InferPC /\ upload \in UploadPC
  /\ captured \in 0 .. MaxFrames /\ recvItem \in 0 .. MaxFrames
  /\ inferItem \in 0 .. MaxFrames /\ uploadItem \in 0 .. MaxFrames
  /\ uploaded \in Seq(Frames)
  /\ host \in Threads \cup {Nobody} /\ handler \in 0 .. 7

\* Frames are sent in the order of capture with no gap, with or without a
\* signal in the middle.
SentInOrder == \A i \in 1 .. Len(uploaded) : uploaded[i] = i

\* When all threads have returned and no signal came, every frame was sent: pop
\* answers false only on an empty queue.
EndDrains == AllDone /\ handler = 0 => Len(uploaded) = captured

\* The frame a thread works on, from the moment it has popped it, for the abstract line
\* of frames.
Signalled == handler > 0
Inferring == IF infer = "run" THEN {inferItem} ELSE {}
Inferred == IF infer = "run" THEN inferItem - 1 ELSE inferItem
Sending == IF upload = "send" THEN {uploadItem} ELSE {}

Line == INSTANCE FrameLine WITH
  InFlight <- MaxFrames, Drains <- TRUE,
  inferring <- Inferring, inferred <- Inferred,
  sending <- Sending, sent <- Len(uploaded),
  closed <- queueA.shutdown,
  interrupted <- Signalled,
  returned <- AllDone

\* The three threads, the two queues and the handlers are one line of frames.
ImplementsLine == Line!Spec

\* What each thread, and sig_handler, needs for its next step: a mutex that is free, a
\* wake-up.
RecvCanGo ==
  /\ ~Suspended("recv") /\ recv # "done"
  /\ recv \in {"push", "leaving"} => queueA.owner = A!Free

InferCanGo ==
  /\ ~Suspended("infer") /\ infer # "done"
  /\ infer = "asleep" => ~queueA.asleep
  /\ infer \in {"pop", "asleep"} => queueA.owner = A!Free
  /\ infer \in {"push", "leaving"} => queueB.owner = B!Free

UploadCanGo ==
  /\ ~Suspended("upload") /\ upload # "done"
  /\ upload = "asleep" => ~queueB.asleep
  /\ upload \in {"sizeAB", "sizeA"} => queueA.owner = A!Free
  /\ upload \in {"pop", "asleep", "sizeBA", "sizeB"} => queueB.owner = B!Free

HandlerCanGo ==
  /\ handler \in 1 .. 6
  /\ handler = 1 => queueA.owner = A!Free
  /\ handler = 4 => queueB.owner = B!Free

\* sig_handler waits for a mutex that the thread below it owns.
OwnMutex ==
  \/ handler = 1 /\ queueA.owner = host
  \/ handler = 4 /\ queueB.owner = host

\* As long as a thread has not returned, somebody can go on: no wake-up is lost, no two
\* threads wait for each other's mutex.  The one exception is a signal that arrives
\* while its thread is in push(), pop(), size() or shutdown().
OnlySignalBlocks ==
  AllDone \/ RecvCanGo \/ InferCanGo \/ UploadCanGo \/ HandlerCanGo \/ OwnMutex

\* Every frame captured is sent, unless a signal comes.
EverythingSent ==
  \A k \in Frames : (captured >= k) ~> (Len(uploaded) >= k \/ handler > 0)

\* The end of the source ends all threads, unless a signal comes.
EndJoins == (recv = "leaving") ~> (AllDone \/ handler > 0)

\* "Each level ran for ~60 seconds before stopping with Ctrl+C"
\* (benchmark_results/pipeline_levels_analysis.md:9): a signal ends the threads.
InterruptStops == (handler > 0) ~> AllDone
=============================================================================
