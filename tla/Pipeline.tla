------------------------------- MODULE Pipeline -------------------------------
(***************************************************************************)
(* The production pipeline of device/src/pipeline.cpp (level 4): the recv, *)
(* infer and upload threads, ring A between the first two, ring B between  *)
(* the last two, and the signal handler that calls request_shutdown().     *)
(* Module PipelineL3 has what differs in device/src/pipeline_l3.cpp.       *)
(*                                                                         *)
(* The threads run here from after start() to the joins of stop(); module  *)
(* Lifecycle has start(), stop() and main().                               *)
(*                                                                         *)
(* A frame is the number of the next_frame() call that returned it.  What  *)
(* a thread computes from a frame (model input, detections, thumbnail) is  *)
(* the number of that frame: the properties ask whose data it is.          *)
(***************************************************************************)
EXTENDS Integers

CONSTANTS
  Slots,        \* kRingSlots
  MaxFrames,    \* bound: frames the source can return
  Signals       \* SIGINT / SIGTERM deliveries, each runs sig_handler once

ASSUME SlotsAssumption == Slots \in Nat \ {0}
ASSUME MaxFramesAssumption == MaxFrames \in Nat

VARIABLES
  ringA, slotsA,   \* recv -> infer: the ring, its InferSlots
  ringB, slotsB,   \* infer -> upload: the ring, its UploadSlots
  recv,            \* where recv_loop is
  captured,        \* frames next_frame() has returned
  frameNum,        \* recv_loop's frame_num
  wA,              \* recv_loop's slot
  infer,           \* where infer_loop is
  rA, wB,          \* infer_loop's in_slot and out_slot
  dets,            \* infer_loop's filtered: the frame it was computed from
  upload,          \* where upload_loop is
  rB,              \* upload_loop's slot
  uploaded,        \* upload_loop's uploaded
  handler          \* how far each sig_handler is, 0 .. 6

recvVars == <<recv, captured, frameNum, wA>>
inferVars == <<infer, rA, wB, dets>>
uploadVars == <<upload, rB, uploaded>>
vars == <<ringA, slotsA, ringB, slotsB, recvVars, inferVars, uploadVars, handler>>

A == INSTANCE RingBuffer WITH N <- Slots, ring <- ringA
B == INSTANCE RingBuffer WITH N <- Slots, ring <- ringB

None == 0         \* content of a slot field nobody has written

RecvPC == {"top", "capture", "waiting", "woken", "number", "input", "orig", "commit",
           "eof", "eofFlagged", "eofWoke",
           "leaving", "flagged", "wokeProducer", "done"}
InferPC == {"waiting", "woken", "run", "waitingB", "wokenB", "copy",
            "release", "commit", "giveUp",
            "leaving", "flagged", "wokeProducer", "done"}
UploadPC == {"waiting", "woken", "send", "release", "done"}

InferSlot == [frame_number : Nat, input : Nat, orig : Nat]
UploadSlot == [frame_number : Nat, dets : Nat, orig : Nat]

Init ==
  /\ ringA = A!NewRing /\ ringB = B!NewRing
  /\ slotsA = [i \in A!SlotIdx |-> [frame_number |-> None, input |-> None, orig |-> None]]
  /\ slotsB = [i \in B!SlotIdx |-> [frame_number |-> None, dets |-> None, orig |-> None]]
  /\ recv = "top" /\ captured = 0 /\ frameNum = 0 /\ wA = 0
  /\ infer = "waiting" /\ rA = 0 /\ wB = 0 /\ dets = None
  /\ upload = "waiting" /\ rB = 0 /\ uploaded = 0
  /\ handler = [s \in Signals |-> 0]

-----------------------------------------------------------------------------
(* Mutated forms of the actions below, see PROJECT.json.                    *)

\* A slot taken whether or not one is free.
RecvDoesNotWait ==
  /\ recv = "waiting"
  /\ recv' = "woken"
  /\ UNCHANGED <<ringA, slotsA, captured, frameNum, wA,
                 ringB, slotsB, inferVars, uploadVars, handler>>

\* The slot of ring A given back once inference has read the model input.
InferRunReleases ==
  /\ infer = "run"
  /\ dets' = slotsA[rA].input
  /\ infer' = "waitingB"
  /\ A!CommitRead
  /\ UNCHANGED <<ringB, slotsA, slotsB, rA, wB, recvVars, uploadVars, handler>>

\* The slot of ring B never given back.
UploadKeeps ==
  /\ upload = "release"
  /\ upload' = "waiting"
  /\ UNCHANGED <<ringB, rB, uploaded, ringA, slotsA, slotsB, recvVars, inferVars, handler>>

-----------------------------------------------------------------------------
(* recv_loop *)

\* Steps that leave every ring slot and the other threads alone.
OthersOfRecv == UNCHANGED <<ringB, slotsB, inferVars, uploadVars, handler>>

\* while (!ring_a.is_shutdown())
RecvTop ==
  /\ recv = "top"
  /\ recv' = IF ringA.shutdown THEN "leaving" ELSE "capture"
  /\ UNCHANGED <<ringA, slotsA, captured, frameNum, wA>> /\ OthersOfRecv

RecvCapture ==
  /\ recv = "capture"
  /\ captured < MaxFrames
  /\ captured' = captured + 1
  /\ recv' = "waiting"
  /\ UNCHANGED <<ringA, slotsA, frameNum, wA>> /\ OthersOfRecv

\* next_frame() fails: ring_a.shutdown(), then the loop's own at its end.
RecvSourceEnds ==
  /\ recv = "capture"
  /\ recv' = "eof"
  /\ UNCHANGED <<ringA, slotsA, captured, frameNum, wA>> /\ OthersOfRecv

RecvWake ==
  /\ recv = "waiting"
  /\ A!SemWaitEmpty
  /\ recv' = "woken"
  /\ UNCHANGED <<slotsA, captured, frameNum, wA>> /\ OthersOfRecv

\* A slot: frame_num++, and its number goes into the slot.
RecvTake ==
  /\ recv = "woken"
  /\ A!TakeWriteSlot
  /\ wA' = ringA.writeIdx
  /\ frameNum' = frameNum + 1
  /\ recv' = "number"
  /\ UNCHANGED <<slotsA, captured>> /\ OthersOfRecv

RecvRefused ==
  /\ recv = "woken"
  /\ A!RefuseWrite
  /\ recv' = "leaving"
  /\ UNCHANGED <<slotsA, captured, frameNum, wA>> /\ OthersOfRecv

\* The three parts of a slot are written one after the other.
RecvWrite ==
  /\ \/ /\ recv = "number"
        /\ slotsA' = [slotsA EXCEPT ![wA].frame_number = frameNum]
        /\ recv' = "input"
     \/ /\ recv = "input"
        /\ slotsA' = [slotsA EXCEPT ![wA].input = captured]
        /\ recv' = "orig"
     \/ /\ recv = "orig"
        /\ slotsA' = [slotsA EXCEPT ![wA].orig = captured]
        /\ recv' = "commit"
  /\ UNCHANGED <<ringA, captured, frameNum, wA>> /\ OthersOfRecv

RecvCommit ==
  /\ recv = "commit"
  /\ A!CommitWrite
  /\ recv' = "top"
  /\ UNCHANGED <<slotsA, captured, frameNum, wA>> /\ OthersOfRecv

\* ring_a.shutdown(): once on a failed next_frame(), once on leaving the loop.
RecvShutdown ==
  /\ \/ recv = "eof" /\ A!SetShutdown /\ recv' = "eofFlagged"
     \/ recv = "eofFlagged" /\ A!WakeProducer /\ recv' = "eofWoke"
     \/ recv = "eofWoke" /\ A!WakeConsumer /\ recv' = "leaving"
     \/ recv = "leaving" /\ A!SetShutdown /\ recv' = "flagged"
     \/ recv = "flagged" /\ A!WakeProducer /\ recv' = "wokeProducer"
     \/ recv = "wokeProducer" /\ A!WakeConsumer /\ recv' = "done"
  /\ UNCHANGED <<slotsA, captured, frameNum, wA>> /\ OthersOfRecv

RecvStep ==
  \/ RecvTop \/ RecvWake \/ RecvTake \/ RecvRefused
  \/ RecvWrite \/ RecvCommit \/ RecvShutdown

-----------------------------------------------------------------------------
(* infer_loop *)

OthersOfInfer == UNCHANGED <<slotsA, recvVars, uploadVars, handler>>

InferWake ==
  /\ infer = "waiting"
  /\ A!SemWaitFill
  /\ infer' = "woken"
  /\ UNCHANGED <<ringB, slotsB, rA, wB, dets>> /\ OthersOfInfer

InferTake ==
  /\ infer = "woken"
  /\ A!TakeReadSlot
  /\ rA' = ringA.readIdx
  /\ infer' = "run"
  /\ UNCHANGED <<ringB, slotsB, wB, dets>> /\ OthersOfInfer

InferRefused ==
  /\ infer = "woken"
  /\ A!RefuseRead
  /\ infer' = "leaving"
  /\ UNCHANGED <<ringB, slotsB, rA, wB, dets>> /\ OthersOfInfer

\* inference->run() on input_data, then nms_filter().
InferRun ==
  /\ infer = "run"
  /\ dets' = slotsA[rA].input
  /\ infer' = "waitingB"
  /\ UNCHANGED <<ringA, ringB, slotsB, rA, wB>> /\ OthersOfInfer

InferWakeB ==
  /\ infer = "waitingB"
  /\ B!SemWaitEmpty
  /\ infer' = "wokenB"
  /\ UNCHANGED <<ringA, slotsB, rA, wB, dets>> /\ OthersOfInfer

InferTakeB ==
  /\ infer = "wokenB"
  /\ B!TakeWriteSlot
  /\ wB' = ringB.writeIdx
  /\ infer' = "copy"
  /\ UNCHANGED <<ringA, slotsB, rA, dets>> /\ OthersOfInfer

\* No slot of ring B: the slot of ring A is given back, the frame is dropped.
InferRefusedB ==
  /\ infer = "wokenB"
  /\ B!RefuseWrite
  /\ infer' = "giveUp"
  /\ UNCHANGED <<ringA, slotsB, rA, wB, dets>> /\ OthersOfInfer

InferGiveUp ==
  /\ infer = "giveUp"
  /\ A!CommitRead
  /\ infer' = "leaving"
  /\ UNCHANGED <<ringB, slotsB, rA, wB, dets>> /\ OthersOfInfer

\* frame_number and orig_data are read from the slot of ring A here, after the
\* wait for ring B.
InferCopy ==
  /\ infer = "copy"
  /\ slotsB' = [slotsB EXCEPT ![wB] =
       [frame_number |-> slotsA[rA].frame_number,
        dets |-> dets,
        orig |-> slotsA[rA].orig]]
  /\ infer' = "release"
  /\ UNCHANGED <<ringA, ringB, rA, wB, dets>> /\ OthersOfInfer

\* ring_a.commit_read_slot(); ring_b.commit_write_slot();
InferRelease ==
  /\ infer = "release"
  /\ A!CommitRead
  /\ infer' = "commit"
  /\ UNCHANGED <<ringB, slotsB, rA, wB, dets>> /\ OthersOfInfer

InferCommit ==
  /\ infer = "commit"
  /\ B!CommitWrite
  /\ infer' = "waiting"
  /\ UNCHANGED <<ringA, slotsB, rA, wB, dets>> /\ OthersOfInfer

InferShutdown ==
  /\ \/ infer = "leaving" /\ B!SetShutdown /\ infer' = "flagged"
     \/ infer = "flagged" /\ B!WakeProducer /\ infer' = "wokeProducer"
     \/ infer = "wokeProducer" /\ B!WakeConsumer /\ infer' = "done"
  /\ UNCHANGED <<ringA, slotsB, rA, wB, dets>> /\ OthersOfInfer

InferStep ==
  \/ InferWake \/ InferTake \/ InferRefused \/ InferRun
  \/ InferWakeB \/ InferTakeB \/ InferRefusedB \/ InferGiveUp
  \/ InferCopy \/ InferRelease \/ InferCommit \/ InferShutdown

-----------------------------------------------------------------------------
(* upload_loop *)

OthersOfUpload == UNCHANGED <<ringA, slotsA, slotsB, recvVars, inferVars, handler>>

UploadWake ==
  /\ upload = "waiting"
  /\ B!SemWaitFill
  /\ upload' = "woken"
  /\ UNCHANGED <<rB, uploaded>> /\ OthersOfUpload

UploadTake ==
  /\ upload = "woken"
  /\ B!TakeReadSlot
  /\ rB' = ringB.readIdx
  /\ upload' = "send"
  /\ UNCHANGED uploaded /\ OthersOfUpload

UploadRefused ==
  /\ upload = "woken"
  /\ B!RefuseRead
  /\ upload' = "done"
  /\ UNCHANGED <<rB, uploaded>> /\ OthersOfUpload

\* Thumbnail and send_detection(); whether the call succeeds makes no
\* difference to the loop, which ignores its result.
UploadSend ==
  /\ upload = "send"
  /\ uploaded' = uploaded + 1
  /\ upload' = "release"
  /\ UNCHANGED <<ringB, rB>> /\ OthersOfUpload

UploadRelease ==
  /\ upload = "release"
  /\ B!CommitRead
  /\ upload' = "waiting"
  /\ UNCHANGED <<rB, uploaded>> /\ OthersOfUpload

UploadStep ==
  UploadWake \/ UploadTake \/ UploadRefused \/ UploadSend \/ UploadRelease

-----------------------------------------------------------------------------
(* request_shutdown(), in sig_handler: ring_a.shutdown(); ring_b.shutdown(); *)
(* The handlers of two signals may be nested.                               *)

HandlerA(s) ==
  /\ \/ handler[s] = 0 /\ A!SetShutdown
     \/ handler[s] = 1 /\ A!WakeProducer
     \/ handler[s] = 2 /\ A!WakeConsumer
  /\ handler' = [handler EXCEPT ![s] = @ + 1]
  /\ UNCHANGED <<ringB, slotsA, slotsB, recvVars, inferVars, uploadVars>>

HandlerB(s) ==
  /\ \/ handler[s] = 3 /\ B!SetShutdown
     \/ handler[s] = 4 /\ B!WakeProducer
     \/ handler[s] = 5 /\ B!WakeConsumer
  /\ handler' = [handler EXCEPT ![s] = @ + 1]
  /\ UNCHANGED <<ringA, slotsA, slotsB, recvVars, inferVars, uploadVars>>

HandlerStep(s) == HandlerA(s) \/ HandlerB(s)

Signalled == \E s \in Signals : handler[s] > 0

\* A thread whose sem_wait a signal has interrupted (EINTR) leaves it if the flag
\* is set.  No thread may rely on it.
Interrupted ==
  /\ Signalled
  /\ \/ /\ recv = "waiting" /\ A!InterruptWrite /\ recv' = "leaving"
        /\ UNCHANGED <<ringB, infer, upload>>
     \/ /\ infer = "waiting" /\ A!InterruptRead /\ infer' = "leaving"
        /\ UNCHANGED <<ringB, recv, upload>>
     \/ /\ infer = "waitingB" /\ B!InterruptWrite /\ infer' = "giveUp"
        /\ UNCHANGED <<ringA, recv, upload>>
     \/ /\ upload = "waiting" /\ B!InterruptRead /\ upload' = "done"
        /\ UNCHANGED <<ringA, recv, infer>>
  /\ UNCHANGED <<slotsA, slotsB, captured, frameNum, wA, rA, wB, dets,
                 rB, uploaded, handler>>

-----------------------------------------------------------------------------
AllDone == recv = "done" /\ infer = "done" /\ upload = "done"

\* The joins of stop() return.  Any other state without a step is a deadlock.
Joined == AllDone /\ UNCHANGED vars

Next ==
  \/ RecvStep \/ RecvCapture \/ RecvSourceEnds
  \/ InferStep
  \/ UploadStep
  \/ \E s \in Signals : HandlerStep(s)
  \/ Interrupted
  \/ Joined

Spec == Init /\ [][Next]_vars

\* Threads are scheduled and the calls they make return: inference, and
\* send_detection because of its 5 s deadline (grpc_client.cpp:51).  A handler
\* that has begun goes on; no signal has to come.  next_frame() returns while
\* the source has frames; at the bound MaxFrames the source is silent, and has
\* to answer (that it has ended) only once the pipeline is shut down.  EINTR is
\* left to chance: a blocked thread must be woken by a post.
Fairness ==
  /\ WF_vars(RecvStep \/ RecvCapture \/ (RecvSourceEnds /\ ringA.shutdown))
  /\ WF_vars(InferStep)
  /\ WF_vars(UploadStep)
  /\ \A s \in Signals : WF_vars(handler[s] > 0 /\ HandlerStep(s))

FairSpec == Spec /\ Fairness

-----------------------------------------------------------------------------
(* Properties. *)

TypeOK ==
  /\ ringA \in A!RingType /\ ringB \in B!RingType
  /\ slotsA \in [A!SlotIdx -> InferSlot]
  /\ slotsB \in [B!SlotIdx -> UploadSlot]
  /\ recv \in RecvPC /\ infer \in InferPC /\ upload \in UploadPC
  /\ captured \in Nat /\ frameNum \in Nat /\ uploaded \in Nat
  /\ wA \in A!SlotIdx /\ rA \in A!SlotIdx
  /\ wB \in B!SlotIdx /\ rB \in B!SlotIdx
  /\ dets \in Nat
  /\ handler \in [Signals -> 0 .. 6]

RecvHolds == recv \in {"number", "input", "orig", "commit"}
InferHoldsA == infer \in {"run", "waitingB", "wokenB", "copy", "release", "giveUp"}
InferHoldsB == infer \in {"copy", "release", "commit"}
UploadHolds == upload \in {"send", "release"}

\* No slot is written by one thread while another uses it, in either ring and
\* through a shutdown: infer keeps its slot of A while it waits for one of B.
SlotsExclusive ==
  /\ RecvHolds /\ InferHoldsA => wA # rA
  /\ InferHoldsB /\ UploadHolds => wB # rB

\* What is sent is the next frame in the order of capture, with the detections,
\* the image and the number of one and the same frame: none skipped, repeated,
\* reordered or mixed across the two rings, and stable until the slot goes back.
CoherentUpload ==
  /\ upload = "send" => slotsB[rB] =
       [frame_number |-> uploaded + 1, dets |-> uploaded + 1, orig |-> uploaded + 1]
  /\ upload = "release" => slotsB[rB] =
       [frame_number |-> uploaded, dets |-> uploaded, orig |-> uploaded]

\* Back-pressure: a slow upload makes recv wait; no more frames are on their way
\* (hence none more can be lost at a shutdown) than the two rings have slots,
\* and the one recv has in hand.
InFlightBounded ==
  /\ frameNum - uploaded <= 2 * Slots
  /\ captured - uploaded <= 2 * Slots + 1

\* What the threads work on, for the abstract line of frames: inference reads the input
\* in its slot of ring A, a message is made of all that is in the slot of ring B.
Inferring == IF infer = "run" THEN {slotsA[rA].input} ELSE {}

Sending ==
  IF upload = "send"
  THEN {slotsB[rB].frame_number, slotsB[rB].dets, slotsB[rB].orig} ELSE {}

Line == INSTANCE FrameLine WITH
  InFlight <- 2 * Slots + 1, Drains <- FALSE,
  inferring <- Inferring, inferred <- dets,
  sending <- Sending, sent <- uploaded,
  closed <- ringA.shutdown,
  interrupted <- Signalled,
  returned <- AllDone

\* The three threads, the two rings and the handlers are one line of frames.
ImplementsLine == Line!Spec

\* The end of the source, or one signal, ends all three threads, wherever they
\* are: stop() returns.
ShutdownJoins == ringA.shutdown ~> AllDone

\* Frames do not get stuck: as long as the pipeline is not shut down, either the
\* uploads go on for ever or the rings run empty again and again.  Since uploads
\* are in order, every frame in a slot of ring A is uploaded.
Uploaded ==
  \/ []<><<uploaded' > uploaded>>_vars
  \/ []<>(uploaded = frameNum \/ ringA.shutdown)
=============================================================================
