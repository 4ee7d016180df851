------------------------------ MODULE PipelineL3 ------------------------------
(***************************************************************************)
(* Level 3, device/src/pipeline_l3.cpp: the threads and the rings of level *)
(* 4, but recv_loop resizes into a vector of its own and copies that into  *)
(* the slot.  Every other step is that of level 4, taken by this file's    *)
(* code.  PipelineProofs has the proof that level 3 implements level 4: the *)
(* vector adds a step that no other thread can see, and what is copied is  *)
(* always the frame in hand.                                               *)
(***************************************************************************)
EXTENDS Pipeline

VARIABLE resized     \* recv_loop's vector: a frame, None before and after

varsL3 == <<vars, resized>>

InitL3 == Init /\ resized = None

-----------------------------------------------------------------------------
\* auto resized = preprocess::resize(frame, ...)
RecvResize ==
  /\ recv = "input" /\ resized = None
  /\ resized' = captured
  /\ UNCHANGED vars

\* memcpy(slot->input_data, resized.data(), ...)
RecvCopyInput ==
  /\ recv = "input" /\ resized # None
  /\ slotsA' = [slotsA EXCEPT ![wA].input = resized]
  /\ recv' = "orig"
  /\ UNCHANGED <<ringA, captured, frameNum, wA, resized>> /\ OthersOfRecv

\* commit_write_slot(); the vector is freed with the iteration.
RecvCommitL3 == RecvCommit /\ resized' = None

RecvLoop ==
  \/ RecvResize \/ RecvCopyInput \/ RecvCommitL3
  \/ /\ \/ RecvTop \/ RecvCapture \/ RecvSourceEnds \/ RecvWake \/ RecvTake
        \/ RecvRefused \/ RecvShutdown
        \/ recv # "input" /\ RecvWrite
     /\ UNCHANGED resized

InferLoop == InferStep /\ UNCHANGED resized

UploadLoop == UploadStep /\ UNCHANGED resized

RequestShutdown == (\E s \in Signals : HandlerStep(s)) /\ UNCHANGED resized

InterruptedL3 == Interrupted /\ UNCHANGED resized

JoinedL3 == Joined /\ UNCHANGED resized

NextL3 ==
  RecvLoop \/ InferLoop \/ UploadLoop \/ RequestShutdown \/ InterruptedL3 \/ JoinedL3

SpecL3 == InitL3 /\ [][NextL3]_varsL3

-----------------------------------------------------------------------------
\* The vector holds the frame recv_loop has captured last, from the resize to
\* the commit, and nothing otherwise.
ResizedInHand ==
  /\ recv \in {"orig", "commit"} => resized = captured
  /\ recv = "input" => resized \in {None, captured}
  /\ recv \notin {"input", "orig", "commit"} => resized = None
=============================================================================
