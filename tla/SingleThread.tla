----------------------------- MODULE SingleThread -----------------------------
(***************************************************************************)
(* The agents with a single thread: level 0 of the pipeline                *)
(* (device/src/pipeline_l0.cpp, with main.cpp around it) and the Python    *)
(* baseline (python_device/main.py), each with its two frame sources.      *)
(*                                                                         *)
(* Both run capture, inference, NMS and send one after the other.  They    *)
(* differ in what an unreadable file does, in how they are interrupted and *)
(* in whether the call to the server has a deadline.                       *)
(***************************************************************************)
EXTENDS Detections

CONSTANTS
  Folders,      \* what FILE sources may find: sequences of "is this image readable"
  Outputs       \* what the model may put out for a frame

ASSUME FoldersAssumption == Folders \subseteq Seq(BOOLEAN)

\* A score of YOLOv8 is a sigmoid, "already in [0,1]" (inference.cpp:120), and there is
\* at least one class.  What counts of an SSD's rows is there.
YoloOutput ==
  [kind : {"yolo"},
   anchors : Seq([box : [cx : Int, cy : Int, w : Int, h : Int],
                  scores : Seq(Nat) \ {<<>>}])]

SsdOutput ==
  [kind : {"ssd"},
   rows : Seq([box : [x_min : Int, y_min : Int, x_max : Int, y_max : Int],
               class : Nat, score : Int]),
   count : Nat]

ASSUME OutputsAssumption ==
  \A o \in Outputs : o \in YoloOutput \/ (o \in SsdOutput /\ o.count <= Len(o.rows))

VARIABLES
  agent,        \* "l0" or "python"
  model,        \* model_type_, found by load_model(): "yolo" or "ssd"
  source,       \* the camera, or a FILE source and its folder
  pc,           \* where the agent is
  impl,         \* level 0: Pipeline::impl_ exists
  flag,         \* level 0: shutdown_requested
  idx,          \* the FILE source's next file, modulo their number
  output,       \* the model's output for the frame in hand
  raw,          \* raw_dets
  filtered      \* filtered, dets

config == <<agent, model, source>>
data == <<output, raw, filtered>>
vars == <<config, pc, impl, flag, idx, data>>

NoOutput == [kind |-> "none"]

Camera == [kind |-> "camera"]
Sources == {Camera} \cup [kind : {"file"}, files : Folders]

Files == source.kind = "file"

Init ==
  /\ agent \in {"l0", "python"}
  /\ model \in {"yolo", "ssd"}
  /\ source \in Sources
  /\ pc = "open" /\ impl = FALSE /\ flag = FALSE /\ idx = 0
  /\ output = NoOutput /\ raw = <<>> /\ filtered = <<>>

Goto(from, to) == pc = from /\ pc' = to

Exit(from) == Goto(from, "exited")

-----------------------------------------------------------------------------
(* Mutated forms of the actions below, see PROJECT.json.                    *)

\* files_[idx_] without the modulo; while (true).
NextIndexNoWrap == idx' = idx + 1

NeverAsked == pc = "top" /\ agent = "l0" /\ pc' = "capture"

-----------------------------------------------------------------------------
(* The frame sources. *)

\* open(): a camera that is not there, a folder without images.
OpenFails ==
  /\ Exit("open")
  /\ Files => source.files = <<>>
  /\ UNCHANGED <<config, impl, flag, idx, data>>

\* load_model() fails, or raises.
LoadFails == Exit("open") /\ UNCHANGED <<config, impl, flag, idx, data>>

\* level 0 goes on to start(), whose loop is inside new Impl() .. return 0.
Open ==
  /\ Files => source.files # <<>>
  /\ Goto("open", IF agent = "l0" THEN "start" ELSE "capture")
  /\ UNCHANGED <<config, impl, flag, idx, data>>

Readable == source.files[idx + 1]

NextIndex == idx' = (idx + 1) % Len(source.files)

\* FileFrameSource::next_frame(): an unreadable file is the end of the source, and
\* idx_ stays on it.
FileFrame == Readable /\ NextIndex
FileEnds == agent = "l0" /\ ~Readable /\ UNCHANGED idx

CameraFrame == UNCHANGED idx
CameraEnds == UNCHANGED idx

\* file_frame_source() goes on to the next file, for as long as it takes.
PySkips ==
  /\ agent = "python" /\ Goto("capture", "capture")
  /\ Files /\ ~Readable
  /\ NextIndex
  /\ UNCHANGED <<config, impl, flag, data>>

Capture ==
  /\ Goto("capture", "infer")
  /\ IF Files THEN FileFrame ELSE CameraFrame
  /\ UNCHANGED <<config, impl, flag, data>>

SourceEnds ==
  /\ Goto("capture", IF agent = "l0" THEN "stop" ELSE "exited")
  /\ IF Files THEN FileEnds ELSE CameraEnds
  /\ UNCHANGED <<config, impl, flag, data>>

-----------------------------------------------------------------------------
(* Level 0 around its loop: start() and stop(). *)

Start ==
  /\ Goto("start", "top") /\ agent = "l0"
  /\ impl' = TRUE
  /\ UNCHANGED <<config, flag, idx, data>>

\* while (!impl_->shutdown_requested)
AsksFlag ==
  pc = "top" /\ agent = "l0" /\ pc' = IF flag THEN "stop" ELSE "capture"

Top == AsksFlag /\ UNCHANGED <<config, impl, flag, idx, data>>

\* delete impl_; impl_ = nullptr; main() returns.
Stop ==
  /\ Exit("stop")
  /\ impl' = FALSE
  /\ UNCHANGED <<config, flag, idx, data>>

\* sig_handler: no effect unless impl_ exists.
RequestShutdown ==
  /\ agent = "l0" /\ impl
  /\ flag' = TRUE
  /\ UNCHANGED <<config, pc, impl, idx, data>>

\* An exception that nothing catches: KeyboardInterrupt, a failed invoke().
PyRaises ==
  /\ agent = "python" /\ pc # "exited" /\ pc' = "exited"
  /\ UNCHANGED <<config, impl, flag, idx, data>>

-----------------------------------------------------------------------------
(* The loop. *)

\* Inference::run(), or an Invoke() that fails: then there are no detections.
Infer ==
  /\ Goto("infer", "nms")
  /\ \/ \E o \in Outputs :
          /\ o.kind = model /\ output' = o
          /\ raw' = Run(o)
     \/ agent = "l0" /\ output' = NoOutput /\ raw' = <<>>
  /\ UNCHANGED <<config, impl, flag, idx, filtered>>

Nms ==
  /\ Goto("nms", "send")
  /\ filtered' \in NmsFilter(raw)
  /\ UNCHANGED <<config, impl, flag, idx, output, raw>>

\* Thumbnail and call; an error is printed, or ignored, and the loop goes on.
Send ==
  /\ Goto("send", IF agent = "l0" THEN "top" ELSE "capture")
  /\ output' = NoOutput /\ raw' = <<>> /\ filtered' = <<>>
  /\ UNCHANGED <<config, impl, flag, idx>>

L0Loop == agent = "l0" /\ (Top \/ Capture \/ Infer \/ Nms \/ Send)

\* Up to the call, and the call.
PyWorks == agent = "python" /\ (PySkips \/ Capture \/ Infer \/ Nms)
PySends == agent = "python" /\ Send

-----------------------------------------------------------------------------
Exited == pc = "exited" /\ UNCHANGED vars

Next ==
  \/ OpenFails \/ LoadFails \/ Open \/ Start \/ Stop
  \/ L0Loop \/ PyWorks \/ PySends \/ SourceEnds
  \/ RequestShutdown \/ PyRaises
  \/ Exited

Spec == Init /\ [][Next]_vars

\* The thread runs, and the calls of OpenCV and TensorFlow Lite return: a source
\* gives a frame or fails.  The call to the server returns at level 0, which gives
\* it a deadline of 5 s (grpc_client.cpp:51), and need not in Python, which gives
\* it none.
Fairness ==
  /\ WF_vars(Open \/ OpenFails) /\ WF_vars(Start) /\ WF_vars(Stop)
  /\ WF_vars(L0Loop \/ PyWorks \/ SourceEnds)

FairSpec == Spec /\ Fairness

-----------------------------------------------------------------------------
(* Properties. *)

PC == {"open", "start", "top", "capture", "infer", "nms", "send", "stop", "exited"}

TypeOK ==
  /\ agent \in {"l0", "python"} /\ model \in {"yolo", "ssd"} /\ source \in Sources
  /\ pc \in PC /\ impl \in BOOLEAN /\ flag \in BOOLEAN
  /\ idx \in IF Files /\ source.files # <<>> THEN 0 .. Len(source.files) - 1 ELSE {0}
  /\ output \in Outputs \cup {NoOutput}
  /\ agent = "python" => ~impl /\ ~flag

\* Class c of an anchor beats the others: the first of the best.
Wins(scores, c) ==
  \A k \in DOMAIN scores : scores[k] < scores[c] \/ (scores[k] = scores[c] /\ k >= c)

\* The boxes of the model's output that reach the confidence threshold, read off the
\* tensors and not from the parsers' result.
Candidates ==
  CASE output.kind = "yolo" ->
         LET row == output.anchors
         IN  UNION {{Detection(Corners(row[a].box), c - 1, row[a].scores[c], a) :
                       c \in {k \in DOMAIN row[a].scores :
                               Wins(row[a].scores, k) /\ row[a].scores[k] >= ConfThreshold}} :
                    a \in DOMAIN row}
    [] output.kind = "ssd" ->
         LET row == output.rows
         IN  {Detection(row[i].box, row[i].class, row[i].score, i) :
                i \in {j \in 1 .. output.count : row[j].score >= ConfThreshold}}
    [] OTHER -> {}

\* What is sent for a frame is a non-maximum suppression of what the model has put out
\* for that frame, however equal scores are sorted, chains of overlaps included: a
\* box that only overlaps a suppressed one is sent.
SentIsSuppression ==
  pc = "send" => IsSuppressionOf(filtered, Candidates)

\* A request that level 0 has taken ends its process, whatever its source and the
\* server do, although the flag is looked at once per frame only.
FlagExits == flag ~> pc = "exited"
=============================================================================
