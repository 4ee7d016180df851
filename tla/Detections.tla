------------------------------ MODULE Detections ------------------------------
(***************************************************************************)
(* From the output of a model to the detections that are sent: the parsers *)
(* of device/src/inference.cpp and nms_filter() of                         *)
(* device/src/postprocess.cpp; python_device/main.py computes the same.    *)
(*                                                                         *)
(* Coordinates are doubled integers, scores and thresholds are per cent.   *)
(* A detection also carries the number of the anchor it was made from,     *)
(* which the code does not keep.                                           *)
(***************************************************************************)
EXTENDS Integers, Sequences, FiniteSetsExt

CONSTANTS
  ConfThreshold,     \* conf_threshold
  IouThreshold       \* iou_threshold

ASSUME ThresholdAssumption == ConfThreshold \in Int

\* YOLOv8 has one output, with a box in centre form and a score per class for each
\* anchor.  An SSD has four: boxes in corner form, classes, scores, and how many of
\* them count.
Detection(box, class, score, a) ==
  [x_min |-> box.x_min, y_min |-> box.y_min, x_max |-> box.x_max, y_max |-> box.y_max,
   class_id |-> class, confidence |-> score, anchor |-> a]

Corners(box) ==
  [x_min |-> 2 * box.cx - box.w, y_min |-> 2 * box.cy - box.h,
   x_max |-> 2 * box.cx + box.w, y_max |-> 2 * box.cy + box.h]

\* The first of the classes with the highest score; class 0 if no score is above 0.
BestScore(scores) == Max({0} \cup Range(scores))
BestClass(scores) ==
  IF BestScore(scores) = 0 THEN 0
  ELSE Min({c \in DOMAIN scores : scores[c] = BestScore(scores)}) - 1

\* for each element, in order: push_back it where keep says so.
Where(s, keep) ==
  LET results[n \in 0 .. Len(s)] ==
        IF n = 0 THEN <<>>
        ELSE IF keep[n] THEN Append(results[n - 1], s[n])
        ELSE results[n - 1]
  IN  results[Len(s)]

Confident(detections) ==
  Where(detections, [i \in DOMAIN detections |-> detections[i].confidence >= ConfThreshold])

ParseYolov8Output(anchors) ==
  Confident([a \in DOMAIN anchors |->
    Detection(Corners(anchors[a].box), BestClass(anchors[a].scores),
              BestScore(anchors[a].scores), a)])

ParseSsdOutput(rows, count) ==
  Confident([i \in 1 .. count |-> Detection(rows[i].box, rows[i].class, rows[i].score, i)])

\* Inference::run(): the parser of the kind of model that was loaded.
Run(output) ==
  IF output.kind = "yolo" THEN ParseYolov8Output(output.anchors)
                          ELSE ParseSsdOutput(output.rows, output.count)

-----------------------------------------------------------------------------
Length(low, high) == Max({0, high - low})

\* compute_iou(a, b) > iou_threshold
Overlap(a, b) ==
  LET inter == Length(Max({a.x_min, b.x_min}), Min({a.x_max, b.x_max}))
             * Length(Max({a.y_min, b.y_min}), Min({a.y_max, b.y_max}))
      Area(d) == (d.x_max - d.x_min) * (d.y_max - d.y_min)
      union == Area(a) + Area(b) - inter
  IN  union > 0 /\ 100 * inter > IouThreshold * union

\* std::sort() leaves the order of equals open: any order by falling confidence.
SortedOrders(detections) ==
  {[i \in DOMAIN detections |-> detections[p[i]]] :
     p \in {q \in Bijection(DOMAIN detections, DOMAIN detections) :
              \A i, j \in DOMAIN detections :
                i < j => detections[q[i]].confidence >= detections[q[j]].confidence}}

\* The two loops: the earlier ones that are kept suppress what they overlap.
Suppressed(sorted) ==
  LET suppressed[j \in DOMAIN sorted] ==
        \E i \in 1 .. j - 1 : ~suppressed[i] /\ Overlap(sorted[i], sorted[j])
  IN  suppressed

Unsuppressed(sorted) ==
  Where(sorted, [j \in DOMAIN sorted |-> ~Suppressed(sorted)[j]])

\* Mutated form: the sort is left out.
NmsUnsorted(detections) == {Unsuppressed(Confident(detections))}

\* The results nms_filter() may return.
NmsFilter(detections) == {Unsuppressed(s) : s \in SortedOrders(Confident(detections))}

-----------------------------------------------------------------------------
\* What non-maximum suppression is meant to do, whatever the order of its loops:
\* the result is sorted, its members do not overlap, and what is missing overlaps a
\* member that is at least as confident.
IsSuppressionOf(result, candidates) ==
  /\ Range(result) \subseteq candidates
  /\ \A i, j \in DOMAIN result : i < j =>
       /\ result[i].confidence >= result[j].confidence
       /\ ~Overlap(result[i], result[j])
  /\ \A d \in candidates \ Range(result) :
       \E r \in Range(result) : r.confidence >= d.confidence /\ Overlap(r, d)
=============================================================================
