---------------------------- MODULE MCSingleThread ----------------------------
EXTENDS SingleThread

\* Three boxes in a row: the middle one overlaps both others beyond 45 %, which do
\* not overlap each other beyond it.
Boxes == {[cx |-> x, cy |-> 2, w |-> 4, h |-> 4] : x \in {2, 3, 4}}

\* Below, at and above the threshold of 40; equal scores in different classes.
Scores == {<<30, 20>>, <<40, 10>>, <<60, 90>>, <<90, 60>>}

Anchors == [box : Boxes, scores : Scores]

YoloOutputs == [kind : {"yolo"}, anchors : [1 .. 3 -> Anchors]]

SsdRows == {[box |-> Corners(b), class |-> c, score |-> s] :
              b \in Boxes, c \in {0}, s \in {30, 60, 90}}

SsdOutputs == [kind : {"ssd"}, rows : [1 .. 3 -> SsdRows], count : {2}]

MCOutputs == YoloOutputs \cup SsdOutputs

MCFolders == {<<>>, <<TRUE, FALSE>>, <<FALSE, FALSE>>, <<TRUE, TRUE>>}
=============================================================================
