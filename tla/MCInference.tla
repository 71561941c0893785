---------------------------- MODULE MCInference ----------------------------
(* Instances of Inference for TLC.                                           *)
EXTENDS Inference

Corners(x1, y1, x2, y2) == [x1 |-> x1, y1 |-> y1, x2 |-> x2, y2 |-> y2]
Scored(c, s) ==
  [x1 |-> c.x1, y1 |-> c.y1, x2 |-> c.x2, y2 |-> c.y2, score |-> s]

\* Left reaches over the border and overlaps Middle; Middle overlaps Right; Left
\* and Right do not, and Left and Edge overlap by exactly the threshold.
Left   == Corners(-4, -3, 21, 30)
Edge   == Corners(9, 0, 30, 15)
Middle == Corners(8, 0, 29, 15)
Right  == Corners(16, 0, 37, 15)
\* Too narrow when clamped, and turned inside out.
Narrow == Corners(29, 0, 70, 15)
Turned == Corners(30, 0, 9, 15)

MCRaw == {Scored(c, s) : c \in {Left, Edge, Middle, Right}, s \in {1, 2}}
         \cup {Scored(Left, 0), Scored(Narrow, 2), Scored(Turned, 1)}

Image == <<1, 4, 8, 3>>
Face(outputs) ==
  [defect |-> "none", float |-> TRUE, shape |-> Image, outputs |-> outputs]
Faulty(defect) == [Face(<<16, 1>>) EXCEPT !.defect = defect]
Shaped(shape) == [Face(<<16, 1>>) EXCEPT !.shape = shape]

Broken == {Faulty(d) : d \in {"file", "interpreter", "allocation"}}

\* Models for faces: boxes for every score, for some, for more than there are, for
\* half a detection too many.
FaceModels == {Face(o) : o \in {<<64, 4>>, <<40, 4>>, <<64, 2>>, <<8, 1>>}}

\* Models for something else.
OtherModels ==
  {Shaped(s) : s \in {<<4, 8, 3>>, <<1, -1, -1, 3>>, <<1, 4, 8, 1>>, <<2, 4, 8, 3>>}}
  \cup {Face(o) : o \in {<<>>, <<64>>, <<64, 0>>, <<0, 4>>}}
  \cup {[Face(<<16, 1>>) EXCEPT !.float = FALSE]}

MCFile == Broken \cup FaceModels \cup OtherModels \cup {Face(<<16, 1>>)}

\* The file main was given, or what the three default paths hold.
MCCandidates ==
  [1..1 -> MCFile] \cup [1..3 -> Broken \cup {Face(<<16, 1>>), Shaped(<<4, 8, 3>>)}]
=============================================================================
