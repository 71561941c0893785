----------------------------- MODULE FaceBoxes -----------------------------
(* From the model's output tensors to the faces of a picture: detectFacesTFLite, *)
(* parseMediaPipeOutput, nonMaxSuppression and calculateIOU of FaceDetector      *)
(* (inference/face_detection.cpp), for one picture.                              *)
(*                                                                               *)
(* A raw detection is a score and the pixel corners the box tensor stands for,   *)
(* which may lie anywhere.  Scores are integers: only their order matters.       *)
(* Landmarks are left out.                                                       *)
EXTENDS Integers, Sequences

CONSTANTS Raw,            \* raw detections [x1, y1, x2, y2, score]
          MaxDetections,  \* bound: scores in the tensor
          Cols, Rows,     \* of the picture
          MinSize,        \* a box no wider or higher is dropped, 10
          MinConfidence,
          IouNum, IouDen  \* iou_threshold as a fraction, 2/5

ASSUME RawAssumption ==
  Raw \subseteq [x1 : Int, y1 : Int, x2 : Int, y2 : Int, score : Int]
ASSUME SizesAssumption ==
  /\ MaxDetections \in Nat /\ Cols \in Nat \ {0} /\ Rows \in Nat \ {0}
  /\ MinSize \in Nat /\ MinConfidence \in Int
  /\ IouNum \in Nat \ {0} /\ IouDen \in Nat \ {0}

VARIABLES
  scores,      \* the raw detections of the two output tensors
  complete,    \* how many of them the box tensor is long enough for
  i,           \* index of the loop that runs
  detections,
  suppressed,
  kept,
  pc
vars == <<scores, complete, i, detections, suppressed, kept, pc>>

Init == /\ scores = <<>> /\ complete = 0
        /\ i = 1
        /\ detections = <<>> /\ suppressed = <<>> /\ kept = <<>>
        /\ pc = "invoke"
-----------------------------------------------------------------------------
\* Mutant of Clamp: the lower border only.
ClampLow(v, size) == IF v < 0 THEN 0 ELSE v

Clamp(v, size) == IF v < 0 THEN 0 ELSE IF v > size - 1 THEN size - 1 ELSE v

BoxOf(r) ==
  LET x == Clamp(r.x1, Cols)
      y == Clamp(r.y1, Rows) IN
  [x |-> x, y |-> y, width |-> Clamp(r.x2, Cols) - x,
   height |-> Clamp(r.y2, Rows) - y, confidence |-> r.score]

LargeEnough(box) == box.width > MinSize /\ box.height > MinSize

MaxOf(a, b) == IF a < b THEN b ELSE a
MinOf(a, b) == IF a < b THEN a ELSE b

Common(a1, aLength, b1, bLength) ==
  MaxOf(0, MinOf(a1 + aLength, b1 + bLength) - MaxOf(a1, b1))

\* calculateIOU(a, b) > iou_threshold; at the threshold they do not overlap.
Overlap(a, b) ==
  LET inter == Common(a.x, a.width, b.x, b.width)
                 * Common(a.y, a.height, b.y, b.height)
      union == a.width * a.height + b.width * b.height - inter IN
  IouDen * inter > IouNum * union
-----------------------------------------------------------------------------
\* The engine fills the tensors; the box tensor may be short, or empty.
Invoke ==
  /\ pc = "invoke"
  /\ \E n \in 0..MaxDetections : scores' \in [1..n -> Raw]
  /\ complete' \in 0..Len(scores')
  /\ pc' = "parse"
  /\ UNCHANGED <<i, detections, suppressed, kept>>

\* No picture, no conversion, no engine, an input of the wrong size, a failing
\* call or an exception: no faces.
InvokeFails ==
  /\ pc = "invoke"
  /\ pc' = "done"
  /\ UNCHANGED <<scores, complete, i, detections, suppressed, kept>>

Confident == i <= Len(scores) /\ scores[i].score >= MinConfidence

\* continue: a low score, or a box that is too small inside the picture.
Skip ==
  /\ pc = "parse"
  /\ i <= Len(scores)
  /\ ~Confident \/ (i <= complete /\ ~LargeEnough(BoxOf(scores[i])))
  /\ i' = i + 1
  /\ UNCHANGED <<scores, complete, detections, suppressed, kept, pc>>

Detect ==
  /\ pc = "parse"
  /\ Confident
  /\ i <= complete
  /\ LargeEnough(BoxOf(scores[i]))
  /\ detections' = Append(detections, BoxOf(scores[i]))
  /\ i' = i + 1
  /\ UNCHANGED <<scores, complete, suppressed, kept, pc>>

\* break, at the first confident detection the box tensor does not reach, or the
\* end of the loop.
EndParse ==
  /\ pc = "parse"
  /\ i > Len(scores) \/ (Confident /\ i > complete)
  /\ pc' = "sort"
  /\ UNCHANGED <<scores, complete, i, detections, suppressed, kept>>

\* Mutant of Before: ascending.
After(a, b) == a.confidence <= b.confidence

Before(a, b) == a.confidence >= b.confidence

Permutation(n) ==
  {p \in [1..n -> 1..n] : \A m \in 1..n : \E k \in 1..n : p[k] = m}

\* std::sort is not stable: equal confidences end up in any order.
Sort ==
  /\ pc = "sort"
  /\ \E p \in Permutation(Len(detections)) :
       detections' = [k \in 1..Len(detections) |-> detections[p[k]]]
  /\ \A j, k \in 1..Len(detections) :
       j < k => Before(detections'[j], detections'[k])
  /\ suppressed' = [k \in 1..Len(detections) |-> FALSE]
  /\ i' = 1
  /\ pc' = "suppress"
  /\ UNCHANGED <<scores, complete, kept>>

\* Mutant of Suppresses: only the box that follows is looked at.
SuppressesNext(k) == k = i + 1 /\ Overlap(detections[i], detections[k])

\* The inner loop of nonMaxSuppression, for each k after i.
Suppresses(k) == k > i /\ Overlap(detections[i], detections[k])

Keep ==
  /\ pc = "suppress"
  /\ i <= Len(detections)
  /\ ~suppressed[i]
  /\ kept' = Append(kept, detections[i])
  /\ suppressed' = [k \in DOMAIN suppressed |-> suppressed[k] \/ Suppresses(k)]
  /\ i' = i + 1
  /\ UNCHANGED <<scores, complete, detections, pc>>

\* Mutant of PassOver: a suppressed box suppresses others, too.
PassOn == suppressed' = [k \in DOMAIN suppressed |-> suppressed[k] \/ Suppresses(k)]

PassOver == UNCHANGED suppressed

Drop ==
  /\ pc = "suppress"
  /\ i <= Len(detections)
  /\ suppressed[i]
  /\ PassOver
  /\ i' = i + 1
  /\ UNCHANGED <<scores, complete, detections, kept, pc>>

Finish ==
  /\ pc = "suppress"
  /\ i > Len(detections)
  /\ pc' = "done"
  /\ UNCHANGED <<scores, complete, i, detections, suppressed, kept>>

Next == Invoke \/ InvokeFails \/ Skip \/ Detect \/ EndParse \/ Sort \/ Keep
        \/ Drop \/ Finish

Spec == Init /\ [][Next]_vars
-----------------------------------------------------------------------------
\* Boxes inside the picture.
Box == {b \in [x : 0..(Cols - 1), y : 0..(Rows - 1), width : 1..(Cols - 1),
               height : 1..(Rows - 1), confidence : Int] :
          /\ b.x + b.width < Cols /\ b.y + b.height < Rows
          /\ LargeEnough(b)}

\* Types; wherever the model puts its corners, every box lies inside the picture
\* (face_detection.cpp:766-777).
TypeOK ==
  /\ scores \in Seq(Raw) /\ Len(scores) <= MaxDetections
  /\ complete \in 0..Len(scores)
  /\ i \in Nat \ {0}
  /\ detections \in Seq(Box)
  /\ kept \in Seq(Box)
  /\ suppressed \in Seq(BOOLEAN)
  /\ pc \in {"invoke", "parse", "sort", "suppress", "done"}

\* One face is reported once: no two boxes of the result overlap by more than the
\* threshold, in whatever order ties are sorted (face_detection.cpp:851-861).
KeptApart ==
  \A j, k \in DOMAIN kept : j < k => ~Overlap(kept[j], kept[k])

Accepted ==
  {k \in 1..complete : scores[k].score >= MinConfidence /\ LargeEnough(BoxOf(scores[k]))}

CoveredBy(s, box) ==
  \E k \in DOMAIN s :
    \/ s[k] = box
    \/ Overlap(s[k], box) /\ s[k].confidence >= box.confidence

\* No face is lost: every acceptable detection of the tensors is in the result,
\* or overlaps a box of the result that is at least as confident; a box that was
\* itself suppressed does not hide others (face_detection.cpp:752, 757, 851-860).
Covered ==
  pc = "done" =>
    \A a \in Accepted : CoveredBy(kept, BoxOf(scores[a]))

\* Faces come in the order of their confidence, the best one first
\* (face_detection.cpp:842-845).
BestFirst ==
  \A j, k \in DOMAIN kept : j < k => kept[j].confidence >= kept[k].confidence
-----------------------------------------------------------------------------
(* The inductive invariant *)

\* Before the sort nothing is kept; the loop has turned every acceptable detection
\* it has passed into a box.
Parsed ==
  /\ pc \in {"invoke", "parse", "sort"} => kept = <<>>
  /\ pc = "invoke" => scores = <<>> /\ complete = 0 /\ i = 1 /\ detections = <<>>
  /\ pc = "parse" => i <= Len(scores) + 1
  /\ pc \in {"parse", "sort", "suppress"} =>
       \A a \in Accepted :
         pc # "parse" \/ a < i =>
           \E k \in DOMAIN detections : detections[k] = BoxOf(scores[a])

\* Boxes the loop has passed or suppressed are covered; those to come are no more
\* confident than the ones kept, and suppressed if they overlap one.
Suppressing ==
  pc = "suppress" =>
    /\ i <= Len(detections) + 1
    /\ Len(suppressed) = Len(detections)
    /\ \A j, k \in DOMAIN detections :
         j < k => detections[j].confidence >= detections[k].confidence
    /\ \A k \in DOMAIN kept : \A j \in DOMAIN detections :
         j >= i =>
           /\ kept[k].confidence >= detections[j].confidence
           /\ Overlap(kept[k], detections[j]) => suppressed[j]
    /\ \A j \in DOMAIN detections :
         j < i \/ suppressed[j] => CoveredBy(kept, detections[j])

FacesInv ==
  TypeOK /\ Parsed /\ Suppressing /\ KeptApart /\ Covered /\ BestFirst
=============================================================================
