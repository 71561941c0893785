-------------------------- MODULE InferenceProofs --------------------------
(* Machine-checked proofs about FaceBoxes, TfLiteEngine and Inference, for any  *)
(* output of the model, any size of the picture and any thresholds, any model   *)
(* files and any number of paths to try.  What the proofs use of Overlap is that *)
(* the loop evaluates it as written: the arithmetic stays folded.                *)
EXTENDS Inference, TLAPS

(* FaceBoxes *)

\* Whatever the corners, a clamped box that is large enough is in the picture.
LEMMA BoxInside ==
  ASSUME NEW r \in Raw, LargeEnough(BoxOf(r))
  PROVE  BoxOf(r) \in Box
<1>1. r \in [x1 : Int, y1 : Int, x2 : Int, y2 : Int, score : Int]
  BY RawAssumption
<1>2. /\ Clamp(r.x1, Cols) \in 0..(Cols - 1)
      /\ Clamp(r.x2, Cols) \in 0..(Cols - 1)
  BY <1>1, SizesAssumption DEF Clamp
<1>3. /\ Clamp(r.y1, Rows) \in 0..(Rows - 1)
      /\ Clamp(r.y2, Rows) \in 0..(Rows - 1)
  BY <1>1, SizesAssumption DEF Clamp
<1>4. /\ BoxOf(r).width > MinSize
      /\ BoxOf(r).height > MinSize
  BY DEF LargeEnough
<1>5. BoxOf(r).width \in 1..(Cols - 1)
  BY <1>2, <1>4, SizesAssumption DEF BoxOf
<1>6. BoxOf(r).height \in 1..(Rows - 1)
  BY <1>3, <1>4, SizesAssumption DEF BoxOf
<1>7. BoxOf(r) \in [x : 0..(Cols - 1), y : 0..(Rows - 1), width : 1..(Cols - 1),
                    height : 1..(Rows - 1), confidence : Int]
  BY <1>1, <1>2, <1>3, <1>5, <1>6 DEF BoxOf
<1>8. /\ BoxOf(r).x + BoxOf(r).width < Cols
      /\ BoxOf(r).y + BoxOf(r).height < Rows
  BY <1>2, <1>3, SizesAssumption DEF BoxOf
<1> QED
  BY <1>7, <1>8 DEF Box

\* A box stays covered when another one is kept.
LEMMA StillCovered ==
  ASSUME NEW s \in Seq(Box), NEW b \in Box, NEW box, CoveredBy(s, box)
  PROVE  CoveredBy(Append(s, b), box)
<1>1. /\ DOMAIN s \subseteq DOMAIN Append(s, b)
      /\ \A k \in DOMAIN s : Append(s, b)[k] = s[k]
  OBVIOUS
<1> QED
  BY <1>1 DEF CoveredBy

\* Rearranging boxes gives a sequence of the same boxes.
LEMMA Rearranged ==
  ASSUME NEW s \in Seq(Box), NEW p \in Permutation(Len(s))
  PROVE  LET t == [k \in 1..Len(s) |-> s[p[k]]] IN
         /\ t \in Seq(Box) /\ Len(t) = Len(s)
         /\ \A k \in DOMAIN s : \E j \in DOMAIN t : t[j] = s[k]
<1> DEFINE t == [k \in 1..Len(s) |-> s[p[k]]]
<1>1. p \in [1..Len(s) -> 1..Len(s)]
  BY DEF Permutation
<1>2. t \in [1..Len(s) -> Box]
  BY <1>1
<1>3. t \in Seq(Box) /\ Len(t) = Len(s) /\ DOMAIN t = 1..Len(s)
  BY <1>2
<1>4. \A k \in 1..Len(s) : \E j \in 1..Len(s) : p[j] = k
  BY DEF Permutation
<1>5. ASSUME NEW k \in DOMAIN s PROVE \E j \in DOMAIN t : t[j] = s[k]
  <2>1. k \in 1..Len(s)
    OBVIOUS
  <2>2. PICK j \in 1..Len(s) : p[j] = k
    BY <1>4, <2>1
  <2> QED
    BY <1>3, <2>2
<1> QED
  BY <1>3, <1>5

LEMMA InitInv == Init => FacesInv
<1> SUFFICES ASSUME Init PROVE FacesInv
  OBVIOUS
<1>1. TypeOK
  BY SizesAssumption DEF Init, TypeOK
<1>2. Parsed /\ Suppressing /\ KeptApart /\ Covered /\ BestFirst
  BY DEF Init, Parsed, Suppressing, KeptApart, Covered, BestFirst
<1> QED
  BY <1>1, <1>2 DEF FacesInv
-----------------------------------------------------------------------------
(* The steps *)

\* Unless boxes are kept, what is said of the kept ones stays as it is.
LEMMA NothingKept ==
  ASSUME FacesInv, UNCHANGED kept, pc' # "done"
  PROVE  KeptApart' /\ BestFirst' /\ Covered'
  BY DEF FacesInv, KeptApart, BestFirst, Covered

LEMMA InvokeInv == FacesInv /\ Invoke => FacesInv'
<1> SUFFICES ASSUME FacesInv, Invoke PROVE FacesInv'
  OBVIOUS
<1> USE DEF FacesInv, Invoke
<1>1. PICK n \in 0..MaxDetections : scores' \in [1..n -> Raw]
  OBVIOUS
<1>2. scores' \in Seq(Raw) /\ Len(scores') = n
  BY <1>1, SizesAssumption
<1>3. TypeOK'
  BY <1>2, SizesAssumption DEF TypeOK
<1>4. i' = 1 /\ kept' = <<>>
  BY DEF Parsed
<1>5. Parsed'
  <2>1. Accepted' \subseteq Nat \ {0}
    BY <1>3 DEF TypeOK, Accepted
  <2> QED
    BY <1>2, <1>4, <2>1 DEF Parsed
<1>6. Suppressing'
  BY DEF Suppressing
<1> QED
  BY <1>3, <1>5, <1>6, NothingKept

LEMMA InvokeFailsInv == FacesInv /\ InvokeFails => FacesInv'
<1> SUFFICES ASSUME FacesInv, InvokeFails PROVE FacesInv'
  OBVIOUS
<1> USE DEF FacesInv, InvokeFails
<1>1. TypeOK' /\ Suppressing' /\ Parsed'
  BY DEF TypeOK, Suppressing, Parsed
<1>2. Accepted' = {}
  BY DEF Parsed, Accepted
<1>3. KeptApart' /\ BestFirst' /\ Covered'
  BY <1>2 DEF KeptApart, BestFirst, Covered
<1> QED
  BY <1>1, <1>3

LEMMA SkipInv == FacesInv /\ Skip => FacesInv'
<1> SUFFICES ASSUME FacesInv, Skip PROVE FacesInv'
  OBVIOUS
<1> USE DEF FacesInv, Skip
<1>1. TypeOK'
  BY DEF TypeOK
<1>2. Parsed'
  <2>1. i \in Nat /\ i' = i + 1 /\ complete \in Nat
    BY DEF TypeOK
  <2>2. Accepted' = Accepted /\ i \notin Accepted
    BY <2>1 DEF Accepted, Confident
  <2>3. \A a \in Accepted : a \in Nat /\ a # i
    BY <2>1, <2>2 DEF Accepted
  <2>4. \A a \in Accepted :
          a < i' => \E k \in DOMAIN detections' : detections'[k] = BoxOf(scores'[a])
    BY <2>1, <2>3 DEF Parsed
  <2> QED
    BY <2>1, <2>2, <2>4 DEF Parsed, TypeOK
<1>3. Suppressing'
  BY DEF Suppressing
<1> QED
  BY <1>1, <1>2, <1>3, NothingKept

LEMMA DetectInv == FacesInv /\ Detect => FacesInv'
<1> SUFFICES ASSUME FacesInv, Detect PROVE FacesInv'
  OBVIOUS
<1> USE DEF FacesInv, Detect
<1> DEFINE box == BoxOf(scores[i])
<1>1. scores[i] \in Raw /\ box \in Box
  BY BoxInside DEF TypeOK, Confident
<1> HIDE DEF box
<1>2. detections' = Append(detections, box)
  BY DEF box
<1>3. /\ detections' \in Seq(Box)
      /\ \A k \in DOMAIN detections :
           k \in DOMAIN detections' /\ detections'[k] = detections[k]
      /\ \E k \in DOMAIN detections' : detections'[k] = box
  <2>1. detections \in Seq(Box)
    BY DEF TypeOK
  <2>2. Len(detections') = Len(detections) + 1 /\ detections' \in Seq(Box)
    BY <1>1, <1>2, <2>1
  <2>3. detections'[Len(detections')] = box
    BY <1>1, <1>2, <2>1, <2>2
  <2> QED
    BY <1>1, <1>2, <2>1, <2>2, <2>3
<1>4. TypeOK'
  BY <1>3 DEF TypeOK
<1>5. Parsed'
  <2>1. i \in Nat /\ i' = i + 1 /\ complete \in Nat /\ Accepted' = Accepted
    BY DEF TypeOK, Accepted
  <2>2. ASSUME NEW a \in Accepted, a < i'
        PROVE  \E k \in DOMAIN detections' : detections'[k] = BoxOf(scores[a])
    <3>1. a \in Nat
      BY <2>1 DEF Accepted
    <3>2. CASE a = i
      BY <1>3, <3>2 DEF box
    <3>3. CASE a < i
      <4>1. PICK k \in DOMAIN detections : detections[k] = BoxOf(scores[a])
        BY <3>3 DEF Parsed
      <4> QED
        BY <1>3, <4>1
    <3> QED
      BY <2>1, <2>2, <3>1, <3>2, <3>3
  <2> QED
    BY <2>1, <2>2 DEF Parsed, Confident, TypeOK
<1>6. Suppressing'
  BY DEF Suppressing
<1> QED
  BY <1>4, <1>5, <1>6, NothingKept

LEMMA EndParseInv == FacesInv /\ EndParse => FacesInv'
<1> SUFFICES ASSUME FacesInv, EndParse PROVE FacesInv'
  OBVIOUS
<1> USE DEF FacesInv, EndParse
<1>1. TypeOK' /\ Suppressing'
  BY DEF TypeOK, Suppressing
<1>2. Parsed'
  <2>1. \A a \in Accepted : a < i
    BY DEF Accepted, TypeOK, Confident
  <2>2. Accepted' = Accepted
    BY DEF Accepted
  <2> QED
    BY <2>1, <2>2 DEF Parsed
<1> QED
  BY <1>1, <1>2, NothingKept

LEMMA SortInv == FacesInv /\ Sort => FacesInv'
<1> SUFFICES ASSUME FacesInv, Sort PROVE FacesInv'
  OBVIOUS
<1> USE DEF FacesInv
<1>1. detections \in Seq(Box) /\ kept = <<>> /\ kept' = <<>> /\ pc = "sort"
  BY DEF Sort, TypeOK, Parsed
<1>2. PICK p \in Permutation(Len(detections)) :
        detections' = [k \in 1..Len(detections) |-> detections[p[k]]]
  BY DEF Sort
<1>3. /\ detections' \in Seq(Box) /\ Len(detections') = Len(detections)
      /\ \A k \in DOMAIN detections :
           \E j \in DOMAIN detections' : detections'[j] = detections[k]
  <2> DEFINE t == [k \in 1..Len(detections) |-> detections[p[k]]]
  <2>1. /\ t \in Seq(Box) /\ Len(t) = Len(detections)
        /\ \A k \in DOMAIN detections : \E j \in DOMAIN t : t[j] = detections[k]
    BY <1>1, Rearranged
  <2> HIDE DEF t
  <2>2. detections' = t
    BY <1>2 DEF t
  <2> QED
    BY <2>1, <2>2
<1>4. suppressed' \in [1..Len(detections) -> BOOLEAN]
  BY DEF Sort
<1>5. /\ suppressed' \in Seq(BOOLEAN) /\ Len(suppressed') = Len(detections)
      /\ \A k \in 1..Len(detections) : ~suppressed'[k]
  BY <1>1, <1>4 DEF Sort
<1>6. TypeOK'
  BY <1>3, <1>5 DEF Sort, TypeOK
<1>7. Parsed'
  <2>1. Accepted' = Accepted
    BY DEF Accepted, Sort
  <2>2. ASSUME NEW a \in Accepted
        PROVE  \E j \in DOMAIN detections' : detections'[j] = BoxOf(scores[a])
    <3>1. PICK k \in DOMAIN detections : detections[k] = BoxOf(scores[a])
      BY <1>1 DEF Parsed
    <3> QED
      BY <1>3, <3>1
  <2> QED
    BY <2>1, <2>2 DEF Parsed, Sort
<1>8. Suppressing'
  <2>1. i' = 1 /\ Len(detections) \in Nat /\ DOMAIN detections' = 1..Len(detections)
    BY <1>1, <1>3 DEF Sort
  <2>2. \A j, k \in DOMAIN detections' :
          j < k => detections'[j].confidence >= detections'[k].confidence
    BY <2>1 DEF Sort, Before
  <2>3. \A j \in DOMAIN detections' : ~(j < i' \/ suppressed'[j])
    BY <1>5, <2>1
  <2> QED
    BY <1>1, <1>3, <1>5, <2>1, <2>2, <2>3 DEF Suppressing
<1> QED
  BY <1>6, <1>7, <1>8, NothingKept DEF Sort

LEMMA KeepInv == FacesInv /\ Keep => FacesInv'
<1> SUFFICES ASSUME FacesInv, Keep PROVE FacesInv'
  OBVIOUS
<1> USE DEF FacesInv
<1> DEFINE box == detections[i]
<1>1. /\ detections \in Seq(Box) /\ kept \in Seq(Box) /\ i \in DOMAIN detections
      /\ suppressed \in Seq(BOOLEAN) /\ DOMAIN suppressed = DOMAIN detections
      /\ i \in Nat /\ pc = "suppress" /\ pc' = "suppress"
      /\ Len(suppressed) = Len(detections)
  BY DEF Keep, TypeOK, Suppressing
<1>2. box \in Box
  BY <1>1
<1>3. kept' = Append(kept, box) /\ detections' = detections /\ i' = i + 1
  BY DEF Keep
<1>4. /\ kept' \in Seq(Box) /\ DOMAIN kept' = 1..(Len(kept) + 1)
      /\ DOMAIN kept = 1..Len(kept) /\ Len(kept) \in Nat
      /\ \A k \in DOMAIN kept : kept'[k] = kept[k]
      /\ kept'[Len(kept) + 1] = box
  BY <1>1, <1>2, <1>3
<1>5. /\ DOMAIN suppressed' = DOMAIN suppressed
      /\ \A k \in DOMAIN suppressed :
           suppressed'[k] = (suppressed[k] \/ Suppresses(k))
  BY DEF Keep
<1> HIDE DEF box
<1>6. suppressed' \in Seq(BOOLEAN) /\ Len(suppressed') = Len(suppressed)
  <2>1. suppressed' = [k \in 1..Len(suppressed) |-> suppressed[k] \/ Suppresses(k)]
    BY <1>1 DEF Keep
  <2>2. \A k \in 1..Len(suppressed) : (suppressed[k] \/ Suppresses(k)) \in BOOLEAN
    BY Zenon
  <2>3. suppressed' \in [1..Len(suppressed) -> BOOLEAN]
    BY <2>1, <2>2
  <2>4. Len(suppressed) \in Nat
    BY <1>1
  <2> QED
    BY <2>3, <2>4
<1>7. TypeOK'
  BY <1>4, <1>6 DEF Keep, TypeOK
<1>8. Parsed'
  BY <1>1 DEF Keep, Parsed, Accepted
<1>9. \A k \in DOMAIN kept :
        /\ kept[k].confidence >= box.confidence
        /\ ~Overlap(kept[k], box)
  BY <1>1 DEF Suppressing, Keep, box
<1>10. KeptApart'
  BY <1>4, <1>9 DEF KeptApart
<1>11. BestFirst'
  BY <1>4, <1>9 DEF BestFirst
<1>12. Covered'
  BY <1>1 DEF Covered
<1>13. Suppressing'
  <2>1. \A j \in DOMAIN detections :
          j > i => box.confidence >= detections[j].confidence
    BY <1>1 DEF Suppressing, box
  <2>2. \A j \in DOMAIN detections :
          j > i /\ Overlap(box, detections[j]) => suppressed'[j]
    BY <1>1, <1>5 DEF Suppresses, box
  <2>3. ASSUME NEW k \in DOMAIN kept', NEW j \in DOMAIN detections, j >= i'
        PROVE  /\ kept'[k].confidence >= detections[j].confidence
               /\ Overlap(kept'[k], detections[j]) => suppressed'[j]
    <3>1. j > i /\ j >= i
      BY <1>1, <1>3, <2>3
    <3>2. CASE k \in DOMAIN kept
      BY <1>1, <1>4, <1>5, <3>1, <3>2 DEF Suppressing
    <3>3. CASE k = Len(kept) + 1
      BY <1>4, <2>1, <2>2, <3>1, <3>3
    <3> QED
      BY <1>4, <3>2, <3>3
  <2>4. ASSUME NEW j \in DOMAIN detections, j < i' \/ suppressed'[j]
        PROVE  CoveredBy(kept', detections[j])
    <3>1. CASE j < i \/ suppressed[j]
      <4>1. CoveredBy(kept, detections[j])
        BY <1>1, <3>1 DEF Suppressing
      <4> QED
        BY <1>1, <1>2, <1>3, <4>1, StillCovered
    <3>2. CASE j = i
      BY <1>4, <3>2 DEF CoveredBy, box
    <3>3. CASE j > i /\ suppressed'[j] /\ ~suppressed[j]
      <4>1. Overlap(box, detections[j])
        BY <1>1, <1>5, <3>3 DEF Suppresses, box
      <4>2. box.confidence >= detections[j].confidence
        BY <2>1, <3>3
      <4> QED
        BY <1>4, <4>1, <4>2 DEF CoveredBy
    <3> QED
      BY <1>1, <1>3, <2>4, <3>1, <3>2, <3>3
  <2>5. i' <= Len(detections') + 1 /\ Len(suppressed') = Len(detections')
    BY <1>1, <1>3, <1>6
  <2> QED
    BY <1>1, <1>3, <2>3, <2>4, <2>5 DEF Suppressing
<1> QED
  BY <1>7, <1>8, <1>10, <1>11, <1>12, <1>13

LEMMA DropInv == FacesInv /\ Drop => FacesInv'
<1> SUFFICES ASSUME FacesInv, Drop PROVE FacesInv'
  OBVIOUS
<1> USE DEF FacesInv, Drop, PassOver
<1>1. TypeOK'
  BY DEF TypeOK
<1>2. Parsed'
  BY DEF Parsed, Accepted
<1>3. Suppressing'
  <2>1. i \in Nat /\ i' = i + 1 /\ \A j \in DOMAIN detections : j \in Nat
    BY DEF TypeOK
  <2> QED
    BY <2>1 DEF Suppressing, TypeOK
<1> QED
  BY <1>1, <1>2, <1>3, NothingKept

LEMMA FinishInv == FacesInv /\ Finish => FacesInv'
<1> SUFFICES ASSUME FacesInv, Finish PROVE FacesInv'
  OBVIOUS
<1> USE DEF FacesInv, Finish
<1>1. TypeOK'
  BY DEF TypeOK
<1>2. Parsed' /\ Suppressing' /\ KeptApart' /\ BestFirst'
  BY DEF Parsed, Suppressing, KeptApart, BestFirst
<1>3. Covered'
  <2>1. \A j \in DOMAIN detections : CoveredBy(kept, detections[j])
    BY DEF Suppressing, TypeOK
  <2>2. ASSUME NEW a \in Accepted
        PROVE  CoveredBy(kept, BoxOf(scores[a]))
    <3>1. PICK k \in DOMAIN detections : detections[k] = BoxOf(scores[a])
      BY DEF Parsed
    <3> QED
      BY <2>1, <3>1
  <2>3. Accepted' = Accepted
    BY DEF Accepted
  <2> QED
    BY <2>2, <2>3 DEF Covered
<1> QED
  BY <1>1, <1>2, <1>3

LEMMA StutterInv == FacesInv /\ UNCHANGED vars => FacesInv'
  BY DEF FacesInv, vars, TypeOK, Parsed, Suppressing, KeptApart, Covered,
         BestFirst, Accepted

LEMMA NextInv == FacesInv /\ [Next]_vars => FacesInv'
  BY InvokeInv, InvokeFailsInv, SkipInv, DetectInv, EndParseInv, SortInv, KeepInv,
     DropInv, FinishInv, StutterInv DEF Next
-----------------------------------------------------------------------------
\* The invariant holds in every state of every behaviour.
THEOREM Invariance == Spec => []FacesInv
  BY InitInv, NextInv, PTL DEF Spec

\* Types, and boxes inside the picture for every output of the model.
THEOREM TypeCorrect == Spec => []TypeOK
<1>1. FacesInv => TypeOK
  BY DEF FacesInv
<1> QED
  BY <1>1, Invariance, PTL

\* No face is reported twice: the boxes kept do not overlap, however many
\* detections there are and in whatever order ties are sorted.
THEOREM FacesApart == Spec => []KeptApart
<1>1. FacesInv => KeptApart
  BY DEF FacesInv
<1> QED
  BY <1>1, Invariance, PTL

\* No face is lost: every acceptable detection is covered by the result.
THEOREM FacesCovered == Spec => []Covered
<1>1. FacesInv => Covered
  BY DEF FacesInv
<1> QED
  BY <1>1, Invariance, PTL

\* The result is in the order of confidence.
THEOREM FacesOrdered == Spec => []BestFirst
<1>1. FacesInv => BestFirst
  BY DEF FacesInv
<1> QED
  BY <1>1, Invariance, PTL
-----------------------------------------------------------------------------
(* TfLiteEngine *)

\* At the start nothing is loaded.
LEMMA EngineStart == EngineInit => EngineInv
<1> SUFFICES ASSUME EngineInit PROVE EngineInv
  OBVIOUS
<1>1. Len(candidates) \in Nat
  BY FileAssumption DEF EngineInit
<1>2. /\ 1 \in 1..(Len(candidates) + 1)
      /\ 0 \in 0..Len(candidates)
  BY <1>1
<1>3. NoInterpreter \in [model : 0..Len(candidates), allocated : BOOLEAN]
  BY <1>2 DEF NoInterpreter
<1>4. EngineTypeOK
  BY <1>2, <1>3 DEF EngineInit, EngineTypeOK, Stages
<1>5. UsedEngineIsWhole /\ Searching
  BY DEF EngineInit, UsedEngineIsWhole, Searching
<1> QED
  BY <1>4, <1>5 DEF EngineInv

\* Loading a file: each way it can fail passes over a file that is no use.
LEMMA LoadStep ==
  ASSUME EngineInv, LoadModel \/ LoadFails \/ Refuse
  PROVE  EngineInv'
<1>1. Len(candidates) \in Nat /\ DOMAIN candidates = 1..Len(candidates)
  BY FileAssumption DEF EngineInv, EngineTypeOK
<1>2. CASE LoadModel
  <2>1. /\ stage' = "ready" /\ at' = at /\ candidates' = candidates /\ failed' = failed
        /\ model' = at
        /\ interpreter' = [model |-> at, allocated |-> TRUE]
        /\ dims' = InputDims(candidates[at])
        /\ candidates[at].defect = "none"
        /\ at \in 1..Len(candidates)
        /\ \A j \in 1..(at - 1) : candidates[j].defect # "none"
    <3>1. /\ stage = "load" /\ at <= Len(candidates)
          /\ candidates[at].defect = "none"
      BY <1>2 DEF LoadModel, Loads
    <3>2. (candidates[at].defect # "allocation") = TRUE
      BY <3>1
    <3>3. interpreter' = [model |-> at, allocated |-> TRUE]
      BY <1>2, <3>2, Zenon DEF LoadModel
    <3>4. at \in 1..Len(candidates)
      BY <1>1, <3>1 DEF EngineInv, EngineTypeOK
    <3>5. \A j \in 1..(at - 1) : candidates[j].defect # "none"
      BY <3>1 DEF EngineInv, Searching
    <3> QED
      BY <1>2, <3>1, <3>3, <3>4, <3>5 DEF LoadModel
  <2>2. at \in 0..Len(candidates)
    BY <1>1, <2>1
  <2>3. interpreter' \in [model : 0..Len(candidates), allocated : BOOLEAN]
    BY <2>1, <2>2
  <2>4. EngineTypeOK'
    BY <2>1, <2>2, <2>3 DEF EngineInv, EngineTypeOK, Stages
  <2>5. UsedEngineIsWhole' /\ Searching'
    BY <1>1, <2>1 DEF UsedEngineIsWhole, FirstUsable, Searching, InputDims, NoDims
  <2> QED
    BY <2>4, <2>5 DEF EngineInv
<1>3. CASE LoadFails
  <2>1. /\ stage = "load" /\ stage' = "load" /\ at' = at + 1
        /\ candidates' = candidates /\ failed' = failed
        /\ at \in 1..Len(candidates)
        /\ candidates[at].defect # "none"
        /\ \A j \in 1..(at - 1) : candidates[j].defect # "none"
    BY <1>1, <1>3 DEF LoadFails, Loads, EngineInv, EngineTypeOK, Searching
  <2>2. model' \in 0..Len(candidates)
    BY <1>1, <1>3, <2>1 DEF LoadFails
  <2>3. interpreter' \in [model : 0..Len(candidates), allocated : BOOLEAN]
    <3> DEFINE I == [model : 0..Len(candidates), allocated : BOOLEAN]
    <3>1. interpreter \in I
      BY DEF EngineInv, EngineTypeOK
    <3>2. [model |-> 0, allocated |-> FALSE] \in I
      BY <1>1
    <3>3. [model |-> at, allocated |-> FALSE] \in I
      BY <1>1, <2>1
    <3>4. \/ interpreter' = interpreter
          \/ interpreter' = [model |-> 0, allocated |-> FALSE]
          \/ interpreter' = [model |-> at, allocated |-> FALSE]
      BY <1>3 DEF LoadFails, NoInterpreter
    <3> QED
      BY <3>1, <3>2, <3>3, <3>4
  <2>4. EngineTypeOK'
    BY <1>1, <2>1, <2>2, <2>3 DEF EngineInv, EngineTypeOK
  <2>5. Searching'
    BY <1>1, <2>1 DEF Searching
  <2>6. UsedEngineIsWhole'
    BY <2>1 DEF UsedEngineIsWhole
  <2> QED
    BY <2>4, <2>5, <2>6 DEF EngineInv
<1>4. CASE Refuse
  <2>1. at = Len(candidates) + 1
    BY <1>1, <1>4 DEF Refuse, EngineInv, EngineTypeOK
  <2>2. \A k \in DOMAIN candidates : candidates[k].defect # "none"
    BY <1>1, <1>4, <2>1 DEF Refuse, EngineInv, Searching
  <2> QED
    BY <1>4, <2>2 DEF Refuse, EngineInv, EngineTypeOK, UsedEngineIsWhole, Searching, Stages
<1> QED
  BY <1>2, <1>3, <1>4

\* Using the engine does not change it.
LEMMA UseStep ==
  ASSUME EngineInv,
         \/ Resize \/ SetInputTensor \/ InvokeInterpreter
         \/ ReadOutputs \/ Unsuited \/ LibraryFails
  PROVE  EngineInv'
<1>1. /\ UNCHANGED <<candidates, at, model, interpreter, dims>>
      /\ stage \notin {"load", "refused"} /\ stage' \notin {"load", "refused"}
      /\ stage' \in Stages /\ failed' \in BOOLEAN
  BY DEF EngineInv, EngineTypeOK, Resize, SetInputTensor, InvokeInterpreter,
         ReadOutputs, Unsuited, LibraryFails, Stages
<1>2. EngineTypeOK'
  BY <1>1 DEF EngineInv, EngineTypeOK
<1>3. UsedEngineIsWhole' /\ Searching'
  BY <1>1 DEF EngineInv, UsedEngineIsWhole, FirstUsable, Searching, InputDims, NoDims
<1> QED
  BY <1>2, <1>3 DEF EngineInv

\* A step that leaves the engine alone.
LEMMA EngineStutter == EngineInv /\ UNCHANGED engineVars => EngineInv'
BY DEF EngineInv, EngineTypeOK, UsedEngineIsWhole, FirstUsable, Searching,
       InputDims, NoDims, engineVars

\* The engine's inductive invariant (TfLiteEngine.cpp:26-50,
\* face_detection.cpp:538-577).
THEOREM EngineInvariance == EngineSpec => []EngineInv
<1>1. ASSUME EngineInv, [EngineNext]_engineVars PROVE EngineInv'
  BY <1>1, LoadStep, UseStep, EngineStutter DEF EngineNext
<1> QED
  BY <1>1, EngineStart, PTL DEF EngineSpec

\* Each step of a detection is one of the engine's and one of FaceBoxes', or
\* leaves one of them alone: what holds of either holds of both together.
THEOREM InferenceImplements == InferenceSpec => EngineSpec /\ Spec
<1>1. InferenceInit => EngineInit /\ Init
  BY DEF InferenceInit
<1>2. ASSUME [InferenceNext]_inferenceVars
      PROVE  [EngineNext]_engineVars /\ [Next]_vars
  BY <1>2 DEF InferenceNext, inferenceVars, Search, Run, Analyse, NoFaces,
              ParseAndSuppress, EngineNext, Next
<1> QED
  BY <1>1, <1>2, PTL DEF InferenceSpec, EngineSpec, Spec

\* A detector in use has the first model file that loads, whole, whatever loading
\* the files before it left behind (TfLiteEngine.cpp:27-44).
THEOREM WholeEngine == InferenceSpec => []UsedEngineIsWhole
<1>1. EngineInv => UsedEngineIsWhole
  BY DEF EngineInv
<1> QED
  BY <1>1, EngineInvariance, InferenceImplements, PTL

\* No face of the tensors is lost, whichever model filled them
\* (face_detection.cpp:752, 757, 851-860).
THEOREM InferenceCovers == InferenceSpec => []Covered
BY InferenceImplements, FacesCovered, PTL
-----------------------------------------------------------------------------
(* Inference *)

LEMMA ElementTyped ==
  ASSUME NEW S, NEW s \in Seq(S), NEW n \in 1..Len(s) PROVE s[n] \in S
OBVIOUS

\* A picture of the model's own size has as many floats as its input tensor.
LEMMA ElementsOfImage ==
  ASSUME NEW shape \in Seq(Int), Len(shape) = 4, shape[1] = 1, shape[4] = 3
  PROVE  Elements(shape) = 3 * shape[3] * shape[2]
<1> DEFINE Product(p) ==
             p = [n \in 0..Len(shape) |->
                    IF n = 0 THEN 1 ELSE shape[n] * p[n - 1]]
<1> DEFINE h == shape[2]
           w == shape[3]
           p == [n \in 0..4 |-> IF n < 2 THEN 1 ELSE IF n = 2 THEN h * 1
                                ELSE IF n = 3 THEN w * (h * 1) ELSE 3 * (w * (h * 1))]
<1>1. h \in Int /\ w \in Int
  <2>1. 2 \in 1..Len(shape) /\ 3 \in 1..Len(shape)
    OBVIOUS
  <2> QED
    BY <2>1, ElementTyped
<1>2. Product(p)
  <2>1. \A n \in 0..4 : p[n] = IF n = 0 THEN 1 ELSE shape[n] * p[n - 1]
    <3>1. p[0] = 1 /\ p[1] = 1 /\ p[2] = h * 1 /\ p[3] = w * (h * 1)
          /\ p[4] = 3 * (w * (h * 1))
      OBVIOUS
    <3>2. p[1] = shape[1] * p[0]
      BY <3>1
    <3> HIDE DEF p
    <3>3. p[2] = shape[2] * p[1] /\ p[3] = shape[3] * p[2] /\ p[4] = shape[4] * p[3]
      BY <3>1
    <3> HIDE DEF h, w
    <3>4. \A n \in 0..4 : n = 0 \/ n = 1 \/ n = 2 \/ n = 3 \/ n = 4
      OBVIOUS
    <3> QED
      BY <3>1, <3>2, <3>3, <3>4
  <2>2. p = [n \in 0..4 |-> p[n]]
    OBVIOUS
  <2> HIDE DEF p
  <2>3. p = [n \in 0..4 |-> IF n = 0 THEN 1 ELSE shape[n] * p[n - 1]]
    BY <2>1, <2>2, Zenon
  <2> QED
    BY <2>3
<1> DEFINE product == CHOOSE q : Product(q)
<1>3. Product(product)
  BY <1>2, Zenon
<1>4. Elements(shape) = product[4]
  BY Zenon DEF Elements
<1>5. /\ product[0] = 1
      /\ product[1] = shape[1] * product[0]
      /\ product[2] = shape[2] * product[1]
      /\ product[3] = shape[3] * product[2]
      /\ product[4] = shape[4] * product[3]
  <2> HIDE DEF product
  <2> QED
    BY <1>3
<1> HIDE DEF product, Product, p
<1>6. product[1] = 1 /\ product[2] = h /\ product[3] = w * h
  BY <1>1, <1>5
<1>7. product[4] = 3 * (w * h)
  BY <1>5, <1>6
<1> HIDE DEF h, w
<1>8. 3 * (w * h) = 3 * w * h
  BY <1>1
<1> QED
  BY <1>4, <1>7, <1>8 DEF h, w
\* A model for faces gets a picture that fits, and fills both of its outputs.
LEMMA FaceModelSuits ==
  ASSUME EngineInv, Analysed, stage \notin {"load", "refused", "parse", "empty"},
         FaceModel(candidates[model])
  PROVE  /\ Resizable
         /\ stage = "set" => Fits
         /\ HasOutputs
<1> DEFINE f == candidates[model]
<1>1. /\ f \in File /\ ModelFile = f /\ dims = InputDims(f)
  BY FileAssumption DEF EngineInv, EngineTypeOK, UsedEngineIsWhole, ModelFile
<1>2. f.shape \in Seq(Int) /\ f.outputs \in Seq(Nat)
  BY <1>1, FileAssumption
<1> HIDE DEF f
<1>3. /\ f.float /\ Len(f.shape) = 4 /\ f.shape[1] = 1 /\ f.shape[4] = 3
      /\ f.shape[2] > 0 /\ f.shape[3] > 0
      /\ Len(f.outputs) >= 2 /\ f.outputs[1] > 0 /\ f.outputs[2] > 0
  BY DEF FaceModel, f
<1>4. dims = [height |-> f.shape[2], width |-> f.shape[3], channels |-> f.shape[4]]
  BY <1>1, <1>3 DEF InputDims
<1>5. Resizable
  BY <1>3, <1>4 DEF Resizable
<1>6. ASSUME stage = "set" PROVE Fits
  <2>1. input = 3 * f.shape[3] * f.shape[2]
    BY <1>4, <1>6 DEF Analysed
  <2>2. Elements(f.shape) = 3 * f.shape[3] * f.shape[2]
    BY <1>2, <1>3, ElementsOfImage
  <2> QED
    BY <1>1, <1>3, <2>1, <2>2 DEF Fits
<1>7. HasOutputs
  BY <1>1, <1>2, <1>3 DEF HasOutputs, OutputFloats
<1> QED
  BY <1>5, <1>6, <1>7

LEMMA AnalysedStep ==
  ASSUME InferenceInv, [InferenceNext]_inferenceVars
  PROVE  Analysed'
<1> USE DEF InferenceInv
<1>1. CASE Search
  BY <1>1 DEF Search, LoadModel, LoadFails, Refuse, vars, Analysed
<1>2. CASE Run
  <2>1. pc = "invoke" /\ pc' = pc /\ stage' \in {"set", "invoke", "read"}
    BY <1>2 DEF Run, Resize, SetInputTensor, InvokeInterpreter, vars, Analysed
  <2>2. input' = 3 * dims'.width * dims'.height
    BY <1>2 DEF Run, Resize, SetInputTensor, InvokeInterpreter, Analysed
  <2> QED
    BY <2>1, <2>2 DEF Analysed
<1>3. CASE Analyse
  <2>1. OutputFloats(0)' = OutputFloats(0) /\ OutputFloats(1)' = OutputFloats(1)
    BY <1>3 DEF Analyse, ReadOutputs, OutputFloats, ModelFile
  <2>2. /\ stage' = "parse" /\ pc' = "parse"
        /\ Len(scores') = OutputFloats(1)
        /\ complete' = CompleteBoxes(OutputFloats(0), Len(scores'))
    BY <1>3 DEF Analyse, ReadOutputs, Invoke
  <2> QED
    BY <2>1, <2>2 DEF Analysed, CompleteBoxes
<1>4. CASE NoFaces
  <2>1. stage' = "empty" /\ pc' = "done"
    BY <1>4 DEF NoFaces, Unsuited, LibraryFails, InvokeFails
  <2>2. CASE LibraryFails
    BY <2>1, <2>2 DEF LibraryFails, Analysed
  <2>3. CASE Unsuited
    <3>1. UNCHANGED <<candidates, model>>
      BY <2>3 DEF Unsuited
    <3>2. ~FaceModel(candidates[model])
      BY <2>3, FaceModelSuits DEF Unsuited
    <3> QED
      BY <2>1, <3>1, <3>2 DEF Analysed, FaceModel
  <2> QED
    BY <1>4, <2>2, <2>3 DEF NoFaces
<1>5. CASE ParseAndSuppress
  <2>1. /\ stage' = stage /\ candidates' = candidates /\ model' = model
        /\ failed' = failed /\ input' = input /\ dims' = dims
        /\ interpreter' = interpreter
    BY <1>5 DEF ParseAndSuppress, engineVars
  <2>2. /\ pc # "invoke" /\ pc # "done" /\ pc' # "invoke"
        /\ scores' = scores /\ complete' = complete
    BY <1>5 DEF ParseAndSuppress, Skip, Detect, EndParse, Sort, Keep, Drop, Finish
  <2>3. stage = "parse"
    BY <2>2 DEF Analysed, EngineInv
  <2> QED
    BY <2>1, <2>2, <2>3 DEF Analysed, OutputFloats, ModelFile
<1>6. CASE UNCHANGED inferenceVars
  BY <1>6 DEF inferenceVars, engineVars, vars, Analysed, FaceModel, OutputFloats,
              ModelFile
<1> QED
  BY <1>1, <1>2, <1>3, <1>4, <1>5, <1>6 DEF InferenceNext

\* The inductive invariant of a detection from the model file to the faces.
THEOREM InferenceInvariance == InferenceSpec => []InferenceInv
<1>1. InferenceInit => Analysed
  BY DEF InferenceInit, EngineInit, Init, Analysed
<1>2. ASSUME EngineInv, FacesInv, Analysed, [InferenceNext]_inferenceVars
      PROVE  Analysed'
  BY <1>2, AnalysedStep DEF InferenceInv
<1> QED
  BY <1>1, <1>2, EngineInvariance, Invariance, InferenceImplements, PTL
     DEF InferenceSpec, InferenceInv

\* Every face a model reports is in the result: the picture is scaled to the size
\* its input tensor is checked for, whatever its size, so it is analysed, and every
\* detection the boxes tensor reaches is parsed (face_detection.cpp:692-706,
\* 739-757, TfLiteEngine.cpp:92-102).
THEOREM AllFacesReported == InferenceSpec => []FacesReported
<1>1. ASSUME InferenceInv PROVE FacesReported
  <2> SUFFICES ASSUME pc = "done", ~failed, FaceModel(candidates[model])
               PROVE  /\ stage = "parse"
                      /\ Len(scores) = OutputFloats(1)
                      /\ \A k \in 1..Len(scores) :
                           16 * k <= OutputFloats(0)
                             /\ scores[k].score >= MinConfidence
                             /\ LargeEnough(BoxOf(scores[k]))
                           => CoveredBy(kept, BoxOf(scores[k]))
    BY DEF FacesReported
  <2>1. stage = "parse"
    BY <1>1 DEF InferenceInv, Analysed
  <2>2. /\ Len(scores) = OutputFloats(1)
        /\ complete = CompleteBoxes(OutputFloats(0), Len(scores))
    BY <1>1, <2>1 DEF InferenceInv, Analysed
  <2>3. Len(scores) \in Nat /\ OutputFloats(0) \in Nat
    <3>1. ModelFile \in File
      BY <1>1, <2>1, FileAssumption
         DEF InferenceInv, EngineInv, EngineTypeOK, UsedEngineIsWhole, ModelFile
    <3>2. ModelFile.outputs \in Seq(Nat)
      BY <3>1, FileAssumption
    <3> QED
      BY <1>1, <3>2 DEF InferenceInv, FacesInv, TypeOK, OutputFloats
  <2>4. ASSUME NEW k \in 1..Len(scores), 16 * k <= OutputFloats(0),
               scores[k].score >= MinConfidence, LargeEnough(BoxOf(scores[k]))
        PROVE  CoveredBy(kept, BoxOf(scores[k]))
    <3>1. k <= complete
      BY <2>2, <2>3, <2>4 DEF CompleteBoxes, MinOf
    <3>2. k \in Accepted
      BY <2>3, <2>4, <3>1, <1>1 DEF Accepted, InferenceInv, FacesInv, TypeOK
    <3> QED
      BY <1>1, <3>2 DEF InferenceInv, FacesInv, Covered
  <2> QED
    BY <2>1, <2>2, <2>4
<1> QED
  BY <1>1, InferenceInvariance, PTL
=============================================================================
