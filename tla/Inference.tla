------------------------------ MODULE Inference ------------------------------
(* From a detector's construction to the faces of a picture: the engine        *)
(* (TfLiteEngine) fills the tensors FaceBoxes parses.  The boxes tensor has 16 *)
(* floats per detection, the scores tensor one.                                *)
EXTENDS TfLiteEngine, FaceBoxes

inferenceVars == <<engineVars, vars>>

InferenceInit == EngineInit /\ Init

\* Detections the boxes tensor is long enough for.
CompleteBoxes(floats, n) == MinOf(floats \div 16, n)

Search == (LoadModel \/ LoadFails \/ Refuse) /\ UNCHANGED vars

Run == (Resize \/ SetInputTensor \/ InvokeInterpreter) /\ UNCHANGED vars

\* getOutputTensor(1) are the scores, getOutputTensor(0) the boxes.
Analyse ==
  /\ ReadOutputs
  /\ Invoke
  /\ Len(scores') = OutputFloats(1)
  /\ complete' = CompleteBoxes(OutputFloats(0), Len(scores'))

NoFaces == (Unsuited \/ LibraryFails) /\ InvokeFails

ParseAndSuppress ==
  /\ Skip \/ Detect \/ EndParse \/ Sort \/ Keep \/ Drop \/ Finish
  /\ UNCHANGED engineVars

InferenceNext == Search \/ Run \/ Analyse \/ NoFaces \/ ParseAndSuppress

InferenceSpec == InferenceInit /\ [][InferenceNext]_inferenceVars
-----------------------------------------------------------------------------
\* A face detection model: one picture of three channels in, boxes and scores out.
FaceModel(f) ==
  /\ f.float
  /\ Len(f.shape) = 4 /\ f.shape[1] = 1 /\ f.shape[4] = 3
  /\ f.shape[2] > 0 /\ f.shape[3] > 0
  /\ Len(f.outputs) >= 2 /\ f.outputs[1] > 0 /\ f.outputs[2] > 0

\* Every face of the tensors is reported if the model is one for faces and no
\* library fails: the picture is then analysed, because the size it is scaled to,
\* read when the model was loaded, is the one its tensor is checked for
\* (face_detection.cpp:692-706, TfLiteEngine.cpp:92-102, 174-183).
FacesReported ==
  pc = "done" /\ ~failed /\ FaceModel(candidates[model]) =>
    /\ stage = "parse"
    /\ Len(scores) = OutputFloats(1)
    /\ \A k \in 1..Len(scores) :
         16 * k <= OutputFloats(0) /\ scores[k].score >= MinConfidence
           /\ LargeEnough(BoxOf(scores[k]))
         => CoveredBy(kept, BoxOf(scores[k]))
-----------------------------------------------------------------------------
(* The inductive invariant *)

\* The parser waits for the engine; a picture the engine does not analyse, though
\* no library fails, is one of a model that is not for faces.
Analysed ==
  /\ pc = "invoke" <=> stage \notin {"parse", "empty"}
  /\ stage \in {"set", "invoke", "read"} => input = 3 * dims.width * dims.height
  /\ stage = "empty" => pc = "done" /\ (failed \/ ~FaceModel(candidates[model]))
  /\ stage = "parse" =>
       /\ Len(scores) = OutputFloats(1)
       /\ complete = CompleteBoxes(OutputFloats(0), Len(scores))

InferenceInv == EngineInv /\ FacesInv /\ Analysed
==============================================================================
