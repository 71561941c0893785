---------------------------- MODULE TfLiteEngine ----------------------------
(* neptune::TfLiteEngine (inference/src/TfLiteEngine.cpp) in the hands of      *)
(* FaceDetector: initialize loads the first model file that can be loaded, a   *)
(* detector without one is never used, and detectFacesTFLite runs the engine   *)
(* on a picture.  resizeInputTensor and the queries nobody calls are left out. *)
(*                                                                             *)
(* The TensorFlow Lite library is external.  A File is what it makes of a      *)
(* model file: the step of loadModel that fails, whether the input tensor      *)
(* holds floats, its shape, and the number of floats in each output tensor.    *)
EXTENDS Integers, Sequences

CONSTANTS File,       \* [defect, float, shape, outputs]
          Candidates  \* the sequences of files initialize may find at its paths

Defects == {"none", "file", "interpreter", "allocation"}

ASSUME FileAssumption ==
  /\ File \subseteq [defect : Defects, float : BOOLEAN, shape : Seq(Int),
                     outputs : Seq(Nat)]
  /\ Candidates \subseteq Seq(File)

VARIABLES
  candidates,
  at,           \* the path initialize tries
  model,        \* model_: the candidate it was built from, 0 for null
  interpreter,  \* interpreter_: the model it points into, and if it has tensors
  dims,         \* inputHeight_, inputWidth_, inputChannels_
  input,        \* floats in input_tensor
  stage,        \* of initialize and detectFacesTFLite
  failed        \* history: a call into a library failed on a usable engine
engineVars ==
  <<candidates, at, model, interpreter, dims, input, stage, failed>>

NoInterpreter == [model |-> 0, allocated |-> FALSE]
NoDims == [height |-> 0, width |-> 0, channels |-> 0]

EngineInit == /\ candidates \in Candidates
              /\ at = 1
              /\ model = 0 /\ interpreter = NoInterpreter
              /\ dims = NoDims /\ input = 0
              /\ stage = "load"
              /\ failed = FALSE
-----------------------------------------------------------------------------
\* Mutant of InputDims: the dimensions without the batch.
InputDimsOfImage(f) ==
  IF Len(f.shape) < 3
    THEN NoDims
    ELSE [height |-> f.shape[1], width |-> f.shape[2], channels |-> f.shape[3]]

\* updateInputDims; the shape is NHWC.
InputDims(f) ==
  IF Len(f.shape) < 4
    THEN NoDims
    ELSE [height |-> f.shape[2], width |-> f.shape[3], channels |-> f.shape[4]]

\* The product of the dimensions of a tensor.
Elements(shape) ==
  LET product[n \in 0..Len(shape)] ==
        IF n = 0 THEN 1 ELSE shape[n] * product[n - 1]
  IN product[Len(shape)]

\* Mutant of Loads: as isLoaded has it.
HasBoth(f) == f.defect \notin {"file", "interpreter"}

Loads(f) == f.defect = "none"

\* A detector whose engine is loaded goes to the service or to the C caller.
LoadModel ==
  /\ stage = "load"
  /\ at <= Len(candidates)
  /\ Loads(candidates[at])
  /\ model' = at
  /\ interpreter' = [model |-> at, allocated |-> candidates[at].defect # "allocation"]
  /\ dims' = InputDims(candidates[at])
  /\ stage' = "ready"
  /\ UNCHANGED <<candidates, at, input, failed>>

\* model_ is replaced in any case, and the interpreter may be left without the
\* model it points into, or without tensors.
LoadFails ==
  /\ stage = "load"
  /\ at <= Len(candidates)
  /\ ~Loads(candidates[at])
  /\ \/ /\ candidates[at].defect = "file"
        /\ model' = 0
        /\ UNCHANGED interpreter
     \/ /\ candidates[at].defect = "interpreter"
        /\ model' = at
        /\ interpreter' = NoInterpreter
     \/ /\ candidates[at].defect = "allocation"
        /\ model' = at
        /\ interpreter' = [model |-> at, allocated |-> FALSE]
  /\ at' = at + 1
  /\ UNCHANGED <<candidates, dims, input, stage, failed>>

\* initialize returns false: the service's constructor throws, create_detector
\* deletes the detector.
Refuse ==
  /\ stage = "load"
  /\ at > Len(candidates)
  /\ stage' = "refused"
  /\ UNCHANGED <<candidates, at, model, interpreter, dims, input, failed>>

ModelFile == candidates[interpreter.model]

\* cv::resize throws for a size that is not positive.
Resizable == dims.width > 0 /\ dims.height > 0

\* BGR has three channels.
Resize ==
  /\ stage = "ready"
  /\ Resizable
  /\ input' = 3 * dims.width * dims.height
  /\ stage' = "set"
  /\ UNCHANGED <<candidates, at, model, interpreter, dims, failed>>

Fits == ModelFile.float /\ input = Elements(ModelFile.shape)

SetInputTensor ==
  /\ stage = "set"
  /\ Fits
  /\ stage' = "invoke"
  /\ UNCHANGED <<candidates, at, model, interpreter, dims, input, failed>>

InvokeInterpreter ==
  /\ stage = "invoke"
  /\ stage' = "read"
  /\ UNCHANGED <<candidates, at, model, interpreter, dims, input, failed>>

\* getOutputTensor: nothing for an index out of range.
OutputFloats(index) ==
  IF index < Len(ModelFile.outputs) THEN ModelFile.outputs[index + 1] ELSE 0

HasOutputs == OutputFloats(0) > 0 /\ OutputFloats(1) > 0

ReadOutputs ==
  /\ stage = "read"
  /\ HasOutputs
  /\ stage' = "parse"
  /\ UNCHANGED <<candidates, at, model, interpreter, dims, input, failed>>

\* The early returns of detectFacesTFLite: the model does not suit it.
Unsuited ==
  /\ \/ stage = "ready" /\ ~Resizable
     \/ stage = "set" /\ ~Fits
     \/ stage = "read" /\ ~HasOutputs
  /\ stage' = "empty"
  /\ UNCHANGED <<candidates, at, model, interpreter, dims, input, failed>>

\* No picture, a failing Invoke, or an exception from OpenCV.
LibraryFails ==
  /\ stage \in {"ready", "invoke"}
  /\ failed' = TRUE
  /\ stage' = "empty"
  /\ UNCHANGED <<candidates, at, model, interpreter, dims, input>>

EngineNext == LoadModel \/ LoadFails \/ Refuse \/ Resize \/ SetInputTensor
              \/ InvokeInterpreter \/ ReadOutputs \/ Unsuited \/ LibraryFails

EngineSpec == EngineInit /\ [][EngineNext]_engineVars
-----------------------------------------------------------------------------
Stages == {"load", "refused", "ready", "set", "invoke", "read", "parse", "empty"}

EngineTypeOK ==
  /\ candidates \in Candidates
  /\ at \in 1..(Len(candidates) + 1)
  /\ model \in 0..Len(candidates)
  /\ interpreter \in [model : 0..Len(candidates), allocated : BOOLEAN]
  /\ stage \in Stages
  /\ failed \in BOOLEAN

\* The files tried before this one were no use.
FirstUsable(k) ==
  /\ candidates[k].defect = "none"
  /\ \A j \in 1..(k - 1) : candidates[j].defect # "none"

\* Whenever the engine is used, it is that of the first file that loads, and whole:
\* the model its interpreter points into is alive, the tensors are allocated, the
\* dimensions are those of its input.  Nothing is left of the files that failed
\* half-way before, and a detector is refused only if all of them did
\* (TfLiteEngine.cpp:27-44, face_detection.cpp:553-568).
UsedEngineIsWhole ==
  /\ stage = "refused" => \A k \in DOMAIN candidates : candidates[k].defect # "none"
  /\ stage \notin {"load", "refused"} =>
       /\ model \in DOMAIN candidates
       /\ FirstUsable(model)
       /\ interpreter = [model |-> model, allocated |-> TRUE]
       /\ dims = InputDims(candidates[model])
-----------------------------------------------------------------------------
(* The inductive invariant *)

\* Before the engine is ready nothing usable has been passed over.
Searching ==
  stage = "load" => \A j \in 1..(at - 1) : candidates[j].defect # "none"

EngineInv == EngineTypeOK /\ UsedEngineIsWhole /\ Searching
=============================================================================
