-------------------------- MODULE DetectionService --------------------------
(* What the face-detection service promises to a caller of DetectFaces,      *)
(* without the mutex, the FFmpeg objects and the steps inside a call: a call  *)
(* answers with the faces of its own frame or with nothing; faces come only   *)
(* out of a decoder opened for the caller's codec string, and for an          *)
(* inter-frame only out of a decoder that has shown a keyframe since it was   *)
(* opened or flushed.  FaceDetector.tla is shown to implement this module.    *)
EXTENDS Integers

CONSTANTS Threads,    \* gRPC handler threads
          Requests,   \* requests a client may send, see FaceDetector.tla
          Nothing,    \* the answer without faces
          NoCodec     \* current_codec while no decoder is open

VARIABLES call,       \* call[t]: the request thread t is serving, or Nothing
          answer,     \* answer[t]: whose picture the last answer of t is about
          codec,      \* codec string the decoder is open for
          keyed       \* a keyframe came out of the decoder since open or flush

vars == <<call, answer, codec, keyed>>

Init == /\ call = [t \in Threads |-> Nothing]
        /\ answer = [t \in Threads |-> Nothing]
        /\ codec = NoCodec
        /\ keyed = FALSE

Begin(t) == /\ call[t] = Nothing
            /\ \E r \in Requests : call' = [call EXCEPT ![t] = r]
            /\ answer' = [answer EXCEPT ![t] = Nothing]
            /\ UNCHANGED <<codec, keyed>>

\* A call of another codec replaces the decoder; the new one is not keyed.
\* When it cannot be opened there is none, and the call ends.
Reopen(t) == /\ call[t] # Nothing
             /\ codec # call[t].codec
             /\ \/ /\ codec' = call[t].codec
                   /\ UNCHANGED call
                \/ /\ codec' = NoCodec
                   /\ call' = [call EXCEPT ![t] = Nothing]
             /\ keyed' = FALSE
             /\ UNCHANGED answer

\* A picture of the call's own frame is shown.
Show(t) == /\ call[t] # Nothing
           /\ codec = call[t].codec
           /\ keyed \/ call[t].key
           /\ keyed' = TRUE
           /\ answer' = [answer EXCEPT ![t] = t]
           /\ UNCHANGED <<call, codec>>

Flush == /\ keyed' = FALSE
         /\ UNCHANGED <<call, answer, codec>>

\* The detection on the picture shown may find nothing or fail.
Return(t) == /\ call[t] # Nothing
             /\ call' = [call EXCEPT ![t] = Nothing]
             /\ answer' \in {answer, [answer EXCEPT ![t] = Nothing]}
             /\ UNCHANGED <<codec, keyed>>

Next == \/ Flush
        \/ \E t \in Threads : Begin(t) \/ Reopen(t) \/ Show(t) \/ Return(t)

Spec == Init /\ [][Next]_vars
=============================================================================
