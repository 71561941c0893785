------------------------- MODULE FaceDetectorProofs -------------------------
(* Machine-checked proofs about FaceDetector, for any set of handler threads, *)
(* any requests and any number of FFmpeg errors.                              *)
EXTENDS FaceDetector, TLAPS

LEMMA InitInv == Init => DetectorInv
<1> SUFFICES ASSUME Init PROVE DetectorInv
  OBVIOUS
<1> USE ThreadsAssumption, CodecsAssumption, BoundsAssumption
        DEF Init, Inside, NewContext
<1>1. decoder_ctx \in Context
  BY DEF Context, OptThread, OptCodec
<1>2. decoder_initialized = (decoder_ctx.codec # NoCodec)
  OBVIOUS
<1>3. decoder_initialized \in BOOLEAN /\ has_received_keyframe \in BOOLEAN
  BY Zenon
<1>4. VarTypes
  BY <1>1, <1>3 DEF VarTypes, OptThread, OptCodec
<1>5. TypeOK
  BY <1>2, <1>4 DEF TypeOK, FlagsAgree
<1> QED
  BY <1>5 DEF DetectorInv, CallHasRequest, MutexHeld, DecoderFitsCall,
              PacketIsOwn, PictureIsOwn, FlagHasReference, AnswersOwnFrame

\* What a new context holds, and what a context keeps when it gains a reference.
LEMMA ContextTypes ==
  /\ \A c \in OptCodec : NewContext(c) \in Context
  /\ \A c \in Context, b \in BOOLEAN, p \in OptThread :
       /\ [c EXCEPT !.ref = b, !.pic = p] \in Context
       /\ [c EXCEPT !.ref = b, !.pic = p].codec = c.codec
  BY DEF NewContext, Context, OptThread

LEMMA OpenTypes ==
  ASSUME TypeOK, NEW c \in OptCodec, cleanupDecoder(c)
  PROVE  /\ FlagsAgree'
         /\ decoder_ctx' \in Context
         /\ packet' = Nobody /\ current_codec' \in OptCodec
         /\ decoder_initialized' \in BOOLEAN
         /\ has_received_keyframe' \in BOOLEAN /\ consecutive_failures' \in Nat
<1>1. decoder_ctx' = NewContext(c)
  BY DEF cleanupDecoder
<1>2. decoder_ctx' \in Context /\ decoder_ctx'.codec = c
  BY <1>1, ContextTypes DEF NewContext
<1> QED
  BY <1>2 DEF cleanupDecoder, MarkInitialized, ForgetKeyframe, FlagsAgree

\* Type correctness needs more than types: a call's request is a client's.
LEMMA TypeStep ==
  TypeOK /\ CallHasRequest /\ PacketIsOwn /\ [Next]_vars => TypeOK'
<1> SUFFICES ASSUME TypeOK, CallHasRequest, PacketIsOwn, [Next]_vars
             PROVE  TypeOK'
  OBVIOUS
<1> USE RequestsAssumption, CodecsAssumption, BoundsAssumption
        DEF TypeOK, VarTypes, Inside, OptThread, OptCodec, Goto,
            ReturnUnlocked, decoderState, Request
<1>1. ASSUME NEW t \in Threads, DetectFaces(t) PROVE TypeOK'
  BY <1>1 DEF DetectFaces, FlagsAgree
<1>2. ASSUME NEW t \in Threads, Lock(t) PROVE TypeOK'
  BY <1>2 DEF Lock, Acquire, FlagsAgree
<1>3. ASSUME NEW t \in Threads, OpenDecoder(t) PROVE TypeOK'
  <2>1. req[t].codec \in OptCodec
    BY <1>3 DEF OpenDecoder, CallHasRequest
  <2>2. cleanupDecoder(req[t].codec)
    BY <1>3 DEF OpenDecoder
  <2>3. /\ FlagsAgree'
        /\ decoder_ctx' \in Context
        /\ packet' = Nobody /\ current_codec' \in OptCodec
        /\ decoder_initialized' \in BOOLEAN
        /\ has_received_keyframe' \in BOOLEAN /\ consecutive_failures' \in Nat
    BY <2>1, <2>2, OpenTypes
  <2> QED
    BY <1>3, <2>3 DEF OpenDecoder
<1>4. ASSUME NEW t \in Threads, OpenFails(t) PROVE TypeOK'
  <2>1. cleanupDecoder(NoCodec) /\ NoCodec \in OptCodec
    BY <1>4 DEF OpenFails
  <2>2. /\ FlagsAgree'
        /\ decoder_ctx' \in Context
        /\ packet' = Nobody /\ current_codec' \in OptCodec
        /\ decoder_initialized' \in BOOLEAN
        /\ has_received_keyframe' \in BOOLEAN /\ consecutive_failures' \in Nat
    BY <2>1, OpenTypes
  <2> QED
    BY <1>4, <2>2 DEF OpenFails, Error
<1>5. ASSUME NEW t \in Threads, FillPacket(t) PROVE TypeOK'
  BY <1>5 DEF FillPacket, FlagsAgree
<1>6. ASSUME NEW t \in Threads, PacketFails(t) PROVE TypeOK'
  BY <1>6 DEF PacketFails, Error, FlagsAgree
<1>7. ASSUME NEW t \in Threads, SendPacket(t) PROVE TypeOK'
  <2> DEFINE b == decoder_ctx.ref \/ KeyPacket
  <2>1. PICK p \in {packet, Nobody} :
          decoder_ctx' = [decoder_ctx EXCEPT !.ref = b, !.pic = p]
    BY <1>7 DEF SendPacket
  <2>2. b \in BOOLEAN /\ p \in OptThread
    BY <2>1 DEF KeyPacket
  <2> HIDE DEF b
  <2>3. decoder_ctx' \in Context /\ decoder_ctx'.codec = decoder_ctx.codec
    BY <2>1, <2>2, ContextTypes
  <2> QED
    BY <1>7, <2>3 DEF SendPacket, FlagsAgree
<1>8. ASSUME NEW t \in Threads, SendFails(t) PROVE TypeOK'
  BY <1>8 DEF SendFails, Error, FlagsAgree
<1>9. ASSUME NEW t \in Threads, ReceiveFrame(t) PROVE TypeOK'
  BY <1>9 DEF ReceiveFrame, Context, FlagsAgree
<1>10. ASSUME NEW t \in Threads, ReceiveFails(t) PROVE TypeOK'
  BY <1>10 DEF ReceiveFails, Context, Error, FlagsAgree
<1>11. ASSUME NEW t \in Threads, ProcessDecodedFrame(t) PROVE TypeOK'
  BY <1>11 DEF ProcessDecodedFrame, FlagsAgree
<1>12. ASSUME NEW t \in Threads, ResetDecoder(t) PROVE TypeOK'
  <2>1. CASE decoder_ctx.codec # NoCodec
    <3>1. decoder_ctx.codec \in OptCodec
      BY DEF Context
    <3>2. decoder_ctx' = NewContext(decoder_ctx.codec)
      BY <1>12, <2>1 DEF ResetDecoder
    <3>3. decoder_ctx' \in Context /\ decoder_ctx'.codec = decoder_ctx.codec
      BY <3>1, <3>2, ContextTypes DEF NewContext
    <3>4. has_received_keyframe' \in BOOLEAN
      BY <1>12, <2>1, Zenon DEF ResetDecoder, ForgetKeyframe
    <3>5. consecutive_failures' \in Nat
      BY <1>12, <2>1 DEF ResetDecoder
    <3> QED
      BY <1>12, <3>3, <3>4, <3>5 DEF ResetDecoder, FlagsAgree
  <2>2. CASE decoder_ctx.codec = NoCodec
    BY <1>12, <2>2 DEF ResetDecoder, FlagsAgree
  <2> QED
    BY <2>1, <2>2
<1>13. ASSUME NEW t \in Threads,
              \/ RejectSize(t) \/ KeepDecoder(t) \/ AwaitKeyframe(t)
              \/ ReceiveAgain(t) \/ ResetDetector(t)
       PROVE  TypeOK'
  BY <1>13 DEF RejectSize, KeepDecoder, AwaitKeyframe, ReceiveAgain,
               ResetDetector, FlagsAgree
<1>14. CASE UNCHANGED vars
  BY <1>14 DEF vars, FlagsAgree
<1> QED
  BY <1>1, <1>2, <1>3, <1>4, <1>5, <1>6, <1>7, <1>8, <1>9, <1>10, <1>11,
     <1>12, <1>13, <1>14 DEF Next, Step

\* The part of the inductive invariant that is about the critical section.
SectionInv == /\ CallHasRequest /\ MutexHeld /\ DecoderFitsCall
              /\ PacketIsOwn /\ PictureIsOwn /\ FlagHasReference
              /\ AnswersOwnFrame

LEMMA SectionStep == TypeOK /\ SectionInv /\ [Next]_vars => SectionInv'
<1> SUFFICES ASSUME TypeOK, SectionInv, [Next]_vars PROVE SectionInv'
  OBVIOUS
<1> USE ThreadsAssumption, RequestsAssumption
        DEF SectionInv, TypeOK, VarTypes, FlagsAgree, CallHasRequest, MutexHeld, DecoderFitsCall,
            PacketIsOwn, PictureIsOwn, FlagHasReference, AnswersOwnFrame,
            Inside, OptThread, OptCodec, Context, NewContext, Goto,
            ReturnUnlocked, decoderState, Request, MayDecode
<1>1. ASSUME NEW t \in Threads, DetectFaces(t) PROVE SectionInv'
  BY <1>1 DEF DetectFaces
<1>2. ASSUME NEW t \in Threads, RejectSize(t) PROVE SectionInv'
  BY <1>2 DEF RejectSize
<1>3. ASSUME NEW t \in Threads, Lock(t) PROVE SectionInv'
  BY <1>3 DEF Lock, Acquire
<1>4. ASSUME NEW t \in Threads, KeepDecoder(t) PROVE SectionInv'
  BY <1>4 DEF KeepDecoder, NeedsDecoder
<1>5. ASSUME NEW t \in Threads, OpenDecoder(t) PROVE SectionInv'
  BY <1>5 DEF OpenDecoder, cleanupDecoder, MarkInitialized, ForgetKeyframe
<1>6. ASSUME NEW t \in Threads, OpenFails(t) PROVE SectionInv'
  BY <1>6 DEF OpenFails, cleanupDecoder, MarkInitialized, ForgetKeyframe, Error
<1>7. ASSUME NEW t \in Threads, AwaitKeyframe(t) PROVE SectionInv'
  BY <1>7 DEF AwaitKeyframe
<1>8. ASSUME NEW t \in Threads, FillPacket(t) PROVE SectionInv'
  BY <1>8 DEF FillPacket
<1>9. ASSUME NEW t \in Threads, PacketFails(t) PROVE SectionInv'
  BY <1>9 DEF PacketFails, Error
<1>10. ASSUME NEW t \in Threads, SendPacket(t) PROVE SectionInv'
  BY <1>10 DEF SendPacket, KeyPacket
<1>11. ASSUME NEW t \in Threads, SendFails(t) PROVE SectionInv'
  BY <1>11 DEF SendFails, Error
<1>12. ASSUME NEW t \in Threads, ReceiveFrame(t) PROVE SectionInv'
  BY <1>12 DEF ReceiveFrame
<1>13. ASSUME NEW t \in Threads, ReceiveAgain(t) PROVE SectionInv'
  BY <1>13 DEF ReceiveAgain
<1>14. ASSUME NEW t \in Threads, ReceiveFails(t) PROVE SectionInv'
  BY <1>14 DEF ReceiveFails, Error
<1>15. ASSUME NEW t \in Threads, ProcessDecodedFrame(t) PROVE SectionInv'
  BY <1>15 DEF ProcessDecodedFrame
<1>16. ASSUME NEW t \in Threads, ResetDetector(t) PROVE SectionInv'
  BY <1>16 DEF ResetDetector
<1>17. ASSUME NEW t \in Threads, ResetDecoder(t) PROVE SectionInv'
  BY <1>17 DEF ResetDecoder, ForgetKeyframe
<1>18. ASSUME UNCHANGED vars PROVE SectionInv'
  BY <1>18 DEF vars
<1> QED
  BY <1>1, <1>2, <1>3, <1>4, <1>5, <1>6, <1>7, <1>8, <1>9, <1>10, <1>11,
     <1>12, <1>13, <1>14, <1>15, <1>16, <1>17, <1>18 DEF Next, Step

\* The invariant holds in every state of every behaviour.
THEOREM Invariance == Spec => []DetectorInv
<1>1. Init => DetectorInv
  BY InitInv
<1>2. DetectorInv /\ [Next]_vars => DetectorInv'
  BY TypeStep, SectionStep DEF DetectorInv, SectionInv
<1> QED
  BY <1>1, <1>2, PTL DEF Spec

\* The types of the variables, and the agreement of decoder_initialized and
\* current_codec with the FFmpeg context, in every state.
THEOREM TypeCorrect == Spec => []TypeOK
<1>1. DetectorInv => TypeOK
  BY DEF DetectorInv
<1> QED
  BY <1>1, Invariance, PTL

\* No answer carries the faces of another call's frame (the lock_guard of
\* processFrame protects packet, picture and input tensor).
THEOREM OwnAnswers == Spec => []AnswersOwnFrame
<1>1. DetectorInv => AnswersOwnFrame
  BY DEF DetectorInv
<1> QED
  BY <1>1, Invariance, PTL

\* No inter-frame reaches a decoder without a reference picture, whatever the
\* interleaving of codec changes, errors and resets.
THEOREM ReferencedPFrames == Spec => []PFrameHasReference
<1>1. DetectorInv => PFrameHasReference
  BY DEF DetectorInv, PFrameHasReference, PacketIsOwn, MayDecode,
         FlagHasReference
<1> QED
  BY <1>1, Invariance, PTL

\* The open context is always one for the codec string of the call using it.
THEOREM FittingDecoder == Spec => []DecoderFitsCall
<1>1. DetectorInv => DecoderFitsCall
  BY DEF DetectorInv
<1> QED
  BY <1>1, Invariance, PTL
-----------------------------------------------------------------------------
(* FaceDetector implements DetectionService *)

InCall == {"entry"} \cup Inside

\* Thread t goes from one step of its call to another.
LEMMA CallGoesOn ==
  ASSUME DetectorInv, NEW t \in Threads, NEW l \in InCall,
         pc[t] \in InCall, Goto(t, l), UNCHANGED req
  PROVE  Calls' = Calls
BY DEF Calls, InCall, Goto, DetectorInv, TypeOK, VarTypes

\* Thread t's call ends, for a caller also when the thread goes on to a reset.
LEMMA CallEnds ==
  ASSUME DetectorInv, NEW t \in Threads, NEW l \in {"idle", "reset"},
         pc[t] \in InCall, Goto(t, l), UNCHANGED req
  PROVE  Calls[t] = req[t] /\ Calls[t] # Nobody /\ Calls' = [Calls EXCEPT ![t] = Nobody]
<1>1. req[t] \in Requests /\ req[t] # Nobody
  BY NobodyAssumption DEF InCall, DetectorInv, CallHasRequest
<1>2. l \notin InCall
  BY DEF InCall, Inside
<1>3. pc' = [pc EXCEPT ![t] = l] /\ pc \in [Threads -> {"idle", "entry", "reset"} \cup Inside]
  BY DEF Goto, DetectorInv, TypeOK, VarTypes
<1> QED
  BY <1>1, <1>2, <1>3 DEF Calls, InCall

\* Answers stay as they are unless a thread is about to be given its own.
LEMMA AnswersStay ==
  ASSUME DetectorInv, NEW t \in Threads, NEW l,
         pc[t] # "detect", l # "detect", Goto(t, l), UNCHANGED <<reply, engine>>
  PROVE  Answers' = Answers
BY DEF Answers, Goto, DetectorInv, TypeOK, VarTypes

\* A call that ends without a picture.
LEMMA ReturnsEmpty ==
  ASSUME DetectorInv, NEW t \in Threads, NEW l \in {"idle", "reset"},
         pc[t] \in InCall, pc[t] # "detect", Goto(t, l),
         UNCHANGED <<req, reply, engine, current_codec, has_received_keyframe>>
  PROVE  Service!Return(t)
<1>1. Answers' = Answers
  BY AnswersStay
<1> QED
  BY <1>1, CallEnds DEF Service!Return

\* A step within a call that its caller cannot see.
LEMMA HiddenStep ==
  ASSUME DetectorInv, NEW t \in Threads, NEW l \in InCall,
         pc[t] \in InCall, pc[t] # "detect", l # "detect", Goto(t, l),
         UNCHANGED <<req, reply, engine, current_codec, has_received_keyframe>>
  PROVE  UNCHANGED Service!vars
BY CallGoesOn, AnswersStay DEF Service!vars

LEMMA BeginStep ==
  ASSUME DetectorInv, NEW t \in Threads, DetectFaces(t)
  PROVE  Service!Begin(t)
<1>1. PICK r \in Requests : req' = [req EXCEPT ![t] = r]
  BY DEF DetectFaces
<1>2. /\ pc \in [Threads -> {"idle", "entry", "reset"} \cup Inside]
      /\ req \in [Threads -> Requests \cup {NoRequest}] /\ DOMAIN reply = Threads
  BY DEF DetectorInv, TypeOK, VarTypes
<1>3. /\ pc[t] = "idle" /\ pc' = [pc EXCEPT ![t] = "entry"]
      /\ reply' = [reply EXCEPT ![t] = Nobody]
      /\ UNCHANGED <<engine, current_codec, has_received_keyframe>>
  BY DEF DetectFaces, Goto, decoderState
<1>4. Calls[t] = Nobody /\ Calls' = [Calls EXCEPT ![t] = r]
  BY <1>1, <1>2, <1>3 DEF Calls, Inside
<1>5. Answers' = [Answers EXCEPT ![t] = Nobody]
  BY <1>2, <1>3 DEF Answers
<1> QED
  BY <1>1, <1>3, <1>4, <1>5 DEF Service!Begin

\* A decoder is needed exactly when the open one, if any, is for another codec.
LEMMA ReopenStep ==
  ASSUME DetectorInv, NEW t \in Threads, OpenDecoder(t) \/ OpenFails(t)
  PROVE  Service!Reopen(t)
<1>1. pc[t] = "init" /\ NeedsDecoder(t) /\ UNCHANGED <<req, reply, engine>>
  BY DEF OpenDecoder, OpenFails
<1>2. req[t] \in Requests /\ req[t].codec # NoCodec /\ req[t] # Nobody
  BY <1>1, RequestsAssumption, CodecsAssumption, NobodyAssumption
     DEF DetectorInv, CallHasRequest, Inside, Request
<1>3. current_codec # req[t].codec
  BY <1>1, <1>2 DEF NeedsDecoder, DetectorInv, TypeOK, FlagsAgree
<1>4. Calls[t] = req[t]
  BY <1>1 DEF Calls, Inside
<1>5. CASE OpenDecoder(t)
  <2>1. Goto(t, "gate") /\ current_codec' = req[t].codec /\ has_received_keyframe' = FALSE
    BY <1>5 DEF OpenDecoder, cleanupDecoder, MarkInitialized, ForgetKeyframe
  <2>2. Calls' = Calls
    BY <1>1, <2>1, CallGoesOn DEF InCall, Inside
  <2>3. Answers' = Answers
    BY <1>1, <2>1, AnswersStay
  <2> QED
    BY <1>2, <1>3, <1>4, <2>1, <2>2, <2>3 DEF Service!Reopen
<1>6. CASE OpenFails(t)
  <2>1. Goto(t, "idle") /\ current_codec' = NoCodec /\ has_received_keyframe' = FALSE
    BY <1>6 DEF OpenFails, ReturnUnlocked, cleanupDecoder, MarkInitialized, ForgetKeyframe
  <2>2. Calls' = [Calls EXCEPT ![t] = Nobody]
    BY <1>1, <2>1, CallEnds DEF InCall, Inside
  <2>3. Answers' = Answers
    BY <1>1, <2>1, AnswersStay
  <2> QED
    BY <1>2, <1>3, <1>4, <2>1, <2>2, <2>3 DEF Service!Reopen
<1> QED
  BY <1>5, <1>6

\* The picture that comes out is the call's own, and no other call is looking at
\* the input tensor it replaces.
LEMMA ShowStep ==
  ASSUME DetectorInv, NEW t \in Threads, ReceiveFrame(t)
  PROVE  Service!Show(t)
<1>1. /\ pc[t] = "receive" /\ decoder_ctx.pic # Nobody
      /\ engine' = decoder_ctx.pic
      /\ has_received_keyframe' = (has_received_keyframe \/ req[t].key)
      /\ Goto(t, "detect") /\ UNCHANGED <<req, reply, current_codec>>
  BY DEF ReceiveFrame
<1>2. decoder_ctx.pic \in Threads
  BY <1>1 DEF DetectorInv, TypeOK, VarTypes, Context, OptThread
<1>3. decoder_ctx.pic = t
  BY <1>1, <1>2 DEF DetectorInv, PictureIsOwn, MutexHeld, Inside
<1>4. has_received_keyframe \/ req[t].key
  BY <1>1 DEF DetectorInv, PacketIsOwn, MayDecode
<1>5. has_received_keyframe' = TRUE
  BY <1>1, <1>4, Zenon
<1>6. current_codec = req[t].codec
  BY <1>1 DEF DetectorInv, DecoderFitsCall, TypeOK, FlagsAgree
<1>7. Calls[t] = req[t] /\ req[t] # Nobody
  BY <1>1, NobodyAssumption DEF Calls, Inside, DetectorInv, CallHasRequest
<1>8. Calls' = Calls
  BY <1>1, CallGoesOn DEF InCall, Inside
<1>9. \A u \in Threads : u # t => pc[u] # "detect"
  BY <1>1, ThreadsAssumption DEF DetectorInv, MutexHeld, Inside
<1>10. Answers' = [Answers EXCEPT ![t] = t]
  BY <1>1, <1>3, <1>9 DEF Answers, Goto, DetectorInv, TypeOK, VarTypes, Inside
<1> QED
  BY <1>1, <1>4, <1>5, <1>6, <1>7, <1>8, <1>10 DEF Service!Show

LEMMA ReturnStep ==
  ASSUME DetectorInv, NEW t \in Threads, ProcessDecodedFrame(t)
  PROVE  Service!Return(t)
<1>1. /\ pc[t] = "detect" /\ Goto(t, "idle")
      /\ UNCHANGED <<req, engine, current_codec, has_received_keyframe>>
  BY DEF ProcessDecodedFrame, ReturnUnlocked, decoderState
<1>2. PICK p \in {engine, Nobody} : reply' = [reply EXCEPT ![t] = p]
  BY DEF ProcessDecodedFrame
<1>3. Calls[t] # Nobody /\ Calls' = [Calls EXCEPT ![t] = Nobody]
  BY <1>1, CallEnds DEF InCall, Inside
<1>4. Answers' = [Answers EXCEPT ![t] = p] /\ Answers[t] = engine
  BY <1>1, <1>2 DEF Answers, Goto, DetectorInv, TypeOK, VarTypes
<1>5. Answers' \in {Answers, [Answers EXCEPT ![t] = Nobody]}
  BY <1>2, <1>4 DEF Answers
<1> QED
  BY <1>1, <1>3, <1>5 DEF Service!Return

\* reset_detector is no call; the flush is what others see of it.
LEMMA ResetStep ==
  ASSUME DetectorInv, NEW t \in Threads, ResetDetector(t) \/ ResetDecoder(t)
  PROVE  Service!Flush \/ UNCHANGED Service!vars
<1>1. /\ pc[t] \in {"idle", "reset"} /\ (Goto(t, "reset") \/ Goto(t, "idle"))
      /\ UNCHANGED <<req, reply, engine, current_codec>>
  BY DEF ResetDetector, ResetDecoder, decoderState
<1>2. has_received_keyframe' \in {has_received_keyframe, FALSE}
  BY DEF ResetDetector, ResetDecoder, ForgetKeyframe, decoderState
<1>3. Calls' = Calls
  BY <1>1 DEF Calls, Goto, Inside, DetectorInv, TypeOK, VarTypes
<1>4. Answers' = Answers
  BY <1>1, AnswersStay
<1> QED
  BY <1>1, <1>2, <1>3, <1>4 DEF Service!Flush, Service!vars

\* Each step of a thread is one of the service or none.
LEMMA ServiceStep == DetectorInv /\ [Next]_vars => [Service!Next]_(Service!vars)
<1> SUFFICES ASSUME DetectorInv, [Next]_vars PROVE [Service!Next]_(Service!vars)
  OBVIOUS
<1> USE DEF InCall, Inside, ReturnUnlocked, decoderState
<1>1. ASSUME NEW t \in Threads,
             \/ RejectSize(t) \/ AwaitKeyframe(t) \/ PacketFails(t) \/ SendFails(t)
             \/ ReceiveAgain(t) \/ ReceiveFails(t)
      PROVE  Service!Return(t)
  <2>1. /\ pc[t] \in InCall /\ pc[t] # "detect"
        /\ UNCHANGED <<req, reply, engine, current_codec, has_received_keyframe>>
    BY <1>1 DEF RejectSize, AwaitKeyframe, PacketFails, SendFails, ReceiveAgain,
                ReceiveFails
  <2>2. Goto(t, "idle") \/ Goto(t, "reset")
    BY <1>1 DEF RejectSize, AwaitKeyframe, PacketFails, SendFails, ReceiveAgain,
                ReceiveFails
  <2> QED
    BY <2>1, <2>2, ReturnsEmpty
<1>2. ASSUME NEW t \in Threads,
             Lock(t) \/ KeepDecoder(t) \/ FillPacket(t) \/ SendPacket(t)
      PROVE  UNCHANGED Service!vars
  <2>1. /\ pc[t] \in InCall /\ pc[t] # "detect"
        /\ UNCHANGED <<req, reply, engine, current_codec, has_received_keyframe>>
    BY <1>2 DEF Lock, KeepDecoder, FillPacket, SendPacket
  <2>2. \E l \in {"init", "gate", "send", "receive"} : Goto(t, l)
    BY <1>2 DEF Lock, KeepDecoder, FillPacket, SendPacket
  <2> QED
    BY <2>1, <2>2, HiddenStep
<1>3. ASSUME UNCHANGED vars PROVE UNCHANGED Service!vars
  BY <1>3 DEF vars, Service!vars, Calls, Answers
<1> QED
  BY <1>1, <1>2, <1>3, BeginStep, ReopenStep, ShowStep, ReturnStep, ResetStep
     DEF Next, Step, Service!Next

\* The service with its mutex, its shared decoder and its steps is, to its
\* callers, the one of DetectionService: faces of the call's own frame or none,
\* from a decoder for its codec that has shown a keyframe
\* (face_detection.cpp:866-943).
THEOREM Refinement == Spec => ImplementsService
<1>1. Init => Service!Init
  BY DEF Init, Service!Init, Calls, Answers, Inside
<1>2. DetectorInv /\ [Next]_vars => [Service!Next]_(Service!vars)
  BY ServiceStep
<1> QED
  BY <1>1, <1>2, Invariance, PTL DEF Spec, Service!Spec, ImplementsService
=============================================================================
