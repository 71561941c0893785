---------------------------- MODULE FaceDetector ----------------------------
(* The gRPC face-detection service: every DetectFaces call runs on a handler *)
(* thread of the server and goes through the one FaceDetector object the      *)
(* service owns (inference/face_detection_server.cpp, face_detection.cpp).    *)
(* decoder_mutex serialises the calls; the FFmpeg context, packet and frame   *)
(* and the TFLite engine are shared by all of them.                           *)
(*                                                                            *)
(* The steps of processFrame that touch shared state are separate actions, so *)
(* what the mutex protects is visible.  FFmpeg is external: what it answers   *)
(* to a packet is a choice, its reference picture is decoder_ctx.ref.         *)
EXTENDS Integers

CONSTANTS Threads,      \* handler threads of the gRPC server
          ApiThreads,   \* threads that may call the C entry reset_detector
          Requests,     \* the requests clients send
          Codecs,       \* codec strings of those requests ("VP8", "RAW")
          NoCodec,      \* the empty current_codec
          Nobody,       \* no thread
          FailLimit,    \* failures tolerated before a reset: 5 in the code
          MaxErrors     \* bound: FFmpeg and allocation errors of a behaviour

Lengths == {"empty", "fits", "oversized"}

Request == [codec : Codecs, key : BOOLEAN, len : Lengths]

\* A handler thread that has served nothing yet.
NoRequest == [codec |-> NoCodec, key |-> FALSE, len |-> "empty"]

ASSUME ThreadsAssumption == Nobody \notin Threads /\ ApiThreads \subseteq Threads
ASSUME RequestsAssumption == Requests \subseteq Request
ASSUME CodecsAssumption == NoCodec \notin Codecs
ASSUME NobodyAssumption == Nobody \notin Requests
ASSUME BoundsAssumption == FailLimit \in Nat /\ MaxErrors \in Nat

VARIABLES
  pc,                    \* where each handler thread is
  req,                   \* the request each thread serves
  reply,                 \* whose picture the faces of the answer come from
  lock,                  \* holder of decoder_mutex
  decoder_ctx,           \* FFmpeg context: codec, reference, decoded picture
  packet,                \* thread whose frame is in the shared AVPacket
  engine,                \* thread whose picture is the TFLite input tensor
  decoder_initialized, current_codec, has_received_keyframe,
  consecutive_failures,
  errors                 \* errors injected so far (bounded by MaxErrors)

decoderState == <<decoder_ctx, packet, decoder_initialized, current_codec,
                  has_received_keyframe, consecutive_failures>>
vars == <<pc, req, reply, lock, engine, errors, decoder_ctx, packet,
          decoder_initialized, current_codec, has_received_keyframe,
          consecutive_failures>>

OptThread == Threads \cup {Nobody}
OptCodec  == Codecs \cup {NoCodec}

\* A context that is not open has the codec NoCodec.
Context   == [codec : OptCodec, ref : BOOLEAN, pic : OptThread]
NewContext(c) == [codec |-> c, ref |-> FALSE, pic |-> Nobody]

Init == /\ pc = [t \in Threads |-> "idle"]
        /\ req = [t \in Threads |-> NoRequest]
        /\ reply = [t \in Threads |-> Nobody]
        /\ lock = Nobody
        /\ decoder_ctx = NewContext(NoCodec)
        /\ packet = Nobody
        /\ engine = Nobody
        /\ decoder_initialized = FALSE
        /\ current_codec = NoCodec
        /\ has_received_keyframe = FALSE
        /\ consecutive_failures = 0
        /\ errors = 0
-----------------------------------------------------------------------------
Goto(t, l) == pc' = [pc EXCEPT ![t] = l]

\* return from processFrame: the lock_guard releases decoder_mutex.
ReturnUnlocked(t) == Goto(t, "idle") /\ lock' = Nobody

Error == errors < MaxErrors /\ errors' = errors + 1

\* Mutant of Acquire: processFrame without its lock_guard.
AcquireNothing(t) == lock' = t

Acquire(t) == lock = Nobody /\ lock' = t

\* Mutant of NeedsDecoder: the codec string is compared only once.
NeedsFirstDecoder(t) == ~decoder_initialized

NeedsDecoder(t) == ~decoder_initialized \/ current_codec # req[t].codec

\* Mutant of MayDecode: no waiting for a keyframe.
DecodesAll(t) == TRUE

MayDecode(t) == has_received_keyframe \/ req[t].key

\* Mutant of TooMany: the reset comes one failure early.
TooManyEarly(n) == n >= FailLimit

TooMany(n) == n > FailLimit

\* Mutant of MarkInitialized: set before initializeDecoder has succeeded.
MarkAnyway(c) == decoder_initialized' = TRUE /\ current_codec' = c

MarkInitialized(c) == decoder_initialized' = (c # NoCodec) /\ current_codec' = c

\* Mutant of ForgetKeyframe: the flag survives the context it was set for.
RememberKeyframe == UNCHANGED has_received_keyframe

ForgetKeyframe == has_received_keyframe' = FALSE

\* DetectFaces is entered; the response starts out without faces.
DetectFaces(t) ==
  /\ pc[t] = "idle"
  /\ \E r \in Requests : req' = [req EXCEPT ![t] = r]
  /\ reply' = [reply EXCEPT ![t] = Nobody]
  /\ Goto(t, "entry")
  /\ UNCHANGED <<lock, engine, errors, decoderState>>

\* An empty frame is answered by the handler, one above 200000 bytes by
\* processFrame, both with an OK response and before the mutex.
RejectSize(t) ==
  /\ pc[t] = "entry"
  /\ req[t].len # "fits"
  /\ Goto(t, "idle")
  /\ UNCHANGED <<req, reply, lock, engine, errors, decoderState>>

Lock(t) ==
  /\ pc[t] = "entry"
  /\ req[t].len = "fits"
  /\ Acquire(t)
  /\ Goto(t, "init")
  /\ UNCHANGED <<req, reply, engine, errors, decoderState>>

KeepDecoder(t) ==
  /\ pc[t] = "init"
  /\ ~NeedsDecoder(t)
  /\ Goto(t, "gate")
  /\ UNCHANGED <<req, reply, lock, engine, errors, decoderState>>

\* cleanupDecoder: packet, frame and context are freed, the flags cleared.
\* c is what current_codec and the context are opened for afterwards.
cleanupDecoder(c) ==
  /\ decoder_ctx' = NewContext(c)
  /\ packet' = Nobody
  /\ MarkInitialized(c)
  /\ ForgetKeyframe
  /\ consecutive_failures' = 0

OpenDecoder(t) ==
  /\ pc[t] = "init"
  /\ NeedsDecoder(t)
  /\ cleanupDecoder(req[t].codec)
  /\ Goto(t, "gate")
  /\ UNCHANGED <<req, reply, lock, engine, errors>>

\* initializeDecoder fails at any of its steps; what it had built is freed.
OpenFails(t) ==
  /\ pc[t] = "init"
  /\ NeedsDecoder(t)
  /\ Error
  /\ cleanupDecoder(NoCodec)
  /\ ReturnUnlocked(t)
  /\ UNCHANGED <<req, reply, engine>>

AwaitKeyframe(t) ==
  /\ pc[t] = "gate"
  /\ ~MayDecode(t)
  /\ ReturnUnlocked(t)
  /\ UNCHANGED <<req, reply, engine, errors, decoderState>>

FillPacket(t) ==
  /\ pc[t] = "gate"
  /\ MayDecode(t)
  /\ packet' = t
  /\ Goto(t, "send")
  /\ UNCHANGED <<req, reply, lock, engine, errors, decoder_ctx,
                 decoder_initialized, current_codec, has_received_keyframe,
                 consecutive_failures>>

\* av_packet_unref emptied the packet, av_new_packet fails; no reset here.
PacketFails(t) ==
  /\ pc[t] = "gate"
  /\ MayDecode(t)
  /\ Error
  /\ packet' = Nobody
  /\ consecutive_failures' = consecutive_failures + 1
  /\ ReturnUnlocked(t)
  /\ UNCHANGED <<req, reply, engine, decoder_ctx, decoder_initialized,
                 current_codec, has_received_keyframe>>

KeyPacket == packet # Nobody /\ req[packet].key

\* avcodec_send_packet accepts the packet: a keyframe gives the context a
\* reference, and there is a picture to fetch unless the frame is not shown.
SendPacket(t) ==
  /\ pc[t] = "send"
  /\ \E p \in {packet, Nobody} :
       decoder_ctx' = [decoder_ctx EXCEPT !.ref = @ \/ KeyPacket, !.pic = p]
  /\ Goto(t, "receive")
  /\ UNCHANGED <<req, reply, lock, engine, errors, packet, decoder_initialized,
                 current_codec, has_received_keyframe, consecutive_failures>>

\* The packet is refused.  The sixth failure in a row calls resetDecoder
\* with decoder_mutex still held by this call.
SendFails(t) ==
  /\ pc[t] = "send"
  /\ Error
  /\ consecutive_failures' = consecutive_failures + 1
  /\ IF TooMany(consecutive_failures')
       THEN Goto(t, "reset") /\ UNCHANGED lock
       ELSE ReturnUnlocked(t)
  /\ UNCHANGED <<req, reply, engine, decoder_ctx, packet, decoder_initialized,
                 current_codec, has_received_keyframe>>

ReceiveFrame(t) ==
  /\ pc[t] = "receive"
  /\ decoder_ctx.pic # Nobody
  /\ engine' = decoder_ctx.pic
  /\ decoder_ctx' = [decoder_ctx EXCEPT !.pic = Nobody]
  /\ has_received_keyframe' = (has_received_keyframe \/ req[t].key)
  /\ consecutive_failures' = 0
  /\ Goto(t, "detect")
  /\ UNCHANGED <<req, reply, lock, errors, packet, decoder_initialized,
                 current_codec>>

\* EAGAIN: nothing to show for this packet; the failure count stays.
ReceiveAgain(t) ==
  /\ pc[t] = "receive"
  /\ decoder_ctx.pic = Nobody
  /\ ReturnUnlocked(t)
  /\ UNCHANGED <<req, reply, engine, errors, decoderState>>

\* Any other error: the picture is lost; the failure count stays here too.
ReceiveFails(t) ==
  /\ pc[t] = "receive"
  /\ Error
  /\ decoder_ctx' = [decoder_ctx EXCEPT !.pic = Nobody]
  /\ ReturnUnlocked(t)
  /\ UNCHANGED <<req, reply, engine, packet, decoder_initialized,
                 current_codec, has_received_keyframe, consecutive_failures>>

\* processDecodedFrame: the engine's output becomes the answer; the conversion
\* of the picture or the engine may fail, which leaves the answer empty.
ProcessDecodedFrame(t) ==
  /\ pc[t] = "detect"
  /\ \E p \in {engine, Nobody} : reply' = [reply EXCEPT ![t] = p]
  /\ ReturnUnlocked(t)
  /\ UNCHANGED <<req, engine, errors, decoderState>>

\* The C entry reset_detector, on a thread that is in no call.
ResetDetector(t) ==
  /\ t \in ApiThreads
  /\ pc[t] = "idle"
  /\ Goto(t, "reset")
  /\ UNCHANGED <<req, reply, lock, engine, errors, decoderState>>

\* resetDecoder locks decoder_mutex itself.  A std::mutex its own thread
\* holds already blocks that thread: lock = t does not pass the guard.
ResetDecoder(t) ==
  /\ pc[t] = "reset"
  /\ lock = Nobody
  /\ IF decoder_ctx.codec # NoCodec
       THEN /\ decoder_ctx' = NewContext(decoder_ctx.codec)
            /\ ForgetKeyframe
            /\ consecutive_failures' = 0
       ELSE UNCHANGED <<decoder_ctx, has_received_keyframe,
                        consecutive_failures>>
  /\ Goto(t, "idle")
  /\ UNCHANGED <<req, reply, lock, engine, errors, packet,
                 decoder_initialized, current_codec>>
-----------------------------------------------------------------------------
\* The steps a thread that is in a call takes.
Step(t) == \/ RejectSize(t) \/ Lock(t) \/ KeepDecoder(t) \/ OpenDecoder(t)
           \/ OpenFails(t) \/ AwaitKeyframe(t) \/ FillPacket(t)
           \/ PacketFails(t) \/ SendPacket(t) \/ SendFails(t)
           \/ ReceiveFrame(t) \/ ReceiveAgain(t) \/ ReceiveFails(t)
           \/ ProcessDecodedFrame(t) \/ ResetDecoder(t)

Next == \E t \in Threads : DetectFaces(t) \/ ResetDetector(t) \/ Step(t)

Spec == Init /\ [][Next]_vars

\* The operating system keeps running a thread that can run; it promises no
\* order among the threads that wait for decoder_mutex.
FairSpec == Spec /\ \A t \in Threads : WF_vars(Step(t))
-----------------------------------------------------------------------------
Inside == {"init", "gate", "send", "receive", "detect"}

VarTypes ==
  /\ pc \in [Threads -> {"idle", "entry", "reset"} \cup Inside]
          /\ req \in [Threads -> Requests \cup {NoRequest}]
          /\ reply \in [Threads -> OptThread]
          /\ lock \in OptThread
          /\ decoder_ctx \in Context
          /\ packet \in OptThread
          /\ engine \in OptThread
          /\ decoder_initialized \in BOOLEAN
          /\ current_codec \in OptCodec
          /\ has_received_keyframe \in BOOLEAN
          /\ consecutive_failures \in Nat
          /\ errors \in 0..MaxErrors

\* decoder_initialized, current_codec and the FFmpeg context say the same.
FlagsAgree ==
  /\ decoder_initialized = (decoder_ctx.codec # NoCodec)
  /\ current_codec = decoder_ctx.codec

TypeOK == VarTypes /\ FlagsAgree

\* The faces of an answer were found in the picture of the frame that was sent
\* with that very request: no other call's packet, picture or input tensor gets
\* in between (face_detection.cpp:879, the lock_guard of processFrame).
AnswersOwnFrame == \A t \in Threads : reply[t] \in {t, Nobody}

\* An inter-frame goes to the decoder only when the context holds a reference
\* picture: has_received_keyframe never outlives the context or the flush it was
\* set for (face_detection.cpp:892-895 with 648-675 and 934-936).
PFrameHasReference ==
  \A t \in Threads : pc[t] = "send" /\ ~req[t].key => decoder_ctx.ref

\* While a call talks to the decoder, the open context is one for the codec
\* string of that call (face_detection.cpp:882-889).
DecoderFitsCall ==
  \A t \in Threads : pc[t] \in {"gate", "send", "receive"} =>
                       decoder_ctx.codec = req[t].codec

\* Whoever holds decoder_mutex gives it back, on every path through processFrame
\* (face_detection.cpp:879-943), as long as failures stay within FailLimit.
HolderReleases == \A t \in Threads : lock = t ~> lock # t


\* The strengthening that makes the three invariants above inductive: mutual
\* exclusion, and what the shared decoder objects hold at each step of a call.
CallHasRequest ==
  \A t \in Threads : pc[t] \in {"entry"} \cup Inside => req[t] \in Requests
MutexHeld == \A t \in Threads : pc[t] \in Inside => lock = t
PacketIsOwn ==
  \A t \in Threads : pc[t] \in {"send", "receive"} =>
                       packet = t /\ MayDecode(t)
PictureIsOwn ==
  /\ decoder_ctx.pic # Nobody => pc[decoder_ctx.pic] = "receive"
  /\ \A t \in Threads : pc[t] = "detect" => engine = t
FlagHasReference ==
  /\ has_received_keyframe => decoder_ctx.ref
  /\ \A t \in Threads : pc[t] = "receive" /\ req[t].key => decoder_ctx.ref

DetectorInv == /\ TypeOK /\ CallHasRequest /\ MutexHeld
               /\ DecoderFitsCall /\ PacketIsOwn /\ PictureIsOwn
               /\ FlagHasReference /\ AnswersOwnFrame

\* What the service's callers see: the request of each call under way, and the
\* picture the faces of its answer are from.
Calls == [t \in Threads |-> IF pc[t] \in {"entry"} \cup Inside THEN req[t] ELSE Nobody]
Answers == [t \in Threads |-> IF pc[t] = "detect" THEN engine ELSE reply[t]]

Service == INSTANCE DetectionService WITH
  Nothing <- Nobody,
  call    <- Calls,
  answer  <- Answers,
  codec   <- current_codec,
  keyed   <- has_received_keyframe

\* processFrame under its mutex implements the service without one.
ImplementsService == Service!Spec
=============================================================================
