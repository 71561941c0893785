---------------------------- MODULE FramePipeline ----------------------------
(* The ingest worker's way from the video track to the data channel           *)
(* (ingest/main.go): handleOffer and initializeWebRTC on the signaling        *)
(* goroutine, one processVP8Track loop per session, one processEncodedFrame   *)
(* goroutine per frame, and pion's callbacks.  frameMutex protects the map of *)
(* frames in processing and its counter in processEncodedFrame only; every    *)
(* other access to the worker's fields is unsynchronised.                     *)
(*                                                                            *)
(* A session is the life of one peer connection; sessions are numbered by the *)
(* offers.  The assembler (VP8FrameAssembler.tla) is a source of frames here, *)
(* the gRPC call either answers or fails, at the latest at its 15 s timeout.  *)
EXTENDS Integers, FiniteSets

CONSTANTS Jobs,        \* goroutines of processEncodedFrame
          Nobody,      \* no goroutine
          MaxSessions, \* bound: offers handled
          MaxFrames,   \* bound: frames the assembler hands out
          MaxDrops,    \* bound: disconnections of peer connections
          Limit,       \* frames in processing that still admit one: 2
          SkipEvery,   \* framesToSkip: 30 / 5 = 6
          Interval     \* ticks in 1 s / framesPerSecond

ASSUME JobsAssumption == IsFiniteSet(Jobs) /\ Nobody \notin Jobs
ASSUME BoundsAssumption ==
  /\ MaxSessions \in Nat \ {0} /\ MaxFrames \in Nat /\ MaxDrops \in Nat
  /\ Limit \in Nat /\ SkipEvery \in Nat \ {0} /\ Interval \in Nat

Sessions == 1..MaxSessions

VARIABLES
  session,           \* offers handled; the current session, 0 before the first
  offer,             \* signaling goroutine: "listening" or "replacing"
  peer,              \* peer[s]: state of the connection of session s
  notices,           \* disconnect handlers pion has started, not yet run
  announced,         \* sessions whose data channel pion has announced
  drops,             \* disconnections so far
  streamActive,
  track,             \* track[s]: the processVP8Track loop of session s
  skip,              \* skip[s]: its frameSkipCounter
  frames,            \* frames handed out so far
  dataChannel,       \* session of w.dataChannel, 0 for nil
  job,               \* job[j]: where goroutine j is, and its locals
  frameMutex, processingFrames, frameCounter,
  sinceLast,         \* ticks since lastProcessTime, counted up to Interval
  results            \* (session of the frame, session of the channel) sent

sessionVars == <<session, offer, peer, notices, announced, drops>>
trackVars   == <<streamActive, track, skip, frames>>
frameVars   == <<frameMutex, processingFrames, frameCounter, sinceLast>>
vars == <<session, offer, peer, notices, announced, drops, streamActive, track,
          skip, frames, dataChannel, job, frameMutex, processingFrames,
          frameCounter, sinceLast, results>>

IdleJob == [pc |-> "idle", key |-> FALSE, origin |-> 0, id |-> 0]

Init == /\ session = 0
        /\ offer = "listening"
        /\ peer = [s \in Sessions |-> "none"]
        /\ notices = {}
        /\ announced = {}
        /\ drops = 0
        /\ streamActive = FALSE
        /\ track = [s \in Sessions |-> "none"]
        /\ skip = [s \in Sessions |-> 0]
        /\ frames = 0
        /\ dataChannel = 0
        /\ job = [j \in Jobs |-> IdleJob]
        /\ frameMutex = Nobody
        /\ processingFrames = {}
        /\ frameCounter = 0
        /\ sinceLast = Interval
        /\ results = {}
-----------------------------------------------------------------------------
\* A panic in one goroutine ends the process: nobody runs any more.
Panicked == \E j \in Jobs : job[j].pc = "panic"
Running(S) == IF Panicked THEN {} ELSE S

(* Sessions *)

\* Mutant of ClosePeers: the connection there is stays open.
KeepPeers == UNCHANGED peer

ClosePeers ==
  peer' = [s \in Sessions |-> IF peer[s] = "none" THEN "none" ELSE "closed"]

\* handleOffer closes the connection there is and forgets its data channel.
HandleOffer ==
  /\ ~Panicked
  /\ offer = "listening"
  /\ session < MaxSessions
  /\ offer' = "replacing"
  /\ ClosePeers
  /\ dataChannel' = 0
  /\ UNCHANGED <<session, notices, announced, drops, trackVars, job, frameVars, results>>

\* initializeWebRTC: a new connection, and the stream and frame fields reset,
\* without frameMutex and whatever goroutines of the old session still run.  That
\* it can fail is in Negotiation (OfferFails).
InitializeWebRTC ==
  /\ ~Panicked
  /\ offer = "replacing"
  /\ offer' = "listening"
  /\ session' = session + 1
  /\ peer' = [peer EXCEPT ![session + 1] = "connected"]
  /\ streamActive' = FALSE
  /\ processingFrames' = {}
  /\ frameCounter' = 0
  /\ sinceLast' = 0
  /\ UNCHANGED <<notices, announced, drops, track, skip, frames, dataChannel, job,
                 frameMutex, results>>

\* pion: the connection is lost for a while; the handler runs in a goroutine.
Disconnect(s) ==
  /\ peer[s] = "connected"
  /\ drops < MaxDrops
  /\ drops' = drops + 1
  /\ peer' = [peer EXCEPT ![s] = "disconnected"]
  /\ notices' = notices \cup {s}
  /\ UNCHANGED <<session, offer, announced, trackVars, dataChannel, job,
                 frameVars, results>>

\* OnConnectionStateChange, Disconnected or Failed, for any session's
\* connection: it stops whatever stream is active.
OnDisconnected(s) ==
  /\ s \in notices
  /\ notices' = notices \ {s}
  /\ streamActive' = FALSE
  /\ UNCHANGED <<session, offer, peer, announced, drops, track, skip, frames,
                 dataChannel, job, frameVars, results>>

\* ICE recovers by itself; the handler only logs Connected.
Reconnect(s) ==
  /\ peer[s] = "disconnected"
  /\ peer' = [peer EXCEPT ![s] = "connected"]
  /\ UNCHANGED <<session, offer, notices, announced, drops, trackVars,
                 dataChannel, job, frameVars, results>>

\* pion runs OnDataChannel and OnTrack in goroutines of its own, which may be
\* late: the connection can be closed by then.
OnDataChannel(s) ==
  /\ peer[s] # "none"
  /\ s \notin announced
  /\ announced' = announced \cup {s}
  /\ dataChannel' = s
  /\ UNCHANGED <<session, offer, peer, notices, drops, trackVars, job, frameVars,
                 results>>
-----------------------------------------------------------------------------
(* The track loop *)

OnTrack(s) ==
  /\ peer[s] # "none"
  /\ track[s] = "none"
  /\ streamActive' = TRUE
  /\ track' = [track EXCEPT ![s] = "reading"]
  /\ UNCHANGED <<sessionVars, skip, frames, dataChannel, job, frameVars, results>>

\* Mutant of LoopEnds: a read error is retried instead of ending the loop.
LoopEndsOnFlag(s) == ~streamActive

\* The loop condition, or the error of ReadRTP on a closed connection.
LoopEnds(s) == ~streamActive \/ peer[s] = "closed"

ExitLoop(s) ==
  /\ track[s] = "reading"
  /\ LoopEnds(s)
  /\ track' = [track EXCEPT ![s] = "ended"]
  /\ UNCHANGED <<sessionVars, streamActive, skip, frames, dataChannel, job,
                 frameVars, results>>

\* The assembler hands out a frame; packets that came before the connection
\* was lost or closed can still be read.
NextFrame(s) ==
  /\ track[s] = "reading"
  /\ streamActive
  /\ frames < MaxFrames
  /\ frames' = frames + 1
  /\ UNCHANGED <<sessionVars, streamActive, track, dataChannel, frameVars, results>>

\* go processEncodedFrame: a keyframe starts behind the rate limit.
Spawn(s, j, keyframe) ==
  /\ job[j].pc = "idle"
  /\ job' = [job EXCEPT ![j] = [pc |-> IF keyframe THEN "admit" ELSE "rate",
                                key |-> keyframe, origin |-> s, id |-> 0]]

KeyFrame(s, j) == /\ NextFrame(s)
                  /\ Spawn(s, j, TRUE)
                  /\ UNCHANGED skip

SkipPFrame(s) == /\ NextFrame(s)
                 /\ skip[s] + 1 < SkipEvery
                 /\ skip' = [skip EXCEPT ![s] = @ + 1]
                 /\ UNCHANGED job

TakePFrame(s, j) == /\ NextFrame(s)
                    /\ skip[s] + 1 >= SkipEvery
                    /\ skip' = [skip EXCEPT ![s] = 0]
                    /\ Spawn(s, j, FALSE)
-----------------------------------------------------------------------------
(* processEncodedFrame *)

Move(j, l) == job' = [job EXCEPT ![j].pc = l]

\* The goroutine returns; its locals are gone.
Finish(j) == job' = [job EXCEPT ![j] = IdleJob]

\* now.Sub(lastProcessTime) is read without the mutex.
RateLimit(j) ==
  /\ job[j].pc = "rate"
  /\ IF sinceLast < Interval THEN Finish(j) ELSE Move(j, "admit")
  /\ UNCHANGED <<sessionVars, trackVars, dataChannel, frameVars, results>>

\* Mutant of Full: one frame too many is admitted.
FullLate == Cardinality(processingFrames) > Limit + 1

Full == Cardinality(processingFrames) > Limit

Drop(j) ==
  /\ job[j].pc = "admit"
  /\ frameMutex = Nobody
  /\ Full
  /\ Finish(j)
  /\ UNCHANGED <<sessionVars, trackVars, dataChannel, frameVars, results>>

\* Mutant of LockFrames: no frameMutex.
LockNothing(j) == UNCHANGED frameMutex

LockFrames(j) == frameMutex = Nobody /\ frameMutex' = j

Admit(j) ==
  /\ job[j].pc = "admit"
  /\ ~Full
  /\ LockFrames(j)
  /\ Move(j, "count")
  /\ UNCHANGED <<sessionVars, trackVars, dataChannel, processingFrames,
                 frameCounter, sinceLast, results>>

CountFrame(j) ==
  /\ job[j].pc = "count"
  /\ frameCounter' = frameCounter + 1
  /\ Move(j, "insert")
  /\ UNCHANGED <<sessionVars, trackVars, dataChannel, frameMutex,
                 processingFrames, sinceLast, results>>

\* The counter is read again for the id; map, time and unlock.
InsertFrame(j) ==
  /\ job[j].pc = "insert"
  /\ job' = [job EXCEPT ![j].pc = "call", ![j].id = frameCounter]
  /\ processingFrames' = processingFrames \cup {frameCounter}
  /\ sinceLast' = 0
  /\ frameMutex' = Nobody
  /\ UNCHANGED <<sessionVars, trackVars, dataChannel, frameCounter, results>>

\* Mutant of AfterError: the error path leaves without its deferred delete.
ForgetDefer(j) == Finish(j)

\* return with the deferred delete pending.
AfterError(j) == Move(j, "release")

DetectionFails(j) ==
  /\ job[j].pc = "call"
  /\ AfterError(j)
  /\ UNCHANGED <<sessionVars, trackVars, dataChannel, frameVars, results>>

DetectionAnswers(j) ==
  /\ job[j].pc = "call"
  /\ Move(j, "check")
  /\ UNCHANGED <<sessionVars, trackVars, dataChannel, frameVars, results>>

\* w.dataChannel != nil: the field is read again for ReadyState and Send.
CheckChannel(j) ==
  /\ job[j].pc = "check"
  /\ Move(j, IF dataChannel = 0 THEN "release" ELSE "send")
  /\ UNCHANGED <<sessionVars, trackVars, dataChannel, frameVars, results>>

\* The channel found there now; when it has become nil the call panics, and
\* with it the worker process.
SendResult(j) ==
  /\ job[j].pc = "send"
  /\ IF dataChannel = 0
       THEN Move(j, "panic") /\ UNCHANGED results
       ELSE /\ Move(j, "release")
            /\ results' = IF peer[dataChannel] = "closed" THEN results
                          ELSE results \cup {<<job[j].origin, dataChannel>>}
  /\ UNCHANGED <<sessionVars, trackVars, dataChannel, frameVars>>

\* The deferred delete, on the map the worker has now.
Release(j) ==
  /\ job[j].pc = "release"
  /\ frameMutex = Nobody
  /\ processingFrames' = processingFrames \ {job[j].id}
  /\ Finish(j)
  /\ UNCHANGED <<sessionVars, trackVars, dataChannel, frameMutex, frameCounter,
                 sinceLast, results>>

Tick == /\ sinceLast < Interval
        /\ sinceLast' = sinceLast + 1
        /\ UNCHANGED <<sessionVars, trackVars, dataChannel, job, frameMutex,
                       processingFrames, frameCounter, results>>
-----------------------------------------------------------------------------
JobStep(j) == \/ RateLimit(j) \/ Drop(j) \/ Admit(j) \/ CountFrame(j)
              \/ InsertFrame(j) \/ DetectionFails(j) \/ DetectionAnswers(j)
              \/ CheckChannel(j) \/ SendResult(j) \/ Release(j)

Next == \/ HandleOffer \/ InitializeWebRTC \/ Tick
        \/ \E s \in Running(Sessions) :
             \/ Disconnect(s) \/ OnDisconnected(s) \/ Reconnect(s)
             \/ OnDataChannel(s) \/ OnTrack(s) \/ ExitLoop(s) \/ SkipPFrame(s)
             \/ \E j \in Jobs : KeyFrame(s, j) \/ TakePFrame(s, j)
        \/ \E j \in Running(Jobs) : JobStep(j)

Spec == Init /\ [][Next]_vars

\* The Go scheduler runs every goroutine that can run, and a gRPC call ends at
\* its timeout; sync.Mutex hands a waiter the lock in the end (starvation mode).
FairSpec == /\ Spec
            /\ \A j \in Jobs : /\ WF_vars(~Panicked /\ JobStep(j))
                               /\ SF_vars(~Panicked /\ Release(j))
            /\ \A s \in Sessions : WF_vars(~Panicked /\ ExitLoop(s))
-----------------------------------------------------------------------------
Admitted == {"call", "check", "send", "release", "panic"}
Holding  == {"count", "insert"}
InFlight == {j \in Jobs : job[j].pc \in Admitted}

Label    == {"idle", "rate", "admit"} \cup Holding \cup Admitted

Job == [pc : Label, key : BOOLEAN, origin : 0..MaxSessions, id : Nat]

\* Types; frameMutex is held by the goroutine between its lock and unlock.
TypeOK == /\ session \in 0..MaxSessions
          /\ offer \in {"listening", "replacing"}
          /\ peer \in [Sessions -> {"none", "connected", "disconnected", "closed"}]
          /\ notices \subseteq Sessions
          /\ announced \subseteq Sessions
          /\ drops \in 0..MaxDrops
          /\ streamActive \in BOOLEAN
          /\ track \in [Sessions -> {"none", "reading", "ended"}]
          /\ skip \in [Sessions -> 0..SkipEvery]
          /\ frames \in 0..MaxFrames
          /\ dataChannel \in 0..MaxSessions
          /\ job \in [Jobs -> Job]
          /\ frameMutex \in Jobs \cup {Nobody}
          /\ processingFrames \subseteq Nat
          /\ frameCounter \in Nat
          /\ sinceLast \in 0..Interval
          /\ results \subseteq Sessions \X Sessions
          /\ \A j \in Jobs : job[j].pc \in Holding => frameMutex = j

\* Each replaced session can leave Limit + 1 calls behind that the new map does
\* not know, and no more, although old goroutines delete entries of the new map
\* (ingest/main.go:1461, 1712-1726).
InFlightBound == Cardinality(InFlight) <= (Limit + 1) * session

\* As long as there has been one session, goroutines at the detector never
\* share an id, so that none frees the slot of another; the resets of map and
\* counter for a new session end that (ingest/main.go:1716-1726).
IdsDistinct ==
  session <= 1 => \A i, j \in InFlight : job[i].id = job[j].id => i = j

\* The result of a frame may reach the client of a later session, but never one
\* of an earlier session, although stale goroutines, late callbacks and the
\* signaling goroutine all use w.dataChannel (ingest/main.go:1517, 1543-1547,
\* 1763-1770).
ResultsNeverGoBack == \A r \in results : r[1] <= r[2]

(* What the proofs need beside the types (FramePipelineProofs). *)

\* Only the current session's connection can be open, until an offer replaces it.
OnlyCurrentIsUp ==
  \A s \in Sessions : peer[s] \in {"connected", "disconnected"} =>
                         s = session /\ offer = "listening"

\* Whatever refers to a session refers to one that has begun.
SessionsBegun ==
  /\ offer = "replacing" => session < MaxSessions
  /\ \A s \in Sessions : s > session => peer[s] = "none"
  /\ \A s \in Sessions : track[s] # "none" => peer[s] # "none"
  /\ dataChannel # 0 => peer[dataChannel] # "none"
  /\ \A j \in Jobs : job[j].pc # "idle" => job[j].origin \in 1..session

\* The counter that InsertFrame will read is not an id in use.
FreshId == /\ processingFrames \subseteq 0..frameCounter
           /\ \A j \in Jobs : job[j].pc = "insert" => frameCounter \notin processingFrames

SlotsBounded ==
  /\ Cardinality(processingFrames) <= Limit + 1
  /\ \A j \in Jobs : job[j].pc \in Holding => Cardinality(processingFrames) <= Limit

\* In the first session every goroutine at the detector has its slot.
OwnSlots == session <= 1 => \A j \in InFlight : job[j].id \in processingFrames

\* The calls that the sessions before this one can have left behind.
LeftBehind == (Limit + 1) * (session - 1)

\* No more goroutines are at the detector than slots are taken and calls left.
Accounted ==
  session # 0 => Cardinality(InFlight) <= Cardinality(processingFrames) + LeftBehind

PipelineInv == /\ TypeOK /\ OnlyCurrentIsUp /\ SessionsBegun /\ ResultsNeverGoBack
               /\ FreshId /\ SlotsBounded /\ OwnSlots /\ IdsDistinct /\ Accounted

\* No entry of processingFrames stays: a frame that was admitted gives its slot
\* back on every path, or a new session has dropped the map (ingest/main.go:1461,
\* 1722-1726), as long as no panic ends the worker.
SlotsReleased ==
  \A n \in 0..MaxFrames : n \in processingFrames ~> n \notin processingFrames \/ Panicked

\* After a new offer the loops of earlier sessions end.
OldLoopsEnd ==
  \A s \in Sessions : peer[s] = "closed" /\ track[s] = "reading"
                       ~> track[s] # "reading" \/ Panicked

\* "Processes VP8 frames (decoding RTP packets into full frames)" (process.txt:27):
\* as long as the current connection is up its track is read.
ConnectedTrackIsRead ==
  \A s \in Sessions : peer[s] = "connected" /\ track[s] # "none" => track[s] = "reading"

\* The guard "w.dataChannel != nil" (ingest/main.go:1763) keeps nil from being
\* dereferenced.
NoNilChannel == ~Panicked
=============================================================================
