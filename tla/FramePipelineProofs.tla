------------------------ MODULE FramePipelineProofs ------------------------
(* Machine-checked proofs about FramePipeline, for any finite set of frame    *)
(* goroutines and any numbers of sessions, frames, disconnections and slots.  *)
EXTENDS FramePipeline, FiniteSetTheorems, TLAPS

LEMMA Bounds ==
  /\ MaxSessions \in Nat \ {0} /\ MaxFrames \in Nat /\ MaxDrops \in Nat
  /\ Limit \in Nat /\ SkipEvery \in Nat \ {0} /\ Interval \in Nat
  /\ Nobody \notin Jobs
BY JobsAssumption, BoundsAssumption

\* The disjuncts of Next one by one; in a process that has panicked none is left.
LEMMA NextCases ==
  ASSUME [Next]_vars
  PROVE  \/ UNCHANGED vars
         \/ ~Panicked /\ (\/ HandleOffer \/ InitializeWebRTC)
         \/ Tick
         \/ \E s \in Sessions :
              \/ Disconnect(s) \/ OnDisconnected(s) \/ Reconnect(s)
              \/ OnDataChannel(s) \/ OnTrack(s) \/ ExitLoop(s) \/ SkipPFrame(s)
              \/ \E j \in Jobs : KeyFrame(s, j) \/ TakePFrame(s, j)
         \/ \E j \in Jobs : JobStep(j)
BY DEF Next, Running, HandleOffer, InitializeWebRTC
-----------------------------------------------------------------------------
\* What a step of goroutine j does to the goroutines: j's record is replaced,
\* and its session stays unless it returns.
JobChanges(j, r) ==
  /\ r \in Job
  /\ job' = [job EXCEPT ![j] = r]
  /\ r.pc # "idle" => job[j].pc # "idle" /\ r.origin = job[j].origin

LEMMA MoveChanges ==
  ASSUME TypeOK, NEW j \in Jobs, NEW l \in Label, Move(j, l), job[j].pc # "idle"
  PROVE  \E r : JobChanges(j, r) /\ r.pc = l /\ r.id = job[j].id
<1> DEFINE r == [job[j] EXCEPT !.pc = l]
<1>1. job[j] \in Job
  BY DEF TypeOK
<1>2. job' = [job EXCEPT ![j] = r]
  BY DEF Move
<1>3. /\ r \in Job
      /\ r.pc = l /\ r.id = job[j].id /\ r.origin = job[j].origin
  BY <1>1 DEF Job
<1> HIDE DEF r
<1> QED
  BY <1>2, <1>3 DEF JobChanges

LEMMA FinishChanges ==
  ASSUME TypeOK, NEW j \in Jobs, Finish(j)
  PROVE  JobChanges(j, IdleJob) /\ IdleJob.pc = "idle"
BY Bounds DEF Finish, IdleJob, JobChanges, Job, Label

LEMMA InsertChanges ==
  ASSUME TypeOK, NEW j \in Jobs, InsertFrame(j)
  PROVE  \E r : JobChanges(j, r) /\ r.pc = "call" /\ r.id = frameCounter
<1> DEFINE r == [job[j] EXCEPT !.pc = "call", !.id = frameCounter]
<1>1. job[j] \in Job /\ job[j].pc # "idle" /\ frameCounter \in Nat
  BY DEF TypeOK, InsertFrame
<1>2. job' = [job EXCEPT ![j] = r]
  BY DEF InsertFrame
<1>3. /\ r \in Job
      /\ r.pc = "call" /\ r.id = frameCounter /\ r.origin = job[j].origin
  BY <1>1 DEF Job, Label, Admitted
<1> HIDE DEF r
<1> QED
  BY <1>1, <1>2, <1>3 DEF JobChanges

\* Where each step of a frame goroutine leads, and what else it changes.
LEMMA JobStepCases ==
  ASSUME TypeOK, NEW j \in Jobs, JobStep(j)
  PROVE  \E r : JobChanges(j, r) /\
           \/ /\ job[j].pc \notin Holding \cup Admitted
              /\ r.pc \in {"idle", "rate", "admit"}
              /\ UNCHANGED <<frameVars, results>>
           \/ /\ Admit(j) /\ r.pc = "count"
           \/ /\ CountFrame(j) /\ r.pc = "insert"
           \/ /\ InsertFrame(j) /\ r.pc = "call" /\ r.id = frameCounter
           \/ /\ job[j].pc \in Admitted /\ r.pc \in Admitted /\ r.id = job[j].id
              /\ UNCHANGED frameVars
              /\ SendResult(j) \/ UNCHANGED results
           \/ /\ Release(j) /\ r.pc = "idle"
<1> USE DEF Label, Admitted, Holding, frameVars
<1>1. CASE RateLimit(j) \/ Drop(j)
  <2>1. CASE Finish(j)
    BY <1>1, <2>1, FinishChanges DEF RateLimit, Drop
  <2>2. CASE Move(j, "admit")
    BY <1>1, <2>2, MoveChanges DEF RateLimit, Drop
  <2> QED
    BY <1>1, <2>1, <2>2 DEF RateLimit, Drop
<1>2. CASE Admit(j)
  BY <1>2, MoveChanges DEF Admit
<1>3. CASE CountFrame(j)
  BY <1>3, MoveChanges DEF CountFrame
<1>4. CASE InsertFrame(j)
  BY <1>4, InsertChanges
<1>5. CASE \/ DetectionFails(j) \/ DetectionAnswers(j)
           \/ CheckChannel(j) \/ SendResult(j)
  <2>1. PICK l \in Admitted : Move(j, l)
    BY <1>5 DEF DetectionFails, AfterError, DetectionAnswers, CheckChannel,
                SendResult
  <2>2. job[j].pc \in Admitted /\ UNCHANGED frameVars
    BY <1>5 DEF DetectionFails, DetectionAnswers, CheckChannel, SendResult
  <2>3. SendResult(j) \/ UNCHANGED results
    BY <1>5 DEF DetectionFails, DetectionAnswers, CheckChannel
  <2> QED
    BY <2>1, <2>2, <2>3, MoveChanges
<1>6. CASE Release(j)
  BY <1>6, FinishChanges DEF Release
<1> QED
  BY <1>1, <1>2, <1>3, <1>4, <1>5, <1>6 DEF JobStep

LEMMA JobStepFrame ==
  ASSUME NEW j \in Jobs, JobStep(j)
  PROVE  UNCHANGED <<sessionVars, trackVars, dataChannel>>
BY DEF JobStep, RateLimit, Drop, Admit, CountFrame, InsertFrame, DetectionFails,
       DetectionAnswers, CheckChannel, SendResult, Release
-----------------------------------------------------------------------------
LEMMA TypeStep == TypeOK /\ SessionsBegun /\ [Next]_vars => TypeOK'
<1> SUFFICES ASSUME TypeOK, SessionsBegun, [Next]_vars PROVE TypeOK'
  OBVIOUS
<1> USE Bounds DEF TypeOK, sessionVars, trackVars, frameVars
<1>1. CASE UNCHANGED vars
  BY <1>1 DEF vars
<1>2. CASE HandleOffer
  BY <1>2 DEF HandleOffer, ClosePeers
<1>3. CASE InitializeWebRTC
  <2>1. session + 1 \in Sessions /\ session + 1 \in 0..MaxSessions
    BY <1>3 DEF InitializeWebRTC, SessionsBegun, Sessions
  <2>2. peer' \in [Sessions -> {"none", "connected", "disconnected", "closed"}]
    BY <1>3 DEF InitializeWebRTC
  <2>3. sinceLast' \in 0..Interval /\ frameCounter' \in Nat
        /\ processingFrames' \subseteq Nat
    BY <1>3 DEF InitializeWebRTC
  <2> QED
    BY <1>3, <2>1, <2>2, <2>3 DEF InitializeWebRTC
<1>4. CASE Tick
  BY <1>4 DEF Tick
<1>5. ASSUME NEW s \in Sessions, Disconnect(s) \/ OnDisconnected(s) \/ Reconnect(s)
      PROVE  TypeOK'
  <2>1. CASE Disconnect(s)
    BY <2>1 DEF Disconnect
  <2>2. CASE OnDisconnected(s)
    BY <2>2 DEF OnDisconnected
  <2>3. CASE Reconnect(s)
    BY <2>3 DEF Reconnect
  <2> QED
    BY <1>5, <2>1, <2>2, <2>3
<1>6. ASSUME NEW s \in Sessions, OnDataChannel(s) \/ OnTrack(s) \/ ExitLoop(s)
      PROVE  TypeOK'
  <2>1. CASE OnDataChannel(s)
    <3>1. s \in 0..MaxSessions
      BY DEF Sessions
    <3> QED
      BY <2>1, <3>1 DEF OnDataChannel
  <2>2. CASE OnTrack(s)
    BY <2>2 DEF OnTrack
  <2>3. CASE ExitLoop(s)
    BY <2>3 DEF ExitLoop
  <2> QED
    BY <1>6, <2>1, <2>2, <2>3
<1>7. ASSUME NEW s \in Sessions, SkipPFrame(s) PROVE TypeOK'
  BY <1>7 DEF SkipPFrame, NextFrame
<1>8. ASSUME NEW s \in Sessions, NEW j \in Jobs, KeyFrame(s, j) \/ TakePFrame(s, j)
      PROVE  TypeOK'
  <2>1. skip' = skip \/ skip' = [skip EXCEPT ![s] = 0]
    BY <1>8 DEF KeyFrame, TakePFrame
  <2>2. skip' \in [Sessions -> 0..SkipEvery]
    BY <2>1
  <2>3. NextFrame(s)
    BY <1>8 DEF KeyFrame, TakePFrame
  <2>4. frames' \in 0..MaxFrames
    BY <2>3 DEF NextFrame
  <2>5. PICK k \in BOOLEAN : Spawn(s, j, k)
    BY <1>8 DEF KeyFrame, TakePFrame
  <2>6. /\ job' \in [Jobs -> Job]
        /\ \A i \in Jobs : job'[i].pc \in Holding => job[i].pc \in Holding
    BY <2>5 DEF Spawn, Job, Label, Holding, Sessions
  <2> QED
    BY <1>8, <2>2, <2>3, <2>4, <2>6 DEF KeyFrame, TakePFrame, NextFrame
<1>9. ASSUME NEW j \in Jobs, JobStep(j) PROVE TypeOK'
  <2>1. PICK r : JobChanges(j, r) /\
           \/ /\ r.pc \notin Holding
              /\ UNCHANGED <<frameVars, results>>
           \/ /\ Admit(j) /\ r.pc = "count"
           \/ /\ CountFrame(j) /\ r.pc = "insert"
           \/ /\ InsertFrame(j) /\ r.pc = "call"
           \/ /\ r.pc \notin Holding /\ SendResult(j) /\ UNCHANGED frameVars
           \/ /\ Release(j) /\ r.pc = "idle"
    BY <1>9, JobStepCases DEF Holding, Admitted
  <2>2. /\ job' \in [Jobs -> Job]
        /\ \A i \in Jobs : job'[i] = IF i = j THEN r ELSE job[i]
    BY <2>1 DEF JobChanges
  <2>3. /\ frameMutex' \in Jobs \cup {Nobody}
        /\ processingFrames' \subseteq Nat
        /\ frameCounter' \in Nat
        /\ sinceLast' \in 0..Interval
    BY <2>1 DEF Admit, LockFrames, CountFrame, InsertFrame, Release
  <2>4. ASSUME NEW i \in Jobs, job'[i].pc \in Holding PROVE frameMutex' = i
    BY <2>1, <2>2, <2>4 DEF Admit, LockFrames, CountFrame, InsertFrame, Release,
                            Holding
  <2>5. results' \subseteq Sessions \X Sessions
    <3>1. CASE UNCHANGED results
      BY <3>1
    <3>2. CASE SendResult(j)
      <4>1. job[j].origin \in Sessions
        BY <3>2 DEF SendResult, SessionsBegun, Sessions
      <4>2. dataChannel # 0 => dataChannel \in Sessions
        BY DEF Sessions
      <4> QED
        BY <3>2, <4>1, <4>2 DEF SendResult
    <3> QED
      BY <2>1, <3>1, <3>2 DEF Admit, CountFrame, InsertFrame, Release
  <2> QED
    BY <1>9, JobStepFrame, <2>2, <2>3, <2>4, <2>5
<1> QED
  BY <1>1, <1>2, <1>3, <1>4, <1>5, <1>6, <1>7, <1>8, <1>9, NextCases
-----------------------------------------------------------------------------
(* Sessions: every reference is to a session that has begun, and only the     *)
(* current one can be sent to.                                                *)

LEMMA SessionStep ==
  TypeOK /\ OnlyCurrentIsUp /\ SessionsBegun /\ [Next]_vars
    => OnlyCurrentIsUp' /\ SessionsBegun'
<1> SUFFICES ASSUME TypeOK, OnlyCurrentIsUp, SessionsBegun, [Next]_vars
             PROVE  OnlyCurrentIsUp' /\ SessionsBegun'
  OBVIOUS
<1> DEFINE States == {"none", "connected", "disconnected", "closed"}
<1>0. /\ session \in Nat /\ MaxSessions \in Nat /\ Sessions = 1..MaxSessions
      /\ dataChannel \in 0..MaxSessions
      /\ peer \in [Sessions -> States]
      /\ track \in [Sessions -> {"none", "reading", "ended"}]
      /\ DOMAIN job = Jobs
  BY Bounds DEF TypeOK, Sessions
<1> USE <1>0 DEF OnlyCurrentIsUp, SessionsBegun, sessionVars, trackVars, frameVars
<1>1. CASE UNCHANGED vars
  BY <1>1 DEF vars
<1>2. CASE HandleOffer
  <2>1. \A s \in Sessions : /\ peer'[s] \in {"none", "closed"}
                            /\ peer'[s] = "none" <=> peer[s] = "none"
    BY <1>2 DEF HandleOffer, ClosePeers
  <2> QED
    BY <1>2, <2>1 DEF HandleOffer
<1>3. CASE InitializeWebRTC
  <2>1. /\ session' = session + 1 /\ session + 1 \in Sessions
        /\ \A s \in Sessions :
             peer'[s] = IF s = session + 1 THEN "connected" ELSE peer[s]
    BY <1>3 DEF InitializeWebRTC
  <2>2. \A s \in Sessions : peer[s] \in {"none", "closed"}
    BY <1>3 DEF InitializeWebRTC
  <2> QED
    BY <1>3, <2>1, <2>2 DEF InitializeWebRTC
<1>4. CASE Tick
  BY <1>4 DEF Tick
<1>5. ASSUME NEW s \in Sessions, Disconnect(s) \/ OnDisconnected(s) \/ Reconnect(s)
      PROVE  OnlyCurrentIsUp' /\ SessionsBegun'
  <2>1. /\ UNCHANGED <<session, offer, track, dataChannel, job>>
        /\ \/ UNCHANGED peer
           \/ /\ peer[s] \in {"connected", "disconnected"}
              /\ \E st \in {"connected", "disconnected"} :
                    peer' = [peer EXCEPT ![s] = st]
    BY <1>5 DEF Disconnect, OnDisconnected, Reconnect
  <2> QED
    BY <2>1
<1>6. ASSUME NEW s \in Sessions, OnDataChannel(s) \/ OnTrack(s) \/ ExitLoop(s)
      PROVE  OnlyCurrentIsUp' /\ SessionsBegun'
  <2>1. /\ UNCHANGED <<session, offer, peer, job>>
        /\ peer[s] # "none"
        /\ dataChannel' = s \/ UNCHANGED dataChannel
        /\ UNCHANGED track \/ \E l : track' = [track EXCEPT ![s] = l]
    BY <1>6 DEF OnDataChannel, OnTrack, ExitLoop
  <2> QED
    BY <2>1
<1>7. ASSUME NEW s \in Sessions, SkipPFrame(s)
      PROVE  OnlyCurrentIsUp' /\ SessionsBegun'
  BY <1>7 DEF SkipPFrame, NextFrame
<1>8. ASSUME NEW s \in Sessions, NEW j \in Jobs, KeyFrame(s, j) \/ TakePFrame(s, j)
      PROVE  OnlyCurrentIsUp' /\ SessionsBegun'
  <2>1. /\ track[s] = "reading"
        /\ UNCHANGED <<session, offer, peer, track, dataChannel>>
    BY <1>8 DEF KeyFrame, TakePFrame, NextFrame
  <2>2. s \in 1..session
    BY <2>1
  <2>3. \A i \in Jobs : /\ i = j => job'[i].origin = s
                        /\ i # j => job'[i] = job[i]
    BY <1>8 DEF KeyFrame, TakePFrame, Spawn
  <2> QED
    BY <2>1, <2>2, <2>3
<1>9. ASSUME NEW j \in Jobs, JobStep(j) PROVE OnlyCurrentIsUp' /\ SessionsBegun'
  <2>1. PICK r : JobChanges(j, r)
    BY <1>9, JobStepCases
  <2>2. \A i \in Jobs : job'[i].pc # "idle" =>
                          job[i].pc # "idle" /\ job'[i].origin = job[i].origin
    BY <2>1 DEF JobChanges
  <2>3. UNCHANGED <<session, offer, peer, track, dataChannel>>
    BY <1>9, JobStepFrame
  <2> QED
    BY <2>2, <2>3
<1> QED
  BY <1>1, <1>2, <1>3, <1>4, <1>5, <1>6, <1>7, <1>8, <1>9, NextCases

LEMMA ResultStep ==
  TypeOK /\ OnlyCurrentIsUp /\ SessionsBegun /\ ResultsNeverGoBack /\ [Next]_vars
    => ResultsNeverGoBack'
<1> SUFFICES ASSUME TypeOK, OnlyCurrentIsUp, SessionsBegun, ResultsNeverGoBack,
                    [Next]_vars
             PROVE  ResultsNeverGoBack'
  OBVIOUS
<1>1. CASE \E j \in Jobs : SendResult(j)
  <2>1. PICK j \in Jobs : SendResult(j)
    BY <1>1
  <2>2. CASE dataChannel = 0 \/ peer[dataChannel] = "closed"
    BY <2>1, <2>2 DEF SendResult, ResultsNeverGoBack
  <2>3. CASE dataChannel # 0 /\ peer[dataChannel] # "closed"
    <3>1. dataChannel \in Sessions
      BY <2>3, Bounds DEF TypeOK, Sessions
    <3>2. peer[dataChannel] \in {"connected", "disconnected"}
      BY <2>3, <3>1 DEF TypeOK, SessionsBegun
    <3>3. dataChannel = session
      BY <3>1, <3>2 DEF OnlyCurrentIsUp
    <3>4. job[j].origin \in 1..session /\ session \in Nat
      BY <2>1, Bounds DEF SendResult, SessionsBegun, TypeOK
    <3>5. results' = results \cup {<<job[j].origin, dataChannel>>}
      BY <2>1, <2>3 DEF SendResult
    <3> QED
      BY <3>3, <3>4, <3>5 DEF ResultsNeverGoBack
  <2> QED
    BY <2>2, <2>3
<1>2. CASE ~\E j \in Jobs : SendResult(j)
  <2>1. results' = results
    BY <1>2, NextCases
    DEF vars, HandleOffer, InitializeWebRTC, Tick, Disconnect, OnDisconnected,
        Reconnect, OnDataChannel, OnTrack, ExitLoop, SkipPFrame, KeyFrame,
        TakePFrame, NextFrame, JobStep, RateLimit, Drop, Admit, CountFrame,
        InsertFrame, DetectionFails, DetectionAnswers, CheckChannel, Release
  <2> QED
    BY <2>1 DEF ResultsNeverGoBack
<1> QED
  BY <1>1, <1>2
-----------------------------------------------------------------------------
(* Slots: ids are fresh, and goroutines at the detector are accounted for.    *)

LEMMA InFlightFinite == IsFiniteSet(InFlight) /\ Cardinality(InFlight) \in Nat
BY JobsAssumption, FS_Subset, FS_CardinalityType DEF InFlight

LEMMA SlotsFinite ==
  ASSUME FreshId, TypeOK
  PROVE  IsFiniteSet(processingFrames) /\ Cardinality(processingFrames) \in Nat
<1>1. IsFiniteSet(0..frameCounter)
  BY FS_Interval DEF TypeOK
<1>2. IsFiniteSet(processingFrames)
  BY <1>1, FS_Subset DEF FreshId
<1> QED
  BY <1>2, FS_CardinalityType

\* Only the steps below change who is at the detector or which slots are taken.
Slots == FreshId /\ SlotsBounded /\ OwnSlots /\ IdsDistinct /\ Accounted

LEMMA SlotsKept ==
  ASSUME Slots, UNCHANGED <<session, processingFrames, frameCounter>>,
         \A j \in Jobs :
           /\ (job'[j].pc \in Admitted) <=> (job[j].pc \in Admitted)
           /\ job'[j].pc \in Admitted => job'[j].id = job[j].id
           /\ job'[j].pc = "insert" => job[j].pc = "insert"
           /\ job'[j].pc \in Holding => job[j].pc \in Holding
  PROVE  Slots'
<1>1. InFlight' = InFlight
  BY DEF InFlight, Admitted
<1>2. FreshId' /\ SlotsBounded'
  BY DEF Slots, FreshId, SlotsBounded, Holding
<1>3. \A j \in InFlight : job'[j].id = job[j].id
  BY DEF InFlight
<1>4. OwnSlots' /\ IdsDistinct' /\ Accounted'
  BY <1>1, <1>3 DEF Slots, OwnSlots, IdsDistinct, Accounted, LeftBehind
<1> QED
  BY <1>2, <1>4 DEF Slots

LEMMA InitializeSlots ==
  ASSUME TypeOK, SessionsBegun, Slots, InitializeWebRTC
  PROVE  Slots'
<1>1. /\ session' = session + 1 /\ session \in Nat /\ Limit \in Nat
      /\ processingFrames' = {} /\ frameCounter' = 0 /\ job' = job
      /\ Cardinality(processingFrames') = 0
  BY Bounds, FS_EmptySet DEF InitializeWebRTC, TypeOK
<1>2. InFlight' = InFlight /\ Cardinality(InFlight) \in Nat
  BY <1>1, InFlightFinite DEF InFlight
<1>3. session = 0 => InFlight = {}
  BY DEF SessionsBegun, InFlight, Admitted
<1>4. LeftBehind' = (Limit + 1) * session
  BY <1>1 DEF LeftBehind
<1>5. session # 0 => LeftBehind' = LeftBehind + (Limit + 1)
  BY <1>1, <1>4 DEF LeftBehind
<1>6. Accounted'
  <2>1. CASE session = 0
    BY <1>1, <1>2, <1>3, <1>4, <2>1, FS_EmptySet DEF Accounted
  <2>2. CASE session # 0
    <3>1. /\ Cardinality(InFlight) <= Cardinality(processingFrames) + LeftBehind
          /\ Cardinality(processingFrames) <= Limit + 1
          /\ Cardinality(processingFrames) \in Nat
      BY <2>2, SlotsFinite DEF Slots, Accounted, SlotsBounded
    <3>2. LeftBehind \in Int
      BY <1>1 DEF LeftBehind
    <3> QED
      BY <1>1, <1>2, <1>5, <2>2, <3>1, <3>2 DEF Accounted
  <2> QED
    BY <2>1, <2>2
<1>7. FreshId' /\ SlotsBounded'
  BY <1>1 DEF FreshId, SlotsBounded
<1>8. OwnSlots' /\ IdsDistinct'
  BY <1>1, <1>2, <1>3 DEF OwnSlots, IdsDistinct
<1> QED
  BY <1>6, <1>7, <1>8 DEF Slots

\* Admitting a goroutine takes no slot yet: one is free while the mutex is held.
LEMMA AdmitSlots ==
  ASSUME TypeOK, Slots, NEW j \in Jobs, NEW r, JobChanges(j, r), Admit(j),
         r.pc = "count"
  PROVE  Slots'
<1>1. /\ UNCHANGED <<session, processingFrames, frameCounter>>
      /\ job[j].pc = "admit" /\ ~Full
      /\ \A i \in Jobs : job'[i] = IF i = j THEN r ELSE job[i]
  BY DEF Admit, JobChanges, TypeOK, sessionVars
<1>2. InFlight' = InFlight
  BY <1>1 DEF InFlight, Admitted
<1>3. Cardinality(processingFrames) <= Limit
  BY <1>1, SlotsFinite, Bounds DEF Full, Slots
<1>4. FreshId' /\ SlotsBounded'
  BY <1>1, <1>3 DEF Slots, FreshId, SlotsBounded
<1>5. OwnSlots' /\ IdsDistinct' /\ Accounted'
  BY <1>1, <1>2 DEF Slots, OwnSlots, IdsDistinct, Accounted, LeftBehind, InFlight,
                    Admitted
<1> QED
  BY <1>4, <1>5 DEF Slots

LEMMA CountSlots ==
  ASSUME TypeOK, Slots, NEW j \in Jobs, NEW r, JobChanges(j, r), CountFrame(j),
         r.pc = "insert"
  PROVE  Slots'
<1>1. /\ UNCHANGED <<session, processingFrames>> /\ frameCounter' = frameCounter + 1
      /\ job[j].pc = "count"
      /\ \A i \in Jobs : job'[i] = IF i = j THEN r ELSE job[i]
  BY DEF CountFrame, JobChanges, TypeOK, sessionVars
<1>2. InFlight' = InFlight
  BY <1>1 DEF InFlight, Admitted
<1>3. FreshId'
  <2>1. processingFrames \subseteq 0..frameCounter /\ frameCounter \in Nat
    BY DEF Slots, FreshId, TypeOK
  <2> QED
    BY <1>1, <2>1 DEF FreshId
<1>4. SlotsBounded'
  BY <1>1 DEF Slots, SlotsBounded, Holding
<1>5. OwnSlots' /\ IdsDistinct' /\ Accounted'
  BY <1>1, <1>2 DEF Slots, OwnSlots, IdsDistinct, Accounted, LeftBehind, InFlight,
                    Admitted
<1> QED
  BY <1>3, <1>4, <1>5 DEF Slots

LEMMA InsertSlots ==
  ASSUME TypeOK, Slots, NEW j \in Jobs, NEW r, JobChanges(j, r), InsertFrame(j),
         r.pc = "call", r.id = frameCounter
  PROVE  Slots'
<1>1. /\ UNCHANGED <<session, frameCounter>>
      /\ processingFrames' = processingFrames \cup {frameCounter}
      /\ job[j].pc = "insert" /\ frameMutex = j
      /\ \A i \in Jobs : job'[i] = IF i = j THEN r ELSE job[i]
  BY DEF InsertFrame, JobChanges, TypeOK, Holding, sessionVars
<1>2. frameCounter \notin processingFrames /\ frameCounter \in Nat
  BY <1>1 DEF Slots, FreshId, TypeOK
<1>3. InFlight' = InFlight \cup {j} /\ j \notin InFlight
  BY <1>1 DEF InFlight, Admitted
<1>4. Cardinality(processingFrames') = Cardinality(processingFrames) + 1
  BY <1>1, <1>2, SlotsFinite, FS_AddElement DEF Slots
<1>5. Cardinality(InFlight') = Cardinality(InFlight) + 1
  BY <1>3, InFlightFinite, FS_AddElement
<1>6. \A i \in Jobs : job'[i].pc \notin Holding
  BY <1>1 DEF TypeOK, Holding
<1>7. FreshId'
  BY <1>1, <1>2, <1>6 DEF Slots, FreshId, Holding
<1>8. SlotsBounded'
  <2>1. Cardinality(processingFrames) <= Limit
    BY <1>1 DEF Slots, SlotsBounded, Holding
  <2> QED
    BY <1>4, <1>6, <2>1, SlotsFinite, Bounds DEF SlotsBounded, Slots
<1>9. OwnSlots' /\ IdsDistinct'
  BY <1>1, <1>2, <1>3 DEF Slots, OwnSlots, IdsDistinct, InFlight
<1>10. Accounted'
  <2>1. session \in Nat /\ LeftBehind \in Int /\ LeftBehind' = LeftBehind
    BY <1>1, Bounds DEF TypeOK, LeftBehind
  <2> QED
    BY <1>1, <1>4, <1>5, <2>1, InFlightFinite, SlotsFinite DEF Slots, Accounted
<1> QED
  BY <1>7, <1>8, <1>9, <1>10 DEF Slots

LEMMA ReleaseSlots ==
  ASSUME TypeOK, Slots, NEW j \in Jobs, NEW r, JobChanges(j, r), Release(j),
         r.pc = "idle"
  PROVE  Slots'
<1>1. /\ UNCHANGED <<session, frameCounter>>
      /\ processingFrames' = processingFrames \ {job[j].id}
      /\ job[j].pc = "release" /\ frameMutex = Nobody
      /\ \A i \in Jobs : job'[i] = IF i = j THEN r ELSE job[i]
  BY DEF Release, JobChanges, TypeOK, sessionVars
<1>2. InFlight' = InFlight \ {j} /\ j \in InFlight
  BY <1>1 DEF InFlight, Admitted
<1>3. /\ Cardinality(processingFrames') \in Nat
      /\ Cardinality(processingFrames') <= Cardinality(processingFrames)
      /\ Cardinality(processingFrames) - 1 <= Cardinality(processingFrames')
  <2>1. IsFiniteSet(processingFrames) /\ Cardinality(processingFrames) \in Nat
    BY SlotsFinite DEF Slots
  <2>2. CASE job[j].id \in processingFrames
    <3>1. Cardinality(processingFrames') = Cardinality(processingFrames) - 1
      BY <1>1, <2>1, <2>2, FS_RemoveElement
    <3>2. IsFiniteSet(processingFrames')
      BY <1>1, <2>1, FS_RemoveElement
    <3> QED
      BY <2>1, <3>1, <3>2, FS_CardinalityType
  <2>3. CASE job[j].id \notin processingFrames
    <3>1. processingFrames' = processingFrames
      BY <1>1, <2>3
    <3> QED
      BY <2>1, <3>1
  <2> QED
    BY <2>2, <2>3
<1>4. Cardinality(InFlight') = Cardinality(InFlight) - 1
  BY <1>2, InFlightFinite, FS_RemoveElement
<1>5. \A i \in Jobs : job'[i].pc \notin Holding
  BY <1>1, Bounds DEF TypeOK, Holding
<1>6. FreshId'
  BY <1>1, <1>5 DEF Slots, FreshId, Holding
<1>7. SlotsBounded'
  BY <1>3, <1>5, SlotsFinite, Bounds DEF SlotsBounded, Slots
<1>8. OwnSlots' /\ IdsDistinct'
  BY <1>1, <1>2 DEF Slots, OwnSlots, IdsDistinct, InFlight
<1>9. Accounted'
  <2>1. session \in Nat /\ LeftBehind \in Int /\ LeftBehind' = LeftBehind
    BY <1>1, Bounds DEF TypeOK, LeftBehind
  <2> QED
    BY <1>1, <1>3, <1>4, <2>1, InFlightFinite, SlotsFinite DEF Slots, Accounted
<1> QED
  BY <1>6, <1>7, <1>8, <1>9 DEF Slots

LEMMA SlotStep == TypeOK /\ SessionsBegun /\ Slots /\ [Next]_vars => Slots'
<1> SUFFICES ASSUME TypeOK, SessionsBegun, Slots, [Next]_vars PROVE Slots'
  OBVIOUS
<1> USE DEF sessionVars, trackVars, frameVars
<1>1. CASE UNCHANGED <<session, processingFrames, frameCounter, job>>
  BY <1>1, SlotsKept
<1>2. CASE InitializeWebRTC
  BY <1>2, InitializeSlots
<1>3. ASSUME NEW s \in Sessions, NEW j \in Jobs, KeyFrame(s, j) \/ TakePFrame(s, j)
      PROVE  Slots'
  <2>1. UNCHANGED <<session, processingFrames, frameCounter>>
    BY <1>3 DEF KeyFrame, TakePFrame, NextFrame
  <2>2. \A i \in Jobs : IF i = j
                          THEN job[i].pc = "idle" /\ job'[i].pc \in {"admit", "rate"}
                          ELSE job'[i] = job[i]
    BY <1>3 DEF KeyFrame, TakePFrame, Spawn, TypeOK
  <2> QED
    BY <2>1, <2>2, SlotsKept DEF Admitted, Holding
<1>4. ASSUME NEW j \in Jobs, JobStep(j) PROVE Slots'
  <2>1. PICK r : JobChanges(j, r) /\
           \/ /\ job[j].pc \notin Holding \cup Admitted
              /\ r.pc \in {"idle", "rate", "admit"}
              /\ UNCHANGED <<frameVars, results>>
           \/ /\ Admit(j) /\ r.pc = "count"
           \/ /\ CountFrame(j) /\ r.pc = "insert"
           \/ /\ InsertFrame(j) /\ r.pc = "call" /\ r.id = frameCounter
           \/ /\ job[j].pc \in Admitted /\ r.pc \in Admitted /\ r.id = job[j].id
              /\ UNCHANGED frameVars
           \/ /\ Release(j) /\ r.pc = "idle"
    BY <1>4, JobStepCases
  <2>2. CASE \/ /\ job[j].pc \notin Holding \cup Admitted
                /\ r.pc \in {"idle", "rate", "admit"} /\ UNCHANGED frameVars
             \/ /\ job[j].pc \in Admitted /\ r.pc \in Admitted
                /\ r.id = job[j].id /\ UNCHANGED frameVars
    <3>1. UNCHANGED <<session, processingFrames, frameCounter>>
      BY <1>4, <2>2, JobStepFrame
    <3>2. \A i \in Jobs : job'[i] = IF i = j THEN r ELSE job[i]
      BY <2>1 DEF JobChanges, TypeOK
    <3> QED
      BY <2>2, <3>1, <3>2, SlotsKept DEF Admitted, Holding
  <2> QED
    BY <2>1, <2>2, AdmitSlots, CountSlots, InsertSlots, ReleaseSlots
<1>5. ASSUME NEW s \in Sessions,
             \/ Disconnect(s) \/ OnDisconnected(s) \/ Reconnect(s)
             \/ OnDataChannel(s) \/ OnTrack(s) \/ ExitLoop(s) \/ SkipPFrame(s)
      PROVE  UNCHANGED <<session, processingFrames, frameCounter, job>>
  BY <1>5 DEF Disconnect, OnDisconnected, Reconnect, OnDataChannel, OnTrack,
              ExitLoop, SkipPFrame, NextFrame
<1>6. UNCHANGED vars \/ HandleOffer \/ Tick =>
        UNCHANGED <<session, processingFrames, frameCounter, job>>
  BY DEF vars, HandleOffer, Tick
<1> QED
  BY <1>1, <1>2, <1>3, <1>4, <1>5, <1>6, NextCases
-----------------------------------------------------------------------------
LEMMA InitInv == Init => PipelineInv
<1> SUFFICES ASSUME Init PROVE PipelineInv
  OBVIOUS
<1>1. TypeOK
  <2>1. IdleJob \in Job /\ IdleJob.pc \notin Holding
    BY Bounds DEF IdleJob, Job, Label, Holding
  <2>2. job \in [Jobs -> Job] /\ \A j \in Jobs : job[j].pc \notin Holding
    BY <2>1 DEF Init
  <2>3. /\ session \in 0..MaxSessions /\ drops \in 0..MaxDrops
        /\ frames \in 0..MaxFrames /\ dataChannel \in 0..MaxSessions
        /\ sinceLast \in 0..Interval /\ frameCounter \in Nat
    BY Bounds DEF Init
  <2>4. /\ peer \in [Sessions -> {"none", "connected", "disconnected", "closed"}]
        /\ track \in [Sessions -> {"none", "reading", "ended"}]
        /\ skip \in [Sessions -> 0..SkipEvery]
    BY Bounds DEF Init
  <2> QED
    BY <2>2, <2>3, <2>4 DEF Init, TypeOK
<1>2. OnlyCurrentIsUp /\ SessionsBegun /\ ResultsNeverGoBack
  BY Bounds DEF Init, OnlyCurrentIsUp, SessionsBegun, ResultsNeverGoBack, IdleJob
<1>3. InFlight = {} /\ Cardinality(processingFrames) = 0
  BY FS_EmptySet DEF Init, InFlight, Admitted, IdleJob
<1>4. FreshId /\ SlotsBounded
  BY <1>3, Bounds DEF Init, FreshId, SlotsBounded, Holding, IdleJob
<1>5. OwnSlots /\ IdsDistinct /\ Accounted
  BY <1>3 DEF Init, OwnSlots, IdsDistinct, Accounted
<1> QED
  BY <1>1, <1>2, <1>4, <1>5 DEF PipelineInv

\* The inductive invariant, for any number of goroutines, sessions and slots.
THEOREM Invariance == Spec => []PipelineInv
<1>1. PipelineInv /\ [Next]_vars => PipelineInv'
  BY TypeStep, SessionStep, ResultStep, SlotStep DEF PipelineInv, Slots
<1> QED
  BY <1>1, InitInv, PTL DEF Spec

\* Types, and frameMutex is held by the goroutine inside its critical section
\* (ingest/main.go:1711-1720).
THEOREM TypeCorrect == Spec => []TypeOK
BY Invariance, PTL DEF PipelineInv

\* At most Limit + 1 goroutines per session are at the detector, although a new
\* session replaces the map under those of the old one, whose deferred deletes
\* then hit the new map (ingest/main.go:1461, 1722-1726).
THEOREM BoundedInFlight == Spec => []InFlightBound
<1>1. PipelineInv => InFlightBound
  <2> SUFFICES ASSUME PipelineInv PROVE InFlightBound
    OBVIOUS
  <2>1. session \in Nat /\ Limit \in Nat
    BY Bounds DEF PipelineInv, TypeOK
  <2>2. CASE session = 0
    <3>1. InFlight = {}
      BY <2>2 DEF PipelineInv, SessionsBegun, InFlight, Admitted
    <3>2. (Limit + 1) * session = 0
      BY <2>1, <2>2
    <3> QED
      BY <3>1, <3>2, FS_EmptySet DEF InFlightBound
  <2>3. CASE session # 0
    <3>1. /\ Cardinality(InFlight) <= Cardinality(processingFrames) + LeftBehind
          /\ Cardinality(processingFrames) <= Limit + 1
      BY <2>3 DEF PipelineInv, Accounted, SlotsBounded
    <3>2. Cardinality(InFlight) \in Nat /\ Cardinality(processingFrames) \in Nat
      BY InFlightFinite, SlotsFinite DEF PipelineInv
    <3>3. LeftBehind \in Int /\ (Limit + 1) * session = LeftBehind + (Limit + 1)
      BY <2>1 DEF LeftBehind
    <3>4. (Limit + 1) * session \in Int
      BY <2>1
    <3> QED
      BY <2>1, <3>1, <3>2, <3>3, <3>4 DEF InFlightBound
  <2> QED
    BY <2>2, <2>3
<1> QED
  BY <1>1, Invariance, PTL

\* In the first session no two goroutines at the detector share an id, so none
\* deletes the entry of another (ingest/main.go:1716-1726).
THEOREM DistinctIds == Spec => []IdsDistinct
BY Invariance, PTL DEF PipelineInv

\* No result reaches the client of a session before the frame's own
\* (ingest/main.go:1517, 1546, 1763-1770).
THEOREM ResultsForward == Spec => []ResultsNeverGoBack
BY Invariance, PTL DEF PipelineInv
=============================================================================
