---------------------------- MODULE Negotiation ----------------------------
(* How browsers and the ingest worker set up connections: the buttons and     *)
(* handlers of the browser client (client/web/webrtc.js), handleOffer,        *)
(* initializeWebRTC, handleCandidate and OnICECandidate of the worker         *)
(* (ingest/main.go).  Signaling keeps the order of each sender's messages and *)
(* may lose them (Signaling.tla).                                             *)
(*                                                                            *)
(* A browser numbers its RTCPeerConnections; <<b, k>> is the k-th of b and,   *)
(* at the worker, the session made for its offer.  An ICE candidate is known  *)
(* by the connection it was gathered for; one stands for all of them.         *)
EXTENDS Integers, Sequences

CONSTANTS Browsers,
          Others,     \* clients of which only the offers and candidates matter
          MaxConns,   \* bound: MaxConns[c] connections of client c
          MaxStarts,  \* bound: calls of startCamera at a time
          MaxFaults,  \* bound: lost messages, failing calls, lost connections
          NoSession,  \* nil, null
          NoBrowser   \* the empty client id

Clients == Browsers \cup Others

ASSUME ClientsAssumption == Browsers \cap Others = {} /\ NoBrowser \notin Clients
ASSUME BoundsAssumption ==
  MaxConns \in [Clients -> Nat] /\ MaxStarts \in Nat /\ MaxFaults \in Nat
ASSUME SessionAssumption == NoSession \notin Clients \X Nat

VARIABLES
  localStream,       \* the camera has been started
  starting,          \* calls of startCamera that wait for the camera
  startBtn, connectBtn, stopBtn,  \* enabled
  isConnecting,
  conn,              \* number of peerConnection, 0 for null
  phase,             \* where that connection is, see Phase
  answer,            \* the session whose answer is being set, or NoSession
  remoteDescription, \* the session whose answer has been set, or NoSession
  iceCandidateQueue,
  received,          \* its own candidate has come from the worker
  added,             \* candidates added to it
  gathered,          \* its candidate has been sent
  session,           \* the worker's peerConnection
  currentClient,
  answering,         \* handleOffer: "no", or what it is about to do, "describe"
                     \* the connection or "send" the answer
  described,         \* the worker's peerConnection has its remote description
  queuedCandidates,
  gathering,         \* sessions whose candidate pion has still to report
  toWorker, toBrowser,  \* messages under way, by browser
  faults

cameraVars  == <<localStream, starting, startBtn>>
connectVars == <<connectBtn, stopBtn, isConnecting>>
peerVars    == <<conn, phase, answer, remoteDescription, iceCandidateQueue,
                 received, added, gathered>>
workerVars  == <<session, currentClient, answering, described,
                 queuedCandidates, gathering>>
vars == <<localStream, starting, startBtn, connectBtn, stopBtn, isConnecting,
          conn, phase, answer, remoteDescription, iceCandidateQueue, received,
          added, gathered, session, currentClient, answering, described,
          queuedCandidates, gathering, toWorker, toBrowser, faults>>

\* "creating" until the offer is out, "offered" until an answer is taken,
\* "answering" until that is applied, "stable" until the data channel opens;
\* "stopped" by the button, "aborted" if the offer was not out yet, "closed" by
\* handleConnectionError.
Phase == {"none", "creating", "offered", "answering", "stable", "open",
          "stopped", "aborted", "closed"}

Mine(b) == <<b, conn[b]>>

Init == /\ localStream = [b \in Browsers |-> FALSE]
        /\ starting = [b \in Browsers |-> 0]
        /\ startBtn = [b \in Browsers |-> TRUE]
        /\ connectBtn = [b \in Browsers |-> TRUE]
        /\ stopBtn = [b \in Browsers |-> FALSE]
        /\ isConnecting = [b \in Browsers |-> FALSE]
        /\ conn = [c \in Clients |-> 0]
        /\ phase = [b \in Browsers |-> "none"]
        /\ answer = [b \in Browsers |-> NoSession]
        /\ remoteDescription = [b \in Browsers |-> NoSession]
        /\ iceCandidateQueue = [b \in Browsers |-> {}]
        /\ received = [b \in Browsers |-> FALSE]
        /\ added = [b \in Browsers |-> {}]
        /\ gathered = [b \in Browsers |-> FALSE]
        /\ session = NoSession
        /\ currentClient = NoBrowser
        /\ answering = "no"
        /\ described = FALSE
        /\ queuedCandidates = {}
        /\ gathering = {}
        /\ toWorker = [c \in Clients |-> <<>>]
        /\ toBrowser = [b \in Browsers |-> <<>>]
        /\ faults = 0
-----------------------------------------------------------------------------
(* Channels and faults *)

Message(type, of) == [type |-> type, of |-> of]

SendToWorker(b, m) == toWorker' = [toWorker EXCEPT ![b] = Append(@, m)]
SendToClient(c, m) ==
  IF c \in Browsers THEN toBrowser' = [toBrowser EXCEPT ![c] = Append(@, m)]
  ELSE UNCHANGED toBrowser

\* The next message, of the given type, is read.
FromClient(c, type)  == /\ toWorker[c] # <<>>
                        /\ Head(toWorker[c]).type = type
                        /\ toWorker' = [toWorker EXCEPT ![c] = Tail(@)]
FromWorker(b, type)  == /\ toBrowser[b] # <<>>
                        /\ Head(toBrowser[b]).type = type
                        /\ toBrowser' = [toBrowser EXCEPT ![b] = Tail(@)]

Fault == faults < MaxFaults /\ faults' = faults + 1

\* The addressee is not connected to signaling when the message is routed, or the
\* write to the socket fails.
Lose(b) ==
  /\ Fault
  /\ \/ /\ toWorker[b] # <<>>
        /\ toWorker' = [toWorker EXCEPT ![b] = Tail(@)]
        /\ UNCHANGED toBrowser
     \/ /\ toBrowser[b] # <<>>
        /\ toBrowser' = [toBrowser EXCEPT ![b] = Tail(@)]
        /\ UNCHANGED toWorker
  /\ UNCHANGED <<cameraVars, connectVars, peerVars, workerVars>>
-----------------------------------------------------------------------------
(* Browser: buttons.  The page starts here when signaling is connected.       *)

ClickStart(b) ==
  /\ startBtn[b]
  /\ starting[b] < MaxStarts
  /\ starting' = [starting EXCEPT ![b] = @ + 1]
  /\ UNCHANGED <<localStream, startBtn, connectVars, peerVars, workerVars,
                 toWorker, toBrowser, faults>>

\* The camera runs, some time after the click.
CameraStarted(b) ==
  /\ starting[b] > 0
  /\ starting' = [starting EXCEPT ![b] = @ - 1]
  /\ localStream' = [localStream EXCEPT ![b] = TRUE]
  /\ startBtn' = [startBtn EXCEPT ![b] = FALSE]
  /\ connectBtn' = [connectBtn EXCEPT ![b] = TRUE]
  /\ UNCHANGED <<stopBtn, isConnecting, peerVars, workerVars, toWorker, toBrowser,
                 faults>>

\* Access is refused; the user is told.
CameraFails(b) ==
  /\ starting[b] > 0
  /\ starting' = [starting EXCEPT ![b] = @ - 1]
  /\ UNCHANGED <<localStream, startBtn, connectVars, peerVars, workerVars,
                 toWorker, toBrowser, faults>>

\* Mutant of MayConnect: the flag is not looked at.
MayConnectAgain(b) == localStream[b]

MayConnect(b) == localStream[b] /\ ~isConnecting[b]

\* Mutant of StartConnecting: the flag is forgotten.
StartUnmarked(b) == UNCHANGED isConnecting

StartConnecting(b) == isConnecting' = [isConnecting EXCEPT ![b] = TRUE]

\* connectToServer: a new connection in place of whatever there was, which is
\* not closed; the queue of candidates stays.
ClickConnect(b) ==
  /\ connectBtn[b]
  /\ MayConnect(b)
  /\ conn[b] < MaxConns[b]
  /\ StartConnecting(b)
  /\ connectBtn' = [connectBtn EXCEPT ![b] = FALSE]
  /\ conn' = [conn EXCEPT ![b] = @ + 1]
  /\ phase' = [phase EXCEPT ![b] = "creating"]
  /\ answer' = [answer EXCEPT ![b] = NoSession]
  /\ remoteDescription' = [remoteDescription EXCEPT ![b] = NoSession]
  /\ received' = [received EXCEPT ![b] = FALSE]
  /\ added' = [added EXCEPT ![b] = {}]
  /\ gathered' = [gathered EXCEPT ![b] = FALSE]
  /\ UNCHANGED <<cameraVars, stopBtn, iceCandidateQueue, workerVars, toWorker,
                 toBrowser, faults>>

\* The stop button: isConnecting stays as it is.
Stop(b) ==
  /\ stopBtn[b]
  /\ phase' = [phase EXCEPT ![b] = IF @ = "creating" THEN "aborted" ELSE "stopped"]
  /\ connectBtn' = [connectBtn EXCEPT ![b] = TRUE]
  /\ stopBtn' = [stopBtn EXCEPT ![b] = FALSE]
  /\ startBtn' = [startBtn EXCEPT ![b] = TRUE]
  /\ UNCHANGED <<localStream, starting, isConnecting, conn, answer,
                 remoteDescription, iceCandidateQueue, received, added, gathered,
                 workerVars, toWorker, toBrowser, faults>>
-----------------------------------------------------------------------------
(* Browser: the connection *)

\* createOffer and setLocalDescription have succeeded.
SendOffer(b) ==
  /\ phase[b] = "creating"
  /\ phase' = [phase EXCEPT ![b] = "offered"]
  /\ SendToWorker(b, Message("offer", Mine(b)))
  /\ UNCHANGED <<cameraVars, connectVars, conn, answer, remoteDescription,
                 iceCandidateQueue, received, added, gathered, workerVars,
                 toBrowser, faults>>

\* Mutant of LeaveConnecting: the flag stays set.
StayConnecting(b) == UNCHANGED isConnecting

LeaveConnecting(b) == isConnecting' = [isConnecting EXCEPT ![b] = FALSE]

\* Mutant of AllowConnect: the button stays disabled.
ForbidConnect(b) == UNCHANGED connectBtn

AllowConnect(b) == connectBtn' = [connectBtn EXCEPT ![b] = TRUE]

handleConnectionError(b) ==
  /\ LeaveConnecting(b)
  /\ AllowConnect(b)
  /\ phase' = [phase EXCEPT ![b] = "closed"]
  /\ stopBtn' = [stopBtn EXCEPT ![b] = FALSE]
  /\ UNCHANGED <<cameraVars, conn, answer, remoteDescription, iceCandidateQueue,
                 received, added, gathered, workerVars, toWorker, toBrowser>>

\* The offer cannot be made, because of a fault or because stop has closed the
\* connection: the catch block.
ConnectError(b) ==
  /\ \/ phase[b] = "creating" /\ Fault
     \/ phase[b] = "aborted" /\ UNCHANGED faults
  /\ handleConnectionError(b)

\* Mutant of MayGather: candidates do not wait for the offer.
GathersEarly(b) == phase[b] \in {"creating", "offered", "answering", "stable", "open"}

MayGather(b) == phase[b] \in {"offered", "answering", "stable", "open"}

\* onicecandidate
SendCandidate(b) ==
  /\ MayGather(b)
  /\ ~gathered[b]
  /\ gathered' = [gathered EXCEPT ![b] = TRUE]
  /\ SendToWorker(b, Message("candidate", Mine(b)))
  /\ UNCHANGED <<cameraVars, connectVars, conn, phase, answer, remoteDescription,
                 iceCandidateQueue, received, added, workerVars, toBrowser, faults>>

\* setRemoteDescription begins, or is refused in any other state.
ReceiveAnswer(b) ==
  /\ FromWorker(b, "answer")
  /\ IF phase[b] = "offered"
       THEN /\ phase' = [phase EXCEPT ![b] = "answering"]
            /\ answer' = [answer EXCEPT ![b] = Head(toBrowser[b]).of]
       ELSE UNCHANGED <<phase, answer>>
  /\ UNCHANGED <<cameraVars, connectVars, conn, remoteDescription,
                 iceCandidateQueue, received, added, gathered, workerVars,
                 toWorker, faults>>

\* Mutant of Flush: the candidates that have waited are dropped.
FlushNothing(b) == UNCHANGED added

Flush(b) == added' = [added EXCEPT ![b] = @ \cup iceCandidateQueue[b]]

\* The description is set and the waiting candidates are added, in one turn of
\* the event loop.
AnswerApplied(b) ==
  /\ phase[b] = "answering"
  /\ phase' = [phase EXCEPT ![b] = "stable"]
  /\ remoteDescription' = [remoteDescription EXCEPT ![b] = answer[b]]
  /\ Flush(b)
  /\ iceCandidateQueue' = [iceCandidateQueue EXCEPT ![b] = {}]
  /\ UNCHANGED <<cameraVars, connectVars, conn, answer, received, gathered,
                 workerVars, toWorker, toBrowser, faults>>

\* The description is refused; only the console is told.
AnswerFails(b) ==
  /\ phase[b] = "answering"
  /\ Fault
  /\ phase' = [phase EXCEPT ![b] = "offered"]
  /\ UNCHANGED <<cameraVars, connectVars, conn, answer, remoteDescription,
                 iceCandidateQueue, received, added, gathered, workerVars,
                 toWorker, toBrowser>>

\* Added to a connection with a remote description (a closed one refuses it),
\* queued otherwise.
ReceiveCandidate(b) ==
  /\ FromWorker(b, "candidate")
  /\ LET c == Head(toBrowser[b]).of IN
     /\ received' = [received EXCEPT ![b] = @ \/ c = Mine(b)]
     /\ CASE phase[b] \in {"stable", "open"} ->
               /\ added' = [added EXCEPT ![b] = @ \cup {c}]
               /\ UNCHANGED iceCandidateQueue
          [] phase[b] \in {"stopped", "closed"} /\ remoteDescription[b] # NoSession ->
               UNCHANGED <<added, iceCandidateQueue>>
          [] OTHER ->
               /\ iceCandidateQueue' = [iceCandidateQueue EXCEPT ![b] = @ \cup {c}]
               /\ UNCHANGED added
  /\ UNCHANGED <<cameraVars, connectVars, conn, phase, answer, remoteDescription,
                 gathered, workerVars, toWorker, faults>>

\* The data channel's onopen: both ends have each other's description.
ChannelOpen(b) ==
  /\ phase[b] = "stable"
  /\ session = Mine(b) /\ remoteDescription[b] = session /\ described
  /\ phase' = [phase EXCEPT ![b] = "open"]
  /\ isConnecting' = [isConnecting EXCEPT ![b] = FALSE]
  /\ connectBtn' = [connectBtn EXCEPT ![b] = FALSE]
  /\ stopBtn' = [stopBtn EXCEPT ![b] = TRUE]
  /\ UNCHANGED <<cameraVars, conn, answer, remoteDescription, iceCandidateQueue,
                 received, added, gathered, workerVars, toWorker, toBrowser, faults>>

\* onconnectionstatechange, "failed": the worker's end has gone, or the network.
Failed(b) ==
  /\ phase[b] \in {"stable", "open"}
  /\ \/ session # Mine(b) /\ UNCHANGED faults
     \/ Fault
  /\ handleConnectionError(b)
-----------------------------------------------------------------------------
\* Another client makes a connection: its offer and its candidate.
OtherOffer(o) ==
  /\ conn[o] < MaxConns[o]
  /\ conn' = [conn EXCEPT ![o] = @ + 1]
  /\ LET s == <<o, conn[o] + 1>> IN
     toWorker' = [toWorker EXCEPT ![o] =
                    @ \o <<Message("offer", s), Message("candidate", s)>>]
  /\ UNCHANGED <<cameraVars, connectVars, phase, answer, remoteDescription,
                 iceCandidateQueue, received, added, gathered, workerVars,
                 toBrowser, faults>>
-----------------------------------------------------------------------------
(* Worker: the signaling goroutine, and pion's OnICECandidate *)

\* The connection there is gets closed and a new one is made for whoever has
\* sent the offer; the queued candidates are added to it, which fails because
\* it has no remote description yet, and are forgotten.
HandleOffer(c) ==
  /\ answering = "no"
  /\ FromClient(c, "offer")
  /\ currentClient' = c
  /\ session' = Head(toWorker[c]).of
  /\ answering' = "describe"
  /\ described' = FALSE
  /\ queuedCandidates' = {}
  /\ UNCHANGED <<gathering, cameraVars, connectVars, peerVars, toBrowser, faults>>

\* NewPeerConnection fails: the old connection is closed, there is no new one.
OfferFails(c) ==
  /\ answering = "no"
  /\ FromClient(c, "offer")
  /\ Fault
  /\ currentClient' = c
  /\ session' = NoSession
  /\ described' = FALSE
  /\ UNCHANGED <<answering, queuedCandidates, gathering, cameraVars,
                 connectVars, peerVars, toBrowser>>

\* SetRemoteDescription, CreateAnswer and SetLocalDescription, from which on pion
\* gathers candidates.
SetDescriptions ==
  /\ answering = "describe"
  /\ answering' = "send"
  /\ described' = TRUE
  /\ gathering' = gathering \cup {session}
  /\ UNCHANGED <<session, currentClient, queuedCandidates, cameraVars,
                 connectVars, peerVars, toWorker, toBrowser, faults>>

\* SetRemoteDescription fails, or one of the calls after it.
DescriptionFails ==
  /\ answering = "describe"
  /\ Fault
  /\ answering' = "no"
  /\ described' \in BOOLEAN
  /\ UNCHANGED <<session, currentClient, queuedCandidates, gathering,
                 cameraVars, connectVars, peerVars, toWorker, toBrowser>>

\* A candidate may have gone out before it.
SendAnswer ==
  /\ answering = "send"
  /\ answering' = "no"
  /\ SendToClient(currentClient, Message("answer", session))
  /\ UNCHANGED <<session, currentClient, described, queuedCandidates, gathering,
                 cameraVars, connectVars, peerVars, toWorker, faults>>

\* msg.From is not looked at: the candidate goes to the connection there is.
HandleCandidate(c) ==
  /\ answering = "no"
  /\ FromClient(c, "candidate")
  /\ queuedCandidates' = IF session = NoSession
                           THEN queuedCandidates \cup {Head(toWorker[c]).of}
                           ELSE queuedCandidates
  /\ UNCHANGED <<session, currentClient, answering, described, gathering,
                 cameraVars, connectVars, peerVars, toBrowser, faults>>

\* The candidate of any session, also of a replaced one, goes to the client that
\* is current now.
OnICECandidate(s) ==
  /\ s \in gathering
  /\ gathering' = gathering \ {s}
  /\ SendToClient(currentClient, Message("candidate", s))
  /\ UNCHANGED <<session, currentClient, answering, described, queuedCandidates,
                 cameraVars, connectVars, peerVars, toWorker, faults>>
-----------------------------------------------------------------------------
BrowserStep(b) ==
  \/ SendOffer(b) \/ ConnectError(b) \/ SendCandidate(b) \/ ReceiveAnswer(b)
  \/ AnswerApplied(b) \/ AnswerFails(b) \/ ReceiveCandidate(b) \/ ChannelOpen(b)
  \/ Failed(b)

Next == \/ SetDescriptions \/ DescriptionFails \/ SendAnswer
        \/ \E s \in gathering : OnICECandidate(s)
        \/ \E b \in Browsers :
             \/ ClickStart(b) \/ CameraStarted(b) \/ CameraFails(b)
             \/ ClickConnect(b) \/ Stop(b)
             \/ BrowserStep(b) \/ Lose(b)
        \/ \E o \in Others : OtherOffer(o)
        \/ \E c \in Clients : HandleOffer(c) \/ OfferFails(c) \/ HandleCandidate(c)

Spec == Init /\ [][Next]_vars

\* ICE has a candidate of the worker to check, so that it comes to a result.
\* Without one connectionState may stay "new", whatever becomes of the worker.
Checking(b) == phase[b] = "stable" /\ Mine(b) \in added[b]

\* Event loop, signaling goroutine, pion's gathering and ICE checks make progress.
\* The user need not click, faults need not happen, and what connectToServer
\* awaits on a connection that is closed by then need not settle.
FairSpec ==
  /\ Spec
  /\ WF_vars(SetDescriptions) /\ WF_vars(SendAnswer)
  /\ \A b \in Browsers :
       /\ WF_vars(SendOffer(b)) /\ WF_vars(ReceiveAnswer(b))
       /\ WF_vars(AnswerApplied(b)) /\ WF_vars(ReceiveCandidate(b))
       /\ WF_vars(Checking(b) /\ ChannelOpen(b))
       /\ WF_vars(Checking(b) /\ Failed(b) /\ UNCHANGED faults)
  /\ \A c \in Clients :
       /\ WF_vars(HandleOffer(c)) /\ WF_vars(HandleCandidate(c))
       /\ \A k \in 1..MaxConns[c] : WF_vars(OnICECandidate(<<c, k>>))
-----------------------------------------------------------------------------
Session == Clients \X Nat
MessageType(types) == [type : types, of : Session]

\* Start is possible while the camera is off.
CameraOK ==
  /\ localStream \in [Browsers -> BOOLEAN]
  /\ starting \in [Browsers -> 0..MaxStarts]
  /\ startBtn \in [Browsers -> BOOLEAN]
  /\ \A b \in Browsers : ~localStream[b] => startBtn[b]

\* Stop is possible while a connection is open, and isConnecting is set during an
\* attempt to connect.
ConnectOK ==
  /\ connectBtn \in [Browsers -> BOOLEAN]
  /\ stopBtn \in [Browsers -> BOOLEAN]
  /\ isConnecting \in [Browsers -> BOOLEAN]
  /\ phase \in [Browsers -> Phase]
  /\ \A b \in Browsers :
       /\ phase[b] = "open" => stopBtn[b]
       /\ phase[b] \in {"creating", "offered", "answering", "stable", "aborted"}
            => isConnecting[b]

PeerOK ==
  /\ conn \in [Clients -> Nat]
  /\ \A c \in Clients : conn[c] <= MaxConns[c]
  /\ answer \in [Browsers -> Session \cup {NoSession}]
  /\ remoteDescription \in [Browsers -> Session \cup {NoSession}]
  /\ iceCandidateQueue \in [Browsers -> SUBSET Session]
  /\ added \in [Browsers -> SUBSET Session]
  /\ received \in [Browsers -> BOOLEAN]
  /\ gathered \in [Browsers -> BOOLEAN]

\* While an offer is answered, there is a session and a client.
WorkerOK ==
  /\ session \in Session \cup {NoSession}
  /\ currentClient \in Clients \cup {NoBrowser}
  /\ answering \in {"no", "describe", "send"} /\ described \in BOOLEAN
  /\ answering # "no" => session \in Session /\ currentClient \in Clients
  /\ queuedCandidates \subseteq Session
  /\ gathering \subseteq Session

ChannelsOK ==
  /\ toWorker \in [Clients -> Seq(MessageType({"offer", "candidate"}))]
  /\ toBrowser \in [Browsers -> Seq(MessageType({"answer", "candidate"}))]
  /\ faults \in 0..MaxFaults

\* Types, with what the buttons and flags say about the phase.
TypeOK == CameraOK /\ ConnectOK /\ PeerOK /\ WorkerOK /\ ChannelsOK

\* The answer a browser applies is the answer to the offer of the connection it
\* has now, however often the buttons are clicked (webrtc.js:324-326, 523-529).
AnswerFits ==
  \A b \in Browsers : remoteDescription[b] \in {NoSession, Mine(b)}

\* A candidate of the worker for a browser's connection is not forgotten, on
\* whichever side of the answer it comes: it waits in the queue or has been
\* added (webrtc.js:527-528, 536-543).
CandidateKept ==
  \A b \in Browsers :
    received[b] /\ phase[b] \in {"offered", "answering", "stable", "open"}
      => Mine(b) \in added[b] \cup iceCandidateQueue[b]

\* Candidates need no queue at the worker, whose queue would lose them: whatever
\* is lost and whoever else makes offers, no candidate comes before the offer it
\* belongs to (main.go:1528-1532, 1597-1601).
CandidateAfterOffer ==
  \A c \in Clients : \A i \in DOMAIN toWorker[c] :
    toWorker[c][i].type = "offer" =>
      /\ toWorker[c][i].of \notin queuedCandidates
      /\ \A k \in 1..(i - 1) : toWorker[c][k].of # toWorker[c][i].of

\* A client that is not connected and not connecting can connect
\* (webrtc.js:326-329, 561-568).
CanConnect ==
  \A b \in Browsers : ~isConnecting[b] /\ phase[b] # "open" => connectBtn[b]

\* Another offer has taken the worker away after its answer and before its
\* candidate was sent, which then goes to the other client: ICE may wait for ever.
Stranded(b) ==
  /\ phase[b] = "stable" /\ session # Mine(b)
  /\ Mine(b) \notin added[b]
  /\ \A i \in DOMAIN toBrowser[b] : toBrowser[b][i] # Message("candidate", Mine(b))

\* Every attempt to connect ends, also when another client takes the worker's
\* only connection away, with four exceptions and no others: that happens in the
\* gap between answer and candidate, the stop button is used in the middle of it,
\* a message is lost, or a call fails (webrtc.js:326, 390-394, 561-568;
\* main.go:1481-1488, 1543-1547).
AttemptEnds ==
  \A b \in Browsers :
    isConnecting[b] ~> \/ ~isConnecting[b]
                       \/ Stranded(b)
                       \/ phase[b] \in {"stopped", "aborted"}
                       \/ faults > 0
-----------------------------------------------------------------------------
(* The inductive invariant *)

\* An answer can come for the connection b has now.
Expects(b) == isConnecting[b] /\ phase[b] \in {"offered", "stopped"}

Answering(b) == answering # "no" /\ currentClient = b

\* An offer of b is under way, is being answered, or its answer is: one of these
\* at a time, for the connection b has now, and only while b expects an answer.
ExchangeOf(b) ==
  /\ \A i \in DOMAIN toWorker[b] :
       toWorker[b][i].type = "offer" =>
         /\ toWorker[b][i].of = Mine(b) /\ Expects(b)
         /\ ~Answering(b)
         /\ \A j \in DOMAIN toWorker[b] : toWorker[b][j].type = "offer" => i = j
         /\ \A j \in DOMAIN toBrowser[b] : toBrowser[b][j].type # "answer"
  /\ Answering(b) =>
       /\ session = Mine(b) /\ Expects(b)
       /\ \A j \in DOMAIN toBrowser[b] : toBrowser[b][j].type # "answer"
  /\ \A i \in DOMAIN toBrowser[b] :
       toBrowser[b][i].type = "answer" =>
         /\ toBrowser[b][i].of = Mine(b) /\ Expects(b)
         /\ \A j \in DOMAIN toBrowser[b] : toBrowser[b][j].type = "answer" => i = j
  /\ phase[b] = "answering" => answer[b] = Mine(b)

OneExchange == \A b \in Browsers : ExchangeOf(b)

\* From the beginning of an attempt on.
KeptFromStart ==
  \A b \in Browsers :
    received[b] /\ phase[b] \in {"creating", "offered", "answering", "stable", "open"}
      => Mine(b) \in added[b] \cup iceCandidateQueue[b]

\* A session something has been sent about: its offer is out.
Known(s) ==
  /\ s[2] <= conn[s[1]]
  /\ s[1] \in Browsers /\ phase[s[1]] = "creating" => s[2] < conn[s[1]]

AllKnown ==
  /\ \A c \in Clients : \A i \in DOMAIN toWorker[c] :
       toWorker[c][i].of[1] = c /\ Known(toWorker[c][i].of)
  /\ \A s \in queuedCandidates : Known(s)

NegotiationInv == /\ TypeOK /\ CanConnect /\ KeptFromStart
                  /\ OneExchange /\ AnswerFits
                  /\ AllKnown /\ CandidateAfterOffer
=============================================================================
