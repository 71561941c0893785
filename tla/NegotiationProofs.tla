------------------------- MODULE NegotiationProofs -------------------------
(* Machine-checked proofs about Negotiation, for any browsers and other       *)
(* clients, any number of connections, clicks and faults.                     *)
EXTENDS Negotiation, SequenceTheorems, TLAPS

USE ClientsAssumption, BoundsAssumption, SessionAssumption
-----------------------------------------------------------------------------
(* Queues *)

\* A message is added at the end.
LEMMA AppendFacts ==
  ASSUME NEW S, NEW q \in Seq(S), NEW m \in S
  PROVE  /\ Append(q, m) \in Seq(S)
         /\ Len(q) \in Nat
         /\ DOMAIN q = 1..Len(q) /\ DOMAIN Append(q, m) = 1..(Len(q) + 1)
         /\ \A i \in 1..Len(q) : Append(q, m)[i] = q[i]
         /\ Append(q, m)[Len(q) + 1] = m
  BY AppendProperties

\* The first message is taken.
LEMMA TailFacts ==
  ASSUME NEW S, NEW q \in Seq(S), q # <<>>
  PROVE  /\ Tail(q) \in Seq(S) /\ Head(q) \in S /\ Head(q) = q[1]
         /\ Len(q) \in Nat \ {0}
         /\ DOMAIN q = 1..Len(q) /\ DOMAIN Tail(q) = 1..(Len(q) - 1)
         /\ \A i \in 1..(Len(q) - 1) : Tail(q)[i] = q[i + 1]
  BY HeadTailProperties

\* Two messages are added.
LEMMA TwoFacts ==
  ASSUME NEW S, NEW q \in Seq(S), NEW a \in S, NEW b \in S
  PROVE  /\ q \o <<a, b>> \in Seq(S)
         /\ Len(q) \in Nat
         /\ DOMAIN (q \o <<a, b>>) = 1..(Len(q) + 2)
         /\ \A i \in 1..Len(q) : (q \o <<a, b>>)[i] = q[i]
         /\ (q \o <<a, b>>)[Len(q) + 1] = a /\ (q \o <<a, b>>)[Len(q) + 2] = b
<1>1. PICK r \in Seq(S) : r = <<a, b>>
  <2>1. <<a, b>> \in Seq(S)
    OBVIOUS
  <2> QED
    BY <2>1
<1>2. Len(r) = 2 /\ r[1] = a /\ r[2] = b /\ Len(q) \in Nat
  BY <1>1
<1>3. PICK t : t = q \o r
  OBVIOUS
<1>4. /\ t \in Seq(S) /\ Len(t) = Len(q) + Len(r)
      /\ \A i \in 1..(Len(q) + Len(r)) :
           t[i] = IF i <= Len(q) THEN q[i] ELSE r[i - Len(q)]
  BY <1>3, ConcatProperties
<1> DEFINE n == Len(q)
<1>5. PICK m \in Nat : m = n
  BY <1>2
<1>6. Len(t) = m + 2 /\ DOMAIN t = 1..(m + 2)
  BY <1>2, <1>4, <1>5
<1>7. \A i \in 1..(m + 2) : t[i] = IF i <= m THEN q[i] ELSE r[i - m]
  BY <1>2, <1>4, <1>5
<1>8. \A i \in 1..m : i \in 1..(m + 2) /\ i <= m
  OBVIOUS
<1>9. \A i \in 1..m : t[i] = q[i]
  BY <1>7, <1>8
<1>10. /\ m + 1 \in 1..(m + 2) /\ ~(m + 1 <= m) /\ (m + 1) - m = 1
       /\ m + 2 \in 1..(m + 2) /\ ~(m + 2 <= m) /\ (m + 2) - m = 2
  OBVIOUS
<1>11. t[m + 1] = r[1] /\ t[m + 2] = r[2]
  BY <1>7, <1>10
<1> QED
  BY <1>1, <1>2, <1>3, <1>4, <1>5, <1>6, <1>9, <1>11

UpMessages == MessageType({"offer", "candidate"})
DownMessages == MessageType({"answer", "candidate"})

\* Messages are records of a type and a session.
LEMMA MessageFacts ==
  /\ \A t, s : Message(t, s).type = t /\ Message(t, s).of = s
  /\ \A t \in {"offer", "candidate"}, s \in Session : Message(t, s) \in UpMessages
  /\ \A t \in {"answer", "candidate"}, s \in Session : Message(t, s) \in DownMessages
  /\ \A m \in UpMessages : m.type \in {"offer", "candidate"} /\ m.of \in Session
  /\ \A m \in DownMessages : m.type \in {"answer", "candidate"} /\ m.of \in Session
<1>1. \A t, s : Message(t, s).type = t /\ Message(t, s).of = s
  BY DEF Message
<1>2. /\ \A t \in {"offer", "candidate"}, s \in Session : Message(t, s) \in UpMessages
      /\ \A m \in UpMessages : m.type \in {"offer", "candidate"} /\ m.of \in Session
  BY DEF Message, UpMessages, MessageType
<1>3. /\ \A t \in {"answer", "candidate"}, s \in Session : Message(t, s) \in DownMessages
      /\ \A m \in DownMessages : m.type \in {"answer", "candidate"} /\ m.of \in Session
  BY DEF Message, DownMessages, MessageType
<1> QED
  BY <1>1, <1>2, <1>3

\* The queues, and what is in them.
LEMMA ChannelFacts ==
  ASSUME ChannelsOK
  PROVE  /\ DOMAIN toWorker = Clients /\ DOMAIN toBrowser = Browsers
         /\ \A c \in Clients :
              /\ toWorker[c] \in Seq(UpMessages) /\ Len(toWorker[c]) \in Nat
              /\ DOMAIN toWorker[c] = 1..Len(toWorker[c])
              /\ \A i \in DOMAIN toWorker[c] :
                   /\ toWorker[c][i].type \in {"offer", "candidate"}
                   /\ toWorker[c][i].of \in Session
         /\ \A b \in Browsers :
              /\ toBrowser[b] \in Seq(DownMessages) /\ Len(toBrowser[b]) \in Nat
              /\ DOMAIN toBrowser[b] = 1..Len(toBrowser[b])
              /\ \A i \in DOMAIN toBrowser[b] :
                   /\ toBrowser[b][i].type \in {"answer", "candidate"}
                   /\ toBrowser[b][i].of \in Session
<1>1. /\ toWorker \in [Clients -> Seq(UpMessages)]
      /\ toBrowser \in [Browsers -> Seq(DownMessages)]
  BY DEF ChannelsOK, UpMessages, DownMessages
<1>2. ASSUME NEW S, NEW q \in Seq(S)
      PROVE  /\ Len(q) \in Nat /\ DOMAIN q = 1..Len(q)
             /\ \A i \in DOMAIN q : q[i] \in S
  OBVIOUS
<1> QED
  BY <1>1, <1>2, MessageFacts

\* The worker takes a message of c.
LEMMA FromClientFacts ==
  ASSUME ChannelsOK, NEW c \in Clients, NEW t, FromClient(c, t)
  PROVE  /\ 1 \in DOMAIN toWorker[c] /\ Head(toWorker[c]) = toWorker[c][1]
         /\ toWorker[c][1].type = t /\ toWorker[c][1].of \in Session
         /\ toWorker' \in [Clients -> Seq(UpMessages)]
         /\ \A i \in DOMAIN toWorker'[c] :
              i + 1 \in DOMAIN toWorker[c] /\ toWorker'[c][i] = toWorker[c][i + 1]
         /\ \A d \in Clients : d # c => toWorker'[d] = toWorker[d]
<1>1. toWorker[c] \in Seq(UpMessages) /\ toWorker[c] # <<>>
  BY ChannelFacts DEF FromClient
<1>2. toWorker' = [toWorker EXCEPT ![c] = Tail(toWorker[c])]
  BY DEF FromClient
<1>3. /\ 1 \in DOMAIN toWorker[c] /\ Head(toWorker[c]) = toWorker[c][1]
      /\ Tail(toWorker[c]) \in Seq(UpMessages)
      /\ \A i \in DOMAIN Tail(toWorker[c]) :
           i + 1 \in DOMAIN toWorker[c] /\ Tail(toWorker[c])[i] = toWorker[c][i + 1]
  BY <1>1, TailFacts
<1>4. /\ toWorker'[c] = Tail(toWorker[c])
      /\ \A d \in Clients : d # c => toWorker'[d] = toWorker[d]
  BY <1>2, ChannelFacts
<1>5. toWorker' \in [Clients -> Seq(UpMessages)]
  BY <1>2, <1>3 DEF ChannelsOK, UpMessages
<1> QED
  BY <1>3, <1>4, <1>5, ChannelFacts DEF FromClient

\* Browser b takes a message of the worker.
LEMMA FromWorkerFacts ==
  ASSUME ChannelsOK, NEW b \in Browsers, NEW t, FromWorker(b, t)
  PROVE  /\ 1 \in DOMAIN toBrowser[b] /\ Head(toBrowser[b]) = toBrowser[b][1]
         /\ toBrowser[b][1].type = t /\ toBrowser[b][1].of \in Session
         /\ toBrowser' \in [Browsers -> Seq(DownMessages)]
         /\ \A i \in DOMAIN toBrowser'[b] :
              i + 1 \in DOMAIN toBrowser[b] /\ toBrowser'[b][i] = toBrowser[b][i + 1]
         /\ \A d \in Browsers : d # b => toBrowser'[d] = toBrowser[d]
<1>1. toBrowser[b] \in Seq(DownMessages) /\ toBrowser[b] # <<>>
  BY ChannelFacts DEF FromWorker
<1>2. toBrowser' = [toBrowser EXCEPT ![b] = Tail(toBrowser[b])]
  BY DEF FromWorker
<1>3. /\ 1 \in DOMAIN toBrowser[b] /\ Head(toBrowser[b]) = toBrowser[b][1]
      /\ Tail(toBrowser[b]) \in Seq(DownMessages)
      /\ \A i \in DOMAIN Tail(toBrowser[b]) :
           i + 1 \in DOMAIN toBrowser[b] /\ Tail(toBrowser[b])[i] = toBrowser[b][i + 1]
  BY <1>1, TailFacts
<1>4. /\ toBrowser'[b] = Tail(toBrowser[b])
      /\ \A d \in Browsers : d # b => toBrowser'[d] = toBrowser[d]
  BY <1>2, ChannelFacts
<1>5. toBrowser' \in [Browsers -> Seq(DownMessages)]
  BY <1>2, <1>3 DEF ChannelsOK, DownMessages
<1> QED
  BY <1>3, <1>4, <1>5, ChannelFacts DEF FromWorker

\* Browser b sends a message.
LEMMA SendToWorkerFacts ==
  ASSUME ChannelsOK, NEW b \in Clients, NEW m \in UpMessages, SendToWorker(b, m)
  PROVE  /\ toWorker' \in [Clients -> Seq(UpMessages)]
         /\ DOMAIN toWorker'[b] = 1..(Len(toWorker[b]) + 1)
         /\ \A i \in DOMAIN toWorker[b] : toWorker'[b][i] = toWorker[b][i]
         /\ toWorker'[b][Len(toWorker[b]) + 1] = m
         /\ \A d \in Clients : d # b => toWorker'[d] = toWorker[d]
<1>1. toWorker' = [toWorker EXCEPT ![b] = Append(toWorker[b], m)]
  BY DEF SendToWorker
<1>2. /\ toWorker'[b] = Append(toWorker[b], m)
      /\ \A d \in Clients : d # b => toWorker'[d] = toWorker[d]
  BY <1>1, ChannelFacts
<1>3. Append(toWorker[b], m) \in Seq(UpMessages)
  BY ChannelFacts, AppendFacts
<1>4. toWorker' \in [Clients -> Seq(UpMessages)]
  BY <1>1, <1>3 DEF ChannelsOK, UpMessages
<1> QED
  BY <1>2, <1>4, ChannelFacts, AppendFacts

\* The worker sends a message to client c, which may be one of the others.
LEMMA SendToClientFacts ==
  ASSUME ChannelsOK, NEW c, NEW m \in DownMessages, SendToClient(c, m)
  PROVE  /\ toBrowser' \in [Browsers -> Seq(DownMessages)]
         /\ c \in Browsers =>
              /\ DOMAIN toBrowser'[c] = 1..(Len(toBrowser[c]) + 1)
              /\ \A i \in DOMAIN toBrowser[c] : toBrowser'[c][i] = toBrowser[c][i]
              /\ toBrowser'[c][Len(toBrowser[c]) + 1] = m
         /\ \A d \in Browsers : d # c => toBrowser'[d] = toBrowser[d]
<1>1. CASE c \in Browsers
  <2>1. toBrowser' = [toBrowser EXCEPT ![c] = Append(toBrowser[c], m)]
    BY <1>1 DEF SendToClient
  <2>2. /\ toBrowser'[c] = Append(toBrowser[c], m)
        /\ \A d \in Browsers : d # c => toBrowser'[d] = toBrowser[d]
    BY <1>1, <2>1, ChannelFacts
  <2>3. Append(toBrowser[c], m) \in Seq(DownMessages)
    BY <1>1, ChannelFacts, AppendFacts
  <2>4. toBrowser' \in [Browsers -> Seq(DownMessages)]
    BY <2>1, <2>3 DEF ChannelsOK, DownMessages
  <2> QED
    BY <1>1, <2>2, <2>4, ChannelFacts, AppendFacts
<1>2. CASE c \notin Browsers
  BY <1>2 DEF SendToClient, ChannelsOK, DownMessages
<1> QED
  BY <1>1, <1>2

\* One of the others sends an offer and a candidate.
LEMMA OtherOfferFacts ==
  ASSUME PeerOK, ChannelsOK, NEW o \in Others, OtherOffer(o)
  PROVE  LET n == Len(toWorker[o]) IN
         /\ toWorker' \in [Clients -> Seq(UpMessages)]
         /\ DOMAIN toWorker'[o] = 1..(n + 2)
         /\ \A i \in DOMAIN toWorker[o] : toWorker'[o][i] = toWorker[o][i]
         /\ toWorker'[o][n + 1] = Message("offer", <<o, conn[o] + 1>>)
         /\ toWorker'[o][n + 2] = Message("candidate", <<o, conn[o] + 1>>)
         /\ \A d \in Clients : d # o => toWorker'[d] = toWorker[d]
<1>1. PICK s \in Session : s = <<o, conn[o] + 1>>
  <2>1. o \in Clients /\ conn[o] + 1 \in Nat
    BY DEF Clients, PeerOK
  <2>2. <<o, conn[o] + 1>> \in Session
    BY <2>1 DEF Session
  <2> QED
    BY <2>2
<1>2. PICK a \in UpMessages, b \in UpMessages :
        a = Message("offer", s) /\ b = Message("candidate", s)
  BY MessageFacts
<1>3. o \in Clients /\ toWorker[o] \in Seq(UpMessages)
  BY ChannelFacts DEF Clients
<1>4. toWorker' = [toWorker EXCEPT ![o] = toWorker[o] \o <<a, b>>]
  BY <1>1, <1>2 DEF OtherOffer
<1>5. toWorker[o] \o <<a, b>> \in Seq(UpMessages)
  BY <1>3, TwoFacts
<1>6. toWorker' \in [Clients -> Seq(UpMessages)]
  BY <1>4, <1>5 DEF ChannelsOK, UpMessages
<1>7. /\ toWorker'[o] = toWorker[o] \o <<a, b>>
      /\ \A d \in Clients : d # o => toWorker'[d] = toWorker[d]
  BY <1>3, <1>4, ChannelFacts
<1>8. DOMAIN toWorker[o] = 1..Len(toWorker[o])
  BY <1>3, ChannelFacts
<1> QED
  BY <1>1, <1>2, <1>3, <1>6, <1>7, <1>8, TwoFacts
-----------------------------------------------------------------------------
LEMMA InitInv == Init => NegotiationInv
<1> SUFFICES ASSUME Init PROVE NegotiationInv
  OBVIOUS
<1>1. CameraOK /\ ConnectOK
  BY DEF Init, CameraOK, ConnectOK, Phase
<1>2. PeerOK
  BY DEF Init, PeerOK, Session
<1>3. WorkerOK
  BY DEF Init, WorkerOK
<1>4. ChannelsOK
  <2>1. /\ \A c \in Clients : toWorker[c] = <<>>
        /\ \A b \in Browsers : toBrowser[b] = <<>>
    BY DEF Init
  <2> QED
    BY <2>1 DEF Init, ChannelsOK
<1>5. CanConnect /\ KeptFromStart /\ AnswerFits
  BY DEF Init, CanConnect, KeptFromStart, AnswerFits
<1>6. /\ \A c \in Clients : DOMAIN toWorker[c] = {}
      /\ \A b \in Browsers : DOMAIN toBrowser[b] = {}
  BY DEF Init, Clients
<1>7. OneExchange
  BY <1>6 DEF Init, OneExchange, ExchangeOf, Answering, Clients
<1>8. AllKnown /\ CandidateAfterOffer
  BY <1>6 DEF Init, AllKnown, CandidateAfterOffer
<1> QED
  BY <1>1, <1>2, <1>3, <1>4, <1>5, <1>7, <1>8 DEF NegotiationInv, TypeOK
-----------------------------------------------------------------------------
(* Which steps change what *)

CameraStep(b) == ClickStart(b) \/ CameraStarted(b) \/ CameraFails(b)

LEMMA CameraFrame ==
  [Next]_vars => \/ \E b \in Browsers : CameraStep(b) \/ Stop(b)
                 \/ UNCHANGED cameraVars
  BY DEF Next, vars, BrowserStep, CameraStep, cameraVars, ClickConnect, SendOffer,
         ConnectError, handleConnectionError, SendCandidate, ReceiveAnswer,
         AnswerApplied, AnswerFails, ReceiveCandidate, ChannelOpen, Failed, Lose,
         OtherOffer, HandleOffer, OfferFails, HandleCandidate, SetDescriptions,
         DescriptionFails, SendAnswer, OnICECandidate

ConnectStep(b) ==
  \/ CameraStarted(b) \/ ClickConnect(b) \/ Stop(b) \/ SendOffer(b)
  \/ ConnectError(b) \/ ReceiveAnswer(b) \/ AnswerApplied(b) \/ AnswerFails(b)
  \/ ChannelOpen(b) \/ Failed(b)

LEMMA ConnectFrame ==
  [Next]_vars => \/ \E b \in Browsers : ConnectStep(b)
                 \/ UNCHANGED <<connectVars, phase>>
  BY DEF Next, vars, BrowserStep, ConnectStep, connectVars, peerVars, ClickStart,
         CameraFails, SendCandidate, ReceiveCandidate, Lose, OtherOffer,
         HandleOffer, OfferFails, HandleCandidate, SetDescriptions,
         DescriptionFails, SendAnswer, OnICECandidate

PeerStep(b) ==
  \/ ClickConnect(b) \/ SendCandidate(b) \/ ReceiveAnswer(b)
  \/ AnswerApplied(b) \/ ReceiveCandidate(b)

LEMMA PeerFrame ==
  [Next]_vars =>
    \/ \E b \in Browsers : PeerStep(b)
    \/ \E o \in Others : OtherOffer(o)
    \/ UNCHANGED <<conn, answer, remoteDescription, iceCandidateQueue, received,
                   added, gathered>>
  BY DEF Next, vars, BrowserStep, PeerStep, peerVars, ClickStart, CameraStarted,
         CameraFails, Stop, SendOffer, ConnectError, handleConnectionError,
         AnswerFails, ChannelOpen, Failed, Lose,
         HandleOffer, OfferFails, HandleCandidate, SetDescriptions,
         DescriptionFails, SendAnswer, OnICECandidate

WorkerStep ==
  \/ \E c \in Clients : HandleOffer(c) \/ OfferFails(c) \/ HandleCandidate(c)
  \/ SetDescriptions \/ DescriptionFails \/ SendAnswer
  \/ \E s \in gathering : OnICECandidate(s)

LEMMA WorkerFrame == [Next]_vars => WorkerStep \/ UNCHANGED workerVars
  BY DEF Next, vars, BrowserStep, WorkerStep, workerVars, ClickStart, CameraStarted,
         CameraFails, ClickConnect, Stop, SendOffer,
         ConnectError, handleConnectionError, SendCandidate, ReceiveAnswer,
         AnswerApplied, AnswerFails, ReceiveCandidate, ChannelOpen, Failed, Lose,
         OtherOffer
-----------------------------------------------------------------------------
(* Types *)

LEMMA CameraTypes == CameraOK /\ [Next]_vars => CameraOK'
<1> SUFFICES ASSUME CameraOK, [Next]_vars PROVE CameraOK'
  OBVIOUS
<1> USE DEF CameraOK, connectVars
<1>1. ASSUME NEW b \in Browsers, CameraStep(b) PROVE CameraOK'
  <2>1. CASE ClickStart(b)
    <3>1. starting[b] + 1 \in 0..MaxStarts
      BY <2>1 DEF ClickStart
    <3> QED
      BY <2>1, <3>1 DEF ClickStart
  <2>2. CASE CameraStarted(b) \/ CameraFails(b)
    <3>1. starting[b] - 1 \in 0..MaxStarts
      BY <2>2 DEF CameraStarted, CameraFails
    <3>2. CASE CameraStarted(b)
      <4>1. /\ localStream' = [localStream EXCEPT ![b] = TRUE]
            /\ startBtn' = [startBtn EXCEPT ![b] = FALSE]
            /\ starting' = [starting EXCEPT ![b] = @ - 1]
        BY <3>2 DEF CameraStarted
      <4>2. \A d \in Browsers : ~localStream'[d] => startBtn'[d]
        <5> TAKE d \in Browsers
        <5>1. CASE d = b
          BY <4>1, <5>1
        <5>2. CASE d # b
          BY <4>1, <5>2
        <5> QED
          BY <5>1, <5>2
      <4> QED
        BY <3>1, <4>1, <4>2
    <3>3. CASE CameraFails(b)
      BY <3>1, <3>3 DEF CameraFails
    <3> QED
      BY <2>2, <3>2, <3>3
  <2> QED
    BY <1>1, <2>1, <2>2 DEF CameraStep
<1>2. ASSUME NEW b \in Browsers, Stop(b) PROVE CameraOK'
  BY <1>2 DEF Stop
<1>3. ASSUME UNCHANGED cameraVars PROVE CameraOK'
  BY <1>3 DEF cameraVars
<1> QED
  BY <1>1, <1>2, <1>3, CameraFrame

LEMMA ConnectTypes == ConnectOK /\ [Next]_vars => ConnectOK'
<1> SUFFICES ASSUME ConnectOK, [Next]_vars PROVE ConnectOK'
  OBVIOUS
<1> USE DEF ConnectOK, Phase, connectVars
<1>1. ASSUME NEW b \in Browsers, CameraStarted(b) PROVE ConnectOK'
  BY <1>1 DEF CameraStarted, peerVars
<1>2. ASSUME NEW b \in Browsers, ClickConnect(b) PROVE ConnectOK'
  BY <1>2 DEF ClickConnect, StartConnecting
<1>3. ASSUME NEW b \in Browsers, Stop(b) PROVE ConnectOK'
  BY <1>3 DEF Stop
<1>4. ASSUME NEW b \in Browsers,
             \/ SendOffer(b) \/ ReceiveAnswer(b)
             \/ AnswerApplied(b) \/ AnswerFails(b)
      PROVE  ConnectOK'
  BY <1>4 DEF SendOffer, ReceiveAnswer, AnswerApplied, AnswerFails
<1>5. ASSUME NEW b \in Browsers, ConnectError(b) \/ Failed(b) PROVE ConnectOK'
  BY <1>5 DEF ConnectError, Failed, handleConnectionError, LeaveConnecting,
              AllowConnect
<1>6. ASSUME NEW b \in Browsers, ChannelOpen(b) PROVE ConnectOK'
  BY <1>6 DEF ChannelOpen
<1>7. ASSUME UNCHANGED <<connectVars, phase>> PROVE ConnectOK'
  BY <1>7
<1> QED
  BY <1>1, <1>2, <1>3, <1>4, <1>5, <1>6, <1>7, ConnectFrame DEF ConnectStep

LEMMA PeerTypes == TypeOK /\ [Next]_vars => PeerOK'
<1> SUFFICES ASSUME TypeOK, [Next]_vars PROVE PeerOK'
  OBVIOUS
<1> USE DEF TypeOK, PeerOK
<1>1. ASSUME NEW b \in Browsers, ClickConnect(b) PROVE PeerOK'
  <2>1. b \in Clients /\ conn[b] + 1 \in Nat /\ conn[b] + 1 <= MaxConns[b]
    BY <1>1 DEF ClickConnect, Clients
  <2> QED
    BY <1>1, <2>1 DEF ClickConnect
<1>2. ASSUME NEW b \in Browsers, SendCandidate(b) PROVE PeerOK'
  BY <1>2 DEF SendCandidate
<1>3. ASSUME NEW b \in Browsers, ReceiveAnswer(b) PROVE PeerOK'
  <2>1. Head(toBrowser[b]).of \in Session
    BY <1>3, FromWorkerFacts DEF ReceiveAnswer
  <2> QED
    BY <1>3, <2>1 DEF ReceiveAnswer
<1>4. ASSUME NEW b \in Browsers, AnswerApplied(b) PROVE PeerOK'
  BY <1>4 DEF AnswerApplied, Flush
<1>5. ASSUME NEW b \in Browsers, ReceiveCandidate(b) PROVE PeerOK'
  <2> DEFINE s == Head(toBrowser[b]).of
  <2>1. s \in Session
    BY <1>5, FromWorkerFacts DEF ReceiveCandidate
  <2>2. /\ received' \in [Browsers -> BOOLEAN]
        /\ UNCHANGED <<conn, answer, remoteDescription, gathered>>
    BY <1>5 DEF ReceiveCandidate
  <2>3. /\ \/ added' = added \/ added' = [added EXCEPT ![b] = @ \cup {s}]
        /\ \/ iceCandidateQueue' = iceCandidateQueue
           \/ iceCandidateQueue' = [iceCandidateQueue EXCEPT ![b] = @ \cup {s}]
    BY <1>5 DEF ReceiveCandidate
  <2> QED
    BY <2>1, <2>2, <2>3
<1>6. ASSUME NEW o \in Others, OtherOffer(o) PROVE PeerOK'
  <2>1. o \in Clients /\ conn[o] + 1 \in Nat /\ conn[o] + 1 <= MaxConns[o]
    BY <1>6 DEF OtherOffer, Clients
  <2> QED
    BY <1>6, <2>1 DEF OtherOffer
<1>7. ASSUME UNCHANGED <<conn, answer, remoteDescription, iceCandidateQueue,
                         received, added, gathered>>
      PROVE  PeerOK'
  BY <1>7
<1> QED
  BY <1>1, <1>2, <1>3, <1>4, <1>5, <1>6, <1>7, PeerFrame DEF PeerStep

LEMMA WorkerTypes == TypeOK /\ [Next]_vars => WorkerOK'
<1> SUFFICES ASSUME TypeOK, [Next]_vars PROVE WorkerOK'
  OBVIOUS
<1> USE DEF TypeOK, WorkerOK
<1>1. ASSUME NEW c \in Clients, FromClient(c, "offer") \/ FromClient(c, "candidate")
      PROVE  Head(toWorker[c]).of \in Session
  BY <1>1, FromClientFacts
<1>2. ASSUME NEW c \in Clients, HandleOffer(c) \/ OfferFails(c) \/ HandleCandidate(c)
      PROVE  WorkerOK'
  BY <1>1, <1>2 DEF HandleOffer, OfferFails, HandleCandidate
<1>3. ASSUME SetDescriptions \/ DescriptionFails \/ SendAnswer PROVE WorkerOK'
  BY <1>3 DEF SetDescriptions, DescriptionFails, SendAnswer
<1>4. ASSUME NEW s \in gathering, OnICECandidate(s) PROVE WorkerOK'
  BY <1>4 DEF OnICECandidate
<1>5. ASSUME UNCHANGED workerVars PROVE WorkerOK'
  BY <1>5 DEF workerVars
<1> QED
  BY <1>2, <1>3, <1>4, <1>5, WorkerFrame DEF WorkerStep

\* A message is taken off, sent, or neither; a fault is counted or none happens.
LEMMA ChannelTypes == TypeOK /\ [Next]_vars => ChannelsOK'
<1> SUFFICES ASSUME TypeOK, [Next]_vars PROVE ChannelsOK'
  OBVIOUS
<1> USE DEF TypeOK
<1> DEFINE Up == toWorker' \in [Clients -> Seq(UpMessages)]
           Down == toBrowser' \in [Browsers -> Seq(DownMessages)]
           Counted == faults' \in 0..MaxFaults
<1>1. /\ toWorker' = toWorker => Up
      /\ toBrowser' = toBrowser => Down
      /\ faults' = faults \/ Fault => Counted
  BY DEF ChannelsOK, UpMessages, DownMessages, Fault
<1>2. ASSUME Up, Down, Counted PROVE ChannelsOK'
  BY <1>2 DEF ChannelsOK, UpMessages, DownMessages, MessageType, Session
<1> HIDE DEF Up, Down, Counted
<1>3. ASSUME NEW b \in Browsers,
             \/ CameraStep(b) \/ ClickConnect(b) \/ Stop(b) \/ ConnectError(b)
             \/ AnswerApplied(b) \/ AnswerFails(b) \/ ChannelOpen(b) \/ Failed(b)
      PROVE  ChannelsOK'
  BY <1>1, <1>2, <1>3
     DEF CameraStep, ClickStart, CameraStarted, CameraFails, ClickConnect, Stop,
         ConnectError, AnswerApplied, AnswerFails, ChannelOpen, Failed,
         handleConnectionError
<1>4. ASSUME NEW b \in Browsers, SendOffer(b) \/ SendCandidate(b) PROVE ChannelsOK'
  <2>1. b \in Clients /\ Mine(b) \in Session
    BY DEF Clients, Mine, Session, PeerOK
  <2>2. Up
    BY <1>4, <2>1, SendToWorkerFacts, MessageFacts DEF SendOffer, SendCandidate, Up
  <2> QED
    BY <1>1, <1>2, <1>4, <2>2 DEF SendOffer, SendCandidate
<1>5. ASSUME NEW b \in Browsers, ReceiveAnswer(b) \/ ReceiveCandidate(b)
      PROVE  ChannelsOK'
  <2>1. Down
    BY <1>5, FromWorkerFacts DEF ReceiveAnswer, ReceiveCandidate, Down
  <2> QED
    BY <1>1, <1>2, <1>5, <2>1 DEF ReceiveAnswer, ReceiveCandidate
<1>6. ASSUME NEW b \in Browsers, Lose(b) PROVE ChannelsOK'
  <2>1. CASE FromClient(b, Head(toWorker[b]).type) /\ UNCHANGED toBrowser
    BY <1>1, <1>2, <1>6, <2>1, FromClientFacts DEF Lose, Up, Clients
  <2>2. CASE FromWorker(b, Head(toBrowser[b]).type) /\ UNCHANGED toWorker
    BY <1>1, <1>2, <1>6, <2>2, FromWorkerFacts DEF Lose, Down
  <2> QED
    BY <1>6, <2>1, <2>2 DEF Lose, FromClient, FromWorker
<1>7. ASSUME NEW o \in Others, OtherOffer(o) PROVE ChannelsOK'
  <2>1. Up
    BY <1>7, OtherOfferFacts DEF Up
  <2> QED
    BY <1>1, <1>2, <1>7, <2>1 DEF OtherOffer
<1>8. ASSUME NEW c \in Clients, HandleOffer(c) \/ OfferFails(c) \/ HandleCandidate(c)
      PROVE  ChannelsOK'
  <2>1. Up
    BY <1>8, FromClientFacts DEF HandleOffer, OfferFails, HandleCandidate, Up
  <2> QED
    BY <1>1, <1>2, <1>8, <2>1 DEF HandleOffer, OfferFails, HandleCandidate
<1>9. ASSUME SetDescriptions \/ DescriptionFails PROVE ChannelsOK'
  BY <1>1, <1>2, <1>9 DEF SetDescriptions, DescriptionFails
<1>10. ASSUME SendAnswer PROVE ChannelsOK'
  <2>1. Down
    BY <1>10, SendToClientFacts, MessageFacts DEF SendAnswer, Down, WorkerOK
  <2> QED
    BY <1>1, <1>2, <1>10, <2>1 DEF SendAnswer
<1>11. ASSUME NEW s \in gathering, OnICECandidate(s) PROVE ChannelsOK'
  <2>1. Down
    BY <1>11, SendToClientFacts, MessageFacts DEF OnICECandidate, Down, WorkerOK
  <2> QED
    BY <1>1, <1>2, <1>11, <2>1 DEF OnICECandidate
<1>12. ASSUME UNCHANGED vars PROVE ChannelsOK'
  BY <1>1, <1>2, <1>12 DEF vars
<1> QED
  BY <1>3, <1>4, <1>5, <1>6, <1>7, <1>8, <1>9, <1>10, <1>11, <1>12
     DEF Next, BrowserStep, CameraStep

LEMMA TypeStep == TypeOK /\ [Next]_vars => TypeOK'
  BY CameraTypes, ConnectTypes, PeerTypes, WorkerTypes, ChannelTypes DEF TypeOK
-----------------------------------------------------------------------------
(* Buttons *)

LEMMA CanConnectStep == TypeOK /\ CanConnect /\ [Next]_vars => CanConnect'
<1> SUFFICES ASSUME TypeOK, CanConnect, [Next]_vars, NEW d \in Browsers,
                    ~isConnecting'[d], phase'[d] # "open"
             PROVE  connectBtn'[d]
  BY DEF CanConnect
<1> USE DEF TypeOK, ConnectOK, CanConnect, Phase
<1>1. ASSUME NEW b \in Browsers, CameraStarted(b) PROVE connectBtn'[d]
  BY <1>1 DEF CameraStarted, peerVars
<1>2. ASSUME NEW b \in Browsers, ClickConnect(b) PROVE connectBtn'[d]
  BY <1>2 DEF ClickConnect, StartConnecting
<1>3. ASSUME NEW b \in Browsers, Stop(b) PROVE connectBtn'[d]
  BY <1>3 DEF Stop
<1>4. ASSUME NEW b \in Browsers,
             \/ SendOffer(b) \/ ReceiveAnswer(b)
             \/ AnswerApplied(b) \/ AnswerFails(b)
      PROVE  connectBtn'[d]
  <2>1. /\ isConnecting' = isConnecting /\ connectBtn' = connectBtn
        /\ phase[d] = "open" => phase'[d] = "open"
    BY <1>4 DEF SendOffer, ReceiveAnswer, AnswerApplied, AnswerFails, connectVars
  <2> QED
    BY <2>1
<1>5. ASSUME NEW b \in Browsers, ConnectError(b) \/ Failed(b) PROVE connectBtn'[d]
  BY <1>5 DEF ConnectError, Failed, handleConnectionError, LeaveConnecting,
              AllowConnect
<1>6. ASSUME NEW b \in Browsers, ChannelOpen(b) PROVE connectBtn'[d]
  BY <1>6 DEF ChannelOpen
<1>7. ASSUME UNCHANGED <<connectVars, phase>> PROVE connectBtn'[d]
  BY <1>7 DEF connectVars
<1> QED
  BY <1>1, <1>2, <1>3, <1>4, <1>5, <1>6, <1>7, ConnectFrame DEF ConnectStep
-----------------------------------------------------------------------------
(* Candidates of the worker *)

\* A connection that is being set up or is open.
Live(p) == p \in {"creating", "offered", "answering", "stable", "open"}

\* A step that sets up no new connection brings none to life.
LEMMA LiveStep ==
  ASSUME ConnectOK, [Next]_vars, NEW d \in Browsers, ~ClickConnect(d), Live(phase'[d])
  PROVE  Live(phase[d])
<1> USE DEF ConnectOK, Phase, Live
<1>1. ASSUME NEW b \in Browsers, ConnectStep(b), ~ClickConnect(b) PROVE Live(phase[d])
  <2>1. CASE CameraStarted(b)
    BY <1>1, <2>1 DEF CameraStarted, peerVars
  <2>2. CASE ~CameraStarted(b)
    BY <1>1, <2>2 DEF ConnectStep, Stop, SendOffer, ConnectError, Failed,
         handleConnectionError, ReceiveAnswer, AnswerApplied, AnswerFails, ChannelOpen
  <2> QED
    BY <2>1, <2>2
<1>2. ASSUME NEW b \in Browsers, ClickConnect(b) PROVE Live(phase[d])
  BY <1>2 DEF ClickConnect
<1> QED
  BY <1>1, <1>2, ConnectFrame

LEMMA KeptStep == TypeOK /\ KeptFromStart /\ [Next]_vars => KeptFromStart'
<1> SUFFICES ASSUME TypeOK, KeptFromStart, [Next]_vars, NEW d \in Browsers,
                    received'[d], Live(phase'[d])
             PROVE  Mine(d)' \in added'[d] \cup iceCandidateQueue'[d]
  BY DEF KeptFromStart, Live
<1> USE DEF TypeOK, PeerOK, Mine
<1> DEFINE Kept == Mine(d) \in added[d] \cup iceCandidateQueue[d]
<1>1. received[d] /\ Live(phase[d]) => Kept
  BY DEF KeptFromStart, Live
<1>2. d \in Clients
  BY DEF Clients
<1>3. ASSUME NEW b \in Browsers, ClickConnect(b) PROVE Kept'
  <2>1. CASE b = d
    BY <1>3, <2>1 DEF ClickConnect
  <2>2. CASE b # d
    BY <1>1, <1>2, <1>3, <2>2 DEF ClickConnect, ConnectOK
  <2> QED
    BY <2>1, <2>2
<1>4. ASSUME \A b \in Browsers : ~ClickConnect(b) PROVE Live(phase[d])
  BY <1>4, LiveStep
<1>5. ASSUME NEW b \in Browsers, SendCandidate(b) \/ ReceiveAnswer(b),
             Live(phase[d])
      PROVE  Kept'
  BY <1>1, <1>5 DEF SendCandidate, ReceiveAnswer
<1>6. ASSUME NEW b \in Browsers, AnswerApplied(b), Live(phase[d]) PROVE Kept'
  BY <1>1, <1>6 DEF AnswerApplied, Flush
<1>7. ASSUME NEW b \in Browsers, ReceiveCandidate(b), Live(phase[d]) PROVE Kept'
  <2> DEFINE c == Head(toBrowser[b]).of
  <2>1. /\ received' = [received EXCEPT ![b] = @ \/ c = Mine(b)]
        /\ conn' = conn /\ phase' = phase
    BY <1>7 DEF ReceiveCandidate
  <2>2. CASE b = d
    <3>1. received[d] \/ c = Mine(d)
      BY <2>1, <2>2
    <3>2. \/ /\ added' = [added EXCEPT ![d] = @ \cup {c}]
             /\ iceCandidateQueue' = iceCandidateQueue
          \/ /\ iceCandidateQueue' = [iceCandidateQueue EXCEPT ![d] = @ \cup {c}]
             /\ added' = added
      BY <1>7, <2>2 DEF ReceiveCandidate, Live
    <3>3. added'[d] \cup iceCandidateQueue'[d]
            = added[d] \cup iceCandidateQueue[d] \cup {c}
      BY <3>2
    <3> QED
      BY <1>1, <1>7, <2>1, <3>1, <3>3
  <2>3. CASE b # d
    <3>1. /\ added'[d] = added[d] /\ iceCandidateQueue'[d] = iceCandidateQueue[d]
          /\ received'[d] = received[d]
      BY <1>7, <2>1, <2>3 DEF ReceiveCandidate
    <3> QED
      BY <1>1, <1>7, <2>1, <3>1
  <2> QED
    BY <2>2, <2>3
<1>8. ASSUME NEW o \in Others, OtherOffer(o), Live(phase[d]) PROVE Kept'
  BY <1>1, <1>2, <1>8 DEF OtherOffer
<1>9. ASSUME UNCHANGED <<conn, answer, remoteDescription, iceCandidateQueue,
                         received, added, gathered>>,
             Live(phase[d])
      PROVE  Kept'
  BY <1>1, <1>9
<1> QED
  BY <1>3, <1>4, <1>5, <1>6, <1>7, <1>8, <1>9, PeerFrame DEF PeerStep
-----------------------------------------------------------------------------
(* Offers and answers *)

\* If b expects no answer, there is neither an offer nor an answer of it.
LEMMA NothingExpected ==
  ASSUME NEW d \in Browsers, ExchangeOf(d), ~Expects(d)
  PROVE  /\ \A i \in DOMAIN toWorker[d] : toWorker[d][i].type # "offer"
         /\ \A i \in DOMAIN toBrowser[d] : toBrowser[d][i].type # "answer"
         /\ ~Answering(d)
  BY DEF ExchangeOf

\* A step that sends d's side no offer or answer, takes at most the first message
\* off each queue, and turns nothing of what d expects.
LEMMA ExchangeStays ==
  ASSUME TypeOK, NEW d \in Browsers, ExchangeOf(d), NEW k \in {0, 1}, NEW l \in {0, 1},
         DOMAIN toWorker'[d] \subseteq Nat, DOMAIN toBrowser'[d] \subseteq Nat,
         \A i \in DOMAIN toWorker'[d] : toWorker'[d][i].type = "offer" =>
           i + k \in DOMAIN toWorker[d] /\ toWorker'[d][i] = toWorker[d][i + k],
         \A i \in DOMAIN toBrowser'[d] : toBrowser'[d][i].type = "answer" =>
           i + l \in DOMAIN toBrowser[d] /\ toBrowser'[d][i] = toBrowser[d][i + l],
         Expects(d) => Expects(d)' /\ conn'[d] = conn[d],
         Answering(d)' => Answering(d) /\ session' = session,
         phase'[d] = "answering" =>
           phase[d] = "answering" /\ answer'[d] = answer[d] /\ conn'[d] = conn[d]
  PROVE  ExchangeOf(d)'
<1> USE DEF Mine
<1>1. \A i \in DOMAIN toBrowser'[d] :
        toBrowser'[d][i].type = "answer" =>
          /\ toBrowser'[d][i].of = Mine(d)' /\ Expects(d)'
          /\ \A j \in DOMAIN toBrowser'[d] : toBrowser'[d][j].type = "answer" => i = j
  <2> SUFFICES ASSUME NEW i \in DOMAIN toBrowser'[d], toBrowser'[d][i].type = "answer"
               PROVE  /\ toBrowser'[d][i].of = Mine(d)' /\ Expects(d)'
                      /\ \A j \in DOMAIN toBrowser'[d] :
                           toBrowser'[d][j].type = "answer" => i = j
    OBVIOUS
  <2>1. toBrowser'[d][i].of = Mine(d) /\ Expects(d)
    BY DEF ExchangeOf
  <2>2. ASSUME NEW j \in DOMAIN toBrowser'[d], toBrowser'[d][j].type = "answer"
        PROVE  i = j
    <3>1. i + l = j + l
      BY <2>2 DEF ExchangeOf
    <3> QED
      BY <3>1
  <2> QED
    BY <2>1, <2>2
<1>2. \/ Answering(d)
      \/ \E i \in DOMAIN toWorker[d] : toWorker[d][i].type = "offer"
      => \A j \in DOMAIN toBrowser'[d] : toBrowser'[d][j].type # "answer"
  BY DEF ExchangeOf
<1>3. \A i \in DOMAIN toWorker'[d] :
        toWorker'[d][i].type = "offer" =>
          /\ toWorker'[d][i].of = Mine(d)' /\ Expects(d)'
          /\ ~Answering(d)'
          /\ \A j \in DOMAIN toWorker'[d] : toWorker'[d][j].type = "offer" => i = j
          /\ \A j \in DOMAIN toBrowser'[d] : toBrowser'[d][j].type # "answer"
  <2> SUFFICES ASSUME NEW i \in DOMAIN toWorker'[d], toWorker'[d][i].type = "offer"
               PROVE  /\ toWorker'[d][i].of = Mine(d)' /\ Expects(d)'
                      /\ ~Answering(d)'
                      /\ \A j \in DOMAIN toWorker'[d] :
                           toWorker'[d][j].type = "offer" => i = j
                      /\ \A j \in DOMAIN toBrowser'[d] :
                           toBrowser'[d][j].type # "answer"
    OBVIOUS
  <2>1. toWorker'[d][i].of = Mine(d) /\ Expects(d) /\ ~Answering(d)
    BY DEF ExchangeOf
  <2>2. ASSUME NEW j \in DOMAIN toWorker'[d], toWorker'[d][j].type = "offer"
        PROVE  i = j
    <3>1. i + k = j + k
      BY <2>2 DEF ExchangeOf
    <3> QED
      BY <3>1
  <2> QED
    BY <1>2, <2>1, <2>2
<1>4. Answering(d)' => session' = Mine(d)' /\ Expects(d)'
  BY DEF ExchangeOf
<1>5. phase'[d] = "answering" => answer'[d] = Mine(d)'
  BY DEF ExchangeOf
<1> QED
  BY <1>1, <1>2, <1>3, <1>4, <1>5 DEF ExchangeOf

\* A step that leaves d's queues as they are.
LEMMA ExchangeQuiet ==
  ASSUME TypeOK, NEW d \in Browsers, ExchangeOf(d),
         toWorker'[d] = toWorker[d], toBrowser'[d] = toBrowser[d],
         Expects(d) => Expects(d)' /\ conn'[d] = conn[d],
         Answering(d)' => Answering(d) /\ session' = session,
         phase'[d] = "answering" =>
           phase[d] = "answering" /\ answer'[d] = answer[d] /\ conn'[d] = conn[d]
  PROVE  ExchangeOf(d)'
<1>1. DOMAIN toWorker[d] \subseteq Nat /\ DOMAIN toBrowser[d] \subseteq Nat
  BY ChannelFacts DEF TypeOK, Clients
<1>2. /\ \A i \in DOMAIN toWorker[d] : i + 0 = i
      /\ \A i \in DOMAIN toBrowser[d] : i + 0 = i
  BY <1>1
<1> QED
  BY <1>1, <1>2, ExchangeStays

\* The offer of a new connection.
LEMMA OfferSent ==
  ASSUME TypeOK, NEW d \in Browsers, ExchangeOf(d), SendOffer(d)
  PROVE  ExchangeOf(d)'
<1>1. /\ phase[d] = "creating" /\ phase'[d] = "offered"
      /\ UNCHANGED <<isConnecting, conn, toBrowser, answering, currentClient>>
  BY DEF SendOffer, connectVars, workerVars, TypeOK, ConnectOK
<1>2. isConnecting[d] /\ ~Expects(d)
  BY <1>1 DEF TypeOK, ConnectOK, Expects
<1>3. Expects(d)' /\ ~Answering(d)' /\ Mine(d)' = Mine(d)
  BY <1>1, <1>2, NothingExpected DEF Expects, Answering, Mine
<1>4. d \in Clients /\ Message("offer", Mine(d)) \in UpMessages
  BY MessageFacts DEF Clients, Mine, Session, TypeOK, PeerOK
<1> DEFINE n == Len(toWorker[d])
<1>5. /\ DOMAIN toWorker'[d] = 1..(n + 1) /\ n \in Nat /\ DOMAIN toWorker[d] = 1..n
      /\ \A i \in DOMAIN toWorker[d] : toWorker'[d][i] = toWorker[d][i]
      /\ toWorker'[d][n + 1] = Message("offer", Mine(d))
  BY <1>4, SendToWorkerFacts, ChannelFacts DEF SendOffer, TypeOK
<1> HIDE DEF n
<1>6. ASSUME NEW i \in DOMAIN toWorker'[d], toWorker'[d][i].type = "offer"
      PROVE  i = n + 1
  <2>1. i \notin DOMAIN toWorker[d]
    BY <1>2, <1>5, <1>6, NothingExpected
  <2> QED
    BY <1>5, <2>1
<1>7. \A i \in DOMAIN toWorker'[d] :
        toWorker'[d][i].type = "offer" => toWorker'[d][i].of = Mine(d)
  BY <1>5, <1>6, MessageFacts
<1>8. \A i \in DOMAIN toBrowser'[d] : toBrowser'[d][i].type # "answer"
  BY <1>1, <1>2, NothingExpected
<1> QED
  BY <1>1, <1>3, <1>6, <1>7, <1>8 DEF ExchangeOf

\* An offer is taken and will be answered.
LEMMA OfferTaken ==
  ASSUME TypeOK, NEW d \in Browsers, ExchangeOf(d), HandleOffer(d)
  PROVE  ExchangeOf(d)'
<1>1. d \in Clients
  BY DEF Clients
<1>2. /\ 1 \in DOMAIN toWorker[d] /\ toWorker[d][1].type = "offer"
      /\ session' = toWorker[d][1].of
      /\ DOMAIN toWorker'[d] \subseteq Nat \ {0}
      /\ \A i \in DOMAIN toWorker'[d] :
           i + 1 \in DOMAIN toWorker[d] /\ toWorker'[d][i] = toWorker[d][i + 1]
  <2>1. FromClient(d, "offer")
    BY DEF HandleOffer
  <2>2. toWorker'[d] \in Seq(UpMessages)
    BY <1>1, <2>1, FromClientFacts DEF TypeOK
  <2>3. DOMAIN toWorker'[d] \subseteq Nat \ {0}
    BY <2>2
  <2> QED
    BY <1>1, <2>1, <2>3, FromClientFacts DEF TypeOK, HandleOffer
<1>3. UNCHANGED <<isConnecting, phase, conn, answer, toBrowser>>
  BY DEF HandleOffer, connectVars, peerVars
<1>4. /\ Mine(d)' = Mine(d) /\ Expects(d)' = Expects(d)
      /\ phase'[d] = phase[d] /\ answer'[d] = answer[d]
  BY <1>3 DEF Mine, Expects
<1>5. /\ session' = Mine(d) /\ Expects(d)
      /\ \A j \in DOMAIN toWorker[d] : toWorker[d][j].type = "offer" => 1 = j
      /\ \A j \in DOMAIN toBrowser[d] : toBrowser[d][j].type # "answer"
  BY <1>2 DEF ExchangeOf
<1>6. \A i \in DOMAIN toWorker'[d] : toWorker'[d][i].type # "offer"
  <2> SUFFICES ASSUME NEW i \in DOMAIN toWorker'[d], toWorker'[d][i].type = "offer"
               PROVE  FALSE
    OBVIOUS
  <2>1. 1 = i + 1
    BY <1>2, <1>5
  <2> QED
    BY <1>2, <2>1
<1> QED
  BY <1>3, <1>4, <1>5, <1>6 DEF ExchangeOf

\* The answer to the offer is sent.
LEMMA AnswerSent ==
  ASSUME TypeOK, NEW d \in Browsers, ExchangeOf(d), SendAnswer, currentClient = d
  PROVE  ExchangeOf(d)'
<1>1. /\ answering # "no" /\ ~Answering(d)'
      /\ UNCHANGED <<isConnecting, phase, conn, answer, toWorker>>
  BY DEF SendAnswer, Answering, connectVars, peerVars
<1>2. Answering(d) /\ Mine(d)' = Mine(d) /\ Expects(d)' = Expects(d)
  BY <1>1 DEF Answering, Mine, Expects
<1>3. /\ session = Mine(d) /\ Expects(d)
      /\ \A i \in DOMAIN toWorker[d] : toWorker[d][i].type # "offer"
      /\ \A j \in DOMAIN toBrowser[d] : toBrowser[d][j].type # "answer"
  BY <1>2 DEF ExchangeOf
<1>4. Message("answer", session) \in DownMessages
  BY <1>1, MessageFacts DEF TypeOK, WorkerOK
<1> DEFINE n == Len(toBrowser[d])
<1>5. /\ DOMAIN toBrowser'[d] = 1..(n + 1) /\ n \in Nat /\ DOMAIN toBrowser[d] = 1..n
      /\ \A i \in DOMAIN toBrowser[d] : toBrowser'[d][i] = toBrowser[d][i]
      /\ toBrowser'[d][n + 1] = Message("answer", session)
  BY <1>4, SendToClientFacts, ChannelFacts DEF SendAnswer, TypeOK
<1> HIDE DEF n
<1>6. ASSUME NEW i \in DOMAIN toBrowser'[d], toBrowser'[d][i].type = "answer"
      PROVE  i = n + 1
  <2>1. i \notin DOMAIN toBrowser[d]
    BY <1>3, <1>5, <1>6
  <2> QED
    BY <1>5, <2>1
<1>7. \A i \in DOMAIN toBrowser'[d] :
        toBrowser'[d][i].type = "answer" => toBrowser'[d][i].of = Mine(d)
  BY <1>3, <1>5, <1>6, MessageFacts
<1>8. phase'[d] = "answering" => answer'[d] = Mine(d)
  BY <1>1 DEF ExchangeOf
<1> QED
  BY <1>1, <1>2, <1>3, <1>6, <1>7, <1>8 DEF ExchangeOf

\* An answer is taken by a browser that has sent its offer.
LEMMA AnswerTaken ==
  ASSUME TypeOK, NEW d \in Browsers, ExchangeOf(d), ReceiveAnswer(d),
         phase[d] = "offered"
  PROVE  ExchangeOf(d)'
<1>1. /\ 1 \in DOMAIN toBrowser[d] /\ toBrowser[d][1].type = "answer"
      /\ Head(toBrowser[d]) = toBrowser[d][1]
      /\ \A i \in DOMAIN toBrowser'[d] :
           i + 1 \in DOMAIN toBrowser[d] /\ toBrowser'[d][i] = toBrowser[d][i + 1]
      /\ DOMAIN toBrowser'[d] \subseteq Nat \ {0}
  <2>1. FromWorker(d, "answer")
    BY DEF ReceiveAnswer
  <2>2. toBrowser'[d] \in Seq(DownMessages)
    BY <2>1, FromWorkerFacts DEF TypeOK
  <2>3. DOMAIN toBrowser'[d] \subseteq Nat \ {0}
    BY <2>2
  <2> QED
    BY <2>1, <2>3, FromWorkerFacts DEF TypeOK
<1>2. /\ UNCHANGED <<conn, toWorker, answering, currentClient, isConnecting>>
      /\ answer'[d] = toBrowser[d][1].of
  BY <1>1 DEF ReceiveAnswer, connectVars, workerVars, TypeOK, PeerOK
<1>3. /\ toBrowser[d][1].of = Mine(d) /\ ~Answering(d)
      /\ \A i \in DOMAIN toWorker[d] : toWorker[d][i].type # "offer"
      /\ \A j \in DOMAIN toBrowser[d] : toBrowser[d][j].type = "answer" => 1 = j
  BY <1>1 DEF ExchangeOf
<1>4. \A i \in DOMAIN toBrowser'[d] : toBrowser'[d][i].type # "answer"
  <2> SUFFICES ASSUME NEW i \in DOMAIN toBrowser'[d], toBrowser'[d][i].type = "answer"
               PROVE  FALSE
    OBVIOUS
  <2>1. 1 = i + 1
    BY <1>1, <1>3
  <2> QED
    BY <1>1, <2>1
<1>5. ~Answering(d)' /\ Mine(d)' = Mine(d)
  BY <1>2, <1>3 DEF Answering, Mine
<1> QED
  BY <1>2, <1>3, <1>4, <1>5 DEF ExchangeOf

LEMMA ExchangeStep == TypeOK /\ OneExchange /\ [Next]_vars => OneExchange'
<1> SUFFICES ASSUME TypeOK, OneExchange, [Next]_vars, NEW d \in Browsers
             PROVE  ExchangeOf(d)'
  BY DEF OneExchange
<1> USE DEF connectVars, peerVars, workerVars
<1>1. ExchangeOf(d)
  BY DEF OneExchange
<1>2. d \in Clients /\ \A o \in Others : o # d
  BY DEF Clients
<1>3. /\ DOMAIN toWorker[d] \subseteq Nat /\ DOMAIN toBrowser[d] \subseteq Nat
      /\ \A i \in DOMAIN toWorker[d] : i + 0 = i
      /\ \A i \in DOMAIN toBrowser[d] : i + 0 = i
  BY <1>2, ChannelFacts DEF TypeOK
<1>4. ASSUME NEW b \in Browsers, CameraStep(b) PROVE ExchangeOf(d)'
  BY <1>1, <1>4, ExchangeQuiet
     DEF CameraStep, ClickStart, CameraStarted, CameraFails, Expects, Answering
<1>5. ASSUME NEW b \in Browsers, ClickConnect(b) PROVE ExchangeOf(d)'
  <2>1. /\ UNCHANGED <<toWorker, toBrowser, answering, currentClient, session>>
        /\ ~isConnecting[b] /\ phase'[b] = "creating"
        /\ d # b => /\ conn'[d] = conn[d] /\ phase'[d] = phase[d]
                   /\ answer'[d] = answer[d] /\ isConnecting'[d] = isConnecting[d]
    BY <1>2, <1>5
       DEF ClickConnect, MayConnect, StartConnecting, TypeOK, ConnectOK, PeerOK
  <2> QED
    BY <1>1, <2>1, ExchangeQuiet DEF Expects, Answering
<1>6. ASSUME NEW b \in Browsers, Stop(b) PROVE ExchangeOf(d)'
  <2>1. /\ UNCHANGED <<toWorker, toBrowser, answering, currentClient, session, conn,
                      isConnecting, answer>>
        /\ phase'[b] \in {"aborted", "stopped"}
        /\ phase[b] # "creating" => phase'[b] = "stopped"
        /\ d # b => phase'[d] = phase[d]
    BY <1>6 DEF Stop, TypeOK, ConnectOK
  <2> QED
    BY <1>1, <2>1, ExchangeQuiet DEF Expects, Answering
<1>7. ASSUME NEW b \in Browsers, SendOffer(b) PROVE ExchangeOf(d)'
  <2>1. CASE b = d
    BY <1>1, <1>7, <2>1, OfferSent
  <2>2. CASE b # d
    <3>1. /\ UNCHANGED <<toBrowser, answering, currentClient, session, conn,
                        isConnecting, answer>>
          /\ phase'[d] = phase[d] /\ toWorker'[d] = toWorker[d]
      BY <1>7, <2>2 DEF SendOffer, SendToWorker, TypeOK, ConnectOK, ChannelsOK, Clients
    <3> QED
      BY <1>1, <3>1, ExchangeQuiet DEF Expects, Answering
  <2> QED
    BY <2>1, <2>2
<1>8. ASSUME NEW b \in Browsers, ConnectError(b) \/ Failed(b) PROVE ExchangeOf(d)'
  <2>1. /\ UNCHANGED <<toWorker, toBrowser, answering, currentClient, session, conn,
                      answer>>
        /\ phase[b] \notin {"offered", "stopped"} /\ phase'[b] = "closed"
        /\ d # b => phase'[d] = phase[d] /\ isConnecting'[d] = isConnecting[d]
    BY <1>8 DEF ConnectError, Failed, handleConnectionError, LeaveConnecting, TypeOK,
                ConnectOK
  <2> QED
    BY <1>1, <2>1, ExchangeQuiet DEF Expects, Answering
<1>9. ASSUME NEW b \in Browsers, AnswerApplied(b) \/ AnswerFails(b) \/ ChannelOpen(b)
      PROVE  ExchangeOf(d)'
  <2>1. /\ UNCHANGED <<toWorker, toBrowser, answering, currentClient, session, conn,
                      answer>>
        /\ phase[b] \in {"answering", "stable"} /\ phase'[b] # "answering"
        /\ d # b => phase'[d] = phase[d] /\ isConnecting'[d] = isConnecting[d]
    BY <1>9 DEF AnswerApplied, AnswerFails, ChannelOpen, TypeOK, ConnectOK
  <2> QED
    BY <1>1, <2>1, ExchangeQuiet DEF Expects, Answering
<1>10. ASSUME NEW b \in Browsers, SendCandidate(b) PROVE ExchangeOf(d)'
  <2>1. UNCHANGED <<toBrowser, answering, currentClient, session, conn, phase,
                    isConnecting, answer>>
    BY <1>10 DEF SendCandidate
  <2>2. CASE b = d
    <3>1. Message("candidate", Mine(d)) \in UpMessages
      BY <1>2, MessageFacts DEF Mine, Session, TypeOK, PeerOK
    <3> DEFINE n == Len(toWorker[d])
    <3>2. /\ DOMAIN toWorker'[d] = 1..(n + 1) /\ n \in Nat
          /\ DOMAIN toWorker[d] = 1..n
          /\ \A i \in DOMAIN toWorker[d] : toWorker'[d][i] = toWorker[d][i]
          /\ toWorker'[d][n + 1] = Message("candidate", Mine(d))
      BY <1>2, <1>10, <2>2, <3>1, SendToWorkerFacts, ChannelFacts
         DEF SendCandidate, TypeOK
    <3> HIDE DEF n
    <3>3. /\ DOMAIN toWorker'[d] \subseteq Nat
          /\ \A i \in DOMAIN toWorker'[d] : toWorker'[d][i].type = "offer" =>
               i + 0 \in DOMAIN toWorker[d] /\ toWorker'[d][i] = toWorker[d][i + 0]
      BY <3>2, MessageFacts
    <3> QED
      BY <1>1, <1>3, <2>1, <3>3, ExchangeStays DEF Expects, Answering
  <2>3. CASE b # d
    <3>1. toWorker'[d] = toWorker[d]
      BY <1>2, <1>10, <2>3 DEF SendCandidate, SendToWorker, TypeOK, ChannelsOK
    <3> QED
      BY <1>1, <2>1, <3>1, ExchangeQuiet DEF Expects, Answering
  <2> QED
    BY <2>2, <2>3
<1>11. ASSUME NEW b \in Browsers, NEW t, FromWorker(b, t),
              UNCHANGED <<toWorker, answering, currentClient, session, conn, phase,
                          isConnecting, answer>>
       PROVE  ExchangeOf(d)'
  <2>1. CASE b = d
    <3>1. /\ toBrowser'[d] \in Seq(DownMessages)
          /\ \A i \in DOMAIN toBrowser'[d] :
               i + 1 \in DOMAIN toBrowser[d] /\ toBrowser'[d][i] = toBrowser[d][i + 1]
      BY <1>11, <2>1, FromWorkerFacts DEF TypeOK
    <3>2. DOMAIN toBrowser'[d] \subseteq Nat
      BY <3>1
    <3> QED
      BY <1>1, <1>3, <1>11, <3>1, <3>2, ExchangeStays DEF Expects, Answering
  <2>2. CASE b # d
    <3>1. toBrowser'[d] = toBrowser[d]
      BY <1>11, <2>2, FromWorkerFacts DEF TypeOK
    <3> QED
      BY <1>1, <1>11, <3>1, ExchangeQuiet DEF Expects, Answering
  <2> QED
    BY <2>1, <2>2
<1>12. ASSUME NEW b \in Browsers, ReceiveAnswer(b) PROVE ExchangeOf(d)'
  <2>1. CASE phase[b] # "offered"
    BY <1>11, <1>12, <2>1 DEF ReceiveAnswer
  <2>2. CASE phase[b] = "offered" /\ b = d
    BY <1>1, <1>12, <2>2, AnswerTaken
  <2>3. CASE phase[b] = "offered" /\ b # d
    <3>1. /\ UNCHANGED <<toWorker, answering, currentClient, session, conn,
                        isConnecting>>
          /\ phase'[d] = phase[d] /\ answer'[d] = answer[d]
          /\ toBrowser'[d] = toBrowser[d]
      BY <1>12, <2>3, FromWorkerFacts DEF ReceiveAnswer, TypeOK, ConnectOK, PeerOK
    <3> QED
      BY <1>1, <3>1, ExchangeQuiet DEF Expects, Answering
  <2> QED
    BY <2>1, <2>2, <2>3
<1>13. ASSUME NEW b \in Browsers, ReceiveCandidate(b) PROVE ExchangeOf(d)'
  BY <1>11, <1>13 DEF ReceiveCandidate
\* The worker takes a message of c that is not an offer it will answer.
<1>14. ASSUME NEW c \in Clients, NEW t, FromClient(c, t),
              UNCHANGED <<toBrowser, conn, phase, isConnecting, answer>>,
              Answering(d)' => Answering(d) /\ session' = session
       PROVE  ExchangeOf(d)'
  <2>1. CASE c = d
    <3>1. /\ toWorker'[d] \in Seq(UpMessages)
          /\ \A i \in DOMAIN toWorker'[d] :
               i + 1 \in DOMAIN toWorker[d] /\ toWorker'[d][i] = toWorker[d][i + 1]
      BY <1>14, <2>1, FromClientFacts DEF TypeOK
    <3>2. DOMAIN toWorker'[d] \subseteq Nat
      BY <3>1
    <3> QED
      BY <1>1, <1>3, <1>14, <3>1, <3>2, ExchangeStays DEF Expects
  <2>2. CASE c # d
    <3>1. toWorker'[d] = toWorker[d]
      BY <1>2, <1>14, <2>2, FromClientFacts DEF TypeOK
    <3> QED
      BY <1>1, <1>14, <3>1, ExchangeQuiet DEF Expects
  <2> QED
    BY <2>1, <2>2
<1>15. ASSUME NEW b \in Browsers, Lose(b) PROVE ExchangeOf(d)'
  <2>1. \/ FromClient(b, Head(toWorker[b]).type) /\ UNCHANGED toBrowser
        \/ FromWorker(b, Head(toBrowser[b]).type) /\ UNCHANGED toWorker
    BY <1>15 DEF Lose, FromClient, FromWorker
  <2>2. UNCHANGED <<answering, currentClient, session, conn, phase, isConnecting, answer>>
    BY <1>15 DEF Lose
  <2>3. b \in Clients /\ (Answering(d)' => Answering(d))
    BY <2>2 DEF Clients, Answering
  <2> QED
    BY <1>11, <1>14, <2>1, <2>2, <2>3
<1>16. ASSUME NEW o \in Others, OtherOffer(o) PROVE ExchangeOf(d)'
  <2>1. /\ UNCHANGED <<toBrowser, answering, currentClient, session, phase, isConnecting,
                      answer>>
        /\ conn'[d] = conn[d] /\ toWorker'[d] = toWorker[d]
    BY <1>2, <1>16, OtherOfferFacts DEF OtherOffer, TypeOK, PeerOK
  <2> QED
    BY <1>1, <2>1, ExchangeQuiet DEF Expects, Answering
<1>17. ASSUME NEW c \in Clients, HandleOffer(c) PROVE ExchangeOf(d)'
  <2>1. CASE c = d
    BY <1>1, <1>17, <2>1, OfferTaken
  <2>2. CASE c # d
    BY <1>14, <1>17, <2>2 DEF HandleOffer, Answering
  <2> QED
    BY <2>1, <2>2
<1>18. ASSUME NEW c \in Clients, OfferFails(c) \/ HandleCandidate(c)
       PROVE  ExchangeOf(d)'
  BY <1>14, <1>18 DEF OfferFails, HandleCandidate, Answering
<1>19. ASSUME SetDescriptions \/ DescriptionFails PROVE ExchangeOf(d)'
  BY <1>1, <1>19, ExchangeQuiet DEF SetDescriptions, DescriptionFails, Expects, Answering
<1>20. ASSUME SendAnswer PROVE ExchangeOf(d)'
  <2>1. CASE currentClient = d
    BY <1>1, <1>20, <2>1, AnswerSent
  <2>2. CASE currentClient # d
    <3>1. /\ UNCHANGED <<toWorker, session, conn, phase, isConnecting, answer>>
          /\ ~Answering(d)'
      BY <1>20 DEF SendAnswer, Answering
    <3>2. toBrowser'[d] = toBrowser[d]
      BY <1>20, <2>2, SendToClientFacts, MessageFacts DEF SendAnswer, TypeOK, WorkerOK
    <3> QED
      BY <1>1, <3>1, <3>2, ExchangeQuiet DEF Expects
  <2> QED
    BY <2>1, <2>2
<1>21. ASSUME NEW s \in gathering, OnICECandidate(s) PROVE ExchangeOf(d)'
  <2>1. UNCHANGED <<toWorker, answering, currentClient, session, conn, phase,
                    isConnecting, answer>>
    BY <1>21 DEF OnICECandidate
  <2>2. Message("candidate", s) \in DownMessages
    BY MessageFacts DEF TypeOK, WorkerOK
  <2> DEFINE n == Len(toBrowser[d])
  <2>3. CASE currentClient = d
    <3>1. /\ DOMAIN toBrowser'[d] = 1..(n + 1) /\ n \in Nat
          /\ DOMAIN toBrowser[d] = 1..n
          /\ \A i \in DOMAIN toBrowser[d] : toBrowser'[d][i] = toBrowser[d][i]
          /\ toBrowser'[d][n + 1] = Message("candidate", s)
      BY <1>21, <2>2, <2>3, SendToClientFacts, ChannelFacts DEF OnICECandidate, TypeOK
    <3> HIDE DEF n
    <3>2. /\ DOMAIN toBrowser'[d] \subseteq Nat
          /\ \A i \in DOMAIN toBrowser'[d] : toBrowser'[d][i].type = "answer" =>
               i + 0 \in DOMAIN toBrowser[d] /\ toBrowser'[d][i] = toBrowser[d][i + 0]
      BY <3>1, MessageFacts
    <3> QED
      BY <1>1, <1>3, <2>1, <3>2, ExchangeStays DEF Expects, Answering
  <2>4. CASE currentClient # d
    <3>1. toBrowser'[d] = toBrowser[d]
      BY <1>21, <2>2, <2>4, SendToClientFacts DEF OnICECandidate, TypeOK
    <3> QED
      BY <1>1, <2>1, <3>1, ExchangeQuiet DEF Expects, Answering
  <2> QED
    BY <2>3, <2>4
<1>22. ASSUME UNCHANGED vars PROVE ExchangeOf(d)'
  BY <1>1, <1>22, ExchangeQuiet DEF vars, Expects, Answering
<1> QED
  BY <1>4, <1>5, <1>6, <1>7, <1>8, <1>9, <1>10, <1>12, <1>13, <1>15, <1>16, <1>17,
     <1>18, <1>19, <1>20, <1>21, <1>22 DEF Next, BrowserStep, CameraStep

LEMMA AnswerFitsStep ==
  TypeOK /\ OneExchange /\ AnswerFits /\ [Next]_vars => AnswerFits'
<1> SUFFICES ASSUME TypeOK, OneExchange, AnswerFits, [Next]_vars, NEW d \in Browsers
             PROVE  remoteDescription'[d] \in {NoSession, Mine(d)'}
  BY DEF AnswerFits
<1> USE DEF TypeOK, PeerOK, Mine
<1>1. remoteDescription[d] \in {NoSession, Mine(d)} /\ d \in Clients
  BY DEF AnswerFits, Clients
<1>2. ASSUME NEW b \in Browsers, ClickConnect(b)
      PROVE  remoteDescription'[d] \in {NoSession, Mine(d)'}
  <2>1. CASE b = d
    BY <1>2, <2>1 DEF ClickConnect
  <2>2. CASE b # d
    BY <1>1, <1>2, <2>2 DEF ClickConnect
  <2> QED
    BY <2>1, <2>2
<1>3. ASSUME NEW b \in Browsers, AnswerApplied(b)
      PROVE  remoteDescription'[d] \in {NoSession, Mine(d)'}
  <2>1. phase[b] = "answering" => answer[b] = Mine(b)
    BY DEF OneExchange, ExchangeOf
  <2> QED
    BY <1>1, <1>3, <2>1 DEF AnswerApplied
<1>4. ASSUME NEW b \in Browsers,
             SendCandidate(b) \/ ReceiveAnswer(b) \/ ReceiveCandidate(b)
      PROVE  remoteDescription'[d] \in {NoSession, Mine(d)'}
  BY <1>1, <1>4 DEF SendCandidate, ReceiveAnswer, ReceiveCandidate
<1>5. ASSUME NEW o \in Others, OtherOffer(o)
      PROVE  remoteDescription'[d] \in {NoSession, Mine(d)'}
  BY <1>1, <1>5 DEF OtherOffer
<1>6. ASSUME UNCHANGED <<conn, answer, remoteDescription, iceCandidateQueue,
                         received, added, gathered>>
      PROVE  remoteDescription'[d] \in {NoSession, Mine(d)'}
  BY <1>1, <1>6
<1> QED
  BY <1>2, <1>3, <1>4, <1>5, <1>6, PeerFrame DEF PeerStep
-----------------------------------------------------------------------------
(* Candidates of the browsers *)

\* What has been sent stays sent.
LEMMA KnownStays ==
  ASSUME TypeOK, [Next]_vars, NEW s \in Session, Known(s) PROVE Known(s)'
<1> USE DEF TypeOK, PeerOK
<1> DEFINE c == s[1]
<1>1. c \in Clients /\ s[2] \in Nat /\ conn[c] \in Nat
  BY DEF Session
<1>2. /\ s[2] <= conn[c]
      /\ c \in Browsers /\ phase[c] = "creating" => s[2] < conn[c]
  BY DEF Known
<1> HIDE DEF c
<1>3. conn'[c] = conn[c] \/ conn'[c] = conn[c] + 1
  <2>1. ASSUME NEW b \in Browsers, PeerStep(b)
        PROVE  conn' = conn \/ conn' = [conn EXCEPT ![b] = @ + 1]
    BY <2>1 DEF PeerStep, ClickConnect, SendCandidate, ReceiveAnswer,
                AnswerApplied, ReceiveCandidate
  <2>2. ASSUME NEW o \in Others, OtherOffer(o)
        PROVE  conn' = [conn EXCEPT ![o] = @ + 1]
    BY <2>2 DEF OtherOffer
  <2> QED
    BY <1>1, <2>1, <2>2, PeerFrame
<1>4. ASSUME c \in Browsers, phase'[c] = "creating", phase[c] # "creating"
      PROVE  conn'[c] = conn[c] + 1
  <2>1. ASSUME NEW b \in Browsers, ConnectStep(b) PROVE conn'[c] = conn[c] + 1
    <3>1. CASE ClickConnect(b)
      BY <1>1, <1>4, <3>1 DEF ClickConnect, ConnectOK
    <3>2. CASE CameraStarted(b)
      BY <1>4, <3>2 DEF CameraStarted, peerVars
    <3>3. CASE ~ClickConnect(b) /\ ~CameraStarted(b)
      BY <1>4, <2>1, <3>3 DEF ConnectStep, Stop, SendOffer, ConnectError, Failed,
         handleConnectionError, ReceiveAnswer, AnswerApplied, AnswerFails, ChannelOpen,
         ConnectOK
    <3> QED
      BY <3>1, <3>2, <3>3
  <2> QED
    BY <1>4, <2>1, ConnectFrame
<1>5. /\ s[2] <= conn'[c]
      /\ c \in Browsers /\ phase'[c] = "creating" => s[2] < conn'[c]
  BY <1>1, <1>2, <1>3, <1>4
<1> QED
  BY <1>5 DEF Known, c

\* The messages of c are about its own sessions, each after the offer is out, and
\* no candidate before its offer.
OrderOf(c) ==
  /\ \A i \in DOMAIN toWorker[c] :
       toWorker[c][i].of[1] = c /\ Known(toWorker[c][i].of)
  /\ \A i \in DOMAIN toWorker[c] :
       toWorker[c][i].type = "offer" =>
         /\ toWorker[c][i].of \notin queuedCandidates
         /\ \A k \in 1..(i - 1) : toWorker[c][k].of # toWorker[c][i].of

QueuedKnown == \A s \in queuedCandidates : Known(s)

LEMMA OrderParts ==
  AllKnown /\ CandidateAfterOffer <=> QueuedKnown /\ \A c \in Clients : OrderOf(c)
  BY DEF AllKnown, CandidateAfterOffer, QueuedKnown, OrderOf

\* A step that leaves the queue of c as it is, or takes the first message off.
LEMMA OrderStays ==
  ASSUME TypeOK, [Next]_vars, NEW c \in Clients, OrderOf(c), NEW k \in {0, 1},
         DOMAIN toWorker'[c] \subseteq Nat,
         \A i \in DOMAIN toWorker'[c] :
           i + k \in DOMAIN toWorker[c] /\ toWorker'[c][i] = toWorker[c][i + k],
         \A i \in DOMAIN toWorker'[c] :
           toWorker'[c][i].type = "offer" => toWorker'[c][i].of \notin queuedCandidates',
         \A i \in DOMAIN toWorker'[c] : 1..(i - 1) \subseteq DOMAIN toWorker'[c]
  PROVE  OrderOf(c)'
<1>1. \A i \in DOMAIN toWorker'[c] :
        toWorker'[c][i].of[1] = c /\ Known(toWorker[c][i].of)'
  <2> SUFFICES ASSUME NEW i \in DOMAIN toWorker'[c]
               PROVE  toWorker'[c][i].of[1] = c /\ Known(toWorker[c][i].of)'
    OBVIOUS
  <2>1. PICK s \in Session :
          s = toWorker[c][i + k].of /\ s = toWorker'[c][i].of /\ s[1] = c /\ Known(s)
    BY ChannelFacts DEF OrderOf, TypeOK
  <2>2. Known(s)'
    BY <2>1, KnownStays
  <2> QED
    BY <2>1, <2>2 DEF Known
<1>2. ASSUME NEW i \in DOMAIN toWorker'[c], toWorker'[c][i].type = "offer",
             NEW j \in 1..(i - 1)
      PROVE  toWorker'[c][j].of # toWorker'[c][i].of
  <2>1. /\ j \in DOMAIN toWorker'[c] /\ i \in Nat
        /\ i + k \in DOMAIN toWorker[c] /\ toWorker'[c][i] = toWorker[c][i + k]
        /\ toWorker'[c][j] = toWorker[c][j + k]
    OBVIOUS
  <2>2. j + k \in 1..((i + k) - 1)
    BY <2>1
  <2>3. toWorker[c][i + k].type = "offer"
    BY <1>2, <2>1
  <2> QED
    BY <2>1, <2>2, <2>3 DEF OrderOf
<1> QED
  BY <1>1, <1>2 DEF OrderOf

\* A step that leaves all queues, and the queue of the worker, as they are.
LEMMA OrderQuiet ==
  ASSUME TypeOK, [Next]_vars, NEW c \in Clients, OrderOf(c),
         toWorker'[c] = toWorker[c], queuedCandidates' \subseteq queuedCandidates
  PROVE  OrderOf(c)'
<1>1. /\ Len(toWorker[c]) \in Nat /\ DOMAIN toWorker[c] = 1..Len(toWorker[c])
      /\ \A i \in DOMAIN toWorker[c] : i + 0 = i
  BY ChannelFacts DEF TypeOK
<1>2. \A i \in DOMAIN toWorker'[c] :
        toWorker'[c][i].type = "offer" => toWorker'[c][i].of \notin queuedCandidates'
  BY DEF OrderOf
<1> QED
  BY <1>1, <1>2, OrderStays

\* The worker takes a message of a client, or it is lost; what is queued stays
\* queued, is dropped, or is the candidate that has been taken.
LEMMA OrderTaken ==
  ASSUME TypeOK, [Next]_vars, \A c \in Clients : OrderOf(c),
         NEW d \in Clients, NEW t, FromClient(d, t),
         queuedCandidates' \subseteq queuedCandidates \cup {Head(toWorker[d]).of}
  PROVE  \A c \in Clients : OrderOf(c)'
<1> SUFFICES ASSUME NEW c \in Clients PROVE OrderOf(c)'
  OBVIOUS
<1>1. /\ 1 \in DOMAIN toWorker[d] /\ Head(toWorker[d]) = toWorker[d][1]
      /\ toWorker[d][1].of[1] = d
  BY FromClientFacts DEF OrderOf, TypeOK
<1>2. CASE c = d
  <2>1. /\ toWorker'[c] \in Seq(UpMessages)
        /\ \A i \in DOMAIN toWorker'[c] :
             i + 1 \in DOMAIN toWorker[c] /\ toWorker'[c][i] = toWorker[c][i + 1]
    BY <1>2, FromClientFacts DEF TypeOK
  <2>2. /\ DOMAIN toWorker'[c] \subseteq Nat \ {0}
        /\ \A i \in DOMAIN toWorker'[c] : 1..(i - 1) \subseteq DOMAIN toWorker'[c]
    BY <2>1
  <2>3. ASSUME NEW i \in DOMAIN toWorker'[c], toWorker'[c][i].type = "offer"
        PROVE  toWorker'[c][i].of \notin queuedCandidates'
    <3>1. /\ toWorker'[c][i] = toWorker[c][i + 1] /\ i + 1 \in DOMAIN toWorker[c]
          /\ 1 \in 1..((i + 1) - 1)
      BY <2>1, <2>2
    <3>2. /\ toWorker'[c][i].of \notin queuedCandidates
          /\ toWorker[c][1].of # toWorker'[c][i].of
      BY <2>3, <3>1 DEF OrderOf
    <3> QED
      BY <1>1, <1>2, <3>2
  <2> QED
    BY <2>1, <2>2, <2>3, OrderStays
<1>3. CASE c # d
  <2>1. toWorker'[c] = toWorker[c]
    BY <1>3, FromClientFacts DEF TypeOK
  <2>2. /\ Len(toWorker[c]) \in Nat /\ DOMAIN toWorker[c] = 1..Len(toWorker[c])
        /\ \A i \in DOMAIN toWorker[c] : i + 0 = i
    BY ChannelFacts DEF TypeOK
  <2>3. ASSUME NEW i \in DOMAIN toWorker[c], toWorker[c][i].type = "offer"
        PROVE  toWorker[c][i].of \notin queuedCandidates'
    BY <1>1, <1>3, <2>3 DEF OrderOf
  <2> QED
    BY <2>1, <2>2, <2>3, OrderStays
<1> QED
  BY <1>2, <1>3

\* Client c adds messages about session s behind the others; only the first can be
\* an offer, and then nothing has been sent about s.
LEMMA OrderAdded ==
  ASSUME TypeOK, [Next]_vars, NEW c \in Clients, OrderOf(c), NEW s \in Session,
         UNCHANGED queuedCandidates, NEW e \in {1, 2},
         DOMAIN toWorker'[c] = 1..(Len(toWorker[c]) + e),
         \A i \in DOMAIN toWorker[c] : toWorker'[c][i] = toWorker[c][i],
         \A i \in (Len(toWorker[c]) + 1)..(Len(toWorker[c]) + e) :
           /\ toWorker'[c][i].of = s
           /\ toWorker'[c][i].type = "offer" =>
                i = Len(toWorker[c]) + 1 /\ ~Known(s) /\ QueuedKnown,
         s[1] = c, Known(s)'
  PROVE  OrderOf(c)'
<1> DEFINE n == Len(toWorker[c])
<1>1. n \in Nat /\ DOMAIN toWorker[c] = 1..n
  BY ChannelFacts DEF TypeOK
<1> HIDE DEF n
<1>2. \A i \in DOMAIN toWorker'[c] : i \in DOMAIN toWorker[c] \/ i \in (n + 1)..(n + e)
  BY <1>1 DEF n
<1>3. ASSUME NEW i \in DOMAIN toWorker'[c]
      PROVE  toWorker'[c][i].of[1] = c /\ Known(toWorker[c][i].of)'
  <2>1. CASE i \in DOMAIN toWorker[c]
    <3>1. PICK r \in Session :
            r = toWorker[c][i].of /\ r = toWorker'[c][i].of /\ r[1] = c /\ Known(r)
      BY <2>1, ChannelFacts DEF OrderOf, TypeOK
    <3>2. Known(r)'
      BY <3>1, KnownStays
    <3> QED
      BY <3>1, <3>2 DEF Known
  <2>2. CASE i \in (n + 1)..(n + e)
    BY <2>2 DEF Known, n
  <2> QED
    BY <1>2, <2>1, <2>2
<1>4. ASSUME NEW i \in DOMAIN toWorker'[c], toWorker'[c][i].type = "offer"
      PROVE  /\ toWorker'[c][i].of \notin queuedCandidates
             /\ \A k \in 1..(i - 1) : toWorker'[c][k].of # toWorker'[c][i].of
  <2>1. CASE i \in DOMAIN toWorker[c]
    <3>1. \A k \in 1..(i - 1) : k \in DOMAIN toWorker[c]
      BY <1>1, <2>1
    <3> QED
      BY <1>4, <2>1, <3>1 DEF OrderOf
  <2>2. CASE i \in (n + 1)..(n + e)
    <3>1. i = n + 1 /\ ~Known(s) /\ QueuedKnown /\ toWorker'[c][i].of = s
      BY <1>4, <2>2 DEF n
    <3>2. \A k \in 1..(i - 1) :
            k \in DOMAIN toWorker[c] /\ Known(toWorker[c][k].of)
            /\ toWorker'[c][k] = toWorker[c][k]
      BY <1>1, <3>1 DEF OrderOf
    <3> QED
      BY <3>1, <3>2 DEF QueuedKnown
  <2> QED
    BY <1>2, <2>1, <2>2
<1> QED
  BY <1>3, <1>4 DEF OrderOf

LEMMA OrderStep ==
  TypeOK /\ AllKnown /\ CandidateAfterOffer /\ [Next]_vars
    => AllKnown' /\ CandidateAfterOffer'
<1> SUFFICES ASSUME TypeOK, QueuedKnown, \A c \in Clients : OrderOf(c), [Next]_vars
             PROVE  QueuedKnown' /\ \A c \in Clients : OrderOf(c)'
  BY OrderParts DEF AllKnown, CandidateAfterOffer, QueuedKnown, OrderOf
<1> USE DEF connectVars, peerVars, workerVars
<1>1. ASSUME queuedCandidates' \subseteq queuedCandidates PROVE QueuedKnown'
  <2>1. \A s \in queuedCandidates : s \in Session /\ Known(s)
    BY DEF QueuedKnown, TypeOK, WorkerOK
  <2> QED
    BY <1>1, <2>1, KnownStays DEF QueuedKnown
<1>2. ASSUME UNCHANGED toWorker, queuedCandidates' \subseteq queuedCandidates
      PROVE  \A c \in Clients : OrderOf(c)'
  BY <1>2, OrderQuiet
<1>3. ASSUME NEW b \in Browsers,
             \/ CameraStep(b) \/ ClickConnect(b) \/ Stop(b) \/ ConnectError(b)
             \/ ReceiveAnswer(b) \/ AnswerApplied(b) \/ AnswerFails(b)
             \/ ReceiveCandidate(b) \/ ChannelOpen(b) \/ Failed(b)
      PROVE  UNCHANGED <<toWorker, queuedCandidates>>
  BY <1>3 DEF CameraStep, ClickStart, CameraStarted, CameraFails, ClickConnect, Stop,
         ConnectError, Failed, handleConnectionError, ReceiveAnswer, AnswerApplied,
         AnswerFails, ReceiveCandidate, ChannelOpen
<1>4. ASSUME NEW b \in Browsers, SendOffer(b) \/ SendCandidate(b)
      PROVE  UNCHANGED queuedCandidates /\ \A c \in Clients : OrderOf(c)'
  <2>1. /\ UNCHANGED <<queuedCandidates, conn>> /\ b \in Clients
        /\ phase'[b] # "creating" /\ conn[b] \in Nat
    BY <1>4 DEF SendOffer, SendCandidate, MayGather, Clients, TypeOK, ConnectOK, PeerOK
  <2>2. PICK s \in Session : s = Mine(b)
    BY <2>1 DEF Mine, Session
  <2>3. /\ s[1] = b /\ s[2] = conn[b] /\ Known(s)'
        /\ phase[b] = "creating" => ~Known(s)
    BY <2>1, <2>2 DEF Mine, Known
  <2>4. PICK t \in {"offer", "candidate"} :
          /\ SendToWorker(b, Message(t, s))
          /\ t = "offer" => phase[b] = "creating"
    BY <1>4, <2>2 DEF SendOffer, SendCandidate
  <2>5. /\ Message(t, s) \in UpMessages
        /\ Message(t, s).type = t /\ Message(t, s).of = s
    BY MessageFacts
  <2> DEFINE n == Len(toWorker[b])
  <2>6. /\ DOMAIN toWorker'[b] = 1..(n + 1)
        /\ \A i \in DOMAIN toWorker[b] : toWorker'[b][i] = toWorker[b][i]
        /\ toWorker'[b][n + 1] = Message(t, s)
        /\ \A d \in Clients : d # b => toWorker'[d] = toWorker[d]
    BY <2>1, <2>4, <2>5, SendToWorkerFacts DEF TypeOK
  <2>7. n \in Nat
    BY <2>1, ChannelFacts DEF TypeOK
  <2>8. \A i \in (n + 1)..(n + 1) :
          /\ toWorker'[b][i].of = s
          /\ toWorker'[b][i].type = "offer" => i = n + 1 /\ ~Known(s) /\ QueuedKnown
    <3> TAKE i \in (n + 1)..(n + 1)
    <3>1. i = n + 1
      BY <2>7
    <3> QED
      BY <2>3, <2>4, <2>5, <2>6, <3>1
  <2>9. OrderOf(b)'
    BY <2>1, <2>3, <2>6, <2>8, OrderAdded
  <2>10. \A c \in Clients : c # b => OrderOf(c)'
    BY <2>1, <2>6, OrderQuiet
  <2> QED
    BY <2>1, <2>9, <2>10
<1>5. ASSUME NEW b \in Browsers, Lose(b)
      PROVE  UNCHANGED queuedCandidates /\ \A c \in Clients : OrderOf(c)'
  <2>1. /\ b \in Clients /\ UNCHANGED queuedCandidates
        /\ FromClient(b, Head(toWorker[b]).type) \/ UNCHANGED toWorker
    BY <1>5 DEF Lose, FromClient, Clients
  <2> QED
    BY <1>2, <2>1, OrderTaken
<1>6. ASSUME NEW o \in Others, OtherOffer(o)
      PROVE  UNCHANGED queuedCandidates /\ \A c \in Clients : OrderOf(c)'
  <2>1. /\ UNCHANGED queuedCandidates /\ o \in Clients /\ conn[o] \in Nat
        /\ conn' = [conn EXCEPT ![o] = @ + 1] /\ o \notin Browsers
        /\ DOMAIN conn = Clients
    BY <1>6 DEF OtherOffer, Clients, TypeOK, PeerOK
  <2>2. PICK s \in Session : s = <<o, conn[o] + 1>>
    <3>1. <<o, conn[o] + 1>> \in Session
      BY <2>1 DEF Session
    <3> QED
      BY <3>1
  <2>3. s[1] = o /\ s[2] = conn[o] + 1 /\ conn'[o] = conn[o] + 1
    BY <2>1, <2>2
  <2>4. Known(s)' /\ ~Known(s)
    BY <2>1, <2>3 DEF Known
  <2> DEFINE n == Len(toWorker[o])
  <2>5. /\ DOMAIN toWorker'[o] = 1..(n + 2)
        /\ \A i \in DOMAIN toWorker[o] : toWorker'[o][i] = toWorker[o][i]
        /\ toWorker'[o][n + 1] = Message("offer", s)
        /\ toWorker'[o][n + 2] = Message("candidate", s)
        /\ \A d \in Clients : d # o => toWorker'[d] = toWorker[d]
    BY <1>6, <2>2, OtherOfferFacts DEF TypeOK
  <2>6. n \in Nat
    BY <2>1, ChannelFacts DEF TypeOK
  <2>7. \A i \in (n + 1)..(n + 2) :
          /\ toWorker'[o][i].of = s
          /\ toWorker'[o][i].type = "offer" => i = n + 1 /\ ~Known(s) /\ QueuedKnown
    <3> TAKE i \in (n + 1)..(n + 2)
    <3>1. i = n + 1 \/ i = n + 2
      BY <2>6
    <3>2. /\ Message("offer", s).of = s
          /\ Message("candidate", s).of = s /\ Message("candidate", s).type # "offer"
      BY MessageFacts
    <3> QED
      BY <2>3, <2>4, <2>5, <3>1, <3>2
  <2>8. OrderOf(o)'
    BY <2>1, <2>3, <2>4, <2>5, <2>7, OrderAdded
  <2>9. \A c \in Clients : c # o => OrderOf(c)'
    BY <2>1, <2>5, OrderQuiet
  <2> QED
    BY <2>1, <2>8, <2>9
<1>7. ASSUME NEW c \in Clients, HandleOffer(c) \/ OfferFails(c)
      PROVE  /\ queuedCandidates' \subseteq queuedCandidates
             /\ \A d \in Clients : OrderOf(d)'
  <2>1. FromClient(c, "offer") /\ queuedCandidates' \subseteq queuedCandidates
    BY <1>7 DEF HandleOffer, OfferFails
  <2> QED
    BY <2>1, OrderTaken
<1>8. ASSUME NEW c \in Clients, HandleCandidate(c)
      PROVE  QueuedKnown' /\ \A d \in Clients : OrderOf(d)'
  <2>1. /\ FromClient(c, "candidate")
        /\ queuedCandidates' \subseteq queuedCandidates \cup {Head(toWorker[c]).of}
    BY <1>8 DEF HandleCandidate
  <2>2. \A d \in Clients : OrderOf(d)'
    BY <2>1, OrderTaken
  <2>3. PICK h \in Session : h = Head(toWorker[c]).of /\ Known(h)
    BY <2>1, FromClientFacts DEF OrderOf, TypeOK
  <2>4. \A s \in queuedCandidates \cup {h} : s \in Session /\ Known(s)
    BY <2>3 DEF QueuedKnown, TypeOK, WorkerOK
  <2>5. QueuedKnown'
    BY <2>1, <2>3, <2>4, KnownStays DEF QueuedKnown
  <2> QED
    BY <2>2, <2>5
<1>9. ASSUME \/ SetDescriptions \/ DescriptionFails \/ SendAnswer
             \/ \E s \in gathering : OnICECandidate(s)
             \/ UNCHANGED vars
      PROVE  UNCHANGED <<toWorker, queuedCandidates>>
  BY <1>9 DEF SetDescriptions, DescriptionFails, SendAnswer, OnICECandidate, vars
<1> QED
  BY <1>1, <1>2, <1>3, <1>4, <1>5, <1>6, <1>7, <1>8, <1>9
     DEF Next, BrowserStep, CameraStep
-----------------------------------------------------------------------------
(* Theorems *)

\* The invariant holds in every state of every behaviour.
THEOREM Invariance == Spec => []NegotiationInv
<1>1. NegotiationInv /\ [Next]_vars => NegotiationInv'
  BY TypeStep, CanConnectStep, KeptStep, ExchangeStep, AnswerFitsStep, OrderStep
     DEF NegotiationInv
<1> QED
  BY InitInv, <1>1, PTL DEF Spec

\* The types of the browsers' and the worker's variables, with what the buttons
\* say about the connection.
THEOREM TypeCorrect == Spec => []TypeOK
<1>1. NegotiationInv => TypeOK
  BY DEF NegotiationInv
<1> QED
  BY Invariance, <1>1, PTL

\* The description a browser has set is the answer to the offer of its connection
\* (webrtc.js:523-529).
THEOREM AnswersFit == Spec => []AnswerFits
<1>1. NegotiationInv => AnswerFits
  BY DEF NegotiationInv
<1> QED
  BY Invariance, <1>1, PTL

\* A candidate that has come for a connection waits or has been added
\* (webrtc.js:527-528, 536-543).
THEOREM CandidatesKept == Spec => []CandidateKept
<1>1. NegotiationInv => CandidateKept
  BY DEF NegotiationInv, KeptFromStart, CandidateKept
<1> QED
  BY Invariance, <1>1, PTL

\* No candidate reaches the worker before the offer it belongs to
\* (main.go:1528-1532, 1597-1601).
THEOREM CandidatesAfterOffers == Spec => []CandidateAfterOffer
<1>1. NegotiationInv => CandidateAfterOffer
  BY DEF NegotiationInv
<1> QED
  BY Invariance, <1>1, PTL

\* Whoever is not connected and not connecting can connect
\* (webrtc.js:326-329, 561-568).
THEOREM ClientsCanConnect == Spec => []CanConnect
<1>1. NegotiationInv => CanConnect
  BY DEF NegotiationInv
<1> QED
  BY Invariance, <1>1, PTL
=============================================================================
