-------------------------- MODULE SignalingProofs --------------------------
(* Machine-checked proofs about Signaling, for any connections, client ids    *)
(* and numbers of messages and closes.                                        *)
EXTENDS Signaling, SequenceTheorems, TLAPS

\* A message with the rest of the queue behind it.
LEMMA QueueFacts ==
  ASSUME NEW S, NEW s \in Seq(S), NEW m \in S, NEW e \in S
  PROVE  /\ <<m>> \o s \in Seq(S) /\ <<m>> \o s # <<>>
         /\ Head(<<m>> \o s) = m /\ Tail(<<m>> \o s) = s
         /\ Append(<<m>> \o s, e) = <<m>> \o Append(s, e)
<1>1. /\ <<m>> \in Seq(S) /\ Len(<<m>>) = 1 /\ <<m>>[1] = m
      /\ <<e>> \in Seq(S) /\ Append(s, e) \in Seq(S) /\ Len(s) \in Nat
  OBVIOUS
<1>2. /\ <<m>> \o s \in Seq(S) /\ Len(<<m>> \o s) = 1 + Len(s)
      /\ \A i \in 1..(1 + Len(s)) :
           (<<m>> \o s)[i] = IF i <= 1 THEN <<m>>[i] ELSE s[i - 1]
  BY <1>1, ConcatProperties
<1>3. <<m>> \o s # <<>>
  BY <1>1, <1>2
<1>4. Head(<<m>> \o s) = m
  BY <1>1, <1>2, <1>3
<1>5. /\ Tail(<<m>> \o s) \in Seq(S) /\ Len(Tail(<<m>> \o s)) = Len(s)
      /\ \A i \in 1..Len(s) : Tail(<<m>> \o s)[i] = (<<m>> \o s)[i + 1]
  BY <1>1, <1>2, <1>3, HeadTailProperties
<1>6. \A i \in 1..Len(s) : Tail(<<m>> \o s)[i] = s[i]
  BY <1>1, <1>2, <1>5
<1>7. Tail(<<m>> \o s) = s
  BY <1>5, <1>6, SeqEqual
<1>8. Append(<<m>> \o s, e) = (<<m>> \o s) \o <<e>>
  BY <1>2, AppendIsConcat
<1>9. Append(s, e) = s \o <<e>>
  BY AppendIsConcat
<1>10. (<<m>> \o s) \o <<e>> = <<m>> \o (s \o <<e>>)
  BY <1>1, ConcatAssociative
<1> QED
  BY <1>2, <1>3, <1>4, <1>7, <1>8, <1>9, <1>10

\* A queue with something in it is its head and the rest.
LEMMA QueueSplit ==
  ASSUME NEW S, NEW s \in Seq(S), s # <<>>
  PROVE  /\ Head(s) \in S /\ Tail(s) \in Seq(S)
         /\ <<Head(s)>> \o Tail(s) = s
<1>1. /\ Head(s) \in S /\ Tail(s) \in Seq(S) /\ Len(Tail(s)) = Len(s) - 1
      /\ \A i \in 1..Len(Tail(s)) : Tail(s)[i] = s[i + 1]
  BY HeadTailProperties
<1>2. /\ <<Head(s)>> \in Seq(S) /\ Len(<<Head(s)>>) = 1 /\ <<Head(s)>>[1] = s[1]
      /\ Len(s) \in Nat /\ Len(s) # 0
  BY <1>1
<1>3. /\ <<Head(s)>> \o Tail(s) \in Seq(S)
      /\ Len(<<Head(s)>> \o Tail(s)) = 1 + (Len(s) - 1)
      /\ \A i \in 1..(1 + (Len(s) - 1)) :
           (<<Head(s)>> \o Tail(s))[i]
             = IF i <= 1 THEN <<Head(s)>>[i] ELSE Tail(s)[i - 1]
  BY <1>1, <1>2, ConcatProperties
<1>4. Len(<<Head(s)>> \o Tail(s)) = Len(s)
  BY <1>2, <1>3
<1>5. \A i \in 1..Len(s) : (<<Head(s)>> \o Tail(s))[i] = s[i]
  BY <1>1, <1>2, <1>3
<1> QED
  BY <1>1, <1>3, <1>4, <1>5, SeqEqual

\* A message is something.
LEMMA MessageIsSomething == \A m \in Message : m # NoMessage
<1> SUFFICES ASSUME NEW m \in Message PROVE m # NoMessage
  OBVIOUS
<1>1. DOMAIN m = {"from", "to", "n"}
  BY DEF Message
<1>2. DOMAIN NoMessage = {}
  BY DEF NoMessage
<1> QED
  BY <1>1, <1>2
-----------------------------------------------------------------------------
(* The inductive invariant *)

\* The map leads a client's id to a connection of that client, and a message is
\* written to a connection of its addressee.
Addressed ==
  /\ \A i \in Ids : connections[i] # NoConn => IdOf[connections[i]] = i
  /\ \A c \in Conns :
       /\ pc[c] \in {"forward", "sending"} =>
            target[c] \in Conns /\ IdOf[target[c]] = msg[c].to
       /\ pc[c] \in {"welcome", "greeting"} => target[c] = c

SignalingInv == TypeOK /\ Addressed /\ MapIsCurrent

LEMMA InitInv == Init => SignalingInv
<1> SUFFICES ASSUME Init PROVE SignalingInv
  OBVIOUS
<1> USE ConnsAssumption, BoundsAssumption
<1>1. TypeOK
  BY DEF Init, TypeOK, Handling, NoMessage
<1>2. Addressed
  BY DEF Init, Addressed
<1>3. MapIsCurrent
  BY DEF Init, MapIsCurrent, Handling
<1> QED
  BY <1>1, <1>2, <1>3 DEF SignalingInv

\* Types, one action after the other.
LEMMA TypeStep == SignalingInv /\ [Next]_vars => TypeOK'
<1> SUFFICES ASSUME SignalingInv, [Next]_vars PROVE TypeOK'
  OBVIOUS
<1> USE ConnsAssumption, BoundsAssumption
        DEF SignalingInv, TypeOK, Handling, Goto
<1>1. ASSUME NEW c \in Conns, Connect(c) PROVE TypeOK'
  BY <1>1 DEF Connect
<1>2. ASSUME NEW c \in Conns, ClientSend(c) PROVE TypeOK'
  <2>1. PICK to \in Ids \ {IdOf[c]} :
          inbox' = [inbox EXCEPT
                      ![c] = Append(@, [from |-> c, to |-> to, n |-> sent[c] + 1])]
    BY <1>2 DEF ClientSend
  <2>2. sent[c] + 1 \in Nat /\ sent[c] + 1 <= MaxSends[c]
    BY <1>2 DEF ClientSend
  <2>3. [from |-> c, to |-> to, n |-> sent[c] + 1] \in Message
    BY <2>2 DEF Message
  <2>4. inbox' \in [Conns -> Seq(Message)]
    BY <2>1, <2>3, AppendProperties
  <2>5. sent' \in [Conns -> Nat] /\ \A d \in Conns : sent'[d] <= MaxSends[d]
    BY <1>2, <2>2 DEF ClientSend
  <2> QED
    BY <1>2, <2>4, <2>5 DEF ClientSend
<1>3. ASSUME NEW c \in Conns, ClientClose(c) PROVE TypeOK'
  BY <1>3 DEF ClientClose
<1>4. ASSUME NEW c \in Conns, Panic(c) PROVE TypeOK'
  BY <1>4 DEF Panic, NoMessage
<1>5. ASSUME NEW c \in Conns, BeginWelcome(c) \/ BeginForward(c) PROVE TypeOK'
  <2>1. PICK l \in {"greeting", "sending"} :
          /\ BeginWrite(c, l)
          /\ (pc[c] \in {"route", "forward", "sending"})
               = (l \in {"route", "forward", "sending"})
    BY <1>5 DEF BeginWelcome, BeginForward
  <2>2. /\ UNCHANGED <<connections, socket, sent, inbox, msg, target, received>>
        /\ pc' = [pc EXCEPT ![c] = l]
        /\ garbled' \subseteq Conns
    BY <2>1 DEF BeginWrite, Writers
  <2>3. pc' \in [Conns -> Handling \cup {"none", "leaving", "gone", "panicked"}]
    BY <2>2
  <2>4. \A d \in Conns :
          (pc'[d] \in {"route", "forward", "sending"}) = (msg'[d] # NoMessage)
    BY <2>1, <2>2
  <2> QED
    BY <2>2, <2>3, <2>4
<1>6. ASSUME NEW c \in Conns, EndWelcome(c) PROVE TypeOK'
  BY <1>6 DEF EndWelcome
<1>7. ASSUME NEW c \in Conns, Read(c) PROVE TypeOK'
  <2>1. Head(inbox[c]) \in Message /\ Tail(inbox[c]) \in Seq(Message)
    BY <1>7, HeadTailProperties DEF Read
  <2>2. Head(inbox[c]) # NoMessage
    BY <2>1, MessageIsSomething
  <2>3. /\ inbox' \in [Conns -> Seq(Message)]
        /\ msg' \in [Conns -> Message \cup {NoMessage}]
    BY <1>7, <2>1 DEF Read
  <2>4. \A d \in Conns :
          (pc'[d] \in {"route", "forward", "sending"}) = (msg'[d] # NoMessage)
    BY <1>7, <2>2 DEF Read
  <2> QED
    BY <1>7, <2>3, <2>4 DEF Read
<1>8. ASSUME NEW c \in Conns, ReadError(c) PROVE TypeOK'
  BY <1>8 DEF ReadError
<1>9. ASSUME NEW c \in Conns, Lookup(c) PROVE TypeOK'
  <2>1. msg[c] \in Message /\ pc[c] = "route"
    BY <1>9 DEF Lookup
  <2>2. connections[msg[c].to] \in Conns \cup {NoConn}
    BY <2>1 DEF Message
  <2>3. target' \in [Conns -> Conns \cup {NoConn}]
    BY <1>9, <2>2 DEF Lookup, TargetOf
  <2>4. \/ Goto(c, "reading") /\ msg' = [msg EXCEPT ![c] = NoMessage]
        \/ Goto(c, "forward") /\ msg' = msg
    BY <1>9 DEF Lookup
  <2>5. UNCHANGED <<connections, socket, sent, inbox, garbled, received>>
    BY <1>9 DEF Lookup
  <2>6. /\ pc' \in [Conns -> Handling \cup {"none", "leaving", "gone", "panicked"}]
        /\ msg' \in [Conns -> Message \cup {NoMessage}]
    BY <2>1, <2>4
  <2>7. \A d \in Conns :
          (pc'[d] \in {"route", "forward", "sending"}) = (msg'[d] # NoMessage)
    <3>1. CASE Goto(c, "reading") /\ msg' = [msg EXCEPT ![c] = NoMessage]
      BY <3>1
    <3>2. CASE Goto(c, "forward") /\ msg' = msg
      BY <2>1, <3>2
    <3> QED
      BY <2>4, <3>1, <3>2
  <2> QED
    BY <2>3, <2>5, <2>6, <2>7
<1>10. ASSUME NEW c \in Conns, EndForward(c) PROVE TypeOK'
  <2>1. msg[c] \in Message /\ target[c] \in Conns
    BY <1>10 DEF EndForward, Addressed
  <2>2. Append(received[target[c]], msg[c]) \in Seq(Message)
    BY <2>1, AppendProperties
  <2>3. received' \in [Conns -> Seq(Message)]
    BY <1>10, <2>1, <2>2 DEF EndForward
  <2> QED
    BY <1>10, <2>3 DEF EndForward, Forget
<1>11. ASSUME NEW c \in Conns, Leave(c) PROVE TypeOK'
  BY <1>11 DEF Leave, Unregister
<1>12. ASSUME UNCHANGED vars PROVE TypeOK'
  BY <1>12 DEF vars
<1> QED
  BY <1>1, <1>2, <1>3, <1>4, <1>5, <1>6, <1>7, <1>8, <1>9, <1>10, <1>11, <1>12
     DEF Next, Handler

InMap == Handling \cup {"leaving", "panicked"}

\* A handler that goes on leaves the map as it is.
LEMMA MapKept ==
  ASSUME SignalingInv, NEW c \in Conns, NEW l \in InMap,
         pc[c] \in InMap, Goto(c, l), UNCHANGED connections
  PROVE  MapIsCurrent'
BY DEF SignalingInv, TypeOK, MapIsCurrent, InMap, Goto

\* The map, one action after the other.
LEMMA MapStep == SignalingInv /\ [Next]_vars => MapIsCurrent'
<1> SUFFICES ASSUME SignalingInv, [Next]_vars PROVE MapIsCurrent'
  OBVIOUS
<1> USE ConnsAssumption
<1>1. ASSUME NEW c \in Conns, Connect(c) PROVE MapIsCurrent'
  BY <1>1 DEF Connect, Goto, SignalingInv, TypeOK, MapIsCurrent, Handling
<1>2. ASSUME NEW c \in Conns, Leave(c) PROVE MapIsCurrent'
  <2> SUFFICES ASSUME NEW d \in Conns, \A e \in Conns : IdOf[e] = IdOf[d] => e = d
               PROVE  (connections'[IdOf[d]] = d) = (pc'[d] \in InMap)
    BY DEF MapIsCurrent, InMap
  <2>1. (connections[IdOf[d]] = d) = (pc[d] \in InMap)
    BY DEF SignalingInv, MapIsCurrent, InMap
  <2>2. /\ DOMAIN pc = Conns /\ DOMAIN connections = Ids
        /\ pc' = [pc EXCEPT ![c] = "gone"]
        /\ connections' = [connections EXCEPT ![IdOf[c]] = NoConn]
        /\ IdOf[c] \in Ids /\ IdOf[d] \in Ids
    BY <1>2 DEF Leave, Unregister, Goto, SignalingInv, TypeOK
  <2>3. CASE d = c
    BY <2>2, <2>3 DEF InMap, Handling
  <2>4. CASE d # c
    BY <2>1, <2>2, <2>4
  <2> QED
    BY <2>3, <2>4
<1>3. ASSUME NEW c \in Conns,
             \/ Panic(c) \/ BeginWelcome(c) \/ BeginForward(c) \/ EndWelcome(c)
             \/ Read(c) \/ ReadError(c) \/ Lookup(c) \/ EndForward(c)
      PROVE  MapIsCurrent'
  <2>1. pc[c] \in InMap /\ UNCHANGED connections
    BY <1>3 DEF Panic, BeginWelcome, BeginForward, BeginWrite, EndWelcome, Read,
                ReadError, Lookup, EndForward, InMap, Handling
  <2>2. \E l \in InMap : Goto(c, l)
    BY <1>3 DEF Panic, BeginWelcome, BeginForward, BeginWrite, EndWelcome, Read,
                ReadError, Lookup, EndForward, InMap, Handling
  <2> QED
    BY <2>1, <2>2, MapKept
<1>4. ASSUME UNCHANGED <<pc, connections>> PROVE MapIsCurrent'
  BY <1>4 DEF SignalingInv, MapIsCurrent
<1> QED
  BY <1>1, <1>2, <1>3, <1>4 DEF Next, Handler, ClientSend, ClientClose, vars

\* A handler that does not take up a message to forward.
LEMMA AddressedKept ==
  ASSUME SignalingInv, NEW c \in Conns, NEW l, Goto(c, l),
         \/ l \in {"reading", "leaving", "gone", "panicked", "route"}
         \/ l = "greeting" /\ pc[c] = "welcome"
         \/ l = "sending" /\ pc[c] = "forward",
         UNCHANGED <<target, connections>>,
         \A d \in Conns : d # c => msg'[d] = msg[d],
         l = "sending" => msg'[c] = msg[c]
  PROVE  Addressed'
<1>1. DOMAIN pc = Conns
  BY DEF SignalingInv, TypeOK
<1> QED
  BY <1>1 DEF SignalingInv, Addressed, Goto

\* The targets, one action after the other.
LEMMA AddressedStep == SignalingInv /\ [Next]_vars => Addressed'
<1> SUFFICES ASSUME SignalingInv, [Next]_vars PROVE Addressed'
  OBVIOUS
<1> USE ConnsAssumption
<1>1. ASSUME NEW c \in Conns, Connect(c) PROVE Addressed'
  BY <1>1 DEF Connect, Goto, SignalingInv, TypeOK, Addressed
<1>2. ASSUME NEW c \in Conns, Leave(c) PROVE Addressed'
  BY <1>2 DEF Leave, Unregister, Goto, SignalingInv, TypeOK, Addressed
<1>3. ASSUME NEW c \in Conns, Lookup(c) PROVE Addressed'
  <2>1. msg[c] \in Message /\ DOMAIN pc = Conns /\ DOMAIN target = Conns
    BY <1>3 DEF Lookup, SignalingInv, TypeOK
  <2>2. msg[c].to \in Ids
    BY <2>1 DEF Message
  <2> DEFINE d == connections[msg[c].to]
  <2>3. d \in Conns \cup {NoConn} /\ (d # NoConn => IdOf[d] = msg[c].to)
    BY <2>2 DEF SignalingInv, TypeOK, Addressed
  <2>4. /\ target' = [target EXCEPT ![c] = d] /\ connections' = connections
        /\ \/ pc' = [pc EXCEPT ![c] = "reading"] /\ msg' = [msg EXCEPT ![c] = NoMessage]
           \/ pc' = [pc EXCEPT ![c] = "forward"] /\ msg' = msg /\ d # NoConn
    BY <1>3 DEF Lookup, TargetOf, Goto
  <2> HIDE DEF d
  <2>5. DOMAIN msg = Conns
    BY DEF SignalingInv, TypeOK
  <2>6. \A e \in Conns : e # c => pc'[e] = pc[e] /\ target'[e] = target[e] /\ msg'[e] = msg[e]
    BY <2>1, <2>4, <2>5
  <2>7. /\ target'[c] = d
        /\ pc'[c] = "reading" \/ (pc'[c] = "forward" /\ msg'[c] = msg[c] /\ d # NoConn)
    BY <2>1, <2>4, <2>5
  <2> QED
    BY <2>3, <2>4, <2>6, <2>7 DEF SignalingInv, Addressed
<1>4. ASSUME NEW c \in Conns,
             \/ Panic(c) \/ BeginWelcome(c) \/ BeginForward(c) \/ EndWelcome(c)
             \/ Read(c) \/ ReadError(c) \/ EndForward(c)
      PROVE  Addressed'
  <2>1. UNCHANGED <<target, connections>>
    BY <1>4 DEF Panic, BeginWelcome, BeginForward, BeginWrite, EndWelcome, Read,
                ReadError, EndForward
  <2>2. msg' = msg \/ \E m : msg' = [msg EXCEPT ![c] = m]
    BY <1>4 DEF Panic, BeginWelcome, BeginForward, BeginWrite, EndWelcome, Read,
                ReadError, EndForward, Forget
  <2>3. \A d \in Conns : d # c => msg'[d] = msg[d]
    BY <2>2 DEF SignalingInv, TypeOK
  <2>4. \/ Goto(c, "panicked") \/ Goto(c, "reading") \/ Goto(c, "route") \/ Goto(c, "leaving")
        \/ Goto(c, "greeting") /\ pc[c] = "welcome"
        \/ Goto(c, "sending") /\ pc[c] = "forward" /\ msg' = msg
    BY <1>4 DEF Panic, BeginWelcome, BeginForward, BeginWrite, EndWelcome, Read,
                ReadError, EndForward
  <2> QED
    BY <2>1, <2>3, <2>4, AddressedKept
<1>5. ASSUME UNCHANGED <<pc, connections, target, msg>> PROVE Addressed'
  BY <1>5 DEF SignalingInv, Addressed
<1> QED
  BY <1>1, <1>2, <1>3, <1>4, <1>5 DEF Next, Handler, ClientSend, ClientClose, vars

\* The inductive invariant of the signaling server.
THEOREM Invariance == Spec => []SignalingInv
<1>1. SignalingInv /\ [Next]_vars => SignalingInv'
  BY TypeStep, MapStep, AddressedStep DEF SignalingInv
<1> QED
  BY <1>1, InitInv, PTL DEF Spec

\* Types; a handler has a message from reading it to the end of the write
\* (handlers.go:71-95).
THEOREM TypeCorrect == Spec => []TypeOK
<1>1. SignalingInv => TypeOK
  BY DEF SignalingInv
<1> QED
  BY <1>1, Invariance, PTL

\* A client that uses its id alone is in the map from registration to the end of
\* its handler, whoever else comes and goes (handlers.go:61-63, 97-99).
THEOREM MapCurrent == Spec => []MapIsCurrent
<1>1. SignalingInv => MapIsCurrent
  BY DEF SignalingInv
<1> QED
  BY <1>1, Invariance, PTL
-----------------------------------------------------------------------------
(* Signaling implements SignalRouter *)

Queues == [c \in Conns |-> Waiting(c)]

\* A step that leaves messages where they are, seen from outside.
LEMMA HiddenStep ==
  ASSUME UNCHANGED <<msg, inbox, received>>
  PROVE  UNCHANGED Router!vars
BY DEF Router!vars, Waiting

\* A new message goes to the end of its sender's queue.
LEMMA SendStep ==
  ASSUME SignalingInv, NEW c \in Conns, ClientSend(c)
  PROVE  Router!Send(c)
<1>1. PICK to \in Ids \ {IdOf[c]} :
        inbox' = [inbox EXCEPT
                    ![c] = Append(@, [from |-> c, to |-> to, n |-> sent[c] + 1])]
  BY DEF ClientSend
<1> DEFINE m == [from |-> c, to |-> to, n |-> sent[c] + 1]
<1>2. sent[c] + 1 \in 1..MaxSends[c]
  <2>1. sent[c] \in Nat /\ sent[c] < MaxSends[c]
    BY DEF ClientSend, SignalingInv, TypeOK
  <2>2. MaxSends[c] \in Nat
    BY BoundsAssumption
  <2> QED
    BY <2>1, <2>2
<1>3. m \in Message
  BY <1>2 DEF Message
<1>4. inbox \in [Conns -> Seq(Message)] /\ msg \in [Conns -> Message \cup {NoMessage}]
      /\ UNCHANGED <<msg, received>>
  BY DEF SignalingInv, TypeOK, ClientSend
<1>5. inbox'[c] = Append(inbox[c], m)
  BY <1>1, <1>4
<1>6. ASSUME msg[c] # NoMessage
      PROVE  <<msg[c]>> \o Append(inbox[c], m) = Append(<<msg[c]>> \o inbox[c], m)
  <2>1. msg[c] \in Message /\ inbox[c] \in Seq(Message)
    BY <1>4, <1>6
  <2> HIDE DEF m
  <2> QED
    BY <1>3, <2>1, QueueFacts
<1>7. Waiting(c)' = Append(Waiting(c), m)
  BY <1>4, <1>5, <1>6 DEF Waiting
<1>8. \A d \in Conns : d # c => Waiting(d)' = Waiting(d)
  BY <1>1, <1>4 DEF Waiting
<1>9. Queues' = [Queues EXCEPT ![c] = Append(@, m)]
  BY <1>7, <1>8 DEF Queues
<1> QED
  BY <1>2, <1>4, <1>9 DEF Router!Send, Queues

\* Reading moves a message from the socket to the handler, which is no step of
\* the router.
LEMMA ReadStep ==
  ASSUME SignalingInv, NEW c \in Conns, Read(c)
  PROVE  UNCHANGED Router!vars
<1>1. /\ inbox \in [Conns -> Seq(Message)] /\ DOMAIN msg = Conns
      /\ msg[c] = NoMessage
  BY DEF SignalingInv, TypeOK, Read
<1>2. /\ inbox[c] # <<>> /\ received' = received
      /\ msg' = [msg EXCEPT ![c] = Head(inbox[c])]
      /\ inbox' = [inbox EXCEPT ![c] = Tail(@)]
  BY DEF Read
<1>3. Head(inbox[c]) \in Message /\ <<Head(inbox[c])>> \o Tail(inbox[c]) = inbox[c]
  BY <1>1, <1>2, QueueSplit
<1>4. Head(inbox[c]) # NoMessage
  BY <1>3, MessageIsSomething
<1>5. Waiting(c)' = Waiting(c)
  BY <1>1, <1>2, <1>3, <1>4 DEF Waiting
<1>6. \A d \in Conns : d # c => Waiting(d)' = Waiting(d)
  BY <1>1, <1>2 DEF Waiting
<1> QED
  BY <1>2, <1>5, <1>6 DEF Router!vars

\* The handler is done with its message: it was the first of the queue.
LEMMA Routed ==
  ASSUME SignalingInv, NEW c \in Conns, pc[c] \in {"route", "sending"},
         msg' = [msg EXCEPT ![c] = NoMessage], UNCHANGED inbox
  PROVE  /\ Queues[c] # <<>> /\ Head(Queues[c]) = msg[c]
         /\ Queues' = [Queues EXCEPT ![c] = Tail(@)]
<1>1. /\ msg[c] \in Message /\ msg[c] # NoMessage /\ DOMAIN msg = Conns
      /\ inbox[c] \in Seq(Message)
  BY DEF SignalingInv, TypeOK
<1>2. Waiting(c) = <<msg[c]>> \o inbox[c] /\ Waiting(c)' = inbox[c]
  BY <1>1 DEF Waiting
<1>3. Waiting(c) # <<>> /\ Head(Waiting(c)) = msg[c] /\ Waiting(c)' = Tail(Waiting(c))
  BY <1>1, <1>2, QueueFacts
<1>4. \A d \in Conns : d # c => Waiting(d)' = Waiting(d)
  BY <1>1 DEF Waiting
<1> QED
  BY <1>3, <1>4 DEF Queues

\* A message is dropped for want of a connection, or written to the one found.
LEMMA RouteStep ==
  ASSUME SignalingInv, NEW c \in Conns, Lookup(c) \/ EndForward(c)
  PROVE  Router!Route(c) \/ UNCHANGED Router!vars
<1>1. CASE Lookup(c) /\ UNCHANGED msg
  BY <1>1, HiddenStep DEF Lookup
<1>2. CASE Lookup(c) /\ msg' = [msg EXCEPT ![c] = NoMessage]
  <2>1. Queues[c] # <<>> /\ Queues' = [Queues EXCEPT ![c] = Tail(@)]
    BY <1>2, Routed DEF Lookup
  <2> QED
    BY <1>2, <2>1 DEF Lookup, Router!Route, Queues
<1>3. CASE EndForward(c)
  <2>1. /\ Queues[c] # <<>> /\ Head(Queues[c]) = msg[c]
        /\ Queues' = [Queues EXCEPT ![c] = Tail(@)]
    BY <1>3, Routed DEF EndForward, Forget
  <2>2. target[c] \in Conns /\ IdOf[target[c]] = msg[c].to
    BY <1>3 DEF EndForward, SignalingInv, Addressed
  <2>3. \/ received' = received
        \/ received' = [received EXCEPT ![target[c]] = Append(@, msg[c])]
    BY <1>3 DEF EndForward
  <2> QED
    BY <2>1, <2>2, <2>3 DEF Router!Route, Queues
<1> QED
  BY <1>1, <1>2, <1>3 DEF Lookup

\* A handler that ends takes what its client had still to send with it.
LEMMA BreakStep ==
  ASSUME SignalingInv, NEW c \in Conns, Panic(c) \/ ReadError(c)
  PROVE  Router!Break(c)
<1>1. /\ inbox' = [inbox EXCEPT ![c] = <<>>] /\ received' = received
      /\ DOMAIN inbox = Conns /\ DOMAIN msg = Conns
  BY DEF Panic, ReadError, SignalingInv, TypeOK
<1>2. msg' = [msg EXCEPT ![c] = NoMessage]
  <2>1. CASE Panic(c)
    BY <2>1 DEF Panic
  <2>2. CASE ReadError(c)
    <3>1. msg[c] = NoMessage /\ msg' = msg
      BY <2>2 DEF ReadError, SignalingInv, TypeOK
    <3>2. msg = [d \in Conns |-> msg[d]]
      BY DEF SignalingInv, TypeOK
    <3> QED
      BY <3>1, <3>2
  <2> QED
    BY <2>1, <2>2
<1>3. Waiting(c)' = <<>>
  BY <1>1, <1>2 DEF Waiting
<1>4. \A d \in Conns : d # c => Waiting(d)' = Waiting(d)
  BY <1>1, <1>2 DEF Waiting
<1>5. Queues' = [Queues EXCEPT ![c] = <<>>]
  BY <1>3, <1>4 DEF Queues
<1> QED
  BY <1>1, <1>5 DEF Router!Break, Queues

\* Each step of a handler or a client is one of the router or none.
LEMMA RouterStep == SignalingInv /\ [Next]_vars => [Router!Next]_(Router!vars)
<1> SUFFICES ASSUME SignalingInv, [Next]_vars PROVE [Router!Next]_(Router!vars)
  OBVIOUS
<1>1. ASSUME NEW c \in Conns,
             \/ Connect(c) \/ ClientClose(c) \/ BeginWelcome(c) \/ EndWelcome(c)
             \/ BeginForward(c) \/ Leave(c)
      PROVE  UNCHANGED Router!vars
  BY <1>1, HiddenStep
     DEF Connect, ClientClose, BeginWelcome, EndWelcome, BeginForward, BeginWrite, Leave
<1>2. ASSUME UNCHANGED vars PROVE UNCHANGED Router!vars
  BY <1>2, HiddenStep DEF vars
<1> QED
  BY <1>1, <1>2, SendStep, ReadStep, RouteStep, BreakStep
     DEF Next, Handler, Router!Next

\* The handlers together are the router of SignalRouter: each sender's messages
\* keep their order, arrive at most once, and only at their addressee
\* (handlers.go:48-99).
THEOREM Refinement == Spec => ImplementsRouter
<1>1. Init => Router!Init
  BY DEF Init, Router!Init, Waiting
<1>2. SignalingInv /\ [Next]_vars => [Router!Next]_(Router!vars)
  BY RouterStep
<1> QED
  BY <1>1, <1>2, Invariance, PTL DEF Spec, Router!Spec, ImplementsRouter
=============================================================================
