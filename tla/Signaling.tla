----------------------------- MODULE Signaling -----------------------------
(* The signaling server (signaling/handlers.go): one handler goroutine per    *)
(* WebSocket connection, the map from client ids to connections under an      *)
(* RWMutex, and writes to connections under no lock at all.                   *)
(*                                                                            *)
(* gorilla/websocket supports one concurrent writer per connection: a second  *)
(* writer panics when the library notices, and garbles the frames of both     *)
(* when it does not.  net/http ends the handler of a panic; deferred calls    *)
(* run, the rest of ServeHTTP does not.                                       *)
EXTENDS Naturals, Sequences, FiniteSets

CONSTANTS Conns,       \* connections, in the order clients may open them
          Ids,         \* client ids
          IdOf,        \* IdOf[c]: the client_id connection c asks for
          NoConn,      \* no connection
          MaxSends,    \* bound: MaxSends[c] messages connection c sends
          MaxCloses    \* bound: connections closed by their clients

ASSUME ConnsAssumption == IdOf \in [Conns -> Ids] /\ NoConn \notin Conns
ASSUME BoundsAssumption == MaxSends \in [Conns -> Nat] /\ MaxCloses \in Nat

VARIABLES
  pc,            \* pc[c]: the handler of connection c
  connections,   \* the map: client id -> connection, or NoConn
  socket,        \* socket[c]: "none", "open" or "closed"
  sent,          \* sent[c]: messages client c has sent so far
  inbox,         \* inbox[c]: messages on the socket, not read yet
  msg, target,   \* locals of the handler: the message, targetConn
  garbled,       \* handlers whose write overlaps another
  received       \* received[c]: messages the client of c has got

vars == <<pc, connections, socket, sent, inbox, msg, target, garbled, received>>

Message == [from : Conns, to : Ids, n : Nat]
NoMessage == <<>>

Init == /\ pc = [c \in Conns |-> "none"]
        /\ connections = [i \in Ids |-> NoConn]
        /\ socket = [c \in Conns |-> "none"]
        /\ sent = [c \in Conns |-> 0]
        /\ inbox = [c \in Conns |-> <<>>]
        /\ msg = [c \in Conns |-> NoMessage]
        /\ target = [c \in Conns |-> NoConn]
        /\ garbled = {}
        /\ received = [c \in Conns |-> <<>>]
-----------------------------------------------------------------------------
Goto(c, l) == pc' = [pc EXCEPT ![c] = l]

\* Upgrade and registration, between which nobody can know of the connection: an
\* id in use is taken over silently.
Connect(c) ==
  /\ pc[c] = "none"
  /\ connections' = [connections EXCEPT ![IdOf[c]] = c]
  /\ socket' = [socket EXCEPT ![c] = "open"]
  /\ target' = [target EXCEPT ![c] = c]
  /\ Goto(c, "welcome")
  /\ UNCHANGED <<sent, inbox, msg, garbled, received>>

ClientSend(c) ==
  /\ socket[c] = "open"
  /\ sent[c] < MaxSends[c]
  /\ \E to \in Ids \ {IdOf[c]} :
       inbox' = [inbox EXCEPT
                   ![c] = Append(@, [from |-> c, to |-> to, n |-> sent[c] + 1])]
  /\ sent' = [sent EXCEPT ![c] = @ + 1]
  /\ UNCHANGED <<pc, connections, socket, msg, target, garbled, received>>

ClientClose(c) ==
  /\ socket[c] = "open"
  /\ Cardinality({d \in Conns : socket[d] = "closed"}) < MaxCloses
  /\ socket' = [socket EXCEPT ![c] = "closed"]
  /\ UNCHANGED <<pc, connections, sent, inbox, msg, target, garbled, received>>
-----------------------------------------------------------------------------
Writers(d) == {c \in Conns : pc[c] \in {"greeting", "sending"} /\ target[c] = d}

\* WriteJSON on target[c] begins; c goes on at l.
BeginWrite(c, l) ==
  /\ Goto(c, l)
  /\ IF Writers(target[c]) = {}
       THEN UNCHANGED garbled
       ELSE garbled' = garbled \cup Writers(target[c]) \cup {c}
  /\ UNCHANGED <<connections, socket, sent, inbox, msg, target, received>>

\* gorilla: panic("concurrent write to websocket connection"); the deferred
\* conn.Close runs, the delete from the map does not.
Panic(c) ==
  /\ pc[c] \in {"welcome", "forward"}
  /\ Writers(target[c]) # {}
  /\ Goto(c, "panicked")
  /\ socket' = [socket EXCEPT ![c] = "closed"]
  /\ inbox' = [inbox EXCEPT ![c] = <<>>]
  /\ msg' = [msg EXCEPT ![c] = NoMessage]
  /\ UNCHANGED <<connections, sent, target, garbled, received>>

BeginWelcome(c) == pc[c] = "welcome" /\ BeginWrite(c, "greeting")

EndWelcome(c) ==
  /\ pc[c] = "greeting"
  /\ Goto(c, "reading")
  /\ garbled' = garbled \ {c}
  /\ UNCHANGED <<connections, socket, sent, inbox, msg, target, received>>

\* Mutant of Read: the newest message is taken first.
ReadNewest(c) ==
  /\ pc[c] = "reading"
  /\ inbox[c] # <<>>
  /\ msg' = [msg EXCEPT ![c] = inbox[c][Len(inbox[c])]]
  /\ inbox' = [inbox EXCEPT ![c] = SubSeq(@, 1, Len(@) - 1)]
  /\ Goto(c, "route")
  /\ UNCHANGED <<connections, socket, sent, target, garbled, received>>

Read(c) ==
  /\ pc[c] = "reading"
  /\ inbox[c] # <<>>
  /\ msg' = [msg EXCEPT ![c] = Head(inbox[c])]
  /\ inbox' = [inbox EXCEPT ![c] = Tail(@)]
  /\ Goto(c, "route")
  /\ UNCHANGED <<connections, socket, sent, target, garbled, received>>

\* ReadJSON fails: a closed connection, which may lose what is still on the
\* socket.  Bytes that are no JSON end the loop in the same way.
ReadError(c) ==
  /\ pc[c] = "reading"
  /\ socket[c] = "closed"
  /\ inbox' = [inbox EXCEPT ![c] = <<>>]
  /\ Goto(c, "leaving")
  /\ UNCHANGED <<connections, socket, sent, msg, target, garbled, received>>

\* Mutant of TargetOf: the message goes to the last connection registered.
AnyTarget(m) == IF \E i \in Ids : connections[i] # NoConn
                  THEN CHOOSE d \in {connections[i] : i \in Ids} : d # NoConn
                  ELSE NoConn

TargetOf(m) == connections[m.to]

\* The lookup under the read lock; an unknown addressee loses the message.
Lookup(c) ==
  /\ pc[c] = "route"
  /\ target' = [target EXCEPT ![c] = TargetOf(msg[c])]
  /\ IF TargetOf(msg[c]) = NoConn
       THEN Goto(c, "reading") /\ msg' = [msg EXCEPT ![c] = NoMessage]
       ELSE Goto(c, "forward") /\ UNCHANGED msg
  /\ UNCHANGED <<connections, socket, sent, inbox, garbled, received>>

BeginForward(c) == pc[c] = "forward" /\ BeginWrite(c, "sending")

\* Mutant of Forget: the message stays with the handler.
KeepMessage(c) == UNCHANGED msg

\* msg is a local of one turn of the loop.
Forget(c) == msg' = [msg EXCEPT ![c] = NoMessage]

\* The write ends; on a closed connection it fails, which nobody looks at.
EndForward(c) ==
  /\ pc[c] = "sending"
  /\ received' = IF socket[target[c]] = "open" /\ c \notin garbled
                   THEN [received EXCEPT ![target[c]] = Append(@, msg[c])]
                   ELSE received
  /\ garbled' = garbled \ {c}
  /\ Forget(c)
  /\ Goto(c, "reading")
  /\ UNCHANGED <<connections, socket, sent, inbox, target>>

\* Mutant of Unregister: the entry is left in the map.
KeepRegistered(c) == UNCHANGED connections

\* delete by id: whichever connection is registered under it.
Unregister(c) == connections' = [connections EXCEPT ![IdOf[c]] = NoConn]

Leave(c) ==
  /\ pc[c] = "leaving"
  /\ Unregister(c)
  /\ Goto(c, "gone")
  /\ UNCHANGED <<socket, sent, inbox, msg, target, garbled, received>>
-----------------------------------------------------------------------------
Handler(c) == \/ BeginWelcome(c) \/ EndWelcome(c) \/ Panic(c) \/ Read(c)
              \/ ReadError(c) \/ Lookup(c) \/ BeginForward(c) \/ EndForward(c)
              \/ Leave(c)

Next == \E c \in Conns : Connect(c) \/ ClientSend(c) \/ ClientClose(c) \/ Handler(c)

Spec == Init /\ [][Next]_vars

\* Go keeps running every handler that has something to do.
FairSpec == Spec /\ \A c \in Conns : WF_vars(Handler(c))
-----------------------------------------------------------------------------
Handling == {"welcome", "greeting", "reading", "route", "forward", "sending"}

\* Types; a handler has a message exactly between reading and having sent it.
TypeOK ==
  /\ pc \in [Conns -> Handling \cup {"none", "leaving", "gone", "panicked"}]
  /\ connections \in [Ids -> Conns \cup {NoConn}]
  /\ socket \in [Conns -> {"none", "open", "closed"}]
  /\ sent \in [Conns -> Nat] /\ \A c \in Conns : sent[c] <= MaxSends[c]
  /\ inbox \in [Conns -> Seq(Message)]
  /\ msg \in [Conns -> Message \cup {NoMessage}]
  /\ target \in [Conns -> Conns \cup {NoConn}]
  /\ garbled \subseteq Conns
  /\ received \in [Conns -> Seq(Message)]
  /\ \A c \in Conns : (pc[c] \in {"route", "forward", "sending"}) = (msg[c] # NoMessage)

Waiting(c) == IF msg[c] = NoMessage THEN inbox[c] ELSE <<msg[c]>> \o inbox[c]

Router == INSTANCE SignalRouter WITH queue <- [c \in Conns |-> Waiting(c)]

\* The handlers together are a router: order per sender, at most once, only to
\* the addressee, whatever connects, closes or writes at the same time.
ImplementsRouter == Router!Spec

\* A client id that one connection uses is in the map from the upgrade to the
\* end of its handler, and for good when the handler panics: nobody else's
\* coming and going touches the entry (handlers.go:61-63, 97-99).
MapIsCurrent ==
  \A c \in Conns :
    (\A d \in Conns : IdOf[d] = IdOf[c] => d = c) =>
      (connections[IdOf[c]] = c) =
        (pc[c] \in Handling \cup {"leaving", "panicked"})

\* A message to a registered client arrives (handlers.go:64-95), each of them,
\* unless one of the two connections closes, the addressee's entry in the map
\* changes, or writes to a connection collide.
Delivered ==
  \A c, d \in Conns : \A n \in 1..MaxSends[c] :
    LET m == [from |-> c, to |-> IdOf[d], n |-> n] IN
      (\E k \in DOMAIN inbox[c] : inbox[c][k] = m) ~>
        \/ \E k \in DOMAIN received[d] : received[d][k] = m
        \/ socket[c] = "closed" \/ socket[d] = "closed"
        \/ connections[IdOf[d]] # d
        \/ garbled # {}

=============================================================================
