---------------------------- MODULE SignalRouter ----------------------------
(* What the signaling server promises, without handlers, sockets and the      *)
(* connection map: messages of one connection leave in the order they were    *)
(* sent, each at most once, and only for a connection of the client they are  *)
(* addressed to; any message may be lost.  Signaling.tla implements it.       *)
EXTENDS Sequences, Naturals

CONSTANTS Conns, Ids, IdOf, MaxSends

VARIABLES queue,      \* queue[c]: messages connection c has sent, not routed
          received    \* received[c]: messages delivered to connection c

vars == <<queue, received>>

Init == queue = [c \in Conns |-> <<>>] /\ received = [c \in Conns |-> <<>>]

Send(c) == \E to \in Ids, n \in 1..MaxSends[c] :
             /\ queue' = [queue EXCEPT
                            ![c] = Append(@, [from |-> c, to |-> to, n |-> n])]
             /\ UNCHANGED received

Route(c) == /\ queue[c] # <<>>
            /\ queue' = [queue EXCEPT ![c] = Tail(@)]
            /\ \/ UNCHANGED received
               \/ \E d \in Conns :
                    /\ IdOf[d] = Head(queue[c]).to
                    /\ received' = [received EXCEPT ![d] = Append(@, Head(queue[c]))]

\* Everything a broken connection had still to send is lost.
Break(c) == queue' = [queue EXCEPT ![c] = <<>>] /\ UNCHANGED received

Next == \E c \in Conns : Send(c) \/ Route(c) \/ Break(c)

Spec == Init /\ [][Next]_vars
=============================================================================
