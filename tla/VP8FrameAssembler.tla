------------------------- MODULE VP8FrameAssembler -------------------------
(* VP8FrameAssembler of the ingest worker (ingest/main.go:1283-1434): it      *)
(* takes the RTP packets of the video track in the order they arrive and      *)
(* hands out VP8 frames.  The network between the browser's packetizer and    *)
(* ReadRTP may lose packets and let one overtake another.                     *)
(*                                                                            *)
(* A packet is known by its position in Stream, the packets as sent; its      *)
(* 16-bit sequence number counts from an arbitrary first one.  The buffer is  *)
(* the sequence of the packets whose payload was appended.                    *)
EXTENDS Integers, FiniteSets, Sequences, SequencesExt

CONSTANTS Stream,       \* the packets as sent
          Networks,     \* possible sequence numbers of Stream[1], each with
                        \* the packets one packet may overtake at a time
          SeqSpace,       \* 2^16 in the code
          LossWindow,   \* gaps below it count as loss: 100 in the code
          MinBytes,     \* smallest frame handed out: 10 in the code
          MaxBytes,     \* largest buffer kept: 500000 in the code
          MaxLoss       \* bound: packets lost in a behaviour, fewer by one for
                        \* each packet a packet may overtake

\* start: the S bit (first packet of a frame); key: the payload starts with a
\* keyframe header; bytes = 0: a padding packet, which Unmarshal refuses.
Packet == [ts : Nat \ {0}, start : BOOLEAN, marker : BOOLEAN, key : BOOLEAN,
           bytes : Nat]

ASSUME StreamAssumption == Stream \in Seq(Packet)
ASSUME SeqAssumption ==
  SeqSpace \in Nat \ {0} /\ Networks \subseteq (0..(SeqSpace - 1)) \X Nat
ASSUME LimitsAssumption ==
  LossWindow \in 0..SeqSpace /\ MinBytes \in Nat \ {0} /\ MaxBytes \in Nat
ASSUME NetworkAssumption == MaxLoss \in Nat

VARIABLES
  firstSeq,              \* sequence number of Stream[1]
  jitter,                \* packets one packet may overtake in this behaviour
  net, lost,             \* packets under way, packets lost
  buffer, currentTimestamp, lastSeqNum, frameStarted, waitForKeyframe,
  delivered              \* the frames handed to processVP8Track

chosen == <<firstSeq, jitter>>
assembler == <<buffer, currentTimestamp, lastSeqNum, frameStarted,
               waitForKeyframe, delivered>>
vars == <<firstSeq, jitter, net, lost, buffer, currentTimestamp, lastSeqNum,
          frameStarted, waitForKeyframe, delivered>>

Positions == 1..Len(Stream)

Init == /\ \E w \in Networks : firstSeq = w[1] /\ jitter = w[2]
        /\ net = Positions
        /\ lost = {}
        /\ buffer = <<>>
        /\ currentTimestamp = 0
        /\ lastSeqNum = 0
        /\ frameStarted = FALSE
        /\ waitForKeyframe = TRUE
        /\ delivered = <<>>
-----------------------------------------------------------------------------
SeqNum(n) == (firstSeq + n - 1) % SeqSpace

\* The uint16 distance from the expected sequence number; never negative.
Gap(last, seq) == (seq - (last + 1)) % SeqSpace

\* Mutant of LossSeen: no reset on a gap.
LossIgnored(n) == FALSE

\* A gap below LossWindow is loss; nothing is compared with or at number 0.
LossSeen(n) == /\ lastSeqNum # 0 /\ SeqNum(n) # 0
               /\ Gap(lastSeqNum, SeqNum(n)) \in 1..(LossWindow - 1)

AddBytes(sum, n) == sum + Stream[n].bytes
Bytes(b) == FoldLeft(AddBytes, 0, b)

\* What loss detection leaves of the frame under assembly.
Started(n) == frameStarted /\ ~LossSeen(n)
Kept(n)    == IF LossSeen(n) THEN <<>> ELSE buffer

NewTimestamp(n) == Stream[n].ts # currentTimestamp

\* The packet belongs to a frame other than the one under assembly.
EndsPrevious(n) == Started(n) /\ (NewTimestamp(n) \/ Stream[n].start)

Begins(n) == Stream[n].start \/ (~Started(n) /\ NewTimestamp(n))

Collecting(n) == Begins(n) \/ Started(n)

\* Mutant of WithPacket: neither loss nor a new frame empties the buffer.
WithPacketAppended(n) == IF Collecting(n) THEN Append(buffer, n) ELSE Kept(n)

WithPacket(n) == IF Begins(n) THEN <<n>>
                 ELSE IF Started(n) THEN Append(Kept(n), n) ELSE Kept(n)

\* The header is read from the first bytes of the buffer.
IsKeyframe(b) == Stream[b[1]].key

\* Mutant of TooLong: the limit itself is too long.
TooLongAtLimit(b) == Bytes(b) >= MaxBytes

TooLong(b) == Bytes(b) > MaxBytes

\* Mutant of Accepts: inter-frames are handed out from the start.
AcceptsAll(b) == TRUE

\* Until a keyframe has been completed, inter-frames are dropped.
Accepts(b) == IsKeyframe(b) \/ ~waitForKeyframe

\* Mutant of Reset: the frame stays started.
ResetBuffer == buffer' = <<>> /\ UNCHANGED frameStarted

\* Reset keeps currentTimestamp, lastSeqNum and waitForKeyframe.
Reset == buffer' = <<>> /\ frameStarted' = FALSE

\* CompleteFrame: a short buffer is dropped before its header is looked at.
CompleteFrame(b) ==
  /\ IF Bytes(b) >= MinBytes /\ Accepts(b)
       THEN /\ delivered' = Append(delivered, b)
            /\ waitForKeyframe' = (waitForKeyframe /\ ~IsKeyframe(b))
       ELSE UNCHANGED <<delivered, waitForKeyframe>>
  /\ Reset

\* A packet leaves the network; at most jitter packets are still before it.
Arrives(n) == /\ n \in net
              /\ Cardinality({m \in net : m < n}) <= jitter
              /\ net' = net \ {n}

\* ProcessPacket returns before it has looked at the sequence number.
Unparsable(n) == /\ Arrives(n)
                 /\ Stream[n].bytes = 0
                 /\ UNCHANGED <<chosen, lost, assembler>>

\* The frame under assembly ends without its marker: it is completed and this
\* packet is dropped.  (A started frame has a packet, see TypeOK, so the Reset
\* of a started frame without one, main.go:1342, is never reached.)
EndPrevious(n) == /\ Arrives(n)
                  /\ Stream[n].bytes > 0
                  /\ EndsPrevious(n)
                  /\ lastSeqNum' = SeqNum(n)
                  /\ CompleteFrame(Kept(n))
                  /\ UNCHANGED <<chosen, lost, currentTimestamp>>

\* The rest of ProcessPacket: start a frame or not, append, finish on the
\* marker, drop a buffer that has outgrown MaxBytes.
AddPacket(n) ==
  /\ Arrives(n)
  /\ Stream[n].bytes > 0
  /\ ~EndsPrevious(n)
  /\ lastSeqNum' = SeqNum(n)
  /\ currentTimestamp' = IF Begins(n) THEN Stream[n].ts ELSE currentTimestamp
  /\ UNCHANGED <<chosen, lost>>

FinishFrame(n) == /\ AddPacket(n)
                  /\ Stream[n].marker /\ Collecting(n)
                  /\ CompleteFrame(WithPacket(n))

DropOversized(n) == /\ AddPacket(n)
                    /\ ~(Stream[n].marker /\ Collecting(n))
                    /\ TooLong(WithPacket(n))
                    /\ Reset
                    /\ UNCHANGED <<waitForKeyframe, delivered>>

KeepPacket(n) == /\ AddPacket(n)
                 /\ ~(Stream[n].marker /\ Collecting(n))
                 /\ ~TooLong(WithPacket(n))
                 /\ buffer' = WithPacket(n)
                 /\ frameStarted' = Collecting(n)
                 /\ UNCHANGED <<waitForKeyframe, delivered>>

\* The network loses the oldest packet under way.
Lose(n) == /\ n \in net
           /\ \A m \in net : n <= m
           /\ Cardinality(lost) + jitter < MaxLoss
           /\ net' = net \ {n}
           /\ lost' = lost \cup {n}
           /\ UNCHANGED <<chosen, assembler>>

Next == \E n \in Positions : \/ Unparsable(n) \/ EndPrevious(n)
                             \/ FinishFrame(n) \/ DropOversized(n)
                             \/ KeepPacket(n) \/ Lose(n)

Spec == Init /\ [][Next]_vars
-----------------------------------------------------------------------------
Timestamps == {Stream[n].ts : n \in Positions}
PacketsOf(f) == {n \in Positions : Stream[n].ts = f /\ Stream[n].bytes > 0}

VarTypes ==
  /\ firstSeq \in 0..(SeqSpace - 1)
  /\ jitter \in Nat
  /\ net \subseteq Positions
  /\ lost \subseteq Positions
  /\ buffer \in Seq(Positions)
  /\ currentTimestamp \in Nat
  /\ lastSeqNum \in 0..(SeqSpace - 1)
  /\ frameStarted \in BOOLEAN
  /\ waitForKeyframe \in BOOLEAN
  /\ delivered \in Seq(Seq(Positions))

\* A frame is started exactly while the buffer holds something.
StartedHasPacket == frameStarted = (buffer # <<>>)

TypeOK == VarTypes /\ StartedHasPacket

SameFrame(b) == \A i, j \in DOMAIN b : Stream[b[i]].ts = Stream[b[j]].ts

\* No frame handed out mixes the payloads of two frames, whatever is lost and
\* in whatever order packets arrive (ingest/main.go:1333-1356).
NeverMixed == \A k \in DOMAIN delivered : SameFrame(delivered[k])

\* The first frame handed out is a keyframe ("Skip P-frames until we get a
\* keyframe", ingest/main.go:1392).
KeyframeFirst == delivered # <<>> => IsKeyframe(delivered[1])

\* What makes the two inductive: the buffer holds packets of the frame it was
\* started for, and no keyframe is needed only once one has been handed out.
BufferOfOneFrame ==
  \A i \in DOMAIN buffer : Stream[buffer[i]].ts = currentTimestamp
KeyframeAwaited == delivered = <<>> => waitForKeyframe

AssemblerInv == /\ TypeOK /\ BufferOfOneFrame /\ NeverMixed
                /\ KeyframeFirst /\ KeyframeAwaited

Received == Positions \ (net \cup lost)

\* Streams as a VP8 packetizer makes them: frames one after the other, the S bit
\* on the first packet of each, the marker on its last, padding between frames.
Packetized ==
  /\ \A m, n \in Positions : m < n => Stream[m].ts <= Stream[n].ts
  /\ \A n \in Positions : Stream[n].bytes > 0 =>
       LET frame == PacketsOf(Stream[n].ts) IN
       /\ \A m \in frame : m..n \subseteq frame
       /\ Stream[n].start <=> \A m \in frame : n <= m
       /\ Stream[n].marker <=> \A m \in frame : m <= n
       /\ Stream[n].key => Stream[n].start

\* The packets from a to z.
Run(a, z) == [i \in 1..(z - a + 1) |-> a + i - 1]

\* All of frame f, whose packets follow each other; b is all of some frame.
WholeFrame(f) == LET p == PacketsOf(f) IN IF p = {} THEN <<>> ELSE Run(Min(p), Max(p))
Complete(b) == \E f \in Timestamps : b = WholeFrame(f)

\* Consecutive packets a, c of b with packets missing in between.
Holes(b) == {i \in 1..(Len(b) - 1) : b[i + 1] # b[i] + 1}

\* Loss detection is blind to the holes of b: they are next to sequence number 0,
\* or wider than LossWindow.
BlindHoles(b) ==
  \A i \in Holes(b) : \/ SeqNum(b[i]) = 0 \/ SeqNum(b[i + 1]) = 0
                      \/ b[i + 1] - b[i] > LossWindow

\* As long as packets arrive in order, a frame handed out with a hole has it
\* where loss detection is blind (ingest/main.go:1318-1330).
HolesOnlyWhereBlind == jitter = 0 => \A k \in DOMAIN delivered : BlindHoles(delivered[k])

\* The gap before packet n, if any, is one loss detection sees, or it follows
\* the end of a frame.
GapSeen(n) ==
  \A p \in Received : /\ p < n /\ Stream[p].bytes > 0
                      /\ \A m \in Received : m < n /\ Stream[m].bytes > 0 => m <= p
    => \/ Stream[p].marker \/ p = n - 1
       \/ SeqNum(p) # 0 /\ SeqNum(n) # 0 /\ n - p <= LossWindow

\* Frame f has arrived in full, and what was lost before it was noticed.
Intact(f) == /\ PacketsOf(f) \subseteq Received
             /\ \A n \in PacketsOf(f) : Stream[n].start => GapSeen(n)

\* The size CompleteFrame and the safety check accept, before the last packet.
GoodSize(f) == /\ Bytes(WholeFrame(f)) >= MinBytes
               /\ Bytes(Front(WholeFrame(f))) <= MaxBytes

HasKey(f) == \E n \in PacketsOf(f) : Stream[n].key

Timestamp(b) == Stream[b[1]].ts
KeyframeBefore(f) ==
  \E k \in DOMAIN delivered : IsKeyframe(delivered[k]) /\ Timestamp(delivered[k]) < f

HandedOut(f) == \E k \in DOMAIN delivered : delivered[k] = WholeFrame(f)

\* Losing packets of other frames never costs a frame that arrived in full: it
\* is handed out, complete, once a keyframe has been (in-order arrival).
IntactFramesDelivered ==
  jitter = 0 => \A f \in Timestamps :
    Intact(f) /\ GoodSize(f) /\ (HasKey(f) \/ KeyframeBefore(f)) => HandedOut(f)

\* The frames of acceptable size from the first such keyframe on.
Expected ==
  {f \in Timestamps :
     GoodSize(f) /\ \E k \in Timestamps : k <= f /\ GoodSize(k) /\ HasKey(k)}

HandedOutInOrder ==
  /\ \A k \in DOMAIN delivered : \E f \in Expected : delivered[k] = WholeFrame(f)
  /\ \A j, k \in DOMAIN delivered :
       j < k => Timestamp(delivered[j]) < Timestamp(delivered[k])

\* As long as nothing is lost or reordered, exactly the expected frames are handed
\* out, complete, each once, in order, and as soon as the last packet has arrived.
FaultFreeDelivery ==
  lost = {} /\ jitter = 0 =>
    /\ HandedOutInOrder
    /\ \A f \in Expected : PacketsOf(f) \subseteq Received => HandedOut(f)

\* "ProcessPacket handles incoming RTP packets and assembles complete frames"
\* (ingest/main.go:1302).
CompleteFrames == \A k \in DOMAIN delivered : Complete(delivered[k])
-----------------------------------------------------------------------------
(* The inductive invariant of in-order arrival *)

\* Packet p is the last one looked at.
Newest(p) ==
  /\ p \in Received /\ Stream[p].bytes > 0
  /\ \A m \in Received : Stream[m].bytes > 0 => m <= p

\* Every packet decided was sent before every packet under way.
ArrivedInOrder ==
  /\ net \cap lost = {}
  /\ \A r \in Positions \ net : \A m \in net : r < m

\* A frame under assembly ends with the packet looked at last, and it goes on.
BufferIsNewest ==
  buffer # <<>> =>
    LET p == buffer[Len(buffer)] IN
    Newest(p) /\ ~Stream[p].marker /\ lastSeqNum = SeqNum(p)

KeyframeSeen ==
  (\E k \in DOMAIN delivered : IsKeyframe(delivered[k])) <=> ~waitForKeyframe

OrderInv ==
  /\ AssemblerInv /\ KeyframeSeen
  /\ jitter = 0 => ArrivedInOrder /\ BufferIsNewest /\ BlindHoles(buffer)
  /\ HolesOnlyWhereBlind

\* Of frame f the packets up to n have arrived and none after it is lost.
ArrivedUpTo(f, n) ==
  \A m \in PacketsOf(f) : IF m <= n THEN m \in Received ELSE m \in net

\* While a frame arrives that is to be handed out, the buffer is what has arrived.
FrameFollowed ==
  \A f \in Timestamps : GoodSize(f) => \A n \in PacketsOf(f) :
    /\ ArrivedUpTo(f, n) /\ n # Max(PacketsOf(f)) /\ GapSeen(Min(PacketsOf(f)))
    => buffer = Run(Min(PacketsOf(f)), n)

IntactInv ==
  OrderInv /\ (jitter = 0 => FrameFollowed) /\ IntactFramesDelivered

\* Without loss the buffer is the frame up to the last packet looked at, or that
\* frame was dropped; what was handed out has arrived.
FrameUnderAssembly ==
  /\ buffer # <<>> =>
       /\ buffer = Run(Min(PacketsOf(currentTimestamp)), buffer[Len(buffer)])
       /\ Bytes(buffer) <= MaxBytes
  /\ \A p \in Positions : Newest(p) => currentTimestamp = Stream[p].ts
DeliveredArrived ==
  \A k \in DOMAIN delivered : \A i \in DOMAIN delivered[k] : delivered[k][i] \in Received

FaultFreeInv ==
  /\ IntactInv
  /\ lost = {} /\ jitter = 0 =>
       FrameUnderAssembly /\ DeliveredArrived /\ HandedOutInOrder
=============================================================================
