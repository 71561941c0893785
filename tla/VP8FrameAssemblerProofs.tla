---------------------- MODULE VP8FrameAssemblerProofs ----------------------
(* Machine-checked proofs about VP8FrameAssembler, for any stream of packets, *)
(* any limits and any losses and reorderings of the network; what is said of  *)
(* whole frames, for any stream as a packetizer makes it.                     *)
EXTENDS VP8FrameAssembler, FiniteSetTheorems, TLAPS

\* Induction, least elements, and the sum of the bytes of a buffer.
Total == INSTANCE FoldFacts WITH Op <- AddBytes

LEMMA InitInv == Init => AssemblerInv
<1> SUFFICES ASSUME Init PROVE AssemblerInv
  OBVIOUS
<1>1. frameStarted \in BOOLEAN /\ waitForKeyframe \in BOOLEAN
  BY Zenon DEF Init
<1>2. StartedHasPacket
  BY DEF Init, StartedHasPacket
<1>3. /\ firstSeq \in 0..(SeqSpace - 1) /\ jitter \in Nat
      /\ lastSeqNum \in 0..(SeqSpace - 1)
  <2>1. PICK w \in Networks : firstSeq = w[1] /\ jitter = w[2]
    BY DEF Init
  <2>2. w[1] \in 0..(SeqSpace - 1) /\ w[2] \in Nat
    BY SeqAssumption
  <2> QED
    BY <2>1, <2>2, SeqAssumption DEF Init
<1>4. VarTypes
  BY <1>1, <1>3 DEF Init, VarTypes
<1> QED
  BY <1>2, <1>4 DEF Init, AssemblerInv, TypeOK, BufferOfOneFrame, NeverMixed,
                    KeyframeFirst, KeyframeAwaited

\* The buffer after packet n: never empty where a frame is being collected, and
\* of the one frame whose timestamp is current afterwards.
LEMMA WithPacketOneFrame ==
  ASSUME TypeOK, BufferOfOneFrame, NEW n \in Positions, AddPacket(n)
  PROVE  /\ WithPacket(n) \in Seq(Positions)
         /\ Collecting(n) = (WithPacket(n) # <<>>)
         /\ \A i \in DOMAIN WithPacket(n) :
              Stream[WithPacket(n)[i]].ts = currentTimestamp'
<1> USE DEF AddPacket, WithPacket, Collecting
<1>1. CASE Begins(n)
  BY <1>1
<1>2. CASE ~Begins(n) /\ Started(n)
  <2>1. Kept(n) = buffer /\ Stream[n].ts = currentTimestamp
    BY <1>2 DEF Started, Kept, Begins, EndsPrevious, NewTimestamp
  <2>2. WithPacket(n) = Append(buffer, n)
    BY <1>2, <2>1
  <2>3. currentTimestamp' = currentTimestamp /\ buffer \in Seq(Positions)
    BY <1>2 DEF TypeOK, VarTypes
  <2> HIDE DEF AddPacket, WithPacket
  <2>4. /\ WithPacket(n) \in Seq(Positions)
        /\ WithPacket(n) # <<>>
    BY <2>2, <2>3
  <2>5. ASSUME NEW i \in DOMAIN WithPacket(n)
        PROVE  Stream[WithPacket(n)[i]].ts = currentTimestamp'
    BY <2>1, <2>2, <2>3 DEF BufferOfOneFrame
  <2> QED
    BY <1>2, <2>4, <2>5
<1>3. CASE ~Begins(n) /\ ~Started(n)
  <2>1. Kept(n) = <<>>
    BY <1>3 DEF Started, Kept, TypeOK, VarTypes, StartedHasPacket
  <2> QED
    BY <1>3, <2>1
<1> QED
  BY <1>1, <1>2, <1>3

\* Reset leaves no frame started.
LEMMA ResetInv ==
  ASSUME Reset
  PROVE  /\ buffer' = <<>> /\ frameStarted' \in BOOLEAN
         /\ StartedHasPacket' /\ BufferOfOneFrame'
<1>1. buffer' = <<>>
  BY DEF Reset
<1>2. frameStarted' \in BOOLEAN
  BY Zenon DEF Reset
<1>3. StartedHasPacket'
  BY DEF Reset, StartedHasPacket
<1> QED
  BY <1>1, <1>2, <1>3 DEF BufferOfOneFrame

\* CompleteFrame keeps the invariant whatever buffer of one frame it is given.
LEMMA CompleteFrameInv ==
  ASSUME AssemblerInv, NEW b \in Seq(Positions), b # <<>>,
         NEW ts, \A i \in DOMAIN b : Stream[b[i]].ts = ts,
         CompleteFrame(b)
  PROVE  /\ buffer' = <<>> /\ frameStarted' \in BOOLEAN
         /\ StartedHasPacket' /\ BufferOfOneFrame'
         /\ waitForKeyframe' \in BOOLEAN
         /\ delivered' \in Seq(Seq(Positions))
         /\ NeverMixed' /\ KeyframeFirst' /\ KeyframeAwaited'
<1> USE DEF AssemblerInv, TypeOK, VarTypes, StartedHasPacket
<1>1. /\ buffer' = <<>> /\ frameStarted' \in BOOLEAN
      /\ StartedHasPacket' /\ BufferOfOneFrame'
  BY ResetInv DEF CompleteFrame
<1>2. SameFrame(b)
  BY DEF SameFrame
<1>3. CASE Bytes(b) >= MinBytes /\ Accepts(b)
  <2>1. /\ delivered' = Append(delivered, b)
        /\ waitForKeyframe' = (waitForKeyframe /\ ~IsKeyframe(b))
    BY <1>3 DEF CompleteFrame
  <2> DEFINE S == Seq(Positions)
  <2>2. delivered \in Seq(S) /\ b \in S
    OBVIOUS
  <2> HIDE DEF S
  <2>3. /\ delivered' \in Seq(S) /\ Len(delivered') = Len(delivered) + 1
        /\ \A k \in 1..Len(delivered) : delivered'[k] = delivered[k]
        /\ delivered'[Len(delivered) + 1] = b
    BY <2>1, <2>2
  <2>4. Len(delivered) \in Nat /\ DOMAIN delivered = 1..Len(delivered)
        /\ DOMAIN delivered' = 1..(Len(delivered) + 1)
    BY <2>2, <2>3
  <2>5. ASSUME NEW k \in DOMAIN delivered' PROVE SameFrame(delivered'[k])
    <3>1. CASE k \in 1..Len(delivered)
      BY <2>3, <2>4, <3>1 DEF NeverMixed
    <3>2. CASE k = Len(delivered) + 1
      BY <1>2, <2>3, <3>2
    <3> QED
      BY <2>4, <3>1, <3>2
  <2>6. NeverMixed'
    BY <2>5 DEF NeverMixed, SameFrame
  <2>7. KeyframeFirst'
    <3>1. CASE delivered = <<>>
      BY <1>3, <2>1, <3>1 DEF KeyframeAwaited, KeyframeFirst, Accepts, IsKeyframe
    <3>2. CASE delivered # <<>>
      BY <2>1, <2>2, <3>2 DEF KeyframeFirst, IsKeyframe
    <3> QED
      BY <3>1, <3>2
  <2>8. KeyframeAwaited'
    BY <2>3, <2>4 DEF KeyframeAwaited
  <2> QED
    BY <1>1, <2>1, <2>3, <2>6, <2>7, <2>8 DEF S
<1>4. CASE ~(Bytes(b) >= MinBytes /\ Accepts(b))
  <2>1. UNCHANGED <<delivered, waitForKeyframe>>
    BY <1>4 DEF CompleteFrame
  <2> QED
    BY <1>1, <2>1
       DEF NeverMixed, SameFrame, KeyframeFirst, IsKeyframe, KeyframeAwaited
<1> QED
  BY <1>3, <1>4

LEMMA SeqNumType == ASSUME VarTypes, NEW n \in Positions
                    PROVE  SeqNum(n) \in 0..(SeqSpace - 1)
<1>1. firstSeq \in Int /\ n \in Int
  BY SeqAssumption DEF VarTypes, Positions
<1> QED
  BY <1>1, SeqAssumption DEF SeqNum

LEMMA TimestampType == ASSUME NEW n \in Positions
                       PROVE  Stream[n].ts \in Nat
<1>1. Stream[n] \in Packet
  BY StreamAssumption DEF Positions
<1> QED
  BY <1>1 DEF Packet

LEMMA NextInv == AssemblerInv /\ [Next]_vars => AssemblerInv'
<1> SUFFICES ASSUME AssemblerInv, [Next]_vars PROVE AssemblerInv'
  OBVIOUS
<1> USE DEF AssemblerInv, TypeOK, VarTypes
<1>1. ASSUME NEW n \in Positions, Unparsable(n) \/ Lose(n) PROVE AssemblerInv'
  <2>1. UNCHANGED <<firstSeq, jitter, assembler>>
    BY <1>1 DEF Unparsable, Lose, chosen
  <2>2. net' \subseteq Positions /\ lost' \subseteq Positions
    BY <1>1 DEF Unparsable, Lose, Arrives
  <2> QED
    BY <2>1, <2>2 DEF assembler, StartedHasPacket, BufferOfOneFrame, NeverMixed, SameFrame,
                      KeyframeFirst, IsKeyframe, KeyframeAwaited
<1>2. ASSUME NEW n \in Positions, EndPrevious(n) PROVE AssemblerInv'
  <2>1. Kept(n) = buffer /\ buffer # <<>>
    BY <1>2 DEF EndPrevious, EndsPrevious, Started, Kept, StartedHasPacket
  <2>2. /\ buffer' = <<>> /\ frameStarted' \in BOOLEAN
        /\ StartedHasPacket' /\ BufferOfOneFrame'
        /\ waitForKeyframe' \in BOOLEAN
        /\ delivered' \in Seq(Seq(Positions))
        /\ NeverMixed' /\ KeyframeFirst' /\ KeyframeAwaited'
    BY <1>2, <2>1, CompleteFrameInv DEF EndPrevious, BufferOfOneFrame
  <2> QED
    BY <1>2, <2>2, SeqNumType DEF EndPrevious, Arrives, chosen, BufferOfOneFrame
<1>3. ASSUME NEW n \in Positions, FinishFrame(n) PROVE AssemblerInv'
  <2>1. AddPacket(n) /\ Collecting(n) /\ CompleteFrame(WithPacket(n))
    BY <1>3 DEF FinishFrame
  <2>2. /\ WithPacket(n) \in Seq(Positions)
        /\ WithPacket(n) # <<>>
        /\ \A i \in DOMAIN WithPacket(n) :
             Stream[WithPacket(n)[i]].ts = currentTimestamp'
    BY <2>1, WithPacketOneFrame
  <2>3. /\ buffer' = <<>> /\ frameStarted' \in BOOLEAN
        /\ StartedHasPacket' /\ BufferOfOneFrame'
        /\ waitForKeyframe' \in BOOLEAN
        /\ delivered' \in Seq(Seq(Positions))
        /\ NeverMixed' /\ KeyframeFirst' /\ KeyframeAwaited'
    BY <2>1, <2>2, CompleteFrameInv
  <2> QED
    BY <2>1, <2>3, SeqNumType, TimestampType
       DEF AddPacket, Arrives, chosen, BufferOfOneFrame
<1>4. ASSUME NEW n \in Positions, DropOversized(n) PROVE AssemblerInv'
  <2>1. AddPacket(n) /\ Reset
    BY <1>4 DEF DropOversized
  <2>2. /\ buffer' = <<>> /\ frameStarted' \in BOOLEAN
        /\ StartedHasPacket' /\ BufferOfOneFrame'
    BY <2>1, ResetInv
  <2> QED
    BY <1>4, <2>1, <2>2, SeqNumType, TimestampType
       DEF DropOversized, AddPacket, Arrives, chosen, NeverMixed, SameFrame,
           KeyframeFirst, IsKeyframe, KeyframeAwaited
<1>5. ASSUME NEW n \in Positions, KeepPacket(n) PROVE AssemblerInv'
  <2>1. AddPacket(n)
    BY <1>5 DEF KeepPacket
  <2>2. /\ buffer' \in Seq(Positions)
        /\ frameStarted' \in BOOLEAN /\ StartedHasPacket'
        /\ BufferOfOneFrame'
    BY <1>5, <2>1, WithPacketOneFrame
       DEF KeepPacket, StartedHasPacket, BufferOfOneFrame
  <2> QED
    BY <1>5, <2>1, <2>2, SeqNumType, TimestampType
       DEF KeepPacket, AddPacket, Arrives, chosen, NeverMixed, SameFrame,
           KeyframeFirst, IsKeyframe, KeyframeAwaited
<1>6. CASE UNCHANGED vars
  BY <1>6 DEF vars, StartedHasPacket, BufferOfOneFrame, NeverMixed, SameFrame,
              KeyframeFirst, IsKeyframe, KeyframeAwaited
<1> QED
  BY <1>1, <1>2, <1>3, <1>4, <1>5, <1>6 DEF Next

\* The invariant holds in every state of every behaviour.
THEOREM Invariance == Spec => []AssemblerInv
  BY InitInv, NextInv, PTL DEF Spec

\* The types of the variables; a frame is started exactly while the buffer
\* holds something, so CompleteFrame is never called on an empty buffer.
THEOREM TypeCorrect == Spec => []TypeOK
<1>1. AssemblerInv => TypeOK
  BY DEF AssemblerInv
<1> QED
  BY <1>1, Invariance, PTL

\* Whatever the network loses or reorders, no frame handed to the detector mixes
\* payloads of two frames.
THEOREM FramesNeverMixed == Spec => []NeverMixed
<1>1. AssemblerInv => NeverMixed
  BY DEF AssemblerInv
<1> QED
  BY <1>1, Invariance, PTL

\* Whatever the network loses or reorders, the first frame is a keyframe.
THEOREM FirstIsKeyframe == Spec => []KeyframeFirst
<1>1. AssemblerInv => KeyframeFirst
  BY DEF AssemblerInv
<1> QED
  BY <1>1, Invariance, PTL
-----------------------------------------------------------------------------
(* Sequence numbers *)

LEMMA Remainder ==
  ASSUME NEW S \in Nat \ {0}, NEW q \in Int, NEW r \in 0..(S - 1)
  PROVE  (S * q + r) % S = r
OBVIOUS

LEMMA Division ==
  ASSUME NEW S \in Nat \ {0}, NEW x \in Int
  PROVE  x \div S \in Int /\ x % S \in 0..(S - 1) /\ x = S * (x \div S) + (x % S)
OBVIOUS

\* The distance of two sequence numbers is that of the packets, up to SeqSpace.
LEMMA GapDistance ==
  ASSUME VarTypes, NEW a \in Positions, NEW n \in Positions,
         a < n, n - a <= SeqSpace
  PROVE  Gap(SeqNum(a), SeqNum(n)) = n - a - 1
<1> DEFINE S == SeqSpace
           x == firstSeq + a - 1
           y == firstSeq + n - 1
           d == n - a - 1
<1>1. /\ S \in Nat \ {0} /\ x \in Int /\ y \in Int
      /\ d \in 0..(S - 1) /\ y = x + d + 1
  BY SeqAssumption DEF VarTypes, Positions
<1>2. Gap(SeqNum(a), SeqNum(n)) = ((y % S) - ((x % S) + 1)) % S
  BY DEF Gap, SeqNum
<1> HIDE DEF S, x, y, d
<1>3. /\ x \div S \in Int /\ x % S \in Int /\ x = S * (x \div S) + (x % S)
      /\ y \div S \in Int /\ y % S \in Int /\ y = S * (y \div S) + (y % S)
  BY <1>1, Division
<1> DEFINE p == x \div S
           q == y \div S
<1>4. p \in Int /\ q \in Int /\ p - q \in Int
  BY <1>3
<1>5. (y % S) - ((x % S) + 1) = S * (p - q) + d
  <2>1. S * (p - q) = S * p - S * q
    BY <1>1, <1>4
  <2>2. d \in Int /\ S * p \in Int /\ S * q \in Int
    BY <1>1, <1>4
  <2> QED
    BY <1>1, <1>3, <2>1, <2>2
<1> HIDE DEF p, q
<1>6. (S * (p - q) + d) % S = d
  BY <1>1, <1>4, Remainder
<1> QED
  BY <1>2, <1>5, <1>6 DEF d

\* Loss is not seen between two packets that follow each other.
LEMMA NextNotLost ==
  ASSUME VarTypes, NEW a \in Positions, a + 1 \in Positions, lastSeqNum = SeqNum(a)
  PROVE  ~LossSeen(a + 1)
<1>1. a \in Nat /\ a < a + 1 /\ (a + 1) - a <= SeqSpace /\ (a + 1) - a - 1 = 0
  BY SeqAssumption DEF Positions
<1>2. Gap(SeqNum(a), SeqNum(a + 1)) = 0
  BY <1>1, GapDistance
<1> QED
  BY <1>2, LimitsAssumption DEF LossSeen

\* A hole that loss detection is not blind to is seen.
LEMMA HoleSeen ==
  ASSUME VarTypes, NEW a \in Positions, NEW n \in Positions, a + 1 < n,
         lastSeqNum = SeqNum(a), SeqNum(a) # 0, SeqNum(n) # 0, n - a <= LossWindow
  PROVE  LossSeen(n)
<1>1. a \in Nat /\ n \in Nat /\ a < n /\ n - a <= SeqSpace
  BY LimitsAssumption, SeqAssumption DEF Positions
<1>2. Gap(lastSeqNum, SeqNum(n)) = n - a - 1
  BY <1>1, GapDistance
<1> QED
  BY <1>1, <1>2, LimitsAssumption DEF LossSeen
-----------------------------------------------------------------------------
(* In-order arrival *)

\* Without overtaking a packet arrives when none before it is under way.
LEMMA ArrivesFirst ==
  ASSUME VarTypes, jitter = 0, NEW n \in Positions, Arrives(n)
  PROVE  n \in net /\ \A m \in net : n <= m
<1> DEFINE before == {m \in net : m < n}
<1>1. n \in net /\ Cardinality(before) <= 0
  BY DEF Arrives
<1>2. IsFiniteSet(before)
  <2>1. IsFiniteSet(Positions)
    BY StreamAssumption, FS_Interval DEF Positions
  <2> QED
    BY <2>1, FS_Subset DEF VarTypes
<1>3. before = {}
  <2>1. Cardinality(before) \in Nat
    BY <1>2, FS_CardinalityType
  <2> QED
    BY <1>1, <1>2, <2>1, FS_EmptySet
<1>4. \A m \in net : m \in Int /\ n \in Int
  BY DEF VarTypes, Positions
<1> QED
  BY <1>1, <1>3, <1>4

\* What arrives, in order, is the newest.
LEMMA Arrival ==
  ASSUME VarTypes, jitter = 0, ArrivedInOrder, NEW n \in Positions,
         Arrives(n), lost' = lost
  PROVE  /\ n \in net /\ n \notin Received
         /\ ArrivedInOrder'
         /\ Received' = Received \cup {n}
         /\ \A r \in Received : r < n
         /\ \A m \in net : n <= m
<1>1. n \in net /\ net' = net \ {n} /\ \A m \in net : n <= m
  BY ArrivesFirst DEF Arrives
<1>2. \A m \in net' : m \in Int /\ n < m
  BY <1>1 DEF VarTypes, Positions
<1>3. ArrivedInOrder'
  <2> SUFFICES ASSUME NEW r \in Positions \ net', NEW m \in net' PROVE r < m
    BY <1>1 DEF ArrivedInOrder
  <2>1. r \in Positions \ net \/ r = n
    BY <1>1
  <2> QED
    BY <1>1, <1>2, <2>1 DEF ArrivedInOrder
<1>4. \A r \in Received : r < n
  BY <1>1 DEF Received, ArrivedInOrder
<1>5. Received' = Received \cup {n}
  BY <1>1 DEF Received, ArrivedInOrder
<1> QED
  BY <1>1, <1>3, <1>4, <1>5 DEF Received

\* A packet lost is the first under way, too.
LEMMA Loss ==
  ASSUME VarTypes, ArrivedInOrder, NEW n \in Positions, Lose(n)
  PROVE  ArrivedInOrder' /\ Received' = Received
<1>1. /\ n \in net /\ net' = net \ {n} /\ lost' = lost \cup {n}
      /\ \A m \in net : n <= m
  BY DEF Lose
<1>2. \A m \in net' : m \in Int /\ n \in Int /\ n < m
  BY <1>1 DEF VarTypes, Positions
<1>3. ASSUME NEW r \in Positions \ net', NEW m \in net' PROVE r < m
  <2>1. r \in Positions \ net \/ r = n
    BY <1>1
  <2> QED
    BY <1>1, <1>2, <2>1 DEF ArrivedInOrder
<1> QED
  BY <1>1, <1>3 DEF Received, ArrivedInOrder

\* The buffer after packet n has no hole that could have been seen.
LEMMA WithPacketBlind ==
  ASSUME TypeOK, jitter = 0, ArrivedInOrder, BufferIsNewest, BlindHoles(buffer),
         NEW n \in net
  PROVE  BlindHoles(WithPacket(n)) /\ BlindHoles(Kept(n))
<1> USE DEF TypeOK, VarTypes, StartedHasPacket
<1>1. BlindHoles(<<>>) /\ BlindHoles(<<n>>)
  BY DEF BlindHoles, Holes
<1>2. BlindHoles(Kept(n))
  BY <1>1 DEF Kept
<1>3. CASE Begins(n) \/ ~Started(n)
  BY <1>1, <1>2, <1>3 DEF WithPacket
<1>4. CASE ~Begins(n) /\ Started(n)
  <2> DEFINE b == Append(buffer, n)
             k == Len(buffer)
             p == buffer[k]
  <2>1. buffer # <<>> /\ ~LossSeen(n) /\ WithPacket(n) = b
    BY <1>4 DEF WithPacket, Started, Kept
  <2>2. /\ k \in Nat \ {0} /\ Len(b) = k + 1 /\ b[k] = p /\ b[k + 1] = n
        /\ \A i \in 1..(k - 1) : b[i] = buffer[i] /\ b[i + 1] = buffer[i + 1]
    BY <2>1
  <2>3. p \in Received /\ lastSeqNum = SeqNum(p)
    BY <2>1 DEF BufferIsNewest, Newest
  <2>4. p \in Positions /\ n \in Positions /\ p < n
    BY <2>3 DEF ArrivedInOrder, Received
  <2> HIDE DEF b, k, p
  <2>5. ASSUME NEW i \in Holes(b)
        PROVE  \/ SeqNum(b[i]) = 0 \/ SeqNum(b[i + 1]) = 0
               \/ b[i + 1] - b[i] > LossWindow
    <3>1. i \in 1..k /\ b[i + 1] # b[i] + 1
      BY <2>2 DEF Holes
    <3>2. CASE i = k
      <4>1. p + 1 < n
        BY <2>2, <2>4, <3>1, <3>2 DEF Positions
      <4>2. SeqNum(p) = 0 \/ SeqNum(n) = 0 \/ ~(n - p <= LossWindow)
        BY <2>1, <2>3, <2>4, <4>1, HoleSeen
      <4> QED
        BY <2>2, <2>4, <3>2, <4>2, LimitsAssumption DEF Positions
    <3>3. CASE i # k
      <4>1. i \in 1..(k - 1)
        BY <2>2, <3>1, <3>3
      <4>2. i \in Holes(buffer) /\ b[i] = buffer[i] /\ b[i + 1] = buffer[i + 1]
        BY <2>2, <3>1, <4>1 DEF Holes, k
      <4> QED
        BY <4>2 DEF BlindHoles
    <3> QED
      BY <3>2, <3>3
  <2>6. BlindHoles(b)
    BY <2>5 DEF BlindHoles
  <2> QED
    BY <1>2, <2>1, <2>6
<1> QED
  BY <1>3, <1>4

\* CompleteFrame hands out what it is given, or nothing; no keyframe is awaited
\* once one has been handed out.
LEMMA CompleteFrameHandsOut ==
  ASSUME TypeOK, KeyframeSeen, NEW b \in Seq(Positions), CompleteFrame(b)
  PROVE  /\ \A k \in DOMAIN delivered : k \in DOMAIN delivered' /\ delivered'[k] = delivered[k]
         /\ \A k \in DOMAIN delivered' :
              \/ k \in DOMAIN delivered
              \/ /\ delivered'[k] = b /\ k = Len(delivered) + 1
                 /\ Bytes(b) >= MinBytes /\ Accepts(b)
         /\ Bytes(b) >= MinBytes /\ Accepts(b) =>
              \E k \in DOMAIN delivered' : delivered'[k] = b
         /\ KeyframeSeen'
<1> DEFINE S == Seq(Positions)
<1>1. delivered \in Seq(S) /\ waitForKeyframe \in BOOLEAN
  BY DEF TypeOK, VarTypes
<1>2. CASE Bytes(b) >= MinBytes /\ Accepts(b)
  <2>1. /\ delivered' = Append(delivered, b)
        /\ waitForKeyframe' = (waitForKeyframe /\ ~IsKeyframe(b))
    BY <1>2 DEF CompleteFrame
  <2> HIDE DEF S
  <2> DEFINE n == Len(delivered)
  <2>2. /\ n \in Nat /\ DOMAIN delivered = 1..n /\ DOMAIN delivered' = 1..(n + 1)
        /\ \A k \in 1..n : delivered'[k] = delivered[k]
        /\ delivered'[n + 1] = b
    BY <1>1, <2>1 DEF S
  <2> HIDE DEF n
  <2>3. n + 1 \in DOMAIN delivered'
    BY <2>2
  <2>4. \A k \in DOMAIN delivered' : k \in DOMAIN delivered \/ k = n + 1
    BY <2>2
  <2>5. \A k \in DOMAIN delivered : k \in DOMAIN delivered' /\ delivered'[k] = delivered[k]
    BY <2>2
  <2>6. KeyframeSeen'
    <3>1. (\E k \in DOMAIN delivered' : IsKeyframe(delivered'[k])) <=>
          (IsKeyframe(b) \/ \E k \in DOMAIN delivered : IsKeyframe(delivered[k]))
      BY <2>2, <2>3, <2>4, <2>5
    <3>2. (\E k \in DOMAIN delivered : IsKeyframe(delivered[k])) <=> ~waitForKeyframe
      BY DEF KeyframeSeen
    <3>3. ~waitForKeyframe' <=> (~waitForKeyframe \/ IsKeyframe(b))
      BY <2>1, Zenon
    <3>4. KeyframeSeen' <=> ((\E k \in DOMAIN delivered' : IsKeyframe(delivered'[k]))
                              <=> ~waitForKeyframe')
      BY DEF KeyframeSeen, IsKeyframe
    <3> QED
      BY <3>1, <3>2, <3>3, <3>4, Zenon
  <2> QED
    BY <1>2, <2>2, <2>3, <2>4, <2>5, <2>6 DEF n
<1>3. CASE ~(Bytes(b) >= MinBytes /\ Accepts(b))
  <2>1. delivered' = delivered /\ waitForKeyframe' = waitForKeyframe
    BY <1>3 DEF CompleteFrame
  <2> QED
    BY <1>3, <2>1 DEF KeyframeSeen, IsKeyframe
<1> QED
  BY <1>2, <1>3
\* A media packet that arrives is the newest.
LEMMA MediaArrival ==
  ASSUME VarTypes, jitter = 0, ArrivedInOrder, NEW n \in Positions,
         Arrives(n), lost' = lost, Stream[n].bytes > 0
  PROVE  Newest(n)'
<1>1. Received' = Received \cup {n} /\ \A r \in Received : r < n
  BY Arrival
<1>2. n \in Int /\ \A r \in Received : r \in Int
  BY DEF Received, Positions
<1> QED
  BY <1>1, <1>2 DEF Newest

\* What CompleteFrame leaves has no visible hole if what it is given has none.
LEMMA CompleteFrameBlind ==
  ASSUME OrderInv, jitter' = jitter, firstSeq' = firstSeq,
         NEW b \in Seq(Positions), CompleteFrame(b), jitter = 0 => BlindHoles(b)
  PROVE  KeyframeSeen' /\ HolesOnlyWhereBlind' /\ buffer' = <<>> /\ BlindHoles(<<>>)'
<1>1. /\ \A k \in DOMAIN delivered' :
           \/ k \in DOMAIN delivered /\ delivered'[k] = delivered[k]
           \/ delivered'[k] = b
      /\ KeyframeSeen'
  BY CompleteFrameHandsOut DEF OrderInv, AssemblerInv
<1>2. jitter = 0 => \A k \in DOMAIN delivered' : BlindHoles(delivered'[k])
  BY <1>1 DEF OrderInv, HolesOnlyWhereBlind
<1>3. HolesOnlyWhereBlind'
  BY <1>2 DEF HolesOnlyWhereBlind, BlindHoles, Holes, SeqNum
<1>4. buffer' = <<>> /\ BlindHoles(<<>>)'
  BY DEF CompleteFrame, Reset, BlindHoles, Holes
<1> QED
  BY <1>1, <1>3, <1>4

LEMMA OrderInit == Init => OrderInv
<1> SUFFICES ASSUME Init PROVE OrderInv
  OBVIOUS
<1>1. ArrivedInOrder /\ BufferIsNewest /\ BlindHoles(buffer) /\ HolesOnlyWhereBlind
  BY DEF Init, ArrivedInOrder, BufferIsNewest, BlindHoles, Holes, HolesOnlyWhereBlind
<1>2. KeyframeSeen
  BY DEF Init, KeyframeSeen
<1> QED
  BY <1>1, <1>2, InitInv DEF OrderInv

\* The invariant of in-order arrival: one step per action.
LEMMA OrderStep ==
  ASSUME OrderInv, [Next]_vars
  PROVE  OrderInv'
<1> USE DEF OrderInv
<1>1. AssemblerInv' /\ AssemblerInv
  BY NextInv
<1>2. TypeOK /\ VarTypes /\ StartedHasPacket
  BY <1>1 DEF AssemblerInv, TypeOK
<1>3. ASSUME NEW n \in Positions, Unparsable(n) \/ Lose(n) PROVE OrderInv'
  <2>1. UNCHANGED <<firstSeq, jitter, assembler>>
    BY <1>3 DEF Unparsable, Lose, chosen
  <2>2. KeyframeSeen' /\ HolesOnlyWhereBlind' /\ (BlindHoles(buffer) => BlindHoles(buffer)')
    BY <2>1 DEF assembler, KeyframeSeen, IsKeyframe, HolesOnlyWhereBlind, BlindHoles,
                Holes, SeqNum
  <2>3. ASSUME jitter = 0 PROVE ArrivedInOrder' /\ BufferIsNewest'
    <3>1. /\ ArrivedInOrder'
          /\ \/ Received' = Received
             \/ Received' = Received \cup {n} /\ ~(Stream[n].bytes > 0)
      BY <1>2, <1>3, <2>3, Arrival, Loss DEF Unparsable
    <3>2. BufferIsNewest'
      BY <2>1, <2>3, <3>1 DEF BufferIsNewest, Newest, SeqNum, assembler
    <3> QED
      BY <3>1, <3>2
  <2> QED
    BY <1>1, <2>1, <2>2, <2>3
<1>4. ASSUME NEW n \in Positions, EndPrevious(n) PROVE OrderInv'
  <2>1. /\ jitter' = jitter /\ firstSeq' = firstSeq /\ lost' = lost
        /\ Arrives(n) /\ CompleteFrame(Kept(n))
    BY <1>4 DEF EndPrevious, chosen
  <2>2. Kept(n) \in Seq(Positions)
    BY <1>2 DEF Kept, VarTypes
  <2>3. jitter = 0 => BlindHoles(Kept(n))
    BY <1>2, <2>1, WithPacketBlind DEF Arrives
  <2>4. KeyframeSeen' /\ HolesOnlyWhereBlind' /\ buffer' = <<>> /\ BlindHoles(<<>>)'
    BY <2>1, <2>2, <2>3, CompleteFrameBlind
  <2>5. jitter = 0 => ArrivedInOrder'
    BY <1>2, <2>1, Arrival
  <2> QED
    BY <1>1, <2>1, <2>4, <2>5 DEF BufferIsNewest, BlindHoles, Holes
<1>5. ASSUME NEW n \in Positions, AddPacket(n)
      PROVE  /\ jitter' = jitter /\ firstSeq' = firstSeq /\ Arrives(n)
             /\ WithPacket(n) \in Seq(Positions)
             /\ Collecting(n) = (WithPacket(n) # <<>>)
             /\ jitter = 0 => ArrivedInOrder' /\ Newest(n)' /\ BlindHoles(WithPacket(n))
  <2>1. /\ jitter' = jitter /\ firstSeq' = firstSeq /\ lost' = lost
        /\ Arrives(n) /\ Stream[n].bytes > 0
    BY <1>5 DEF AddPacket, chosen
  <2>2. WithPacket(n) \in Seq(Positions) /\ Collecting(n) = (WithPacket(n) # <<>>)
    BY <1>2, <1>5, WithPacketOneFrame DEF AssemblerInv
  <2>3. jitter = 0 => ArrivedInOrder' /\ Newest(n)' /\ BlindHoles(WithPacket(n))
    BY <1>2, <2>1, Arrival, MediaArrival, WithPacketBlind DEF Arrives
  <2> QED
    BY <2>1, <2>2, <2>3
<1>6. ASSUME NEW n \in Positions, FinishFrame(n) PROVE OrderInv'
  <2>1. AddPacket(n) /\ CompleteFrame(WithPacket(n))
    BY <1>6 DEF FinishFrame
  <2>2. KeyframeSeen' /\ HolesOnlyWhereBlind' /\ buffer' = <<>> /\ BlindHoles(<<>>)'
    BY <1>5, <2>1, CompleteFrameBlind
  <2> QED
    BY <1>1, <1>5, <2>1, <2>2 DEF BufferIsNewest, BlindHoles, Holes
<1>7. ASSUME NEW n \in Positions, DropOversized(n) PROVE OrderInv'
  <2>1. AddPacket(n) /\ buffer' = <<>> /\ UNCHANGED <<waitForKeyframe, delivered>>
    BY <1>7 DEF DropOversized, Reset
  <2>2. KeyframeSeen' /\ HolesOnlyWhereBlind'
    BY <1>5, <2>1 DEF KeyframeSeen, IsKeyframe, HolesOnlyWhereBlind, BlindHoles, Holes, SeqNum
  <2> QED
    BY <1>1, <1>5, <2>1, <2>2 DEF BufferIsNewest, BlindHoles, Holes
<1>8. ASSUME NEW n \in Positions, KeepPacket(n) PROVE OrderInv'
  <2>1. /\ AddPacket(n) /\ buffer' = WithPacket(n) /\ lastSeqNum' = SeqNum(n)
        /\ ~(Stream[n].marker /\ Collecting(n))
        /\ UNCHANGED <<waitForKeyframe, delivered>>
    BY <1>8 DEF KeepPacket, AddPacket
  <2>2. KeyframeSeen' /\ HolesOnlyWhereBlind'
    BY <1>5, <2>1 DEF KeyframeSeen, IsKeyframe, HolesOnlyWhereBlind, BlindHoles, Holes, SeqNum
  <2>3. buffer' # <<>> => buffer'[Len(buffer')] = n /\ ~Stream[n].marker
    <3>1. WithPacket(n) # <<>> => WithPacket(n) = <<n>> \/ WithPacket(n) = Append(Kept(n), n)
      BY <1>5, <2>1 DEF Collecting, WithPacket
    <3>2. Kept(n) \in Seq(Positions)
      BY <1>2 DEF Kept, VarTypes
    <3>3. WithPacket(n) = <<n>> => WithPacket(n)[Len(WithPacket(n))] = n
      OBVIOUS
    <3>4. WithPacket(n) = Append(Kept(n), n) => WithPacket(n)[Len(WithPacket(n))] = n
      BY <3>2
    <3> QED
      BY <1>5, <2>1, <3>1, <3>3, <3>4
  <2>4. ASSUME jitter = 0 PROVE ArrivedInOrder' /\ BufferIsNewest' /\ BlindHoles(buffer)'
    <3>1. ArrivedInOrder' /\ Newest(n)' /\ BlindHoles(WithPacket(n))
      BY <1>5, <2>1, <2>4
    <3>2. BufferIsNewest'
      BY <1>5, <2>1, <2>3, <3>1 DEF BufferIsNewest, SeqNum
    <3>3. BlindHoles(buffer)'
      BY <1>5, <2>1, <3>1 DEF BlindHoles, Holes, SeqNum
    <3> QED
      BY <3>1, <3>2, <3>3
  <2> QED
    BY <1>1, <1>5, <2>1, <2>2, <2>4
<1>9. CASE UNCHANGED vars
  BY <1>1, <1>9 DEF vars, KeyframeSeen, IsKeyframe, ArrivedInOrder, BufferIsNewest, Newest,
       Received, SeqNum, BlindHoles, Holes, HolesOnlyWhereBlind
<1> QED
  BY <1>3, <1>4, <1>6, <1>7, <1>8, <1>9 DEF Next

\* The inductive invariant of packets that arrive in order.
THEOREM OrderInvariance == Spec => []OrderInv
  BY OrderInit, OrderStep, PTL DEF Spec

\* While packets arrive in order, a frame is handed out with a hole only where loss
\* detection cannot see it: at sequence number 0 or across LossWindow packets
\* (ingest/main.go:1318-1330).
THEOREM HolesBlind == Spec => []HolesOnlyWhereBlind
<1>1. OrderInv => HolesOnlyWhereBlind
  BY DEF OrderInv
<1> QED
  BY <1>1, OrderInvariance, PTL
-----------------------------------------------------------------------------
(* Frames *)

\* Of consecutive packets.
LEMMA RunFacts ==
  ASSUME NEW a \in Nat, NEW z \in Int, a <= z + 1
  PROVE  /\ Run(a, z) \in Seq(Int) /\ Len(Run(a, z)) = z - a + 1
         /\ DOMAIN Run(a, z) = 1..(z - a + 1)
         /\ \A i \in 1..(z - a + 1) : Run(a, z)[i] = a + i - 1
<1>1. Run(a, z) \in [1..(z - a + 1) -> Int]
  BY DEF Run
<1> QED
  BY <1>1 DEF Run

LEMMA RunType ==
  ASSUME NEW a \in Nat, NEW z \in Int, a <= z + 1, NEW T, a..z \subseteq T
  PROVE  Run(a, z) \in Seq(T)
<1>1. ASSUME NEW i \in 1..(z - a + 1) PROVE a + i - 1 \in a..z
  OBVIOUS
<1>2. Run(a, z) \in [1..(z - a + 1) -> T]
  BY <1>1 DEF Run
<1> QED
  BY <1>2

LEMMA RunAppend ==
  ASSUME NEW a \in Nat, NEW z \in Int, a <= z + 1
  PROVE  Run(a, z + 1) = Append(Run(a, z), z + 1)
<1> DEFINE s == Run(a, z)
           t == Run(a, z + 1)
           n == z - a + 1
<1>1. /\ n \in Nat /\ (z + 1) - a + 1 = n + 1
      /\ s \in Seq(Int) /\ Len(s) = n /\ \A i \in 1..n : s[i] = a + i - 1
  BY RunFacts
<1>2. t \in Seq(Int) /\ Len(t) = n + 1 /\ \A i \in 1..(n + 1) : t[i] = a + i - 1
  <2>1. z + 1 \in Int /\ a <= (z + 1) + 1
    OBVIOUS
  <2> QED
    BY <1>1, <2>1, RunFacts
<1>3. a + (n + 1) - 1 = z + 1
  OBVIOUS
<1> HIDE DEF s, t, n
<1>4. /\ Append(s, z + 1) \in Seq(Int) /\ Len(Append(s, z + 1)) = n + 1
      /\ \A i \in 1..(n + 1) : Append(s, z + 1)[i] = t[i]
  BY <1>1, <1>2, <1>3
<1>5. t = Append(s, z + 1)
  BY <1>2, <1>4
<1> QED
  BY <1>5 DEF s, t

LEMMA RunEmpty == ASSUME NEW a \in Nat PROVE Run(a, a - 1) = <<>> /\ Run(a, a) = <<a>>
<1>1. Run(a, a - 1) = <<>>
  BY RunFacts
<1>2. a - 1 \in Int /\ a <= (a - 1) + 1 /\ (a - 1) + 1 = a
  OBVIOUS
<1>3. Run(a, (a - 1) + 1) = Append(Run(a, a - 1), (a - 1) + 1)
  BY <1>2, RunAppend
<1> QED
  BY <1>1, <1>2, <1>3

LEMMA RunFront == ASSUME NEW a \in Nat, NEW z \in Int, a <= z
                  PROVE  Front(Run(a, z)) = Run(a, z - 1)
<1> DEFINE s == Run(a, z)
           t == Run(a, z - 1)
           n == z - a
<1>1. /\ n \in Nat /\ s \in Seq(Int) /\ Len(s) = n + 1
      /\ \A i \in 1..(n + 1) : s[i] = a + i - 1
  BY RunFacts
<1>2. /\ t \in Seq(Int) /\ Len(t) = n /\ \A i \in 1..n : t[i] = a + i - 1
  <2>1. z - 1 \in Int /\ a <= (z - 1) + 1 /\ (z - 1) - a + 1 = n
    OBVIOUS
  <2> QED
    BY <2>1, RunFacts
<1> HIDE DEF s, t, n
<1>3. Front(s) = SubSeq(s, 1, n)
  BY <1>1 DEF Front
<1>4. /\ SubSeq(s, 1, n) \in Seq(Int) /\ Len(SubSeq(s, 1, n)) = n
      /\ \A i \in 1..n : SubSeq(s, 1, n)[i] = s[i]
  BY <1>1
<1>5. SubSeq(s, 1, n) = t
  BY <1>1, <1>2, <1>4
<1> QED
  BY <1>3, <1>5 DEF s, t

\* Bytes of nothing, and of one packet more.
LEMMA BytesEmpty == Bytes(<<>>) = 0
<1>1. Total!FoldLeft(AddBytes, 0, <<>>) = 0
  BY Total!FoldEmpty
<1> QED
  BY <1>1 DEF Bytes, FoldLeft, MapThenFoldSet, Total!FoldLeft, Total!MapThenFoldSet,
         Max, Total!Max

LEMMA BytesAppend ==
  ASSUME NEW b \in Seq(Positions), NEW n \in Positions
  PROVE  Bytes(Append(b, n)) = Bytes(b) + Stream[n].bytes
<1>1. Total!FoldLeft(AddBytes, 0, Append(b, n)) = AddBytes(Total!FoldLeft(AddBytes, 0, b), n)
  BY Total!FoldAppend
<1> QED
  BY <1>1 DEF Bytes, AddBytes, FoldLeft, MapThenFoldSet, Total!FoldLeft, Total!MapThenFoldSet,
         Max, Total!Max
LEMMA BytesType == ASSUME NEW n \in Positions PROVE Stream[n].bytes \in Nat
<1>1. Stream[n] \in Packet
  BY StreamAssumption DEF Positions
<1> QED
  BY <1>1 DEF Packet

\* A longer run has at least as many bytes.
LEMMA BytesGrow ==
  ASSUME NEW a \in Nat, NEW y \in Int, NEW z \in Int, a <= y + 1, y <= z,
         a..z \subseteq Positions
  PROVE  /\ Bytes(Run(a, y)) \in Nat /\ Bytes(Run(a, z)) \in Nat
         /\ Bytes(Run(a, y)) <= Bytes(Run(a, z))
<1> DEFINE B(k) == Bytes(Run(a, a - 1 + k))
           n == z - a + 1
           S == {k \in Nat : k <= n => \A j \in 0..k : B(j) \in Nat /\ B(j) <= B(k)}
<1>1. 0 \in S
  <2>1. B(0) = 0
    BY RunEmpty, BytesEmpty
  <2> HIDE DEF B
  <2> QED
    BY <2>1
<1>2. ASSUME NEW k \in Nat, k \in S PROVE k + 1 \in S
  <2> SUFFICES ASSUME k + 1 <= n
               PROVE  \A j \in 0..(k + 1) : B(j) \in Nat /\ B(j) <= B(k + 1)
    OBVIOUS
  <2> DEFINE x == a - 1 + k
  <2>1. /\ x \in Int /\ a <= x + 1 /\ a - 1 + (k + 1) = x + 1
        /\ a..x \subseteq Positions /\ x + 1 \in Positions
    OBVIOUS
  <2>2. Run(a, x + 1) = Append(Run(a, x), x + 1) /\ Run(a, x) \in Seq(Positions)
    BY <2>1, RunAppend, RunType
  <2>3. B(k + 1) = B(k) + Stream[x + 1].bytes
    BY <2>1, <2>2, BytesAppend
  <2>4. Stream[x + 1].bytes \in Nat
    BY <2>1, BytesType
  <2>5. k <= n /\ \A j \in 0..k : B(j) \in Nat /\ B(j) <= B(k)
    <3>1. k <= n
      BY SMT
    <3> QED
      BY <1>2, <3>1
  <2> HIDE DEF B, x
  <2>6. B(k) \in Nat
    BY <2>5
  <2>7. B(k + 1) \in Nat /\ B(k) <= B(k + 1)
    BY <2>3, <2>4, <2>6
  <2>8. \A j \in 0..(k + 1) : j \in 0..k \/ j = k + 1
    OBVIOUS
  <2> QED
    BY <2>5, <2>6, <2>7, <2>8
<1> HIDE DEF S
<1>3. n \in Nat /\ n \in S
  BY <1>1, <1>2, Total!Induction
<1>4. /\ y - a + 1 \in 0..n /\ a - 1 + (y - a + 1) = y /\ a - 1 + n = z
      /\ n \in 0..n
  OBVIOUS
<1>5. \A j \in 0..n : B(j) \in Nat /\ B(j) <= B(n)
  BY <1>3 DEF S
<1>6. B(y - a + 1) = Bytes(Run(a, y)) /\ B(n) = Bytes(Run(a, z))
  BY <1>4
<1> HIDE DEF B, n
<1> QED
  BY <1>4, <1>5, <1>6

\* A frame is a run of packets; the first of them has the S bit, the last the marker.
LEMMA FrameShape ==
  ASSUME Packetized, NEW f, PacketsOf(f) # {}
  PROVE  LET a == Min(PacketsOf(f))
             z == Max(PacketsOf(f)) IN
         /\ a \in PacketsOf(f) /\ z \in PacketsOf(f) /\ a <= z
         /\ PacketsOf(f) = a..z /\ a..z \subseteq Positions /\ WholeFrame(f) = Run(a, z)
         /\ \A n \in a..z : /\ Stream[n].start <=> n = a
                            /\ Stream[n].marker <=> n = z
                            /\ Stream[n].key => n = a
<1> DEFINE P == PacketsOf(f)
           a == Min(P)
           z == Max(P)
<1>1. /\ P \in SUBSET Nat /\ P \subseteq Positions /\ Len(Stream) \in Nat
      /\ Positions = 1..Len(Stream)
  BY StreamAssumption DEF PacketsOf, Positions
<1>2. a \in P /\ \A n \in P : a <= n
  <2>1. PICK m \in P : \A k \in P : m <= k
    BY <1>1, Total!LeastNumber
  <2> QED
    BY <2>1 DEF Min
<1>3. z \in P /\ \A n \in P : n <= z
  <2>1. P \in SUBSET (1..Len(Stream)) /\ P # {}
    BY <1>1
  <2>2. Total!Max(P) \in P /\ \A n \in P : n <= Total!Max(P)
    BY <1>1, <2>1, Total!MaxOfPositions
  <2> QED
    BY <2>2 DEF Max, Total!Max
<1>4. \A n \in P : Stream[n].ts = f /\ Stream[n].bytes > 0
  BY DEF PacketsOf
<1>5. P = a..z
  <2>1. a..z \subseteq P
    BY <1>1, <1>2, <1>3, <1>4 DEF Packetized
  <2> HIDE DEF P, a, z
  <2>2. \A n \in P : n \in a..z
    BY <1>1, <1>2, <1>3
  <2> QED
    BY <2>1, <2>2
<1>6. WholeFrame(f) = Run(a, z)
  BY DEF WholeFrame
<1>7. ASSUME NEW n \in P
      PROVE  /\ Stream[n].start <=> n = a
             /\ Stream[n].marker <=> n = z
             /\ Stream[n].key => n = a
  <2>1. /\ Stream[n].start <=> \A m \in P : n <= m
        /\ Stream[n].marker <=> \A m \in P : m <= n
        /\ Stream[n].key => Stream[n].start
    BY <1>1, <1>4 DEF Packetized
  <2> HIDE DEF P, a, z
  <2>2. (\A m \in P : n <= m) <=> n = a
    BY <1>1, <1>2
  <2>3. (\A m \in P : m <= n) <=> n = z
    BY <1>1, <1>3
  <2> QED
    BY <2>1, <2>2, <2>3
<1> HIDE DEF P, a, z
<1>8. a <= z /\ a..z \subseteq Positions
  BY <1>1, <1>2, <1>3, <1>5
<1> QED
  BY <1>2, <1>3, <1>5, <1>6, <1>7, <1>8 DEF P, a, z
-----------------------------------------------------------------------------
(* Frames that arrive in full *)

\* A packet the assembler looks at.
MediaStep(n) ==
  EndPrevious(n) \/ FinishFrame(n) \/ DropOversized(n) \/ KeepPacket(n)

LEMMA MediaStepFacts ==
  ASSUME NEW n \in Positions, MediaStep(n)
  PROVE  /\ firstSeq' = firstSeq /\ jitter' = jitter /\ lost' = lost
         /\ Arrives(n) /\ Stream[n].bytes > 0
         /\ ~EndsPrevious(n) => AddPacket(n)
<1>1. CASE EndPrevious(n)
  BY <1>1 DEF EndPrevious, chosen
<1>2. CASE AddPacket(n)
  BY <1>2 DEF AddPacket, chosen
<1> QED
  BY <1>1, <1>2 DEF MediaStep, FinishFrame, DropOversized, KeepPacket

\* Which gaps were seen depends on the packets before only.
LEMMA GapSeenKept ==
  ASSUME firstSeq' = firstSeq, NEW a \in Positions,
         \A m \in Positions : m < a /\ Stream[m].bytes > 0
                            => (m \in Received <=> m \in Received')
  PROVE  GapSeen(a)' <=> GapSeen(a)
<1>1. Received \subseteq Positions /\ Received' \subseteq Positions
  BY DEF Received
<1> QED
  BY <1>1 DEF GapSeen, SeqNum

\* The packet a frame goes on with is appended to what has arrived of it: its
\* first packet finds no frame started, as the gap before it was seen or the
\* frame before it has ended; the others are not separated from it.
LEMMA Followed ==
  ASSUME OrderInv, FrameFollowed, jitter = 0, Packetized,
         NEW n \in Positions, Arrives(n), lost' = lost, firstSeq' = firstSeq,
         NEW f, n \in PacketsOf(f), GoodSize(f), f \in Timestamps,
         \A m \in PacketsOf(f) : m < n => m \in Received,
         GapSeen(Min(PacketsOf(f)))'
  PROVE  /\ ~EndsPrevious(n) /\ Collecting(n)
         /\ WithPacket(n) = Run(Min(PacketsOf(f)), n)
<1> DEFINE P == PacketsOf(f)
           a == Min(P)
           z == Max(P)
<1>1. /\ a \in P /\ z \in P /\ a <= z /\ P = a..z /\ a..z \subseteq Positions
      /\ \A m \in P : Stream[m].start <=> m = a
  BY FrameShape
<1>2. /\ TypeOK /\ VarTypes /\ StartedHasPacket /\ BufferOfOneFrame
      /\ ArrivedInOrder /\ BufferIsNewest
  BY DEF OrderInv, AssemblerInv, TypeOK
<1>3. /\ n \in net /\ n \notin Received /\ Received' = Received \cup {n}
      /\ (\A r \in Received : r < n) /\ \A m \in net : n <= m
  BY <1>2, Arrival
<1>4. Stream[n].ts = f /\ Stream[n].bytes > 0
  BY DEF PacketsOf
<1>5. P \subseteq Positions /\ Positions \subseteq Nat /\ a \in Nat /\ z \in Nat /\ n \in Nat
      /\ n \in a..z
  <2>1. P \subseteq Positions /\ Positions \subseteq Nat /\ n \in P
    BY DEF PacketsOf, Positions
  <2> HIDE DEF P, a, z
  <2> QED
    BY <1>1, <2>1
<1>6. GapSeen(a)
  <2>1. \A m \in Positions : m < a => (m \in Received <=> m \in Received')
    BY <1>3, <1>5
  <2>2. a \in Positions
    BY <1>1
  <2> QED
    BY <2>1, <2>2, GapSeenKept
<1> HIDE DEF P, a, z
<1>7. CASE n = a
  <2>1. ~Started(n)
    <3> SUFFICES ASSUME frameStarted, ~LossSeen(n) PROVE FALSE
      BY DEF Started
    <3> DEFINE p == buffer[Len(buffer)]
    <3>1. Newest(p) /\ ~Stream[p].marker /\ lastSeqNum = SeqNum(p)
      BY <1>2 DEF StartedHasPacket, BufferIsNewest
    <3> HIDE DEF p
    <3>2. /\ p \in Received /\ p \in Positions /\ Stream[p].bytes > 0 /\ p < n
          /\ p \in Nat
      BY <1>3, <1>5, <3>1 DEF Newest, Received
    <3>3. \/ p = n - 1
          \/ SeqNum(p) # 0 /\ SeqNum(n) # 0 /\ n - p <= LossWindow
      BY <1>6, <1>7, <3>1, <3>2 DEF GapSeen, Newest
    <3>4. CASE p = n - 1
      <4> DEFINE g == Stream[p].ts
      <4>1. p \in PacketsOf(g)
        BY <3>2 DEF PacketsOf
      <4>2. /\ PacketsOf(g) = Min(PacketsOf(g))..Max(PacketsOf(g))
            /\ p # Max(PacketsOf(g))
            /\ Min(PacketsOf(g)) \in PacketsOf(g) /\ Max(PacketsOf(g)) \in PacketsOf(g)
        BY <3>1, <4>1, FrameShape
      <4>3. PacketsOf(g) \subseteq Nat
        BY <1>5 DEF PacketsOf
      <4>4. p + 1 \in PacketsOf(g)
        <5> DEFINE x == Min(PacketsOf(g))
                   y == Max(PacketsOf(g))
        <5>1. x \in Nat /\ y \in Nat /\ p \in x..y /\ p # y
          BY <4>1, <4>2, <4>3
        <5> HIDE DEF x, y
        <5>2. p + 1 \in x..y
          BY <5>1
        <5> QED
          BY <4>2, <5>2 DEF x, y
      <4>5. f = g
        BY <1>4, <1>5, <3>2, <3>4, <4>4 DEF PacketsOf
      <4>6. p \in P
        BY <4>1, <4>5 DEF P
      <4> QED
        BY <1>1, <1>5, <1>7, <3>2, <4>6
    <3>5. CASE p # n - 1
      <4>1. p + 1 < n
        BY <1>5, <3>2, <3>5
      <4> QED
        BY <1>2, <3>1, <3>2, <3>3, <3>5, <4>1, HoleSeen
    <3> QED
      BY <3>4, <3>5
  <2>2. Stream[n].start
    BY <1>1, <1>7
  <2>3. Begins(n) /\ WithPacket(n) = <<n>>
    BY <2>2 DEF Begins, WithPacket
  <2>4. Run(a, n) = <<n>>
    BY <1>5, <1>7, RunEmpty
  <2> QED
    BY <2>1, <2>3, <2>4 DEF EndsPrevious, Collecting, P, a
<1>8. CASE n # a
  <2>1. n - 1 \in P /\ n - 1 # z
    BY <1>1, <1>5, <1>8
  <2>2. ArrivedUpTo(f, n - 1)
    <3> SUFFICES ASSUME NEW m \in P
                 PROVE  IF m <= n - 1 THEN m \in Received ELSE m \in net
      BY DEF ArrivedUpTo, P
    <3>1. m \in Nat /\ m \in Positions
      BY <1>5
    <3>2. CASE m <= n - 1
      BY <1>5, <3>1, <3>2 DEF P
    <3>3. CASE ~(m <= n - 1)
      <4>1. n <= m
        BY <1>5, <3>1, <3>3
      <4>2. m \in Positions \ net => m < n
        BY <1>2, <1>3 DEF ArrivedInOrder
      <4> QED
        BY <1>5, <3>1, <3>3, <4>1, <4>2
    <3> QED
      BY <3>2, <3>3
  <2>3. buffer = Run(a, n - 1)
    BY <1>6, <2>1, <2>2 DEF FrameFollowed, P, a, z
  <2>4. /\ buffer # <<>> /\ buffer[Len(buffer)] = n - 1 /\ buffer[1] = a
        /\ Run(a, n) = Append(buffer, n) /\ 1 \in DOMAIN buffer
    <3>1. n - 1 \in Int /\ a <= n - 1 /\ a <= (n - 1) + 1 /\ (n - 1) + 1 = n
      BY <1>1, <1>5, <2>1
    <3>2. /\ Len(buffer) = (n - 1) - a + 1 /\ DOMAIN buffer = 1..((n - 1) - a + 1)
          /\ \A i \in 1..((n - 1) - a + 1) : buffer[i] = a + i - 1
      BY <1>5, <2>3, <3>1, RunFacts
    <3>3. Run(a, (n - 1) + 1) = Append(Run(a, n - 1), (n - 1) + 1)
      BY <1>5, <3>1, RunAppend
    <3>4. (n - 1) - a + 1 \in Nat \ {0}
      BY <1>5, <3>1
    <3> QED
      BY <1>5, <2>3, <3>1, <3>2, <3>3, <3>4
  <2>5. frameStarted /\ lastSeqNum = SeqNum(n - 1)
    BY <1>2, <2>4 DEF StartedHasPacket, BufferIsNewest
  <2>6. ~LossSeen(n)
    <3>1. n - 1 \in Positions /\ (n - 1) + 1 = n
      BY <1>5, <2>1
    <3> QED
      BY <1>2, <2>5, <3>1, NextNotLost
  <2>7. currentTimestamp = f
    BY <1>1, <1>2, <2>4 DEF BufferOfOneFrame, P, PacketsOf
  <2>8. ~Stream[n].start
    BY <1>1, <1>8 DEF P
  <2> QED
    BY <1>4, <2>4, <2>5, <2>6, <2>7, <2>8
       DEF EndsPrevious, Collecting, Begins, Started, NewTimestamp, WithPacket, Kept, P, a
<1> QED
  BY <1>7, <1>8
\* What is handed out when packet n is looked at is of no earlier frame than the
\* frames that have arrived in full.
LEMMA HandedOutLater ==
  ASSUME OrderInv, jitter = 0, Packetized, NEW n \in Positions, MediaStep(n),
         NEW f, PacketsOf(f) # {}, PacketsOf(f) \subseteq Received',
         EndPrevious(n) => n \notin PacketsOf(f),
         NEW k \in DOMAIN delivered', Timestamp(delivered'[k]) < f
  PROVE  k \in DOMAIN delivered /\ delivered'[k] = delivered[k]
<1> DEFINE z == Max(PacketsOf(f))
<1>1. z \in PacketsOf(f) /\ Stream[z].marker /\ PacketsOf(f) \subseteq Positions
  <2>1. /\ z \in PacketsOf(f) /\ PacketsOf(f) = Min(PacketsOf(f))..z
        /\ \A m \in Min(PacketsOf(f))..z : Stream[m].marker <=> m = z
    BY FrameShape
  <2> HIDE DEF z
  <2> QED
    BY <2>1 DEF PacketsOf
<1>2. /\ z \in Positions /\ z \in Nat /\ Stream[z].ts = f /\ Stream[z].bytes > 0
      /\ z \in Received'
  BY <1>1 DEF PacketsOf, Positions
<1> HIDE DEF z
<1>3. /\ TypeOK /\ VarTypes /\ StartedHasPacket /\ BufferOfOneFrame /\ KeyframeSeen
      /\ ArrivedInOrder /\ BufferIsNewest
  BY DEF OrderInv, AssemblerInv, TypeOK
<1>4. Arrives(n) /\ lost' = lost /\ (~EndsPrevious(n) => AddPacket(n))
  BY MediaStepFacts
<1>5. z \in Received \/ z = n
  BY <1>2, <1>3, <1>4, Arrival
<1>6. z <= n /\ n \in Nat
  BY <1>2, <1>3, <1>4, <1>5, Arrival DEF Positions
<1>7. f <= Stream[n].ts
  BY <1>2, <1>6, TimestampType DEF Packetized
<1>8. CASE EndPrevious(n)
  <2>1. Kept(n) = buffer /\ buffer # <<>> /\ CompleteFrame(Kept(n))
    BY <1>3, <1>8 DEF EndPrevious, EndsPrevious, Started, Kept, StartedHasPacket
  <2> DEFINE p == buffer[Len(buffer)]
  <2>2. /\ 1 \in DOMAIN buffer /\ Len(buffer) \in DOMAIN buffer
        /\ buffer \in Seq(Positions)
    BY <1>3, <2>1 DEF VarTypes
  <2>3. Timestamp(buffer) = Stream[p].ts
    BY <1>3, <2>2 DEF BufferOfOneFrame, Timestamp
  <2>4. Newest(p) /\ ~Stream[p].marker
    BY <1>3, <2>1 DEF BufferIsNewest
  <2> HIDE DEF p
  <2>5. z < p
    <3>1. z # n
      BY <1>1, <1>8
    <3>2. p \in Nat /\ z <= p
      BY <1>2, <1>5, <2>4, <3>1 DEF Newest, Received, Positions
    <3> QED
      BY <1>1, <1>2, <2>4, <3>2 DEF z
  <2>6. f <= Timestamp(buffer) /\ Timestamp(buffer) \in Nat
    <3>1. p \in Positions
      BY <2>4 DEF Newest, Received
    <3> QED
      BY <1>2, <2>3, <2>5, <3>1, TimestampType DEF Packetized
  <2>7. f \in Nat
    BY <1>2, TimestampType
  <2>8. k \in DOMAIN delivered \/ delivered'[k] = buffer
    BY <1>3, <2>1, <2>2, CompleteFrameHandsOut
  <2> QED
    BY <1>3, <2>1, <2>2, <2>6, <2>7, <2>8, CompleteFrameHandsOut
<1>9. CASE FinishFrame(n)
  <2> DEFINE b == WithPacket(n)
  <2>1. AddPacket(n) /\ CompleteFrame(b) /\ Collecting(n)
    BY <1>9 DEF FinishFrame
  <2>2. /\ b \in Seq(Positions) /\ b # <<>>
        /\ \A i \in DOMAIN b : Stream[b[i]].ts = currentTimestamp'
    BY <1>3, <2>1, WithPacketOneFrame
  <2>3. b[Len(b)] = n
    <3>1. b = <<n>> \/ b = Append(Kept(n), n)
      BY <2>1 DEF Collecting, WithPacket
    <3>2. Kept(n) \in Seq(Positions)
      BY <1>3 DEF Kept, VarTypes
    <3>3. b = <<n>> => b[Len(b)] = n
      OBVIOUS
    <3>4. b = Append(Kept(n), n) => b[Len(b)] = n
      BY <3>2
    <3> QED
      BY <3>1, <3>3, <3>4
  <2> HIDE DEF b
  <2>4. 1 \in DOMAIN b /\ Len(b) \in DOMAIN b
    BY <2>2
  <2>5. Timestamp(b) = Stream[n].ts
    BY <2>2, <2>3, <2>4 DEF Timestamp
  <2>6. f \in Nat /\ Stream[n].ts \in Nat
    BY <1>2, TimestampType
  <2>7. k \in DOMAIN delivered \/ delivered'[k] = b
    BY <1>3, <2>1, <2>2, CompleteFrameHandsOut
  <2> QED
    BY <1>3, <1>7, <2>1, <2>2, <2>5, <2>6, <2>7, CompleteFrameHandsOut
<1>10. CASE DropOversized(n) \/ KeepPacket(n)
  BY <1>10 DEF DropOversized, KeepPacket
<1> QED
  BY <1>8, <1>9, <1>10 DEF MediaStep

\* No frame handed out is taken back.
LEMMA DeliveredGrows ==
  ASSUME OrderInv, NEW n \in Positions, MediaStep(n)
  PROVE  \A k \in DOMAIN delivered : k \in DOMAIN delivered' /\ delivered'[k] = delivered[k]
<1>1. TypeOK /\ VarTypes /\ KeyframeSeen
  BY DEF OrderInv, AssemblerInv, TypeOK
<1>2. CASE EndPrevious(n)
  <2>1. CompleteFrame(Kept(n)) /\ Kept(n) \in Seq(Positions)
    BY <1>1, <1>2 DEF EndPrevious, Kept, VarTypes
  <2> QED
    BY <1>1, <2>1, CompleteFrameHandsOut
<1>3. CASE FinishFrame(n)
  <2>1. AddPacket(n) /\ CompleteFrame(WithPacket(n))
    BY <1>3 DEF FinishFrame
  <2>2. WithPacket(n) \in Seq(Positions)
    BY <1>1, <2>1, WithPacketOneFrame DEF OrderInv, AssemblerInv
  <2> QED
    BY <1>1, <2>1, <2>2, CompleteFrameHandsOut
<1>4. CASE DropOversized(n) \/ KeepPacket(n)
  BY <1>4 DEF DropOversized, KeepPacket
<1> QED
  BY <1>2, <1>3, <1>4 DEF MediaStep

\* A packet that belongs to a frame with no packet missing so far, and of a size
\* that is handed out: kept, or the frame is finished if it is the last.
LEMMA FollowedStep ==
  ASSUME OrderInv, FrameFollowed, jitter = 0, Packetized,
         NEW n \in Positions, MediaStep(n),
         NEW f \in Timestamps, n \in PacketsOf(f), GoodSize(f),
         \A m \in PacketsOf(f) : m < n => m \in Received,
         GapSeen(Min(PacketsOf(f)))'
  PROVE  IF n = Max(PacketsOf(f))
           THEN FinishFrame(n) /\ WithPacket(n) = WholeFrame(f)
           ELSE KeepPacket(n) /\ buffer' = Run(Min(PacketsOf(f)), n)
<1> DEFINE P == PacketsOf(f)
           a == Min(P)
           z == Max(P)
<1>1. /\ a \in P /\ z \in P /\ a <= z /\ P = a..z /\ a..z \subseteq Positions
      /\ WholeFrame(f) = Run(a, z)
      /\ Stream[n].marker <=> n = z
  BY FrameShape
<1>2. a \in Nat /\ z \in Nat /\ n \in Nat /\ n \in a..z
  <2>1. n \in P /\ Positions \subseteq Nat
    BY DEF Positions
  <2> HIDE DEF P, a, z
  <2> QED
    BY <1>1, <2>1
<1>3. ~EndsPrevious(n) /\ Collecting(n) /\ WithPacket(n) = Run(a, n)
  BY MediaStepFacts, Followed
<1>4. ~EndPrevious(n)
  BY <1>3 DEF EndPrevious
<1> HIDE DEF P, a, z
<1>5. CASE n = z
  BY <1>1, <1>3, <1>4, <1>5 DEF MediaStep, FinishFrame, DropOversized, KeepPacket, z, P, a
<1>6. CASE n # z
  <2>1. Bytes(Run(a, n)) <= MaxBytes
    <3>1. Front(WholeFrame(f)) = Run(a, z - 1)
      BY <1>1, <1>2, RunFront
    <3>2. Bytes(Run(a, z - 1)) <= MaxBytes
      BY <3>1 DEF GoodSize
    <3>3. /\ z - 1 \in Int /\ a <= n + 1 /\ n <= z - 1 /\ a..(z - 1) \subseteq Positions
      BY <1>1, <1>2, <1>6
    <3>4. /\ Bytes(Run(a, n)) \in Nat /\ Bytes(Run(a, z - 1)) \in Nat
          /\ Bytes(Run(a, n)) <= Bytes(Run(a, z - 1))
      BY <1>2, <3>3, BytesGrow
    <3> QED
      BY <3>2, <3>4, LimitsAssumption
  <2>2. ~TooLong(WithPacket(n))
    <3>1. Bytes(Run(a, n)) \in Nat
      <4>1. n \in Int /\ a..n \subseteq Positions /\ a <= n + 1 /\ n <= n
        BY <1>1, <1>2
      <4> QED
        BY <1>2, <4>1, BytesGrow
    <3> QED
      BY <1>3, <2>1, <3>1, LimitsAssumption DEF TooLong
  <2>3. ~Stream[n].marker
    BY <1>1, <1>6
  <2>4. KeepPacket(n)
    BY <1>4, <2>2, <2>3 DEF MediaStep, FinishFrame, DropOversized
  <2> QED
    BY <1>3, <1>6, <2>4 DEF KeepPacket, z, a, P
<1> QED
  BY <1>5, <1>6
\* A step that looks at no packet: loss, padding, or nothing.
LEMMA IdleStep ==
  ASSUME IntactInv, Packetized,
         \/ \E n \in Positions : Unparsable(n) \/ Lose(n)
         \/ UNCHANGED vars
  PROVE  /\ UNCHANGED <<firstSeq, jitter, assembler>>
         /\ jitter = 0 => \A m \in Positions : Stream[m].bytes > 0 =>
              (m \in Received <=> m \in Received') /\ (m \in net' => m \in net)
<1> USE DEF IntactInv, OrderInv
<1>1. VarTypes
  BY DEF AssemblerInv, TypeOK
<1>2. CASE \E n \in Positions : Unparsable(n) \/ Lose(n)
  <2>1. PICK n \in Positions : Unparsable(n) \/ Lose(n)
    BY <1>2
  <2>2. UNCHANGED <<firstSeq, jitter, assembler>>
    BY <2>1 DEF Unparsable, Lose, chosen
  <2>3. net' \subseteq net
    BY <2>1 DEF Unparsable, Lose, Arrives
  <2>4. ASSUME jitter = 0
        PROVE  \A m \in Positions : Stream[m].bytes > 0 =>
                 (m \in Received <=> m \in Received')
    <3>1. CASE Unparsable(n)
      <4>1. Received' = Received \cup {n}
        BY <1>1, <2>4, <3>1, Arrival DEF Unparsable
      <4> QED
        BY <3>1, <4>1 DEF Unparsable
    <3>2. CASE Lose(n)
      BY <1>1, <2>4, <3>2, Loss
    <3> QED
      BY <2>1, <3>1, <3>2
  <2> QED
    BY <2>2, <2>3, <2>4
<1>3. CASE UNCHANGED vars
  BY <1>3 DEF vars, assembler, Received
<1> QED
  BY <1>2, <1>3

LEMMA IdleIntact ==
  ASSUME IntactInv, Packetized, jitter = 0, OrderInv',
         \/ \E n \in Positions : Unparsable(n) \/ Lose(n)
         \/ UNCHANGED vars
  PROVE  FrameFollowed' /\ IntactFramesDelivered'
<1>1. /\ UNCHANGED <<firstSeq, jitter, assembler>>
      /\ \A m \in Positions : Stream[m].bytes > 0 =>
           (m \in Received <=> m \in Received') /\ (m \in net' => m \in net)
  BY IdleStep
<1>2. \A a \in Positions : GapSeen(a)' <=> GapSeen(a)
  BY <1>1, GapSeenKept
<1>3. \A f : \A m \in PacketsOf(f) : m \in Positions /\ Stream[m].bytes > 0
  BY DEF PacketsOf
<1>4. FrameFollowed'
  <2> SUFFICES ASSUME NEW f \in Timestamps, GoodSize(f), NEW n \in PacketsOf(f),
                      ArrivedUpTo(f, n)', n # Max(PacketsOf(f)),
                      GapSeen(Min(PacketsOf(f)))'
               PROVE  buffer' = Run(Min(PacketsOf(f)), n)
    BY DEF FrameFollowed
  <2>1. ArrivedUpTo(f, n)
    BY <1>1, <1>3 DEF ArrivedUpTo
  <2>2. Min(PacketsOf(f)) \in Positions
    BY <1>3, FrameShape
  <2>3. buffer = Run(Min(PacketsOf(f)), n)
    BY <1>2, <2>1, <2>2 DEF IntactInv, FrameFollowed
  <2> QED
    BY <1>1, <2>3 DEF assembler
<1>5. IntactFramesDelivered'
  <2> SUFFICES ASSUME NEW f \in Timestamps, Intact(f)', GoodSize(f),
                      HasKey(f) \/ KeyframeBefore(f)'
               PROVE  HandedOut(f)'
    BY DEF IntactFramesDelivered
  <2>1. Intact(f)
    BY <1>1, <1>2, <1>3 DEF Intact
  <2>2. KeyframeBefore(f)' => KeyframeBefore(f)
    BY <1>1 DEF assembler, KeyframeBefore, IsKeyframe, Timestamp
  <2>3. HandedOut(f)
    BY <2>1, <2>2 DEF IntactInv, IntactFramesDelivered
  <2> QED
    BY <1>1, <2>3 DEF assembler, HandedOut
<1> QED
  BY <1>4, <1>5

\* While a frame that is to be handed out arrives, the buffer follows it.
LEMMA FollowedInv ==
  ASSUME IntactInv, Packetized, jitter = 0, NEW n \in Positions, MediaStep(n)
  PROVE  FrameFollowed'
<1> SUFFICES ASSUME NEW f \in Timestamps, GoodSize(f), NEW m \in PacketsOf(f),
                    ArrivedUpTo(f, m)', m # Max(PacketsOf(f)),
                    GapSeen(Min(PacketsOf(f)))'
             PROVE  buffer' = Run(Min(PacketsOf(f)), m)
  BY DEF FrameFollowed
<1> DEFINE P == PacketsOf(f)
           a == Min(P)
           z == Max(P)
<1>1. /\ a \in P /\ z \in P /\ a <= z /\ P = a..z
  BY FrameShape
<1>2. P \subseteq Positions /\ Positions \subseteq Nat
  BY DEF Positions, PacketsOf
<1>3. VarTypes /\ ArrivedInOrder /\ OrderInv /\ FrameFollowed
  BY DEF IntactInv, OrderInv, AssemblerInv, TypeOK
<1>4. /\ n \in net /\ net' = net \ {n} /\ n \notin Received
      /\ Received' = Received \cup {n}
      /\ (\A r \in Received : r < n) /\ \A k \in net : n <= k
  BY <1>3, MediaStepFacts, Arrival DEF Arrives
<1>5. \A k \in P : IF k <= m THEN k \in Received' ELSE k \in net'
  BY DEF ArrivedUpTo
<1> HIDE DEF P, a, z
<1>6. m \in P /\ m \in Nat /\ a \in Nat /\ z \in Nat /\ n \in Nat /\ m # z
  BY <1>1, <1>2 DEF P, z
<1>7. m = n
  <2> SUFFICES ASSUME m # n PROVE FALSE
    OBVIOUS
  <2>1. m \in Received
    BY <1>4, <1>5, <1>6
  <2>2. m < n
    BY <1>4, <2>1
  <2>3. m + 1 \in P /\ ~(m + 1 <= m)
    BY <1>1, <1>6
  <2>4. m + 1 \in net'
    BY <1>5, <2>3
  <2> QED
    BY <1>4, <1>6, <2>2, <2>4
<1>8. \A k \in P : k < n => k \in Received
  BY <1>2, <1>4, <1>5, <1>6, <1>7
<1> QED
  BY <1>3, <1>6, <1>7, <1>8, FollowedStep DEF P, a, z

\* The last packet of a frame that has arrived in full finishes it.
LEMMA IntactStep ==
  ASSUME IntactInv, Packetized, jitter = 0, NEW n \in Positions, MediaStep(n)
  PROVE  IntactFramesDelivered'
<1> SUFFICES ASSUME NEW f \in Timestamps, Intact(f)', GoodSize(f),
                    HasKey(f) \/ KeyframeBefore(f)'
             PROVE  HandedOut(f)'
  BY DEF IntactFramesDelivered
<1> DEFINE P == PacketsOf(f)
           a == Min(P)
           z == Max(P)
<1>1. P # {}
  <2>1. P = {} => WholeFrame(f) = <<>>
    BY DEF WholeFrame
  <2> HIDE DEF P
  <2> QED
    BY <2>1, BytesEmpty, LimitsAssumption DEF GoodSize
<1>2. /\ a \in P /\ z \in P /\ a <= z /\ P = a..z /\ WholeFrame(f) = Run(a, z)
      /\ a..z \subseteq Positions
      /\ \A m \in P : /\ Stream[m].start <=> m = a
                      /\ Stream[m].key => m = a
  BY <1>1, FrameShape
<1>3. P \subseteq Positions /\ Positions \subseteq Nat
  BY DEF Positions, PacketsOf
<1>4. /\ VarTypes /\ ArrivedInOrder /\ OrderInv /\ FrameFollowed /\ TypeOK
      /\ KeyframeSeen
  BY DEF IntactInv, OrderInv, AssemblerInv, TypeOK
<1>5. /\ n \notin Received /\ firstSeq' = firstSeq
      /\ Received' = Received \cup {n} /\ \A r \in Received : r < n
  BY <1>4, MediaStepFacts, Arrival
<1>6. P \subseteq Received' /\ \A m \in P : Stream[m].start => GapSeen(m)'
  BY DEF Intact
<1> HIDE DEF P, a, z
<1>7. GapSeen(a)'
  BY <1>2, <1>6
<1>8. CASE n \in P
  <2>1. n = z
    BY <1>2, <1>3, <1>5, <1>6, <1>8
  <2>2. \A m \in P : m < n => m \in Received
    BY <1>3, <1>5, <1>6
  <2>3. FinishFrame(n) /\ WithPacket(n) = WholeFrame(f)
    BY <1>4, <1>7, <1>8, <2>1, <2>2, FollowedStep DEF P, a, z
  <2>4. CompleteFrame(WholeFrame(f)) /\ AddPacket(n)
    BY <2>3 DEF FinishFrame
  <2>5. /\ WholeFrame(f) \in Seq(Positions) /\ WholeFrame(f)[1] = a
    <3>1. a \in Nat /\ z \in Int /\ a <= z + 1 /\ 1 \in 1..(z - a + 1) /\ a + 1 - 1 = a
      BY <1>2, <1>3
    <3>2. Run(a, z)[1] = a + 1 - 1
      BY <3>1, RunFacts
    <3>3. Run(a, z) \in Seq(Positions)
      BY <1>2, <3>1, RunType
    <3> QED
      BY <1>2, <3>1, <3>2, <3>3
  <2>6. Accepts(WholeFrame(f))
    <3>1. CASE HasKey(f)
      BY <1>2, <2>5, <3>1 DEF HasKey, Accepts, IsKeyframe, P
    <3>2. CASE KeyframeBefore(f)'
      <4>1. PICK k \in DOMAIN delivered' :
              IsKeyframe(delivered'[k]) /\ Timestamp(delivered'[k]) < f
        BY <3>2 DEF KeyframeBefore, IsKeyframe, Timestamp
      <4>2. ~EndPrevious(n)
        BY <1>4, <1>7, <1>8, <2>2, Followed, MediaStepFacts DEF EndPrevious, P, a
      <4>3. k \in DOMAIN delivered /\ delivered'[k] = delivered[k]
        BY <1>1, <1>4, <1>6, <4>1, <4>2, HandedOutLater DEF P
      <4> QED
        BY <1>4, <4>1, <4>3 DEF KeyframeSeen, Accepts
    <3> QED
      BY <3>1, <3>2
  <2> QED
    BY <1>4, <2>4, <2>5, <2>6, CompleteFrameHandsOut DEF GoodSize, HandedOut
<1>9. CASE n \notin P
  <2>1. P \subseteq Received /\ a \in Positions /\ a < n
    BY <1>2, <1>3, <1>5, <1>6, <1>9
  <2>2. GapSeen(a)
    <3>1. \A m \in Positions : m < a => (m \in Received <=> m \in Received')
      BY <1>3, <1>5, <2>1
    <3> QED
      BY <1>5, <1>7, <2>1, <3>1, GapSeenKept
  <2>3. Intact(f)
    BY <1>2, <2>1, <2>2 DEF Intact, P
  <2>4. KeyframeBefore(f)' => KeyframeBefore(f)
    <3> SUFFICES ASSUME NEW k \in DOMAIN delivered',
                        IsKeyframe(delivered'[k]), Timestamp(delivered'[k]) < f
                 PROVE  KeyframeBefore(f)
      BY DEF KeyframeBefore, IsKeyframe, Timestamp
    <3>1. k \in DOMAIN delivered /\ delivered'[k] = delivered[k]
      BY <1>1, <1>4, <1>6, <1>9, HandedOutLater DEF P
    <3> QED
      BY <3>1 DEF KeyframeBefore
  <2>5. HandedOut(f)
    BY <2>3, <2>4 DEF IntactInv, IntactFramesDelivered
  <2> QED
    BY <1>4, <2>5, DeliveredGrows DEF HandedOut
<1> QED
  BY <1>8, <1>9

LEMMA IntactInit == ASSUME Packetized, Init PROVE IntactInv
<1>1. OrderInv
  BY OrderInit
<1>2. Received = {} /\ delivered = <<>> /\ buffer = <<>>
  BY DEF Init, Received
<1>3. FrameFollowed
  <2>1. ASSUME NEW f \in Timestamps, NEW n \in PacketsOf(f) PROVE ~ArrivedUpTo(f, n)
    <3>1. n <= n
      BY DEF PacketsOf, Positions
    <3> QED
      BY <1>2, <3>1 DEF ArrivedUpTo
  <2> QED
    BY <2>1 DEF FrameFollowed
<1>4. IntactFramesDelivered
  <2> SUFFICES ASSUME NEW f \in Timestamps, Intact(f), GoodSize(f) PROVE FALSE
    BY DEF IntactFramesDelivered
  <2>1. PacketsOf(f) = {}
    BY <1>2 DEF Intact
  <2>2. WholeFrame(f) = <<>>
    BY <2>1 DEF WholeFrame
  <2> QED
    BY <2>2, BytesEmpty, LimitsAssumption DEF GoodSize
<1> QED
  BY <1>1, <1>3, <1>4 DEF IntactInv

LEMMA IntactNext == ASSUME Packetized, IntactInv, [Next]_vars PROVE IntactInv'
<1>1. OrderInv'
  BY OrderStep DEF IntactInv
<1>2. \/ \E n \in Positions : Unparsable(n) \/ Lose(n)
      \/ \E n \in Positions : MediaStep(n)
      \/ UNCHANGED vars
  BY DEF Next, MediaStep
<1>3. jitter' = jitter
  BY <1>2, MediaStepFacts, IdleStep
<1>4. ASSUME jitter = 0 PROVE FrameFollowed' /\ IntactFramesDelivered'
  BY <1>1, <1>2, <1>4, IdleIntact, FollowedInv, IntactStep
<1>5. jitter # 0 => IntactFramesDelivered'
  BY <1>3 DEF IntactFramesDelivered
<1> QED
  BY <1>1, <1>3, <1>4, <1>5 DEF IntactInv

\* The inductive invariant of frames that arrive whole.
THEOREM IntactInvariance == Packetized => (Spec => []IntactInv)
<1> SUFFICES ASSUME Packetized PROVE Spec => []IntactInv
  OBVIOUS
<1>1. Init => IntactInv
  BY IntactInit
<1>2. IntactInv /\ [Next]_vars => IntactInv'
  BY IntactNext
<1> QED
  BY <1>1, <1>2, PTL DEF Spec

\* Whatever else is lost, a frame whose packets all arrive in order is handed out
\* complete, once a keyframe has been: every loss before it that loss detection
\* sees empties the buffer, and every loss it does not see ends with the frame it
\* hit (ingest/main.go:1318-1356).
THEOREM IntactDelivered == Packetized => (Spec => []IntactFramesDelivered)
<1>1. IntactInv => IntactFramesDelivered
  BY DEF IntactInv
<1> QED
  BY <1>1, IntactInvariance, PTL
-----------------------------------------------------------------------------
(* Without loss *)

\* Every packet sent before one that has arrived has arrived.
LEMMA AllBefore ==
  ASSUME VarTypes, ArrivedInOrder, lost = {}, NEW n \in Received, NEW m \in Positions, m < n
  PROVE  m \in Received
<1>1. n \in Positions \ net /\ n \in Int /\ m \in Int
  BY DEF Received, Positions
<1>2. m \notin net
  BY <1>1 DEF ArrivedInOrder
<1> QED
  BY <1>2 DEF Received

\* A frame goes on with the next packet.
LEMMA FrameGoesOn ==
  ASSUME Packetized, NEW p \in Positions, Stream[p].bytes > 0, ~Stream[p].marker
  PROVE  /\ p + 1 \in PacketsOf(Stream[p].ts) /\ p + 1 \in Positions
         /\ Stream[p + 1].ts = Stream[p].ts /\ Stream[p + 1].bytes > 0
         /\ ~Stream[p + 1].start
<1> DEFINE P == PacketsOf(Stream[p].ts)
           a == Min(P)
           z == Max(P)
<1>1. p \in P /\ P \subseteq Nat
  BY DEF PacketsOf, Positions
<1>2. /\ a \in P /\ z \in P /\ P = a..z
      /\ \A n \in P : (Stream[n].start <=> n = a) /\ (Stream[n].marker <=> n = z)
  BY <1>1, FrameShape
<1>3. \A n \in P : n \in Positions /\ Stream[n].ts = Stream[p].ts /\ Stream[n].bytes > 0
  BY DEF PacketsOf
<1> HIDE DEF P, a, z
<1>4. a \in Nat /\ z \in Nat /\ p \in a..z /\ p # z
  BY <1>1, <1>2
<1>5. p + 1 \in a..z /\ p + 1 # a
  BY <1>4
<1> QED
  BY <1>2, <1>3, <1>5 DEF P

\* No gap: the last media packet before the start of a frame ends one.
LEMMA NoGap ==
  ASSUME VarTypes, ArrivedInOrder, lost = {}, Packetized, NEW n \in Received
  PROVE  GapSeen(n)
<1> SUFFICES ASSUME NEW p \in Received, p < n, Stream[p].bytes > 0,
                    \A m \in Received : m < n /\ Stream[m].bytes > 0 => m <= p,
                    ~Stream[p].marker
             PROVE  p = n - 1
  BY DEF GapSeen
<1>1. p \in Positions /\ p \in Nat /\ n \in Nat
  BY DEF Received, Positions
<1>2. p + 1 \in Positions /\ Stream[p + 1].bytes > 0
  BY <1>1, FrameGoesOn
<1>3. p + 1 < n => p + 1 \in Received
  BY <1>2, AllBefore
<1> QED
  BY <1>1, <1>2, <1>3

LEMMA FrameNotEmpty == ASSUME NEW f, GoodSize(f) PROVE PacketsOf(f) # {}
<1>1. PacketsOf(f) = {} => WholeFrame(f) = <<>>
  BY DEF WholeFrame
<1> QED
  BY <1>1, BytesEmpty, LimitsAssumption DEF GoodSize

\* The first and the last packet of a frame that is handed out.
LEMMA WholeFrameEnds ==
  ASSUME Packetized, NEW f, PacketsOf(f) # {}
  PROVE  LET a == Min(PacketsOf(f))
             z == Max(PacketsOf(f))
             b == WholeFrame(f) IN
         /\ b \in Seq(Positions) /\ b # <<>>
         /\ 1 \in DOMAIN b /\ b[1] = a /\ Len(b) \in DOMAIN b /\ b[Len(b)] = z
         /\ Timestamp(b) = f
         /\ IsKeyframe(b) <=> HasKey(f)
<1> DEFINE P == PacketsOf(f)
           a == Min(P)
           z == Max(P)
           b == WholeFrame(f)
<1>1. /\ a \in P /\ z \in P /\ a <= z /\ P = a..z /\ b = Run(a, z)
      /\ a..z \subseteq Positions /\ \A n \in P : Stream[n].key => n = a
  BY FrameShape
<1>2. P \subseteq Nat /\ \A n \in P : Stream[n].ts = f
  BY DEF PacketsOf, Positions
<1> HIDE DEF P, a, z, b
<1>3. a \in Nat /\ z \in Int /\ a <= z + 1 /\ z - a + 1 \in Nat \ {0}
  BY <1>1, <1>2
<1>4. b \in Seq(Positions)
  BY <1>1, <1>3, RunType
<1>5. Len(b) = z - a + 1 /\ DOMAIN b = 1..(z - a + 1)
      /\ \A i \in 1..(z - a + 1) : b[i] = a + i - 1
  BY <1>1, <1>3, RunFacts
<1>6. b[1] = a /\ b[Len(b)] = z /\ 1 \in DOMAIN b /\ Len(b) \in DOMAIN b
  BY <1>3, <1>5
<1>7. b # <<>>
  BY <1>3, <1>5
<1>8. Timestamp(b) = f /\ (IsKeyframe(b) <=> HasKey(f))
  BY <1>1, <1>2, <1>6 DEF Timestamp, IsKeyframe, HasKey, P
<1> QED
  BY <1>4, <1>6, <1>7, <1>8 DEF P, a, z, b

\* Without loss every expected frame that has arrived is handed out.
LEMMA ExpectedHandedOut ==
  ASSUME IntactInv, Packetized, lost = {}, jitter = 0,
         NEW f \in Expected, PacketsOf(f) \subseteq Received
  PROVE  HandedOut(f)
<1>1. VarTypes /\ ArrivedInOrder
  BY DEF IntactInv, OrderInv, AssemblerInv, TypeOK
<1>2. f \in Timestamps /\ GoodSize(f) /\ PacketsOf(f) # {}
  BY FrameNotEmpty DEF Expected
<1>3. \A g : PacketsOf(g) \subseteq Received => Intact(g)
  BY <1>1, NoGap DEF Intact
<1>4. CASE HasKey(f)
  BY <1>2, <1>3, <1>4 DEF IntactInv, IntactFramesDelivered
<1>5. CASE ~HasKey(f)
  <2>1. PICK g \in Timestamps : g <= f /\ GoodSize(g) /\ HasKey(g)
    BY DEF Expected
  <2>2. PICK n \in PacketsOf(f) : n \in Received /\ n \in Positions /\ Stream[n].ts = f
    BY <1>2 DEF PacketsOf
  <2>3. f \in Nat /\ g \in Nat /\ g < f
    <3>1. f \in Nat /\ g \in Nat
      BY <1>2, TimestampType DEF Timestamps
    <3> QED
      BY <1>5, <2>1, <3>1
  <2>4. PacketsOf(g) \subseteq Received
    <3> SUFFICES ASSUME NEW m \in PacketsOf(g) PROVE m \in Received
      OBVIOUS
    <3>1. m \in Positions /\ Stream[m].ts = g
      BY DEF PacketsOf
    <3>2. m < n
      <4>1. n < m => f <= g
        BY <2>2, <3>1 DEF Packetized
      <4> QED
        BY <2>2, <2>3, <3>1, <4>1 DEF Positions
    <3> QED
      BY <1>1, <2>2, <3>1, <3>2, AllBefore
  <2>5. HandedOut(g)
    BY <1>3, <2>1, <2>4 DEF IntactInv, IntactFramesDelivered
  <2>6. KeyframeBefore(f)
    <3>1. IsKeyframe(WholeFrame(g)) /\ Timestamp(WholeFrame(g)) = g
      BY <2>1, FrameNotEmpty, WholeFrameEnds
    <3> QED
      BY <2>3, <2>5, <3>1 DEF HandedOut, KeyframeBefore
  <2> QED
    BY <1>2, <1>3, <2>6 DEF IntactInv, IntactFramesDelivered
<1> QED
  BY <1>4, <1>5
\* The packet that arrives goes on with the frame under assembly, starts one, or
\* belongs to a frame that was dropped for its size.
LEMMA NoLossArrival ==
  ASSUME FaultFreeInv, Packetized, lost = {}, jitter = 0,
         NEW n \in Positions, MediaStep(n)
  PROVE  LET a == Min(PacketsOf(Stream[n].ts)) IN
         /\ ~EndsPrevious(n) /\ AddPacket(n)
         /\ currentTimestamp' = Stream[n].ts
         /\ \/ /\ Collecting(n) /\ WithPacket(n) = Run(a, n)
               /\ n # a => n - 1 >= a /\ buffer = Run(a, n - 1) /\ Bytes(buffer) <= MaxBytes
            \/ ~Collecting(n) /\ WithPacket(n) = <<>>
<1> DEFINE g == Stream[n].ts
           P == PacketsOf(g)
           a == Min(P)
<1>1. /\ TypeOK /\ VarTypes /\ StartedHasPacket /\ BufferOfOneFrame
      /\ ArrivedInOrder /\ BufferIsNewest /\ FrameUnderAssembly
  BY DEF FaultFreeInv, IntactInv, OrderInv, AssemblerInv, TypeOK
<1>2. /\ Arrives(n) /\ lost' = lost /\ Stream[n].bytes > 0 /\ n \in Nat
      /\ (~EndsPrevious(n) => AddPacket(n))
  BY MediaStepFacts DEF Positions
<1>3. /\ n \in net /\ n \notin Received /\ \A r \in Received : r < n
      /\ Received' = Received \cup {n} /\ ArrivedInOrder'
  BY <1>1, <1>2, Arrival
<1>4. \A m \in Positions : m < n => m \in Received
  <2> SUFFICES ASSUME NEW m \in Positions, m < n PROVE m \in Received
    OBVIOUS
  <2>1. m \in Positions \ net
    <3>1. \A k \in net : n <= k
      BY <1>1, <1>2, Arrival
    <3> QED
      BY <1>2, <3>1 DEF Positions
  <2> QED
    BY <2>1 DEF Received
<1>5. n \in P /\ P \subseteq Positions /\ P \subseteq Nat
  BY <1>2 DEF PacketsOf, Positions
<1>6. /\ a \in P /\ \A m \in P : a <= m /\ (Stream[m].start <=> m = a)
  <2> DEFINE z == Max(P)
  <2>1. /\ a \in P /\ z \in P /\ P = a..z
        /\ \A m \in a..z : Stream[m].start <=> m = a
    BY <1>5, FrameShape
  <2> HIDE DEF P, a, z
  <2> QED
    BY <1>5, <2>1
<1>7. CASE buffer # <<>>
  <2> DEFINE p == buffer[Len(buffer)]
  <2>1. Newest(p) /\ ~Stream[p].marker /\ lastSeqNum = SeqNum(p) /\ frameStarted
    BY <1>1, <1>7 DEF BufferIsNewest, StartedHasPacket
  <2>2. buffer = Run(Min(PacketsOf(currentTimestamp)), p) /\ Bytes(buffer) <= MaxBytes
        /\ Stream[p].ts = currentTimestamp
    BY <1>1, <1>7, <2>1 DEF FrameUnderAssembly, Newest, Received
  <2> HIDE DEF p
  <2>3. /\ p \in Received /\ p \in Positions /\ p \in Nat /\ p < n
        /\ Stream[p].bytes > 0
    BY <1>3, <2>1 DEF Newest, Received, Positions
  <2>4. /\ p + 1 \in Positions /\ Stream[p + 1].ts = Stream[p].ts
        /\ Stream[p + 1].bytes > 0 /\ ~Stream[p + 1].start
    BY <2>1, <2>3, FrameGoesOn
  <2>5. n = p + 1
    <3>1. p + 1 < n => p + 1 \in Received
      BY <1>4, <2>4
    <3>2. p + 1 \in Received => p + 1 <= p
      BY <2>1, <2>4 DEF Newest
    <3> QED
      BY <1>2, <2>3, <3>1, <3>2
  <2>6. ~LossSeen(n) /\ currentTimestamp = g /\ ~Stream[n].start
    BY <1>1, <2>1, <2>2, <2>3, <2>4, <2>5, NextNotLost
  <2>7. /\ ~EndsPrevious(n) /\ Collecting(n) /\ ~Begins(n)
        /\ WithPacket(n) = Append(buffer, n)
    BY <2>1, <2>6 DEF EndsPrevious, Started, NewTimestamp, Collecting, Begins, WithPacket, Kept
  <2>8. a <= p
    <3>1. p \in P
      BY <2>2, <2>3, <2>6 DEF PacketsOf
    <3> QED
      BY <1>6, <3>1
  <2>9. Run(a, n) = Append(Run(a, p), n)
    <3>1. p \in Int /\ a \in Nat /\ a <= p + 1
      BY <1>5, <1>6, <2>3, <2>8
    <3> QED
      BY <2>5, <3>1, RunAppend
  <2>10. n - 1 = p /\ n - 1 >= a /\ buffer = Run(a, p)
    BY <1>5, <1>6, <2>2, <2>3, <2>5, <2>6, <2>8
  <2>11. AddPacket(n) /\ currentTimestamp' = g
    BY <1>2, <2>6, <2>7 DEF AddPacket
  <2> QED
    BY <2>2, <2>7, <2>9, <2>10, <2>11
<1>8. CASE buffer = <<>> /\ n = a
  <2>1. ~Started(n) /\ Stream[n].start
    BY <1>1, <1>5, <1>6, <1>8 DEF Started, StartedHasPacket
  <2>2. ~EndsPrevious(n) /\ Begins(n) /\ Collecting(n) /\ WithPacket(n) = <<n>>
    BY <2>1 DEF EndsPrevious, Begins, Collecting, WithPacket
  <2>3. Run(a, n) = <<n>>
    BY <1>2, <1>8, RunEmpty
  <2>4. AddPacket(n) /\ currentTimestamp' = g
    BY <1>2, <2>2 DEF AddPacket
  <2> QED
    BY <1>8, <2>2, <2>3, <2>4
<1>9. CASE buffer = <<>> /\ n # a
  <2>1. ~Started(n) /\ Kept(n) = <<>> /\ ~Stream[n].start
    BY <1>1, <1>5, <1>6, <1>9 DEF Started, StartedHasPacket, Kept
  <2>2. n - 1 \in P
    <3> DEFINE z == Max(P)
    <3>1. P = a..z /\ z \in P
      BY <1>5, FrameShape
    <3> HIDE DEF P, a, z
    <3> QED
      BY <1>5, <1>6, <1>9, <3>1
  <2>3. /\ n - 1 \in Received /\ n - 1 \in Positions /\ Stream[n - 1].ts = g
        /\ Stream[n - 1].bytes > 0
    <3>1. /\ n - 1 \in Positions /\ Stream[n - 1].ts = g /\ Stream[n - 1].bytes > 0
      BY <2>2 DEF PacketsOf
    <3> QED
      BY <1>2, <1>4, <3>1
  <2>4. Newest(n - 1)
    <3>1. \A r \in Received : r <= n - 1
      BY <1>2, <1>3 DEF Received, Positions
    <3> QED
      BY <2>3, <3>1 DEF Newest
  <2>5. currentTimestamp = g
    BY <1>1, <2>3, <2>4 DEF FrameUnderAssembly
  <2>6. ~EndsPrevious(n) /\ ~Begins(n) /\ ~Collecting(n) /\ WithPacket(n) = <<>>
    BY <2>1, <2>5 DEF EndsPrevious, Begins, NewTimestamp, Collecting, WithPacket
  <2>7. AddPacket(n) /\ currentTimestamp' = g
    BY <1>2, <2>5, <2>6 DEF AddPacket
  <2> QED
    BY <2>6, <2>7
<1> QED
  BY <1>7, <1>8, <1>9

\* Without loss the last packet of a frame hands out an expected frame, later than
\* those before it.
LEMMA NoLossFinish ==
  ASSUME FaultFreeInv, Packetized, lost = {}, jitter = 0,
         NEW n \in Positions, FinishFrame(n),
         Bytes(WithPacket(n)) >= MinBytes, Accepts(WithPacket(n))
  PROVE  LET g == Stream[n].ts IN
         /\ WithPacket(n) = WholeFrame(g) /\ g \in Expected
         /\ \A k \in DOMAIN delivered : Timestamp(delivered[k]) < g
<1> DEFINE g == Stream[n].ts
           P == PacketsOf(g)
           a == Min(P)
           z == Max(P)
<1>1. MediaStep(n) /\ Collecting(n) /\ Stream[n].marker
  BY DEF MediaStep, FinishFrame
<1>2. /\ WithPacket(n) = Run(a, n)
      /\ n # a => n - 1 >= a /\ buffer = Run(a, n - 1) /\ Bytes(buffer) <= MaxBytes
  BY <1>1, NoLossArrival
<1>3. n \in P /\ Stream[n].bytes > 0 /\ P \subseteq Nat /\ n \in Nat
  BY <1>1, MediaStepFacts DEF PacketsOf, Positions
<1>4. /\ a \in P /\ z \in P /\ P = a..z /\ n = z /\ WholeFrame(g) = Run(a, z) /\ a <= z
  <2>1. /\ a \in P /\ z \in P /\ P = a..z /\ WholeFrame(g) = Run(a, z) /\ a <= z
        /\ \A m \in a..z : Stream[m].marker <=> m = z
    BY <1>3, FrameShape
  <2> HIDE DEF P, a, z
  <2> QED
    BY <1>1, <1>3, <2>1
<1> HIDE DEF P, a, z
<1>5. WithPacket(n) = WholeFrame(g)
  BY <1>2, <1>4
<1>6. GoodSize(g)
  <2>1. Front(WholeFrame(g)) = Run(a, z - 1)
    BY <1>3, <1>4, RunFront
  <2>2. CASE n # a
    BY <1>2, <1>4, <1>5, <2>1, <2>2 DEF GoodSize
  <2>3. CASE n = a
    <3>1. Run(a, z - 1) = <<>>
      BY <1>3, <1>4, <2>3, RunEmpty
    <3> QED
      BY <1>5, <2>1, <3>1, BytesEmpty, LimitsAssumption DEF GoodSize
  <2> QED
    BY <2>2, <2>3
<1>7. g \in Timestamps /\ g \in Nat
  BY TimestampType DEF Timestamps
<1>8. /\ VarTypes /\ ArrivedInOrder /\ KeyframeSeen /\ DeliveredArrived
      /\ \A k \in DOMAIN delivered : \E f \in Expected : delivered[k] = WholeFrame(f)
  BY DEF FaultFreeInv, IntactInv, OrderInv, AssemblerInv, TypeOK, HandedOutInOrder
<1>9. n \notin Received /\ \A r \in Received : r < n
  BY <1>1, <1>8, MediaStepFacts, Arrival
<1>10. ASSUME NEW k \in DOMAIN delivered, NEW f \in Expected, delivered[k] = WholeFrame(f)
       PROVE  f < g /\ Timestamp(delivered[k]) = f /\ (IsKeyframe(delivered[k]) <=> HasKey(f))
  <2> DEFINE y == Max(PacketsOf(f))
             b == WholeFrame(f)
  <2>1. PacketsOf(f) # {} /\ f \in Timestamps
    BY <1>10, FrameNotEmpty DEF Expected
  <2>2. /\ Len(b) \in DOMAIN b /\ b[Len(b)] = y /\ Timestamp(b) = f
        /\ (IsKeyframe(b) <=> HasKey(f))
    BY <2>1, WholeFrameEnds
  <2>3. y \in Received /\ y \in PacketsOf(f)
    BY <1>8, <1>10, <2>1, <2>2, FrameShape DEF DeliveredArrived
  <2> HIDE DEF y, b
  <2>4. y \in Positions /\ Stream[y].ts = f /\ y < n /\ f \in Nat
    BY <1>9, <2>3, TimestampType DEF PacketsOf
  <2>5. f <= g
    BY <2>4 DEF Packetized
  <2>6. f # g
    BY <1>3, <1>4, <2>3, <2>4 DEF y, z, P
  <2> QED
    BY <1>7, <1>10, <2>2, <2>4, <2>5, <2>6 DEF b
<1>11. \E k \in Timestamps : k <= g /\ GoodSize(k) /\ HasKey(k)
  <2>1. CASE IsKeyframe(WholeFrame(g))
    <3>1. HasKey(g)
      <4>1. PacketsOf(g) # {}
        BY <1>3 DEF P
      <4> QED
        BY <2>1, <4>1, WholeFrameEnds
    <3> QED
      BY <1>6, <1>7, <3>1
  <2>2. CASE ~waitForKeyframe
    <3>1. PICK k \in DOMAIN delivered : IsKeyframe(delivered[k])
      BY <1>8, <2>2 DEF KeyframeSeen
    <3>2. PICK f \in Expected : delivered[k] = WholeFrame(f)
      BY <1>8
    <3>3. f < g /\ HasKey(f) /\ f \in Timestamps /\ GoodSize(f)
      BY <1>10, <3>1, <3>2 DEF Expected
    <3>4. f <= g
      BY <1>7, <3>3, TimestampType DEF Timestamps
    <3> QED
      BY <3>3, <3>4
  <2> QED
    BY <1>5, <2>1, <2>2 DEF Accepts
<1>12. g \in Expected
  BY <1>6, <1>7, <1>11 DEF Expected
<1>13. \A k \in DOMAIN delivered : Timestamp(delivered[k]) < g
  BY <1>8, <1>10
<1> QED
  BY <1>5, <1>12, <1>13
\* The packets from the first of a frame to one of it.
LEMMA FrameStart ==
  ASSUME Packetized, NEW n \in Positions, Stream[n].bytes > 0
  PROVE  LET a == Min(PacketsOf(Stream[n].ts)) IN
         a \in Nat /\ n \in Nat /\ a <= n /\ a..n \subseteq Positions
<1> DEFINE P == PacketsOf(Stream[n].ts)
           a == Min(P)
           z == Max(P)
<1>1. n \in P /\ P \subseteq Nat
  BY DEF PacketsOf, Positions
<1>2. a \in P /\ z \in P /\ P = a..z /\ a..z \subseteq Positions
  BY <1>1, FrameShape
<1> HIDE DEF P, a, z
<1>3. a \in Nat /\ n \in Nat /\ z \in Nat /\ a <= n /\ n <= z
  BY <1>1, <1>2
<1>4. a..n \subseteq a..z
  BY <1>3
<1> QED
  BY <1>2, <1>3, <1>4 DEF P, a

\* What is handed out without loss: expected frames, in order, that have arrived.
LEMMA NoLossDelivered ==
  ASSUME FaultFreeInv, Packetized, lost = {}, jitter = 0,
         NEW n \in Positions, MediaStep(n)
  PROVE  HandedOutInOrder' /\ DeliveredArrived'
<1>1. /\ TypeOK /\ VarTypes /\ ArrivedInOrder /\ KeyframeSeen /\ DeliveredArrived
      /\ HandedOutInOrder
  BY DEF FaultFreeInv, IntactInv, OrderInv, AssemblerInv, TypeOK
<1>2. Received' = Received \cup {n} /\ \A r \in Received : r < n
  BY <1>1, MediaStepFacts, Arrival
<1>3. CASE delivered' = delivered
  BY <1>1, <1>2, <1>3 DEF HandedOutInOrder, DeliveredArrived, Timestamp
<1>4. CASE FinishFrame(n) /\ delivered' # delivered
  <2> DEFINE b == WithPacket(n)
             g == Stream[n].ts
  <2>1. AddPacket(n) /\ CompleteFrame(b)
    BY <1>4 DEF FinishFrame
  <2>2. Bytes(b) >= MinBytes /\ Accepts(b)
    BY <1>4, <2>1 DEF CompleteFrame
  <2>3. /\ b = WholeFrame(g) /\ g \in Expected
        /\ \A k \in DOMAIN delivered : Timestamp(delivered[k]) < g
    BY <1>4, <2>2, NoLossFinish
  <2>4. g \in Timestamps /\ PacketsOf(g) # {}
    BY <2>3, FrameNotEmpty DEF Expected
  <2>5. b \in Seq(Positions) /\ Timestamp(b) = g
    BY <2>3, <2>4, WholeFrameEnds
  <2>6. \A i \in DOMAIN b : b[i] \in Received'
    <3>2. b = Run(Min(PacketsOf(g)), n)
      <4>1. Collecting(n) /\ MediaStep(n)
        BY <1>4 DEF FinishFrame, MediaStep
      <4> QED
        BY <4>1, NoLossArrival
    <3> DEFINE a == Min(PacketsOf(g))
    <3>3. a \in Nat /\ n \in Nat /\ a <= n
      BY MediaStepFacts, FrameStart
    <3> HIDE DEF a, b
    <3>4. DOMAIN b = 1..(n - a + 1) /\ \A i \in 1..(n - a + 1) : b[i] = a + i - 1
      <4>1. n \in Int /\ a <= n + 1
        BY <3>3
      <4> QED
        BY <3>2, <3>3, <4>1, RunFacts DEF a
    <3>5. ASSUME NEW i \in DOMAIN b PROVE b[i] \in Received'
      <4>1. b[i] <= n /\ b[i] \in Nat
        BY <3>3, <3>4
      <4>2. b[i] \in Positions
        BY <2>5
      <4>3. CASE b[i] = n
        BY <1>2, <4>3
      <4>4. CASE b[i] < n
        <5>1. n \in Received' /\ lost' = {} /\ VarTypes' /\ ArrivedInOrder'
          <6>1. lost' = lost /\ ArrivedInOrder'
            BY <1>1, <1>4, MediaStepFacts, Arrival
          <6>2. VarTypes'
            BY <1>4, NextInv
               DEF MediaStep, Next, FaultFreeInv, IntactInv, OrderInv, AssemblerInv, TypeOK
          <6> QED
            BY <1>2, <6>1, <6>2
        <5>2. b[i] \notin net'
          BY <4>2, <4>4, <5>1 DEF ArrivedInOrder, Received, Positions
        <5> QED
          BY <4>2, <5>1, <5>2 DEF Received
      <4> QED
        BY <3>3, <4>1, <4>3, <4>4
    <3> QED
      BY <3>5
  <2> HIDE DEF b, g
  <2>7. \A k \in DOMAIN delivered' :
          \/ k \in DOMAIN delivered /\ delivered'[k] = delivered[k]
          \/ delivered'[k] = b /\ k = Len(delivered) + 1
    BY <1>1, <2>1, <2>5, CompleteFrameHandsOut
  <2>8. \A k \in DOMAIN delivered' : \E f \in Expected : delivered'[k] = WholeFrame(f)
    BY <1>1, <2>3, <2>7 DEF HandedOutInOrder
  <2>9. ASSUME NEW j \in DOMAIN delivered', NEW k \in DOMAIN delivered', j < k
        PROVE  Timestamp(delivered'[j]) < Timestamp(delivered'[k])
    <3>1. j \in DOMAIN delivered /\ delivered'[j] = delivered[j]
      <4>1. DOMAIN delivered = 1..Len(delivered) /\ Len(delivered) \in Nat
        BY <1>1 DEF VarTypes
      <4> QED
        BY <2>7, <2>9, <4>1
    <3> QED
      BY <1>1, <2>3, <2>5, <2>7, <2>9, <3>1 DEF HandedOutInOrder
  <2>10. HandedOutInOrder'
    BY <2>8, <2>9 DEF HandedOutInOrder, Timestamp
  <2>11. DeliveredArrived'
    BY <1>1, <1>2, <2>6, <2>7 DEF DeliveredArrived
  <2> QED
    BY <2>10, <2>11
<1>5. ~EndPrevious(n)
  BY NoLossArrival DEF EndPrevious
<1> QED
  BY <1>3, <1>4, <1>5 DEF MediaStep, DropOversized, KeepPacket

\* The buffer stays the frame under assembly.
LEMMA NoLossBuffer ==
  ASSUME FaultFreeInv, OrderInv', Packetized, lost = {}, jitter = 0,
         NEW n \in Positions, MediaStep(n)
  PROVE  FrameUnderAssembly'
<1> DEFINE a == Min(PacketsOf(Stream[n].ts))
<1>1. VarTypes /\ ArrivedInOrder
  BY DEF FaultFreeInv, IntactInv, OrderInv, AssemblerInv, TypeOK
<1>2. /\ ~EndsPrevious(n) /\ AddPacket(n) /\ currentTimestamp' = Stream[n].ts
      /\ Collecting(n) => WithPacket(n) = Run(a, n)
      /\ ~Collecting(n) => WithPacket(n) = <<>>
  BY NoLossArrival
<1>3. Newest(n)'
  BY <1>1, MediaStepFacts, MediaArrival
<1>4. \A p \in Positions : Newest(p)' => p = n
  BY <1>3 DEF Newest, Received, Positions
<1>5. ASSUME buffer' # <<>>
      PROVE  buffer' = Run(a, buffer'[Len(buffer')]) /\ Bytes(buffer') <= MaxBytes
  <2>1. KeepPacket(n)
    BY <1>2, <1>5 DEF MediaStep, EndPrevious, FinishFrame, DropOversized, CompleteFrame, Reset
  <2>2. buffer' = Run(a, n) /\ ~TooLong(buffer')
    BY <1>2, <1>5, <2>1 DEF KeepPacket
  <2> DEFINE q == buffer'[Len(buffer')]
  <2>3. q = n
    <3>1. jitter' = 0 /\ BufferIsNewest'
      BY MediaStepFacts DEF OrderInv
    <3>2. /\ q \in Received' /\ Stream[q].bytes > 0
          /\ \A m \in Received' : Stream[m].bytes > 0 => m <= q
      BY <1>5, <3>1 DEF BufferIsNewest, Newest
    <3> HIDE DEF q
    <3>3. q \in Int /\ n \in Int
      BY <3>2 DEF Received, Positions
    <3> QED
      BY <1>3, <3>2, <3>3 DEF Newest
  <2>4. Bytes(buffer') \in Nat
    <3>1. a \in Nat /\ n \in Nat /\ a <= n /\ a..n \subseteq Positions
      BY MediaStepFacts, FrameStart
    <3> HIDE DEF a
    <3>2. n \in Int /\ a <= n + 1 /\ n <= n
      BY <3>1
    <3>3. Bytes(Run(a, n)) \in Nat
      BY <3>1, <3>2, BytesGrow
    <3> QED
      BY <2>2, <3>3
  <2> QED
    BY <2>2, <2>3, <2>4, LimitsAssumption DEF TooLong
<1> QED
  BY <1>2, <1>4, <1>5 DEF FrameUnderAssembly

LEMMA FaultFreeInit == ASSUME Packetized, Init PROVE FaultFreeInv
<1>1. IntactInv
  BY IntactInit
<1>2. FrameUnderAssembly /\ DeliveredArrived /\ HandedOutInOrder
  BY DEF Init, FrameUnderAssembly, Newest, Received, DeliveredArrived, HandedOutInOrder
<1> QED
  BY <1>1, <1>2 DEF FaultFreeInv

LEMMA FaultFreeNext == ASSUME Packetized, FaultFreeInv, [Next]_vars PROVE FaultFreeInv'
<1>1. IntactInv' /\ OrderInv'
  BY IntactNext DEF FaultFreeInv, IntactInv
<1>2. ASSUME lost' = {}, jitter' = 0
      PROVE  FrameUnderAssembly' /\ DeliveredArrived' /\ HandedOutInOrder'
  <2>1. CASE \E n \in Positions : MediaStep(n)
    BY <1>1, <1>2, <2>1, MediaStepFacts, NoLossDelivered, NoLossBuffer
  <2>2. CASE \/ \E n \in Positions : Unparsable(n) \/ Lose(n)
             \/ UNCHANGED vars
    <3>1. UNCHANGED <<firstSeq, jitter, assembler>>
      BY <2>2, IdleStep DEF FaultFreeInv
    <3>2. lost = {} /\ jitter = 0
      BY <1>2, <2>2, <3>1 DEF Unparsable, Lose, vars
    <3>3. \A m \in Positions : Stream[m].bytes > 0 => (m \in Received <=> m \in Received')
      BY <2>2, <3>2, IdleStep DEF FaultFreeInv
    <3>4. Received \subseteq Received'
      BY <1>2, <2>2, <3>2 DEF Unparsable, Arrives, Lose, vars, Received
    <3>5. FrameUnderAssembly /\ DeliveredArrived /\ HandedOutInOrder
      BY <3>2 DEF FaultFreeInv
    <3>6. \A p \in Positions : Newest(p)' => Newest(p)
      BY <3>3 DEF Newest, Received
    <3> QED
      BY <3>1, <3>4, <3>5, <3>6
         DEF assembler, FrameUnderAssembly, DeliveredArrived, HandedOutInOrder, Timestamp
  <2> QED
    BY <2>1, <2>2 DEF Next, MediaStep
<1> QED
  BY <1>1, <1>2 DEF FaultFreeInv

\* The inductive invariant of delivery without loss.
THEOREM FaultFreeInvariance == Packetized => (Spec => []FaultFreeInv)
<1> SUFFICES ASSUME Packetized PROVE Spec => []FaultFreeInv
  OBVIOUS
<1>1. Init => FaultFreeInv
  BY FaultFreeInit
<1>2. FaultFreeInv /\ [Next]_vars => FaultFreeInv'
  BY FaultFreeNext
<1> QED
  BY <1>1, <1>2, PTL DEF Spec

\* Without loss or overtaking exactly the frames of acceptable size from the first
\* such keyframe on are handed out, each once, in order, and as soon as its last
\* packet has arrived (ingest/main.go:1303-1408).
THEOREM FaultFree == Packetized => (Spec => []FaultFreeDelivery)
<1> SUFFICES ASSUME Packetized PROVE Spec => []FaultFreeDelivery
  OBVIOUS
<1>1. FaultFreeInv => FaultFreeDelivery
  BY ExpectedHandedOut DEF FaultFreeInv, FaultFreeDelivery
<1> QED
  BY <1>1, FaultFreeInvariance, PTL
=============================================================================
