------------------------ MODULE MCVP8FrameAssembler ------------------------
(* Instances of VP8FrameAssembler for TLC.  Sizes are in units small enough   *)
(* to reach every limit; sequence numbers wrap at SeqSpace.                     *)
EXTENDS VP8FrameAssembler

\* Frame f as the browser's packetizer sends it: count packets of size bytes.
FramePackets(f, keyframe, count, size) ==
  [i \in 1..count |-> [ts |-> f, start |-> i = 1, marker |-> i = count,
                       key |-> keyframe /\ i = 1, bytes |-> size]]

\* A padding packet the browser sends after frame f to probe the bandwidth.
Padding(f) == <<[ts |-> f, start |-> FALSE, marker |-> FALSE, key |-> FALSE,
                 bytes |-> 0]>>

\* An inter-frame before any keyframe, a keyframe of three packets, padding, a
\* frame below MinBytes, an inter-frame that outgrows MaxBytes = 4 with a packet
\* to come, and one that is as long as a frame may become.
MixedStream == FramePackets(1, FALSE, 1, 2) \o FramePackets(2, TRUE, 3, 2)
               \o Padding(2) \o FramePackets(3, FALSE, 1, 1)
               \o FramePackets(4, FALSE, 4, 2) \o FramePackets(5, FALSE, 3, 2)

\* A keyframe and inter-frames.
PlainStream == FramePackets(1, TRUE, 3, 2) \o FramePackets(2, FALSE, 3, 2)
               \o FramePackets(3, FALSE, 2, 2)

\* Every first number in order; packets overtaking two others with the number 0
\* in the keyframe.
InOrder  == (0..(SeqSpace - 1)) \X {0}
AnyOrder == InOrder \cup ({14} \X {2})
NoZero   == {1, 2} \X {0}

\* The streams are as a packetizer makes them.
ASSUME MCStreamAssumption == Packetized
=============================================================================
