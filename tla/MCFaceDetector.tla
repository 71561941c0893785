--------------------------- MODULE MCFaceDetector ---------------------------
(* Instances of FaceDetector for TLC: a worker that streams VP8, and the ping *)
(* a worker sends at its start, which uses the codec string "RAW".            *)
EXTENDS FaceDetector

KeyFrame == [codec |-> "VP8", key |-> TRUE,  len |-> "fits"]
PFrame   == [codec |-> "VP8", key |-> FALSE, len |-> "fits"]
Ping     == [codec |-> "RAW", key |-> FALSE, len |-> "fits"]
BigKey   == [codec |-> "VP8", key |-> TRUE,  len |-> "oversized"]
NoBytes  == [codec |-> "VP8", key |-> FALSE, len |-> "empty"]

MCCodecs == {"VP8", "RAW"}

AllRequests    == {KeyFrame, PFrame, Ping, BigKey, NoBytes}
StreamRequests == {KeyFrame, PFrame}
StreamAndPing  == {KeyFrame, PFrame, Ping}
=============================================================================
