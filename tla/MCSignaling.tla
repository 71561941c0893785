---------------------------- MODULE MCSignaling ----------------------------
(* The instance of Signaling for TLC: a worker, the same worker reconnecting  *)
(* under its id as a restarted worker does, and a browser.                    *)
EXTENDS Signaling, TLC

CONSTANTS c1, c2, c3, worker, anna

MCConns == {c1, c2, c3}
MCIds   == {worker, anna}
MCIdOf  == (c1 :> worker @@ c2 :> worker @@ c3 :> anna)

\* The browser's messages have an order to keep.
MCSends == (c1 :> 1 @@ c2 :> 1 @@ c3 :> 2)
=============================================================================
