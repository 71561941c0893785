---------------------------- MODULE MCNegotiation ----------------------------
(* Instances of Negotiation for TLC.                                          *)
EXTENDS Negotiation, TLC

CONSTANTS anna, ben

\* ben takes the worker away from anna, who can come back.
MCConns == anna :> 2 @@ ben :> 1
=============================================================================
