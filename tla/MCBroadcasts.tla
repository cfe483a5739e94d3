---------------------------- MODULE MCBroadcasts ----------------------------
(***************************************************************************)
(* Instances of the broadcasts for TLC.                                    *)
(***************************************************************************)
EXTENDS Broadcasts

CONSTANTS a1, a2, a3

InOrder == <<a1, a2, a3>>
=============================================================================
