------------------------------- MODULE MCInbound -------------------------------
(***************************************************************************)
(* Instances of receiving for TLC.                                         *)
(***************************************************************************)
EXTENDS Inbound

CONSTANTS m1

\* Every row is of the one message.
AllOfOne == [r \in Rows |-> m1]
=============================================================================
