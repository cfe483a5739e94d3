------------------------------ MODULE MCEmails ------------------------------
(***************************************************************************)
(* Instances of the send pipeline for TLC.                                 *)
(***************************************************************************)
EXTENDS Emails

CONSTANTS e1, e2, a1, a2
=============================================================================
