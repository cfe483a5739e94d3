----------------------------- MODULE MCWebhooks -----------------------------
(***************************************************************************)
(* Instances of the webhooks for TLC.                                      *)
(***************************************************************************)
EXTENDS Webhooks

CONSTANTS h1, h2, m1
=============================================================================
