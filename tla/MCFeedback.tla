----------------------------- MODULE MCFeedback -----------------------------
(***************************************************************************)
(* Instances of the send pipeline with its feedback for TLC.               *)
(***************************************************************************)
EXTENDS Feedback

CONSTANTS e1, e2, a1, a2

\* One email in each behaviour: emails meet only in the suppression list.
OneEmail == Cardinality(born) <= 1
=============================================================================
