--------------------------- MODULE MCIdempotency ---------------------------
(***************************************************************************)
(* Instances of the idempotency keys for TLC.                              *)
(***************************************************************************)
EXTENDS Idempotency

CONSTANTS r1, r2, r3, r4

\* The last request has another payload.
OneOther == [r \in Requests |-> IF r = r4 THEN "other" ELSE "same"]
=============================================================================
