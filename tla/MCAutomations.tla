--------------------------- MODULE MCAutomations ---------------------------
(***************************************************************************)
(* Instances of the automations for TLC.                                   *)
(***************************************************************************)
EXTENDS Automations

CONSTANTS await, check, send, sleep

\* A wait; where its event comes, a condition and then an email; where its
\* deadline comes first, a delay.
KindOf == [k \in Keys |->
    CASE k = await -> "wait" [] k = check -> "condition" [] k = send -> "act" [] OTHER -> "delay"]
ThenOf == [k \in Keys |->
    CASE k = await -> check [] k = check -> send [] OTHER -> NoKey]
OtherwiseOf == [k \in Keys |-> IF k = await THEN sleep ELSE NoKey]
=============================================================================
