------------------------------ MODULE EmailRow ------------------------------
(***************************************************************************)
(* One row of the `emails' table and the writes that several handlers      *)
(* share: settle, acceptEmail, and the precedence in which evidence about  *)
(* a message moves its status.  There is no state here, only operators on  *)
(* a row.  Subject, body, tags and timestamps are abstracted away.         *)
(***************************************************************************)
EXTENDS Integers

CONSTANT Addresses      \* the addresses every email is sent to

\* `emailStatusValue'.
Status == {"queued", "scheduled", "sent", "delivered", "delivery_delayed",
           "opened", "clicked", "bounced", "complained", "failed",
           "canceled", "suppressed"}

\* Waiting for its time or for the sender; every other status is past that.
Pending == {"queued", "scheduled"}
Engaged == {"opened", "clicked"}
Withheld == {"canceled", "suppressed"}

(***************************************************************************)
(* msg is the SES message id the row remembers (0 for none), sentAt says   *)
(* whether an acceptance is on record, rate whether a rateReadyAt is held, *)
(* dropped is the `suppressed' list of the last claim.                     *)
(***************************************************************************)
Row == [status : Status, gen : Nat, claimed : BOOLEAN, attempts : Nat,
        rate : BOOLEAN, sentAt : BOOLEAN, msg : Nat,
        dropped : SUBSET Addresses]

Fresh(status) ==
    [status |-> status, gen |-> 0, claimed |-> FALSE, attempts |-> 0,
     rate |-> FALSE, sentAt |-> FALSE, msg |-> 0, dropped |-> {}]

SettledAs(row, status) == [row EXCEPT !.status = status, !.claimed = FALSE]

\* No recipient is left.
SuppressedAs(row) ==
    [row EXCEPT !.status = "suppressed", !.claimed = FALSE,
                !.dropped = Addresses]

\* Mutant of ClaimedAs: the reservation outlives the claim it paid for.
ClaimedKeepingRate(row, dropped) ==
    [row EXCEPT !.claimed = TRUE, !.attempts = row.attempts + 1,
                !.dropped = IF dropped = {} THEN row.dropped ELSE dropped]

\* claim succeeds without the recipients `dropped'; an empty list is not
\* saved over an earlier one.
ClaimedAs(row, dropped) ==
    [row EXCEPT !.claimed = TRUE, !.rate = FALSE,
                !.attempts = row.attempts + 1,
                !.dropped = IF dropped = {} THEN row.dropped ELSE dropped]

\* Mutants of AcceptedAs: later evidence overwrites earlier; the status too.
AcceptedAgain(row, m) ==
    [row EXCEPT !.msg = m, !.sentAt = TRUE, !.claimed = FALSE,
                !.status = IF @ \in Pending THEN "sent" ELSE @]
AcceptedAsSent(row, m) ==
    IF row.sentAt
    THEN row
    ELSE [row EXCEPT !.msg = m, !.sentAt = TRUE, !.claimed = FALSE,
                     !.status = "sent"]

\* acceptEmail: the first evidence of acceptance is recorded, a second is not,
\* and a status that feedback or a failure already set is left alone.
AcceptedAs(row, m) ==
    IF row.sentAt
    THEN row
    ELSE [row EXCEPT !.msg = m, !.sentAt = TRUE, !.claimed = FALSE,
                     !.status = IF @ \in Pending THEN "sent" ELSE @]

\* RANK.
Rank == [s \in Status |->
            CASE s \in Pending -> 0
              [] s = "sent" -> 1
              [] s = "delivery_delayed" -> 2
              [] s = "failed" -> 3
              [] s = "delivered" -> 4
              [] s = "opened" -> 5
              [] s = "clicked" -> 6
              [] s = "bounced" -> 7
              [] s = "complained" -> 8
              [] s \in Withheld -> 9]

\* What a piece of evidence for `status' does to the row's status.
Raised(row, status) ==
    IF Rank[status] > Rank[row.status] THEN [row EXCEPT !.status = status]
                                       ELSE row

\* emailAddresses: the recipients the row says were handed to SES.
Reached(row) == Addresses \ row.dropped
=============================================================================
