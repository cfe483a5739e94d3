---------------------------- MODULE FeedbackProofs ----------------------------
(***************************************************************************)
(* Theorems about the send pipeline composed with what comes back: SNS     *)
(* notifications and tracking hits, for any number of emails, addresses,   *)
(* notifications, redeliveries and retries.                                *)
(*                                                                         *)
(* Every step writes at most one row, in one of six ways (EmailStep).  The *)
(* ways are found once, action by action; that each of them keeps what the *)
(* rows promise is then a matter of the ways alone.                        *)
(***************************************************************************)
EXTENDS Feedback, EmailsProofs, FiniteSetTheorems

(***************************************************************************)
(* The inductive invariant.                                                *)
(***************************************************************************)
Evidence(e, m) == \E a \in accepted : a.email = e /\ a.msg = m

\* Statuses that only a recorded acceptance or its feedback sets.
Proven == {"sent", "delivered", "delivery_delayed", "bounced", "complained"}

\* What the row of an email the team keeps says is so.
RowFits(e) ==
    /\ row[e].sentAt <=> row[e].msg # 0
    /\ row[e].sentAt => /\ ~row[e].claimed
                        /\ row[e].status \notin Pending
                        /\ Evidence(e, row[e].msg)
    /\ row[e].status \in Proven => row[e].sentAt
    /\ row[e].status \in Engaged => Sent(e) # {}
    /\ row[e].status \in Pending => e \in content
    /\ e \in System => /\ row[e].status # "scheduled"
                       /\ row[e].status \notin Pending => e \notin content

RowsFit == \A e \in emails : RowFits(e)

\* Acceptances are counted, an email that does not exist yet has none.
AcceptancesCounted ==
    /\ OneSentEntry
    /\ \A e \in Emails \ born : ~row[e].sentAt

\* A run in flight has claimed its email, and still has it unless SES itself
\* told of the acceptance; what a run reports is so.
FlightsClaimed ==
    \A r \in runs :
        /\ r.phase \in InFlight /\ r.email \in emails =>
             /\ row[r.email].attempts > 0
             /\ row[r.email].claimed \/ row[r.email].sentAt
        /\ r.phase = "sent" => Evidence(r.email, r.msg)

\* No email is at SES that was not claimed; every request has a number.
SesTold ==
    /\ \A e \in emails : AtSes(e) => row[e].attempts > 0
    /\ \A q \in wire : q.msg # 0
    /\ \A m \in accepted : m.msg # 0

\* The events of an email that enter its timeline.
Entered(e) == {ev \in projected : ev.email = e /\ KindStatus[ev.kind] # "sent"}

\* What is stored is about a message SES has, and what is applied is counted.
EventsReal ==
    /\ \A ev \in stored : Evidence(ev.email, ev.msg)
    /\ \A j \in projectJobs : j.event \in stored
    /\ IsFiniteSet(projected)
    /\ \A e \in Emails : entries[e] = Cardinality(Entered(e))

\* Why feedback was given up, said so that no later step can undo it: the sender
\* of an email that was opened without an acceptance has no run left.
GivenUpFor(ev) ==
    \/ ev.email \notin emails
    \/ Retired(ev.email)
    \/ ev.email \in sdkRetried
    \/ /\ row[ev.email].msg = 0
       /\ row[ev.email].status \in Engaged
       /\ ~row[ev.email].claimed
    \/ ev.to \in row[ev.email].dropped

GivenUpOnlyFor == \A ev \in stored : GivenUp(ev) => GivenUpFor(ev)

FeedbackInv ==
    /\ FeedbackTypeOK
    /\ SendInv
    /\ RowsFit
    /\ AcceptancesCounted
    /\ FlightsClaimed
    /\ SesTold
    /\ EventsReal
    /\ GivenUpOnlyFor

(***************************************************************************)
(* The ways a step writes a row.                                           *)
(***************************************************************************)
\* Nothing of the email changes, or it is erased.
Stays(e) ==
    /\ row'[e] = row[e]
    /\ sentEntries'[e] = sentEntries[e]
    /\ e \in emails' => e \in emails /\ (e \in content' <=> e \in content)

Appears(e) ==
    /\ e \in emails' \ born
    /\ e \in content'
    /\ row'[e].status \in Pending
    /\ e \in System => row'[e].status # "scheduled"
    /\ ~row'[e].claimed /\ ~row'[e].sentAt /\ row'[e].msg = 0
    /\ sentEntries'[e] = sentEntries[e]

\* The email stays and the step says nothing of an acceptance; a claim is given
\* up by a run that ends.
Silent(e) ==
    /\ e \in emails /\ e \in emails'
    /\ row'[e].sentAt <=> row[e].sentAt
    /\ row'[e].msg = row[e].msg
    /\ row[e].attempts <= row'[e].attempts
    /\ sentEntries'[e] = sentEntries[e]
    /\ row[e].claimed /\ ~row'[e].claimed =>
         \A s \in runs' : s.email = e => s.phase \notin InFlight

\* An email on its way out moves on, or is withheld.
MovesOn(e) ==
    /\ Silent(e)
    /\ row[e].status \in Pending
    /\ row'[e].status \in Pending \cup Withheld
    /\ row'[e].status = "scheduled" => row[e].status = "scheduled"
    /\ row'[e].status \in Withheld => e \notin System
    /\ \/ row'[e].dropped = row[e].dropped
       \/ row[e].status = "queued" /\ ~row[e].claimed
    /\ e \in content' <=> e \in content

Fails(e) ==
    /\ Silent(e)
    /\ row[e].status = "queued"
    /\ row'[e].status = "failed"
    /\ ~row'[e].claimed
    /\ row'[e].dropped = row[e].dropped
    /\ e \in content' <=> e \in content /\ e \notin System

\* Evidence of an acceptance, with what the notification that brought it says.
IsAccepted(e) ==
    /\ e \in emails /\ e \in emails'
    /\ row[e].status \notin Withheld \cup {"scheduled"}
    /\ row[e].sentAt \/ row[e].claimed \/ row[e].status = "failed"
    /\ row'[e].sentAt
    /\ row[e].sentAt => row'[e].msg = row[e].msg
    /\ ~row[e].sentAt => row'[e].msg # 0 /\ Evidence(e, row'[e].msg)
    /\ row'[e].claimed => row[e].sentAt /\ row[e].claimed
    /\ row'[e].status \notin Pending \cup Withheld
    /\ Rank[row[e].status] <= Rank[row'[e].status]
    /\ row'[e].attempts = row[e].attempts
    /\ row'[e].dropped = row[e].dropped
    /\ sentEntries'[e] = IF row[e].sentAt THEN sentEntries[e] ELSE sentEntries[e] + 1
    /\ e \in content' <=> e \in content /\ (row[e].sentAt \/ e \notin System)

IsOpened(e) ==
    /\ Silent(e)
    /\ Sent(e) # {}
    /\ e \notin System
    /\ row[e].status \notin Withheld \cup {"scheduled"}
    /\ row'[e].status \in Engaged \cup {row[e].status}
    /\ Rank[row[e].status] <= Rank[row'[e].status]
    /\ row'[e].claimed <=> row[e].claimed
    /\ row'[e].dropped = row[e].dropped
    /\ e \in content' <=> e \in content

EmailStep(e) ==
    \/ Stays(e)
    \/ Appears(e)
    \/ MovesOn(e)
    \/ Fails(e)
    \/ IsAccepted(e)
    \/ IsOpened(e)

OthersStay(e) == \A f \in Emails \ {e} : Stays(f)

\* A write to one row.
LEMMA OneRow ==
    ASSUME TypeOK, NEW e \in Emails, NEW x,
           row' = [row EXCEPT ![e] = x],
           emails' = emails,
           sentEntries' = sentEntries \/ \E n : sentEntries' = [sentEntries EXCEPT ![e] = n],
           content' \in {content, content \ {e}}
    PROVE  OthersStay(e) /\ row'[e] = x
  BY DEF OthersStay, Stays, TypeOK

\* A step that leaves the table alone, rows that are erased aside.
LEMMA TableStays ==
    ASSUME emails' \subseteq emails, UNCHANGED <<row, sentEntries>>,
           \A e \in emails' : e \in content' <=> e \in content
    PROVE  \A e \in Emails : EmailStep(e)
  BY DEF EmailStep, Stays

LEMMA RankOfPending ==
    /\ \A s \in Status : Rank[s] \in Nat
    /\ \A s \in Pending : Rank[s] = 0
    /\ \A s \in Status \ Pending : Rank[s] >= 1
  BY DEF Rank, Status, Pending, Withheld

LEMMA StepUser ==
    ASSUME FeedbackInv, NEW e \in Emails, UserStep(e) \/ Prune(e) \/ PurgeEmail(e)
    PROVE  \A f \in Emails : EmailStep(f)
  <1>0. TypeOK /\ row \in [Emails -> Row] /\ emails \subseteq born /\ RowsFit
    BY DEF FeedbackInv, FeedbackTypeOK, TypeOK
  <1>1. CASE CreateNow(e) \/ CreateScheduled(e)
    <2>1. Appears(e)
      BY <1>0, <1>1 DEF CreateNow, CreateScheduled, Appears, Fresh, Pending
    <2>2. OthersStay(e)
      BY <1>0, <1>1 DEF CreateNow, CreateScheduled, OthersStay, Stays
    <2> QED
      BY <2>1, <2>2 DEF OthersStay, EmailStep
  <1>2. CASE CancelEmail(e)
    <2> DEFINE x == [row[e] EXCEPT !.status = "canceled", !.gen = row[e].gen + 1]
    <2>1. /\ row' = [row EXCEPT ![e] = x]
          /\ e \in emails /\ row[e].status = "scheduled"
          /\ UNCHANGED <<emails, content, sentEntries, runs>>
      BY <1>0, <1>2 DEF CancelEmail, pool
    <2>2. /\ x.status = "canceled" /\ (x.sentAt <=> row[e].sentAt) /\ x.msg = row[e].msg
          /\ x.attempts = row[e].attempts /\ x.attempts \in Nat
          /\ (x.claimed <=> row[e].claimed) /\ x.dropped = row[e].dropped
      BY <1>0 DEF Row
    <2> HIDE DEF x
    <2>3. OthersStay(e) /\ row'[e] = x
      BY <1>0, <2>1, OneRow
    <2>4. e \notin System
      BY <1>0, <2>1 DEF RowsFit, RowFits
    <2>5. MovesOn(e)
      BY <2>1, <2>2, <2>3, <2>4 DEF MovesOn, Silent, Pending, Withheld
    <2> QED
      BY <2>3, <2>5 DEF OthersStay, EmailStep
  <1>3. CASE RescheduleEmail(e)
    <2> DEFINE x == [row[e] EXCEPT !.gen = row[e].gen + 1]
    <2>1. /\ row' = [row EXCEPT ![e] = x]
          /\ e \in emails /\ row[e].status = "scheduled"
          /\ UNCHANGED <<emails, content, sentEntries, runs>>
      BY <1>0, <1>3 DEF RescheduleEmail, pool
    <2>2. /\ x.status = "scheduled" /\ (x.sentAt <=> row[e].sentAt) /\ x.msg = row[e].msg
          /\ x.attempts = row[e].attempts /\ x.attempts \in Nat
          /\ (x.claimed <=> row[e].claimed) /\ x.dropped = row[e].dropped
      BY <1>0, <2>1 DEF Row
    <2> HIDE DEF x
    <2>3. OthersStay(e) /\ row'[e] = x
      BY <1>0, <2>1, OneRow
    <2>4. MovesOn(e)
      BY <2>1, <2>2, <2>3 DEF MovesOn, Silent, Pending, Withheld
    <2> QED
      BY <2>3, <2>4 DEF OthersStay, EmailStep
  <1>4. CASE Prune(e) \/ PurgeEmail(e)
    BY <1>4, TableStays DEF Prune, PurgeEmail, Erase
  <1> QED
    BY <1>1, <1>2, <1>3, <1>4 DEF UserStep

LEMMA StepRelease ==
    ASSUME FeedbackInv, NEW j \in jobs, Release(j)
    PROVE  \A f \in Emails : EmailStep(f)
  <1> DEFINE e == j.email
             goes == /\ e \in emails
                     /\ row[e].status = "scheduled"
                     /\ row[e].gen = j.gen
                     /\ ~Retired(e)
             x == [row[e] EXCEPT !.status = "queued"]
  <1>0. /\ TypeOK /\ row \in [Emails -> Row] /\ e \in Emails
        /\ UNCHANGED <<emails, content, sentEntries>>
    BY DEF FeedbackInv, FeedbackTypeOK, TypeOK, Release, Job
  <1>1. CASE goes
    <2>1. row' = [row EXCEPT ![e] = x]
      BY <1>0, <1>1 DEF Release
    <2>2. /\ x.status = "queued" /\ (x.sentAt <=> row[e].sentAt) /\ x.msg = row[e].msg
          /\ x.attempts = row[e].attempts /\ x.attempts \in Nat
          /\ (x.claimed <=> row[e].claimed) /\ x.dropped = row[e].dropped
      BY <1>0 DEF Row
    <2> HIDE DEF x
    <2>3. OthersStay(e) /\ row'[e] = x
      BY <1>0, <2>1, OneRow
    <2>4. MovesOn(e)
      BY <1>0, <1>1, <2>2, <2>3 DEF MovesOn, Silent, Pending, Withheld
    <2> QED
      BY <2>3, <2>4 DEF OthersStay, EmailStep
  <1>2. CASE ~goes
    BY <1>0, <1>2, TableStays DEF Release
  <1> QED
    BY <1>1, <1>2

(***************************************************************************)
(* The runs.                                                               *)
(***************************************************************************)
LEMMA SettledSilent ==
    ASSUME NEW r \in Row, NEW s \in Status
    PROVE  LET x == SettledAs(r, s)
           IN  /\ x.status = s /\ ~x.claimed /\ (x.sentAt <=> r.sentAt)
               /\ x.msg = r.msg /\ x.attempts = r.attempts /\ x.dropped = r.dropped
  BY DEF SettledAs, Row

LEMMA SuppressedSilent ==
    ASSUME NEW r \in Row
    PROVE  LET x == SuppressedAs(r)
           IN  /\ x.status = "suppressed" /\ ~x.claimed /\ (x.sentAt <=> r.sentAt)
               /\ x.msg = r.msg /\ x.attempts = r.attempts
  BY DEF SuppressedAs, Row

LEMMA ClaimedSilent ==
    ASSUME NEW r \in Row, NEW d \in SUBSET Addresses
    PROVE  LET x == ClaimedAs(r, d)
           IN  /\ x.status = r.status /\ x.claimed /\ (x.sentAt <=> r.sentAt)
               /\ x.msg = r.msg /\ x.attempts = r.attempts + 1
  BY DEF ClaimedAs, Row

\* What a first acceptance makes of a row.
LEMMA AcceptedLoud ==
    ASSUME NEW r \in Row, NEW m \in Nat, ~r.sentAt
    PROVE  LET x == AcceptedAs(r, m)
           IN  /\ x \in Row /\ x.sentAt /\ x.msg = m /\ ~x.claimed
               /\ x.attempts = r.attempts /\ x.dropped = r.dropped
               /\ x.status = IF r.status \in Pending THEN "sent" ELSE r.status
  BY AcceptedRow DEF AcceptedAs, Row

LEMMA StepClaimEnds ==
    ASSUME FeedbackInv, NEW r \in runs,
           ClaimFailed(r) \/ ClaimUnsubscribed(r) \/ ClaimSuppressed(r)
    PROVE  \A f \in Emails : EmailStep(f)
  <1> DEFINE e == r.email
  <1>0. /\ TypeOK /\ row \in [Emails -> Row] /\ row[e] \in Row /\ e \in Emails
        /\ e \in emails /\ row[e].status = "queued" /\ ~row[e].claimed
        /\ row[e].attempts \in Nat
        /\ UNCHANGED <<emails, sentEntries>>
    BY DEF FeedbackInv, FeedbackTypeOK, TypeOK, Run, Claimable, Row, ClaimFailed,
           ClaimUnsubscribed, ClaimSuppressed, Settle
  <1>1. CASE ClaimFailed(r)
    <2> DEFINE x == SettledAs(row[e], "failed")
    <2>1. /\ row' = [row EXCEPT ![e] = x]
          /\ content' = IF e \in System THEN content \ {e} ELSE content
      BY <1>1 DEF ClaimFailed, Settle, DropSecret
    <2>2. /\ x.status = "failed" /\ ~x.claimed /\ (x.sentAt <=> row[e].sentAt)
          /\ x.msg = row[e].msg /\ x.attempts = row[e].attempts
          /\ x.dropped = row[e].dropped
      BY <1>0, SettledSilent DEF Status
    <2> HIDE DEF x
    <2>3. OthersStay(e) /\ row'[e] = x
      BY <1>0, <2>1, OneRow
    <2>4. Fails(e)
      BY <1>0, <2>1, <2>2, <2>3 DEF Fails, Silent
    <2> QED
      BY <2>3, <2>4 DEF OthersStay, EmailStep
  <1>2. CASE ClaimUnsubscribed(r) \/ ClaimSuppressed(r)
    <2> DEFINE x == SuppressedAs(row[e])
    <2>1. row' = [row EXCEPT ![e] = x] /\ content' = content
      BY <1>2 DEF ClaimUnsubscribed, ClaimSuppressed
    <2>2. /\ x.status = "suppressed" /\ ~x.claimed /\ (x.sentAt <=> row[e].sentAt)
          /\ x.msg = row[e].msg /\ x.attempts = row[e].attempts
      BY <1>0, SuppressedSilent
    <2> HIDE DEF x
    <2>3. OthersStay(e) /\ row'[e] = x
      BY <1>0, <2>1, OneRow
    <2>4. e \notin System
      BY <1>2, EmailsAssumption DEF ClaimUnsubscribed, ClaimSuppressed, OptedOut, Barred
    <2>5. MovesOn(e)
      BY <1>0, <2>1, <2>2, <2>3, <2>4 DEF MovesOn, Silent, Pending, Withheld
    <2> QED
      BY <2>3, <2>5 DEF OthersStay, EmailStep
  <1> QED
    BY <1>1, <1>2

\* A run that claims keeps the email in the queue, for itself.
LEMMA StepTaken ==
    ASSUME FeedbackInv, NEW r \in runs, ClaimTaken(r)
    PROVE  \A f \in Emails : EmailStep(f)
  <1> DEFINE e == r.email
  <1>0. /\ TypeOK /\ row \in [Emails -> Row] /\ row[e] \in Row /\ e \in Emails
        /\ e \in emails /\ row[e].status = "queued" /\ ~row[e].claimed
        /\ row[e].attempts \in Nat
        /\ UNCHANGED <<emails, content, sentEntries>>
    BY DEF FeedbackInv, FeedbackTypeOK, TypeOK, Run, Claimable, Row, ClaimTaken
  <1>1. PICK d \in SUBSET Addresses : row' = [row EXCEPT ![e] = ClaimedAs(@, d)]
    BY <1>0 DEF ClaimTaken, OptedOut, Barred, TypeOK
  <1> DEFINE x == ClaimedAs(row[e], d)
  <1>2. /\ x.status = "queued" /\ x.claimed /\ (x.sentAt <=> row[e].sentAt)
        /\ x.msg = row[e].msg /\ x.attempts = row[e].attempts + 1
    BY <1>0, ClaimedSilent
  <1>3. row' = [row EXCEPT ![e] = x]
    BY <1>1
  <1> HIDE DEF x
  <1>4. OthersStay(e) /\ row'[e] = x
    BY <1>0, <1>3, OneRow
  <1>5. MovesOn(e)
    BY <1>0, <1>2, <1>4 DEF MovesOn, Silent, Pending, Withheld
  <1> QED
    BY <1>4, <1>5 DEF OthersStay, EmailStep

\* A run that hands its email over gives up the claim, and is not in flight any more.
LEMMA StepHandover ==
    ASSUME FeedbackInv, NEW r \in runs, ClaimDeferred(r) \/ RecordRetry(r)
    PROVE  \A f \in Emails : EmailStep(f)
  <1> DEFINE e == r.email
             g == row[e].gen + 1
  <1>0. /\ TypeOK /\ row \in [Emails -> Row] /\ row[e] \in Row /\ e \in Emails
        /\ r \in Run /\ e \in emails /\ row[e].status = "queued"
        /\ row[e].attempts \in Nat /\ OneInFlight
        /\ UNCHANGED <<emails, content, sentEntries>>
    <2>1. CASE ClaimDeferred(r)
      BY <2>1 DEF FeedbackInv, FeedbackTypeOK, SendInv, TypeOK, Run, Claimable, Row,
                  ClaimDeferred
    <2>2. CASE RecordRetry(r)
      BY <2>2 DEF FeedbackInv, FeedbackTypeOK, SendInv, TypeOK, Run, Failable, Recordable,
                  Row, RecordRetry
    <2> QED
      BY <2>1, <2>2
  <1>1. \E x : /\ row' = [row EXCEPT ![e] = x]
               /\ x.status = "queued" /\ (x.sentAt <=> row[e].sentAt)
               /\ x.msg = row[e].msg /\ x.attempts = row[e].attempts
               /\ x.dropped = row[e].dropped
    <2>1. CASE ClaimDeferred(r)
      <3> DEFINE x == [row[e] EXCEPT !.gen = g, !.rate = TRUE]
      <3>1. row' = [row EXCEPT ![e] = x]
        BY <1>0, <2>1 DEF ClaimDeferred
      <3>2. /\ x.status = "queued" /\ (x.sentAt <=> row[e].sentAt)
            /\ x.msg = row[e].msg /\ x.attempts = row[e].attempts
            /\ x.dropped = row[e].dropped
        BY <1>0 DEF Row
      <3> HIDE DEF x
      <3> QED
        BY <3>1, <3>2
    <2>2. CASE RecordRetry(r)
      <3> DEFINE x == [row[e] EXCEPT !.gen = g, !.claimed = FALSE]
      <3>1. row' = [row EXCEPT ![e] = x]
        BY <1>0, <2>2 DEF RecordRetry
      <3>2. /\ x.status = "queued" /\ (x.sentAt <=> row[e].sentAt)
            /\ x.msg = row[e].msg /\ x.attempts = row[e].attempts
            /\ x.dropped = row[e].dropped
        BY <1>0 DEF Row
      <3> HIDE DEF x
      <3> QED
        BY <3>1, <3>2
    <2> QED
      BY <2>1, <2>2
  <1>2. PICK x : /\ row' = [row EXCEPT ![e] = x]
                 /\ x.status = "queued" /\ (x.sentAt <=> row[e].sentAt)
                 /\ x.msg = row[e].msg /\ x.attempts = row[e].attempts
                 /\ x.dropped = row[e].dropped
    BY <1>1
  <1>3. row[e].claimed => \A s \in runs' : s.email = e => s.phase \notin InFlight
    <2>1. CASE ClaimDeferred(r)
      BY <2>1 DEF ClaimDeferred, Claimable
    <2>2. CASE RecordRetry(r)
      <3>1. PICK n : n = NewRun(e, r.gen + 1)
        OBVIOUS
      <3>2. PICK s : s = [r EXCEPT !.phase = "returning"]
        OBVIOUS
      <3>3. /\ runs' = (runs \ {r}) \cup {s} \cup {n}
            /\ n.phase = "pending" /\ s.phase = "returning"
        BY <1>0, <2>2, <3>1, <3>2 DEF RecordRetry, Enqueue, Become, NewRun, Run
      <3>4. r.phase \in InFlight
        BY <2>2 DEF RecordRetry, InFlight
      <3> QED
        BY <1>0, <3>3, <3>4 DEF OneInFlight, InFlight
    <2> QED
      BY <2>1, <2>2
  <1>4. OthersStay(e) /\ row'[e] = x
    BY <1>0, <1>2, OneRow
  <1>5. MovesOn(e)
    BY <1>0, <1>2, <1>3, <1>4 DEF MovesOn, Silent, Pending, Withheld
  <1> QED
    BY <1>4, <1>5 DEF OthersStay, EmailStep

LEMMA StepRecordSent ==
    ASSUME FeedbackInv, NEW r \in runs, RecordSent(r)
    PROVE  \A f \in Emails : EmailStep(f)
  <1> DEFINE e == r.email
  <1>0. /\ TypeOK /\ row \in [Emails -> Row] /\ row[e] \in Row /\ e \in Emails
        /\ r.msg \in Nat /\ r.phase = "sent" /\ emails' = emails
    BY DEF FeedbackInv, FeedbackTypeOK, TypeOK, Run, RecordSent
  <1>1. CASE ~Recordable(r, row[e]) \/ row[e].sentAt
    <2>1. row' = row
      BY <1>0, <1>1 DEF RecordSent, Accept, AcceptedAs, Keep
    <2> QED
      BY <1>0, <1>1, <2>1, TableStays DEF RecordSent, Accept, Keep
  <1>2. CASE Recordable(r, row[e]) /\ ~row[e].sentAt
    <2> DEFINE x == AcceptedAs(row[e], r.msg)
    <2>1. /\ row' = [row EXCEPT ![e] = x]
          /\ sentEntries' = [sentEntries EXCEPT ![e] = @ + 1]
          /\ content' = IF e \in System THEN content \ {e} ELSE content
      BY <1>2 DEF RecordSent, Accept, DropSecret
    <2>2. /\ x.sentAt /\ x.msg = r.msg /\ ~x.claimed
          /\ x.attempts = row[e].attempts /\ x.dropped = row[e].dropped
          /\ x.status = IF row[e].status \in Pending THEN "sent" ELSE row[e].status
      BY <1>0, <1>2, AcceptedLoud
    <2> HIDE DEF x
    <2>3. OthersStay(e) /\ row'[e] = x
      BY <1>0, <2>1, OneRow
    <2>4. /\ e \in emails /\ row[e].status \in {"queued"} \cup Engaged
      BY <1>2 DEF Recordable
    <2>5. row[e].claimed /\ Evidence(e, r.msg)
      BY <1>0, <1>2, <2>4 DEF FeedbackInv, FlightsClaimed, InFlight
    <2>6. r.msg # 0
      BY <2>5 DEF FeedbackInv, SesTold, Evidence
    <2>7. Rank[row[e].status] <= Rank[x.status] /\ x.status \notin Pending \cup Withheld
      BY <2>2, <2>4, RankOfPending DEF Engaged, Pending, Withheld, Status
    <2>8. sentEntries'[e] = sentEntries[e] + 1
      BY <1>0, <2>1 DEF TypeOK
    <2>9. IsAccepted(e)
      BY <1>0, <1>2, <2>1, <2>2, <2>3, <2>4, <2>5, <2>6, <2>7, <2>8
         DEF IsAccepted, Engaged, Withheld
    <2> QED
      BY <2>3, <2>9 DEF OthersStay, EmailStep
  <1> QED
    BY <1>1, <1>2

\* A run that ends its email's turn without an acceptance; nobody else is in flight.
LEMMA StepFails ==
    ASSUME FeedbackInv, NEW r \in runs, NEW was \in Row,
           row' = [row EXCEPT ![r.email] = SettledAs(was, "failed")],
           DropSecret(r.email), UNCHANGED <<emails, sentEntries>>,
           r.email \in emails, row[r.email].status = "queued",
           was.sentAt <=> row[r.email].sentAt,
           was.msg = row[r.email].msg, was.dropped = row[r.email].dropped,
           row[r.email].attempts <= was.attempts,
           \A s \in runs' : s.email = r.email => s.phase \notin InFlight
    PROVE  \A f \in Emails : EmailStep(f)
  <1> DEFINE e == r.email
             x == SettledAs(was, "failed")
  <1>0. TypeOK /\ e \in Emails
    BY DEF FeedbackInv, FeedbackTypeOK, TypeOK, Run
  <1>1. content' = IF e \in System THEN content \ {e} ELSE content
    BY DEF DropSecret
  <1>2. /\ x.status = "failed" /\ ~x.claimed /\ (x.sentAt <=> row[e].sentAt)
        /\ x.msg = row[e].msg /\ row[e].attempts <= x.attempts
        /\ x.dropped = row[e].dropped
    BY SettledSilent DEF Status
  <1>3. row' = [row EXCEPT ![e] = x]
    OBVIOUS
  <1> HIDE DEF x
  <1>4. OthersStay(e) /\ row'[e] = x
    BY <1>0, <1>1, <1>3, OneRow
  <1>5. Fails(e)
    BY <1>0, <1>1, <1>2, <1>4 DEF Fails, Silent
  <1> QED
    BY <1>4, <1>5 DEF OthersStay, EmailStep

LEMMA StepRecordFailed ==
    ASSUME FeedbackInv, NEW r \in runs, RecordFailed(r)
    PROVE  \A f \in Emails : EmailStep(f)
  <1> DEFINE e == r.email
  <1>0. /\ TypeOK /\ row \in [Emails -> Row] /\ row[e] \in Row /\ e \in Emails
        /\ r \in Run /\ emails' = emails /\ row[e].attempts \in Nat
    BY DEF FeedbackInv, FeedbackTypeOK, TypeOK, Run, Row, RecordFailed
  <1>1. CASE ~Failable(r, row[e])
    BY <1>0, <1>1, TableStays DEF RecordFailed, Keep
  <1>2. CASE Failable(r, row[e])
    <2>1. /\ row' = [row EXCEPT ![e] = SettledAs(row[e], "failed")]
          /\ DropSecret(e) /\ sentEntries' = sentEntries
          /\ e \in emails /\ row[e].status = "queued"
      BY <1>0, <1>2 DEF RecordFailed, Settle, Failable, Recordable
    <2>2. \A s \in runs' : s.email = e => s.phase \notin InFlight
      <3>1. PICK s : s = [r EXCEPT !.phase = "returning"]
        OBVIOUS
      <3>2. runs' = (runs \ {r}) \cup {s} /\ s.phase = "returning"
        BY <1>0, <3>1 DEF RecordFailed, Advance, Become, Run
      <3>3. r.phase \in InFlight
        BY DEF RecordFailed, InFlight
      <3> QED
        BY <3>2, <3>3 DEF FeedbackInv, SendInv, OneInFlight, InFlight
    <2>3. PICK was \in Row : was = row[e]
      BY <1>0
    <2>4. /\ row' = [row EXCEPT ![e] = SettledAs(was, "failed")]
          /\ was.sentAt <=> row[e].sentAt
          /\ was.msg = row[e].msg /\ was.dropped = row[e].dropped
          /\ row[e].attempts <= was.attempts
      BY <1>0, <2>1, <2>3
    <2> QED
      BY <1>0, <2>1, <2>2, <2>4, StepFails
  <1> QED
    BY <1>1, <1>2

LEMMA StepDone ==
    ASSUME FeedbackInv, NEW r \in runs, DeliverDone(r)
    PROVE  \A f \in Emails : EmailStep(f)
  <1> DEFINE e == r.email
             was == Attempted(r)
             tried == /\ e \in emails
                      /\ row[e].status = "queued"
                      /\ row[e].gen = r.gen
                      /\ ~row[e].claimed
  <1>0. /\ TypeOK /\ row \in [Emails -> Row] /\ row[e] \in Row /\ e \in Emails
        /\ r \in Run /\ row[e].attempts \in Nat /\ r.phase = "crashed"
        /\ runs' = runs \ {r} /\ UNCHANGED <<emails, sentEntries>>
    BY DEF FeedbackInv, FeedbackTypeOK, TypeOK, Run, Row, DeliverDone
  <1>1. /\ was \in Row /\ was.status = row[e].status /\ was.gen = row[e].gen
        /\ (was.claimed <=> row[e].claimed) /\ (was.sentAt <=> row[e].sentAt)
        /\ was.msg = row[e].msg /\ was.dropped = row[e].dropped
        /\ row[e].attempts <= was.attempts
        /\ ~tried => was = row[e]
    BY <1>0 DEF Attempted, Row
  <1>2. CASE Failable(r, was)
    <2>1. /\ row' = [row EXCEPT ![e] = SettledAs(was, "failed")]
          /\ DropSecret(e) /\ e \in emails /\ row[e].status = "queued"
          /\ row[e].gen = r.gen
      BY <1>0, <1>1, <1>2 DEF DeliverDone, Failable, Recordable
    <2>2. \A s \in runs' : s.email = e => s.phase \notin InFlight
      BY <1>0, <2>1 DEF FeedbackInv, SendInv, Owned, OneRunPerGeneration
    <2> HIDE DEF was
    <2> QED
      BY <1>0, <1>1, <2>1, <2>2, StepFails
  <1>3. CASE ~Failable(r, was)
    <2>1. row' = [row EXCEPT ![e] = was] /\ content' = content
      BY <1>3 DEF DeliverDone
    <2> HIDE DEF was
    <2>2. OthersStay(e) /\ row'[e] = was
      BY <1>0, <2>1, OneRow
    <2>3. CASE tried
      <3>1. MovesOn(e)
        BY <1>0, <1>1, <2>1, <2>2, <2>3 DEF MovesOn, Silent, Pending, Withheld
      <3> QED
        BY <2>2, <3>1 DEF OthersStay, EmailStep
    <2>4. CASE ~tried
      <3>1. Stays(e)
        BY <1>0, <1>1, <2>1, <2>2, <2>4 DEF Stays
      <3> QED
        BY <2>2, <3>1 DEF OthersStay, EmailStep
    <2> QED
      BY <2>3, <2>4
  <1> QED
    BY <1>2, <1>3

\* Every step of the pipeline writes rows in one of the six ways.
LEMMA StepNext ==
    ASSUME FeedbackInv, [Next]_vars
    PROVE  \A e \in Emails : EmailStep(e)
  <1>1. ASSUME NEW r \in runs, RunStep(r) \/ Crash(r)
        PROVE  \A e \in Emails : EmailStep(e)
    <2>1. CASE \/ ClaimStale(r) \/ FailEarly(r) \/ Submit(r) \/ Timeout(r)
               \/ Return(r) \/ Crash(r)
      BY <2>1, TableStays DEF ClaimStale, FailEarly, Submit, Timeout, Return, Crash, table
    <2> QED
      BY <1>1, <2>1, StepClaimEnds, StepTaken, StepHandover, StepRecordSent,
         StepRecordFailed, StepDone DEF RunStep, ClaimStep
  <1>2. ASSUME NEW q \in wire, SesStep(q)
        PROVE  \A e \in Emails : EmailStep(e)
    BY <1>2, TableStays DEF SesStep, SesAccepts, SesDrops, SesAnswersAccepted,
                            SesAnswersRefused, table
  <1>3. CASE TeamStep
    BY <1>3, TableStays DEF TeamStep, RetireTeam, AddSuppression, RemoveSuppression, table
  <1>4. CASE UNCHANGED vars
    BY <1>4, TableStays DEF vars, table
  <1> QED
    BY <1>1, <1>2, <1>3, <1>4, StepUser, StepRelease DEF Next

(***************************************************************************)
(* Notifications and hits.                                                 *)
(***************************************************************************)
\* What a notification says is past waiting and never withholds an email.
LEMMA KindsSay ==
    ASSUME NEW k \in Kinds
    PROVE  KindStatus[k] \in Proven \cup {"failed"}
  <1>1. k \in {"SEND", "DELIVERY", "BOUNCE", "TRANSIENT", "COMPLAINT", "DELAY", "REJECT"}
    BY FeedbackAssumption DEF KindStatus
  <1> QED
    BY <1>1 DEF KindStatus, Proven

LEMMA RaisedFields ==
    ASSUME NEW r \in Row, NEW s \in Status
    PROVE  LET x == Raised(r, s)
           IN  /\ x \in Row /\ x.gen = r.gen /\ (x.claimed <=> r.claimed)
               /\ (x.sentAt <=> r.sentAt) /\ x.msg = r.msg
               /\ x.attempts = r.attempts /\ x.dropped = r.dropped
               /\ x.status \in {s, r.status}
               /\ Rank[r.status] <= Rank[x.status]
  <1> DEFINE x == Raised(r, s)
  <1>0. Rank[r.status] \in Nat /\ Rank[s] \in Nat
    BY RankOfPending DEF Row
  <1>1. CASE Rank[s] > Rank[r.status]
    <2>1. x = [r EXCEPT !.status = s]
      BY <1>1 DEF Raised
    <2> HIDE DEF x
    <2>2. /\ x \in Row /\ x.gen = r.gen /\ (x.claimed <=> r.claimed)
          /\ (x.sentAt <=> r.sentAt) /\ x.msg = r.msg
          /\ x.attempts = r.attempts /\ x.dropped = r.dropped /\ x.status = s
      BY <2>1 DEF Row
    <2>3. Rank[r.status] <= Rank[x.status]
      BY <1>0, <1>1, <2>2
    <2> QED
      BY <2>2, <2>3 DEF x
  <1>2. CASE ~(Rank[s] > Rank[r.status])
    <2>1. x = r
      BY <1>2 DEF Raised
    <2> QED
      BY <1>0, <2>1
  <1> QED
    BY <1>1, <1>2

LEMMA FeedbackTypeFields ==
    ASSUME FeedbackTypeOK, NEW j \in projectJobs
    PROVE  /\ j \in ProjectJob /\ j.event \in Event /\ j.event.email \in Emails
           /\ j.event.msg \in Nat /\ j.event.kind \in Kinds /\ j.event.to \in Addresses
           /\ KindStatus[j.event.kind] \in Status
           /\ row \in [Emails -> Row] /\ row[j.event.email] \in Row
  BY KindsSay DEF FeedbackTypeOK, TypeOK, ProjectJob, Event, Proven, Status

LEMMA TypeProject ==
    ASSUME FeedbackInv, NEW j \in projectJobs, Project(j) \/ ProjectLater(j)
    PROVE  FeedbackTypeOK'
  <1> DEFINE ev == j.event
             e == ev.email
             x == Raised(AcceptedAs(row[e], ev.msg), KindStatus[ev.kind])
  <1>0. /\ j \in ProjectJob /\ ev \in Event /\ e \in Emails /\ ev.msg \in Nat
        /\ ev.to \in Addresses /\ KindStatus[ev.kind] \in Status
        /\ row \in [Emails -> Row] /\ row[e] \in Row
        /\ FeedbackTypeOK /\ ev \in stored
    BY FeedbackTypeFields DEF FeedbackInv, EventsReal
  <1>1. CASE Project(j)
    <2>1. x \in Row
      BY <1>0, AcceptedRow, RaisedFields
    <2>2. row' = [row EXCEPT ![e] = x]
      BY <1>1 DEF Project
    <2> HIDE DEF x
    <2>3. row' \in [Emails -> Row]
      BY <1>0, <2>1, <2>2
    <2>4. /\ sentEntries' \in [Emails -> Nat] /\ content' \subseteq emails'
          /\ suppressions' \subseteq Addresses /\ entries' \in [Emails -> Nat]
      BY <1>0, <1>1 DEF Project, DropSecret, FeedbackTypeOK, TypeOK
    <2>5. /\ UNCHANGED <<born, emails, jobs, pool, ses, retired, history, stored>>
          /\ projectJobs' \subseteq projectJobs /\ projected' = projected \cup {ev}
      BY <1>1 DEF Project
    <2>6. TypeOK'
      BY <1>0, <2>3, <2>4, <2>5 DEF FeedbackTypeOK, TypeOK, pool, ses, history
    <2>7. ev \in stored /\ projectJobs' \subseteq ProjectJob
      BY <1>0, <2>5 DEF FeedbackTypeOK
    <2> QED
      BY <1>0, <2>4, <2>5, <2>6, <2>7 DEF FeedbackTypeOK
  <1>2. CASE ProjectLater(j)
    <2> DEFINE again == [j EXCEPT !.attempt = @ + 1]
    <2>1. again \in ProjectJob
      BY <1>0 DEF ProjectJob
    <2>2. projectJobs' \subseteq projectJobs \cup {again}
      BY <1>2 DEF ProjectLater
    <2> HIDE DEF again
    <2>3. projectJobs' \subseteq ProjectJob
      BY <1>0, <2>1, <2>2 DEF FeedbackTypeOK
    <2>4. TypeOK'
      BY <1>0, <1>2, TypeNext DEF ProjectLater, FeedbackTypeOK
    <2> QED
      BY <1>0, <1>2, <2>3, <2>4 DEF ProjectLater, FeedbackTypeOK
  <1> QED
    BY <1>1, <1>2

LEMMA TypeIngest ==
    ASSUME FeedbackTypeOK, NEW m \in accepted, NEW ev \in Reports(m), Ingest(ev)
    PROVE  FeedbackTypeOK'
  <1>1. ev \in Event /\ ev.email = m.email /\ ev.msg = m.msg
    BY DEF Reports, Event, FeedbackTypeOK, TypeOK, Message
  <1>2. TypeOK'
    BY TypeNext DEF Ingest, FeedbackTypeOK
  <1>3. projectJobs' \subseteq ProjectJob
    BY <1>1 DEF Ingest, FeedbackTypeOK, ProjectJob
  <1> QED
    BY <1>1, <1>2, <1>3 DEF Ingest, FeedbackTypeOK

LEMMA TypeHit ==
    ASSUME FeedbackTypeOK, NEW e \in Emails, NEW status \in Engaged, Hit(e, status)
    PROVE  FeedbackTypeOK'
  <1> DEFINE x == Raised(row[e], status)
  <1>1. x \in Row /\ row \in [Emails -> Row]
    BY RaisedFields DEF Engaged, Status, FeedbackTypeOK, TypeOK
  <1>2. row' = [row EXCEPT ![e] = x]
    BY DEF Hit, Engage
  <1> HIDE DEF x
  <1>3. row' \in [Emails -> Row]
    BY <1>1, <1>2
  <1>4. UNCHANGED <<born, emails, content, sentEntries, jobs, pool, ses, team,
                    history, feedback>>
    BY DEF Hit
  <1> QED
    BY <1>3, <1>4 DEF FeedbackTypeOK, TypeOK, pool, ses, team, history, feedback

LEMMA FeedbackTypeNext ==
    ASSUME FeedbackInv, [FNext]_fvars
    PROVE  FeedbackTypeOK'
  <1>0. FeedbackTypeOK
    BY DEF FeedbackInv
  <1>1. CASE [Next]_vars /\ UNCHANGED feedback
    <2>1. TypeOK'
      BY <1>0, <1>1, TypeNext DEF FeedbackTypeOK
    <2> QED
      BY <1>0, <1>1, <2>1 DEF FeedbackTypeOK, feedback
  <1> QED
    BY <1>0, <1>1, TypeIngest, TypeProject, TypeHit DEF FNext, FeedbackStep, fvars

\* Where the raised status of a row that is not withheld ends.
LEMMA RaisedBeyond ==
    ASSUME NEW r \in Row, NEW s \in Status \ (Pending \cup Withheld),
           r.status \notin Withheld
    PROVE  Raised(r, s).status \in Status \ (Pending \cup Withheld)
  <1>1. CASE r.status \in Pending
    <2>1. Rank[s] > Rank[r.status]
      BY <1>1, RankOfPending
    <2>2. Raised(r, s) = [r EXCEPT !.status = s]
      BY <2>1 DEF Raised
    <2> QED
      BY <2>2 DEF Row
  <1>2. CASE r.status \notin Pending
    BY <1>2, RaisedFields DEF Row
  <1> QED
    BY <1>1, <1>2

LEMMA StepProject ==
    ASSUME FeedbackInv, NEW j \in projectJobs, Project(j)
    PROVE  /\ \A f \in Emails : EmailStep(f)
           /\ IsAccepted(j.event.email)
           /\ row'[j.event.email].gen = row[j.event.email].gen
  <1> DEFINE ev == j.event
             e == ev.email
             y == AcceptedAs(row[e], ev.msg)
             x == Raised(y, KindStatus[ev.kind])
  <1>0. /\ e \in Emails /\ ev.msg \in Nat /\ KindStatus[ev.kind] \in Status
        /\ KindStatus[ev.kind] \notin Pending \cup Withheld
        /\ row \in [Emails -> Row] /\ row[e] \in Row /\ TypeOK
        /\ Evidence(e, ev.msg)
    <2>1. FeedbackTypeOK /\ EventsReal
      BY DEF FeedbackInv
    <2> QED
      BY <2>1, FeedbackTypeFields, KindsSay
         DEF EventsReal, FeedbackTypeOK, Proven, Pending, Withheld
  <1>1. /\ Projectable(ev) /\ emails' = emails
        /\ row' = [row EXCEPT ![e] = x]
    BY DEF Project
  <1>2. /\ e \in emails /\ row[e].status \notin Withheld \cup {"scheduled"}
        /\ row[e].msg \in {0, ev.msg} /\ Expected(row[e])
    BY <1>1 DEF Projectable
  <1>3. row[e].sentAt \/ row[e].claimed \/ row[e].status = "failed"
    BY <1>2 DEF Expected, FeedbackInv, RowsFit, RowFits, Proven
  <1>4. ev.msg # 0
    BY <1>0 DEF FeedbackInv, SesTold, Evidence
  <1>5. /\ y \in Row /\ y.sentAt /\ y.gen = row[e].gen
        /\ y.attempts = row[e].attempts /\ y.dropped = row[e].dropped
        /\ y.status \notin Withheld \cup Pending
        /\ Rank[row[e].status] <= Rank[y.status]
        /\ row[e].sentAt => y.msg = row[e].msg /\ (y.claimed <=> row[e].claimed)
        /\ ~row[e].sentAt => y.msg = ev.msg /\ ~y.claimed
    <2>1. CASE row[e].sentAt
      <3>1. y = row[e] /\ row[e].status \notin Pending
        BY <1>2, <2>1 DEF AcceptedAs, FeedbackInv, RowsFit, RowFits
      <3>2. Rank[row[e].status] \in Nat
        BY <1>0, RankOfPending DEF Row
      <3> QED
        BY <1>0, <1>2, <2>1, <3>1, <3>2
    <2>2. CASE ~row[e].sentAt
      <3>1. /\ y \in Row /\ y.sentAt /\ y.msg = ev.msg /\ ~y.claimed
            /\ y.attempts = row[e].attempts /\ y.dropped = row[e].dropped
            /\ y.status = IF row[e].status \in Pending THEN "sent" ELSE row[e].status
        BY <1>0, <2>2, AcceptedLoud
      <3>2. y.gen = row[e].gen
        BY <1>0 DEF AcceptedAs, Row
      <3>3. Rank[row[e].status] <= Rank[y.status]
        <4>1. row[e].status \in Status /\ "sent" \in Status
          BY <1>0 DEF Row, Status
        <4> HIDE DEF y
        <4> QED
          BY <3>1, <4>1, RankOfPending
      <3> HIDE DEF y
      <3> QED
        BY <1>2, <2>2, <3>1, <3>2, <3>3 DEF Pending, Withheld
    <2> QED
      BY <2>1, <2>2
  <1> HIDE DEF y
  <1>6. /\ x.gen = y.gen /\ (x.claimed <=> y.claimed) /\ (x.sentAt <=> y.sentAt)
        /\ x.msg = y.msg /\ x.attempts = y.attempts /\ x.dropped = y.dropped
        /\ Rank[y.status] <= Rank[x.status]
        /\ x.status \in Status \ (Pending \cup Withheld)
    BY <1>0, <1>5, RaisedFields, RaisedBeyond
  <1>7. Rank[row[e].status] <= Rank[x.status]
    <2>1. /\ Rank[row[e].status] \in Nat /\ Rank[y.status] \in Nat
          /\ Rank[x.status] \in Nat
      BY <1>0, <1>5, <1>6, RankOfPending DEF Row
    <2> QED
      BY <1>5, <1>6, <2>1
  <1> HIDE DEF x
  <1>8. /\ sentEntries' = IF row[e].sentAt THEN sentEntries
                          ELSE [sentEntries EXCEPT ![e] = @ + 1]
        /\ content' = IF row[e].sentAt \/ e \notin System THEN content
                      ELSE content \ {e}
    BY DEF Project, DropSecret
  <1>9. OthersStay(e) /\ row'[e] = x
    BY ZenonT(60), <1>0, <1>1, <1>8, OneRow
  <1>10. sentEntries'[e] = IF row[e].sentAt THEN sentEntries[e] ELSE sentEntries[e] + 1
    BY <1>0, <1>8 DEF TypeOK
  <1>11. IsAccepted(e)
    BY <1>0, <1>1, <1>2, <1>3, <1>4, <1>5, <1>6, <1>7, <1>8, <1>9, <1>10 DEF IsAccepted
  <1> QED
    BY <1>5, <1>6, <1>9, <1>11 DEF OthersStay, EmailStep

LEMMA StepHit ==
    ASSUME FeedbackInv, NEW e \in Emails, NEW status \in Engaged, Hit(e, status)
    PROVE  /\ \A f \in Emails : EmailStep(f)
           /\ row'[e].status \in Status \ (Pending \cup Withheld)
           /\ row'[e].gen = row[e].gen
  <1> DEFINE x == Raised(row[e], status)
  <1>0. /\ e \in emails /\ e \notin System /\ Sent(e) # {}
        /\ row[e].status \notin Withheld \cup {"scheduled"}
        /\ UNCHANGED <<emails, content, sentEntries, runs>>
        /\ row[e] \in Row /\ row[e].attempts \in Nat /\ TypeOK
    BY FeedbackAssumption
       DEF Hit, FeedbackInv, FeedbackTypeOK, TypeOK, Row, pool
  <1>1. row' = [row EXCEPT ![e] = x]
    BY DEF Hit, Engage
  <1>2. status \in Status \ (Pending \cup Withheld)
    BY DEF Engaged, Status, Pending, Withheld
  <1>3. /\ x.gen = row[e].gen /\ (x.claimed <=> row[e].claimed)
        /\ (x.sentAt <=> row[e].sentAt) /\ x.msg = row[e].msg
        /\ x.attempts = row[e].attempts /\ x.dropped = row[e].dropped
        /\ x.status \in {status, row[e].status}
        /\ Rank[row[e].status] <= Rank[x.status]
        /\ x.status \in Status \ (Pending \cup Withheld)
    BY <1>0, <1>2, RaisedFields, RaisedBeyond
  <1> HIDE DEF x
  <1>4. OthersStay(e) /\ row'[e] = x
    BY <1>0, <1>1, OneRow
  <1>5. IsOpened(e)
    BY <1>0, <1>3, <1>4 DEF IsOpened, Silent
  <1> QED
    BY <1>3, <1>4, <1>5 DEF OthersStay, EmailStep

\* Every step of the composed system writes rows in one of the six ways.
LEMMA StepFNext ==
    ASSUME FeedbackInv, [FNext]_fvars
    PROVE  \A e \in Emails : EmailStep(e)
  <1>1. CASE [Next]_vars
    BY <1>1, StepNext
  <1>2. ASSUME NEW m \in accepted, NEW ev \in Reports(m), Ingest(ev)
        PROVE  [Next]_vars
    BY <1>2 DEF Ingest
  <1>3. ASSUME NEW j \in projectJobs, ProjectLater(j)
        PROVE  [Next]_vars
    BY <1>3 DEF ProjectLater
  <1> QED
    BY <1>1, <1>2, <1>3, StepProject, StepHit DEF FNext, FeedbackStep, fvars

(***************************************************************************)
(* The sender's invariant, which notifications and hits leave alone.       *)
(***************************************************************************)
LEMMA SendHeard ==
    ASSUME SendInv, TypeOK', NEW e \in Emails, OthersStay(e),
           UNCHANGED <<born, emails, runs, ses, sdkRetried>>,
           row'[e].gen = row[e].gen,
           row'[e].status \notin Pending \cup Withheld
    PROVE  SendInv'
  <1> USE DEF SendInv
  <1>1. \A f \in Emails : f # e => row'[f] = row[f]
    BY DEF OthersStay, Stays
  <1>2. Known'
    BY <1>1 DEF Known, TypeOK, Run, ses
  <1>3. OneRunPerGeneration' /\ OneInFlight'
    BY DEF OneRunPerGeneration, OneInFlight
  <1>4. Owned'
    BY <1>1 DEF Owned, TypeOK, Run, Pending
  <1>5. Unreleased' /\ Clear'
    BY <1>1 DEF Unreleased, Clear, AtSes, Sent, OnWire, ses, TypeOK, Pending, Withheld
  <1>6. ClearRun' /\ OneAtSes'
    BY DEF ClearRun, OneAtSes, AtSes, Sent, OnWire, ses
  <1> QED
    BY <1>2, <1>3, <1>4, <1>5, <1>6

LEMMA StaysElsewhere ==
    ASSUME FeedbackInv, NEW e \in Emails, NEW x, row' = [row EXCEPT ![e] = x],
           emails' = emails,
           sentEntries' = sentEntries \/ sentEntries' = [sentEntries EXCEPT ![e] = @ + 1],
           content' \in {content, content \ {e}}
    PROVE  OthersStay(e)
  BY OneRow DEF FeedbackInv, FeedbackTypeOK

LEMMA SendFNext ==
    ASSUME FeedbackInv, [FNext]_fvars
    PROVE  SendInv'
  <1>0. SendInv /\ TypeOK'
    BY FeedbackTypeNext DEF FeedbackInv, FeedbackTypeOK
  <1>1. CASE [Next]_vars
    BY <1>0, <1>1, SendNext
  <1>2. ASSUME NEW j \in projectJobs, Project(j)
        PROVE  SendInv'
    <2> DEFINE e == j.event.email
    <2>1. e \in Emails
      BY FeedbackTypeFields DEF FeedbackInv
    <2>2. UNCHANGED <<born, emails, runs, ses, sdkRetried>>
      BY <1>2 DEF Project, pool, history
    <2>3. OthersStay(e)
      BY <1>2, <2>1, <2>2, StaysElsewhere DEF Project, DropSecret
    <2>4. row'[e].gen = row[e].gen /\ row'[e].status \notin Pending \cup Withheld
      BY <1>2, StepProject DEF IsAccepted
    <2> QED
      BY <1>0, <2>1, <2>2, <2>3, <2>4, SendHeard
  <1>3. ASSUME NEW e \in Emails, NEW status \in Engaged, Hit(e, status)
        PROVE  SendInv'
    <2>1. UNCHANGED <<born, emails, runs, ses, sdkRetried, content, sentEntries>>
      BY <1>3 DEF Hit, pool, history
    <2>2. OthersStay(e)
      BY <1>3, <2>1, StaysElsewhere DEF Hit, Engage
    <2> QED
      BY <1>0, <1>3, <2>1, <2>2, StepHit, SendHeard
  <1>4. ASSUME NEW m \in accepted, NEW ev \in Reports(m), Ingest(ev)
        PROVE  [Next]_vars
    BY <1>4 DEF Ingest
  <1>5. ASSUME NEW j \in projectJobs, ProjectLater(j)
        PROVE  [Next]_vars
    BY <1>5 DEF ProjectLater
  <1> QED
    BY <1>1, <1>2, <1>3, <1>4, <1>5 DEF FNext, FeedbackStep, fvars

(***************************************************************************)
(* What a step never undoes.                                               *)
(***************************************************************************)
Grows ==
    /\ born \subseteq born'
    /\ emails' \cap born \subseteq emails
    /\ accepted \subseteq accepted'
    /\ sdkRetried \subseteq sdkRetried'
    /\ retired => retired'

LEMMA GrowsNext ==
    ASSUME TypeOK, [Next]_vars
    PROVE  Grows
  <1> USE DEF Grows, table, pool, ses, team, history
  <1>1. ASSUME NEW r \in runs, RunStep(r) \/ Crash(r)
        PROVE  Grows
    BY <1>1 DEF RunStep, ClaimStep, ClaimStale, ClaimFailed, ClaimUnsubscribed,
        ClaimSuppressed, ClaimDeferred, ClaimTaken, FailEarly, Submit, Timeout,
        RecordSent, RecordRetry, RecordFailed, Return, DeliverDone, Crash
  <1>2. ASSUME NEW q \in wire, SesStep(q)
        PROVE  Grows
    BY <1>2 DEF SesStep, SesAccepts, SesDrops, SesAnswersAccepted, SesAnswersRefused
  <1>3. ASSUME NEW e \in Emails, UserStep(e) \/ Prune(e) \/ PurgeEmail(e)
        PROVE  Grows
    BY <1>3 DEF UserStep, CreateNow, CreateScheduled, CancelEmail, RescheduleEmail,
        Prune, PurgeEmail, Erase, TypeOK
  <1>4. ASSUME NEW j \in jobs, Release(j)
        PROVE  Grows
    BY <1>4 DEF Release
  <1>5. CASE TeamStep
    BY <1>5 DEF TeamStep, RetireTeam, AddSuppression, RemoveSuppression
  <1>6. CASE UNCHANGED vars
    BY <1>6 DEF vars
  <1> QED
    BY <1>1, <1>2, <1>3, <1>4, <1>5, <1>6 DEF Next

LEMMA GrowsFNext ==
    ASSUME FeedbackInv, [FNext]_fvars
    PROVE  Grows
  <1>0. TypeOK
    BY DEF FeedbackInv, FeedbackTypeOK
  <1>1. CASE [Next]_vars
    BY <1>0, <1>1, GrowsNext
  <1>2. ASSUME NEW j \in projectJobs, Project(j)
        PROVE  Grows
    BY <1>2 DEF Project, Grows, ses, history
  <1>3. ASSUME NEW e \in Emails, NEW status \in Engaged, Hit(e, status)
        PROVE  Grows
    BY <1>3 DEF Hit, Grows, ses, history, team
  <1> QED
    BY <1>1, <1>2, <1>3 DEF FNext, FeedbackStep, Ingest, ProjectLater, fvars

LEMMA EvidenceStays ==
    ASSUME Grows, NEW e, NEW m, Evidence(e, m)
    PROVE  Evidence(e, m)'
  BY DEF Grows, Evidence

(***************************************************************************)
(* The rows keep what they promise.                                        *)
(***************************************************************************)
LEMMA RowFitsNext ==
    ASSUME FeedbackInv, Grows, NEW e \in emails', EmailStep(e), FeedbackTypeOK'
    PROVE  RowFits(e)'
  <1>0. /\ e \in Emails /\ emails \subseteq born /\ row[e] \in Row /\ row'[e] \in Row
        /\ e \in emails => RowFits(e)
        /\ Sent(e) # {} => Sent(e)' # {}
    BY DEF FeedbackInv, FeedbackTypeOK, TypeOK, RowsFit, Grows, Sent
  <1>1. CASE Stays(e)
    BY <1>0, <1>1, EvidenceStays DEF Stays, RowFits
  <1>2. CASE Appears(e)
    BY <1>0, <1>2 DEF Appears, RowFits, Pending, Proven, Engaged
  <1>3. CASE MovesOn(e)
    BY <1>0, <1>3, EvidenceStays
       DEF MovesOn, Silent, RowFits, Pending, Withheld, Proven, Engaged
  <1>4. CASE Fails(e)
    BY <1>0, <1>4, EvidenceStays DEF Fails, Silent, RowFits, Pending, Proven, Engaged
  <1>5. CASE IsAccepted(e)
    <2>0. PICK m : m = row'[e].msg
      OBVIOUS
    <2>1. Evidence(e, m)'
      <3>1. Evidence(e, m)
        BY <1>0, <1>5, <2>0 DEF IsAccepted, RowFits
      <3> QED
        BY <3>1, EvidenceStays
    <2>2. row'[e].status \in Engaged => Sent(e)' # {}
      BY <2>1 DEF Evidence, Sent
    <2>3. row'[e].sentAt <=> row'[e].msg # 0
      BY <1>0, <1>5 DEF IsAccepted, RowFits
    <2>4. ~row'[e].claimed
      BY <1>0, <1>5 DEF IsAccepted, RowFits
    <2>5. e \in System => e \notin content'
      BY <1>0, <1>5 DEF IsAccepted, RowFits
    <2> QED
      BY <1>5, <2>0, <2>1, <2>2, <2>3, <2>4, <2>5 DEF IsAccepted, RowFits, Pending
  <1>6. CASE IsOpened(e)
    <2>1. /\ row'[e].sentAt <=> row[e].sentAt
          /\ row'[e].msg = row[e].msg
          /\ row'[e].claimed <=> row[e].claimed
          /\ e \notin System /\ RowFits(e) /\ Sent(e)' # {}
          /\ e \in content' <=> e \in content
      BY <1>0, <1>6 DEF IsOpened, Silent
    <2>2. row[e].sentAt => Evidence(e, row[e].msg)'
      BY <2>1, EvidenceStays DEF RowFits
    <2>3. row'[e].status \in Engaged \/ row'[e].status = row[e].status
      BY <1>6 DEF IsOpened
    <2> QED
      BY <2>1, <2>2, <2>3 DEF RowFits, Pending, Proven, Engaged
  <1> QED
    BY <1>1, <1>2, <1>3, <1>4, <1>5, <1>6 DEF EmailStep

LEMMA CountedNext ==
    ASSUME FeedbackInv, Grows, \A e \in Emails : EmailStep(e), FeedbackTypeOK'
    PROVE  AcceptancesCounted'
  <1>0. /\ emails \subseteq born /\ AcceptancesCounted /\ born \subseteq born'
        /\ sentEntries \in [Emails -> Nat] /\ emails' \subseteq born'
    BY DEF FeedbackInv, FeedbackTypeOK, TypeOK, Grows
  <1>1. ASSUME NEW e \in Emails
        PROVE  sentEntries'[e] = IF row'[e].sentAt THEN 1 ELSE 0
    <2>0. EmailStep(e) /\ sentEntries[e] = IF row[e].sentAt THEN 1 ELSE 0
      BY <1>0 DEF AcceptancesCounted, OneSentEntry
    <2>1. CASE Stays(e)
      BY <2>0, <2>1 DEF Stays
    <2>2. CASE Appears(e)
      BY <1>0, <2>0, <2>2 DEF Appears, AcceptancesCounted
    <2>3. CASE MovesOn(e) \/ Fails(e) \/ IsOpened(e)
      BY <2>0, <2>3 DEF MovesOn, Fails, IsOpened, Silent
    <2>4. CASE IsAccepted(e)
      BY <2>0, <2>4 DEF IsAccepted
    <2> QED
      BY <2>0, <2>1, <2>2, <2>3, <2>4 DEF EmailStep
  <1>2. ASSUME NEW e \in Emails \ born'
        PROVE  ~row'[e].sentAt
    <2>1. Stays(e)
      BY <1>0, <1>2 DEF EmailStep, Appears, MovesOn, Fails, IsOpened, IsAccepted, Silent
    <2> QED
      BY <1>0, <2>1 DEF Stays, AcceptancesCounted
  <1> QED
    BY <1>1, <1>2 DEF AcceptancesCounted, OneSentEntry

(***************************************************************************)
(* What is in flight and at SES.                                           *)
(***************************************************************************)
InFlightOf(e) == \E r \in runs : r.email = e /\ r.phase \in InFlight

\* Who is in flight was so before or has just claimed its email; what is at SES
\* was so before or comes from a run in flight, with a number of its own.
Flights ==
    /\ \A s \in runs' : s.phase \in InFlight =>
          \/ InFlightOf(s.email)
          \/ row'[s.email].claimed /\ row'[s.email].attempts > 0
    /\ \A s \in runs' : s.phase = "sent" => s \in runs \/ Evidence(s.email, s.msg)'
    /\ \A e \in Emails : AtSes(e)' => AtSes(e) \/ InFlightOf(e)
    /\ \A q \in wire' : q \in wire \/ q.msg # 0
    /\ \A m \in accepted' : m \in accepted \/ m.msg # 0

\* A step in which nobody claims and SES has no part.
LEMMA FlightsGoOn ==
    ASSUME UNCHANGED ses,
           \A s \in runs' : \/ s \in runs
                            \/ s.phase \notin InFlight
                            \/ s.phase # "sent" /\ InFlightOf(s.email)
    PROVE  Flights
  BY DEF Flights, InFlightOf, AtSes, Sent, OnWire, ses, InFlight

LEMMA FlightsAdvance ==
    ASSUME TypeOK, UNCHANGED ses, NEW r \in runs, NEW p \in Phase, Advance(r, p),
           p \in InFlight => r.phase \in InFlight,
           p # "sent"
    PROVE  Flights
  <1>1. PICK s : /\ s.email = r.email /\ s.gen = r.gen /\ s.phase = p
                 /\ runs' = (runs \ {r}) \cup {s}
    BY Advanced
  <1> QED
    BY <1>1, FlightsGoOn DEF InFlightOf

LEMMA FlightsRun ==
    ASSUME FeedbackInv, NEW r \in runs, RunStep(r) \/ Crash(r)
    PROVE  Flights
  <1> DEFINE e == r.email
  <1>0. /\ TypeOK /\ row \in [Emails -> Row] /\ e \in Emails /\ r \in Run
        /\ row[e] \in Row
    BY DEF FeedbackInv, FeedbackTypeOK, TypeOK, Run
  <1>1. CASE \/ ClaimStale(r) \/ ClaimFailed(r) \/ ClaimUnsubscribed(r)
             \/ ClaimSuppressed(r) \/ RecordSent(r) \/ RecordFailed(r)
    <2>1. Advance(r, "returning") /\ UNCHANGED ses
      BY <1>1 DEF ClaimStale, ClaimFailed, ClaimUnsubscribed, ClaimSuppressed, RecordSent,
                  RecordFailed
    <2> QED
      BY <1>0, <2>1, FlightsAdvance DEF Phase, InFlight
  <1>2. CASE FailEarly(r) \/ Timeout(r) \/ Crash(r)
    <2>1. /\ UNCHANGED ses
          /\ \E p \in {"failed", "timedout", "crashed"} :
                Advance(r, p) /\ (p # "crashed" => r.phase \in InFlight)
      BY <1>2 DEF FailEarly, Timeout, Crash, InFlight
    <2> QED
      BY <1>0, <2>1, FlightsAdvance DEF Phase, InFlight
  <1>3. CASE Return(r) \/ DeliverDone(r)
    BY <1>3, FlightsGoOn DEF Return, DeliverDone
  <1>4. CASE ClaimDeferred(r) \/ RecordRetry(r)
    <2>1. PICK n : n = NewRun(e, r.gen + 1)
      OBVIOUS
    <2>2. PICK s : s = [r EXCEPT !.phase = "returning"]
      OBVIOUS
    <2>3. /\ runs' = (runs \ {r}) \cup {s} \cup {n} /\ UNCHANGED ses
          /\ n.phase = "pending" /\ s.phase = "returning"
      BY <1>0, <1>4, <2>1, <2>2
         DEF ClaimDeferred, RecordRetry, Enqueue, Become, NewRun, Run
    <2> QED
      BY <2>3, FlightsGoOn DEF InFlight
  <1>5. CASE ClaimTaken(r)
    <2>1. PICK d \in SUBSET Addresses :
             /\ row' = [row EXCEPT ![e] = ClaimedAs(@, d)]
             /\ runs' = (runs \ {r}) \cup {Holding(r, Addresses \ d)}
      BY <1>0, <1>5 DEF ClaimTaken, OptedOut, Barred, TypeOK
    <2> DEFINE x == ClaimedAs(row[e], d)
               s == Holding(r, Addresses \ d)
    <2>2. x.claimed /\ x.attempts > 0
      <3>1. x.claimed /\ x.attempts = row[e].attempts + 1 /\ row[e].attempts \in Nat
        BY <1>0, ClaimedSilent DEF Row
      <3> HIDE DEF x
      <3> QED
        BY <3>1
    <2>3. s.email = e /\ s.phase = "claimed"
      BY <1>0 DEF Holding, Run
    <2>4. row' = [row EXCEPT ![e] = x] /\ runs' = (runs \ {r}) \cup {s}
          /\ UNCHANGED ses
      BY <1>5, <2>1 DEF ClaimTaken
    <2> HIDE DEF x, s
    <2>5. row'[e] = x
      BY <1>0, <2>4
    <2> QED
      BY <1>0, <2>2, <2>3, <2>4, <2>5
         DEF Flights, InFlightOf, AtSes, Sent, OnWire, ses
  <1>6. CASE Submit(r)
    <2>1. PICK m : m = requests[e] + 1
      OBVIOUS
    <2>2. PICK s : s = Requesting(r, m)
      OBVIOUS
    <2>3. PICK q : q = [run |-> r.id, email |-> e, msg |-> m, to |-> r.to]
      OBVIOUS
    <2>4. /\ runs' = (runs \ {r}) \cup {s} /\ wire' = wire \cup {q}
          /\ accepted' = accepted
      BY <1>6, <2>1, <2>2, <2>3 DEF Submit
    <2>5. s.email = e /\ s.phase = "waiting" /\ q.email = e /\ q.msg # 0
          /\ r.phase \in InFlight
      <3>1. m # 0
        BY <1>0, <2>1 DEF TypeOK
      <3> QED
        BY <1>0, <1>6, <2>2, <2>3, <3>1 DEF Requesting, Run, Submit, InFlight
    <2> QED
      BY <2>4, <2>5 DEF Flights, InFlightOf, AtSes, Sent, OnWire
  <1> QED
    BY <1>1, <1>2, <1>3, <1>4, <1>5, <1>6 DEF RunStep, ClaimStep

LEMMA FlightsSes ==
    ASSUME FeedbackInv, NEW q \in wire, SesStep(q)
    PROVE  Flights
  <1>0. /\ TypeOK /\ q.msg # 0 /\ q.email \in Emails /\ wire' = wire \ {q}
        /\ accepted' \in {accepted, accepted \cup {Taken(q)}}
        /\ Taken(q).email = q.email /\ Taken(q).msg = q.msg
    BY DEF FeedbackInv, FeedbackTypeOK, TypeOK, Request, SesTold, SesStep, SesAccepts,
           SesDrops, SesAnswersAccepted, SesAnswersRefused, Taken
  <1>1. \A e \in Emails : AtSes(e)' => AtSes(e)
    BY <1>0 DEF AtSes, Sent, OnWire
  <1>2. CASE SesAccepts(q) \/ SesDrops(q)
    BY <1>0, <1>1, <1>2 DEF Flights, InFlightOf, SesAccepts, SesDrops, pool, InFlight
  <1>3. ASSUME NEW r \in runs, NEW p \in Phase, AwaitedBy(r, q), Advance(r, p),
               p = "sent" => Taken(q) \in accepted'
        PROVE  Flights
    <2>1. PICK s : s = [r EXCEPT !.phase = p]
      OBVIOUS
    <2>2. /\ runs' = (runs \ {r}) \cup {s}
          /\ s.email = q.email /\ s.email = r.email /\ s.msg = q.msg /\ s.phase = p
          /\ r.phase \in InFlight
      BY <1>0, <1>3, <2>1 DEF TypeOK, Run, Advance, Become, AwaitedBy, InFlight
    <2>3. p = "sent" => Evidence(s.email, s.msg)'
      BY <1>0, <1>3, <2>2 DEF Evidence
    <2> QED
      BY <1>0, <1>1, <2>2, <2>3 DEF Flights, InFlightOf, InFlight
  <1>4. ASSUME NEW r \in runs, SesAnswersAccepted(q, r)
        PROVE  Flights
    BY <1>3, <1>4 DEF SesAnswersAccepted, Phase
  <1>5. ASSUME NEW r \in runs, NEW a \in {"throttled", "failed"}, SesAnswersRefused(q, r, a)
        PROVE  Flights
    BY <1>3, <1>5 DEF SesAnswersRefused, Phase
  <1> QED
    BY <1>2, <1>4, <1>5 DEF SesStep

LEMMA FlightsFNext ==
    ASSUME FeedbackInv, [FNext]_fvars
    PROVE  Flights
  <1>1. ASSUME NEW e \in Emails, UserStep(e) \/ Prune(e) \/ PurgeEmail(e)
        PROVE  Flights
    <2>1. UNCHANGED ses
      BY <1>1 DEF UserStep, CreateNow, CreateScheduled, CancelEmail, RescheduleEmail,
                  Prune, PurgeEmail, Erase
    <2>2. \A s \in runs' : s \in runs \/ s.phase = "pending"
      BY <1>1 DEF UserStep, CreateNow, CreateScheduled, CancelEmail, RescheduleEmail,
                  Prune, PurgeEmail, Erase, pool, Enqueue, NewRun
    <2> QED
      BY <2>1, <2>2, FlightsGoOn DEF InFlight
  <1>2. ASSUME NEW j \in jobs, Release(j)
        PROVE  Flights
    <2>1. UNCHANGED ses /\ \A s \in runs' : s \in runs \/ s.phase = "pending"
      BY <1>2 DEF Release, pool, Enqueue, NewRun
    <2> QED
      BY <2>1, FlightsGoOn DEF InFlight
  <1>3. CASE TeamStep \/ UNCHANGED vars
    BY <1>3, FlightsGoOn DEF TeamStep, RetireTeam, AddSuppression, RemoveSuppression,
                             vars, pool
  <1>4. CASE [Next]_vars
    BY <1>1, <1>2, <1>3, <1>4, FlightsRun, FlightsSes DEF Next
  <1>5. ASSUME FeedbackStep
        PROVE  UNCHANGED <<runs, ses>>
    BY <1>5 DEF FeedbackStep, Ingest, Project, ProjectLater, Hit, vars, pool
  <1> QED
    BY <1>4, <1>5, FlightsGoOn DEF FNext, fvars

LEMMA FlightsClaimedNext ==
    ASSUME FeedbackInv, FeedbackTypeOK', Flights, Grows, \A e \in Emails : EmailStep(e)
    PROVE  FlightsClaimed'
  <1>1. ASSUME NEW s \in runs', s.phase \in InFlight, s.email \in emails'
        PROVE  /\ row'[s.email].attempts > 0
               /\ row'[s.email].claimed \/ row'[s.email].sentAt
    <2> DEFINE e == s.email
    <2>0. CASE row'[e].claimed /\ row'[e].attempts > 0
      BY <2>0
    <2>1. CASE InFlightOf(e)
      <3>0. PICK r \in runs : r.email = e /\ r.phase \in InFlight
        BY <2>1 DEF InFlightOf
      <3>1. /\ e \in Emails /\ e \in born /\ e \in emails
            /\ row[e].attempts > 0 /\ (row[e].claimed \/ row[e].sentAt)
            /\ row[e].attempts \in Nat /\ row'[e].attempts \in Nat
        BY <1>1, <3>0 DEF FeedbackInv, FeedbackTypeOK, TypeOK, Row, SendInv, Known, Grows,
                          FlightsClaimed
      <3>2. CASE Stays(e)
        BY <3>1, <3>2 DEF Stays
      <3>3. CASE MovesOn(e) \/ Fails(e) \/ IsOpened(e)
        <4>1. Silent(e)
          BY <3>3 DEF MovesOn, Fails, IsOpened
        <4>2. row'[e].attempts > 0
          BY <3>1, <4>1 DEF Silent
        <4> QED
          BY <1>1, <3>1, <4>1, <4>2 DEF Silent
      <3>4. CASE IsAccepted(e)
        BY <3>1, <3>4 DEF IsAccepted
      <3> QED
        BY <3>1, <3>2, <3>3, <3>4 DEF EmailStep, Appears
    <2> QED
      BY <1>1, <2>0, <2>1 DEF Flights
  <1>2. ASSUME NEW s \in runs', s.phase = "sent"
        PROVE  Evidence(s.email, s.msg)'
    <2>1. CASE s \in runs
      <3>1. Evidence(s.email, s.msg)
        BY <1>2, <2>1 DEF FeedbackInv, FlightsClaimed
      <3> QED
        BY <3>1 DEF Evidence, Grows
    <2> QED
      BY <1>2, <2>1 DEF Flights
  <1> QED
    BY <1>1, <1>2 DEF FlightsClaimed

LEMMA SesToldNext ==
    ASSUME FeedbackInv, FeedbackTypeOK', Flights, Grows, \A e \in Emails : EmailStep(e)
    PROVE  SesTold'
  <1>1. ASSUME NEW e \in emails', AtSes(e)'
        PROVE  row'[e].attempts > 0
    <2>0. e \in Emails /\ row[e].attempts \in Nat /\ row'[e].attempts \in Nat
      BY DEF FeedbackInv, FeedbackTypeOK, TypeOK, Row
    <2>1. AtSes(e) \/ InFlightOf(e)
      BY <1>1, <2>0 DEF Flights
    <2>2. e \in emails /\ e \in born
      BY <1>1, <2>1 DEF FeedbackInv, SendInv, Known, AtSes, Sent, OnWire, InFlightOf, Grows
    <2>3. row[e].attempts > 0
      BY <2>1, <2>2 DEF FeedbackInv, SesTold, FlightsClaimed, InFlightOf
    <2>4. row[e].attempts <= row'[e].attempts
      BY <2>0, <2>2 DEF EmailStep, Stays, Appears, MovesOn, Fails, IsOpened, IsAccepted,
                        Silent
    <2> QED
      BY <2>0, <2>3, <2>4
  <1>2. (\A q \in wire : q.msg # 0) /\ \A m \in accepted : m.msg # 0
    BY DEF FeedbackInv, SesTold
  <1>3. (\A q \in wire' : q.msg # 0) /\ \A m \in accepted' : m.msg # 0
    BY <1>2 DEF Flights
  <1> QED
    BY <1>1, <1>3 DEF SesTold

(***************************************************************************)
(* The notifications.                                                      *)
(***************************************************************************)
LEMMA EventsProject ==
    ASSUME FeedbackInv, Grows, NEW j \in projectJobs, Project(j)
    PROVE  EventsReal'
  <1> DEFINE ev == j.event
             status == KindStatus[ev.kind]
  <1>0. /\ EventsReal /\ FeedbackTypeOK /\ ev \in stored /\ ev \notin projected
        /\ ev.email \in Emails
        /\ stored' = stored /\ projected' = projected \cup {ev}
        /\ projectJobs' = projectJobs \ {j}
        /\ entries' = IF status = "sent" THEN entries
                      ELSE [entries EXCEPT ![ev.email] = @ + 1]
    BY FeedbackTypeFields DEF FeedbackInv, EventsReal, Project, Projectable
  <1>1. \A x \in stored' : Evidence(x.email, x.msg)'
    BY <1>0, EvidenceStays DEF EventsReal
  <1>2. IsFiniteSet(projected')
    BY <1>0, FS_AddElement DEF EventsReal
  <1>3. ASSUME NEW e \in Emails
        PROVE  entries'[e] = Cardinality(Entered(e)')
    <2>1. /\ IsFiniteSet(Entered(e)) /\ ev \notin Entered(e)
          /\ entries[e] = Cardinality(Entered(e))
      BY <1>0, FS_Subset DEF Entered, EventsReal
    <2>2. CASE e = ev.email /\ status # "sent"
      <3>1. Entered(e)' = Entered(e) \cup {ev}
        BY <1>0, <2>2 DEF Entered
      <3>2. entries'[e] = entries[e] + 1
        BY <1>0, <2>2 DEF FeedbackTypeOK
      <3> QED
        BY <2>1, <3>1, <3>2, FS_AddElement
    <2>3. CASE ~(e = ev.email /\ status # "sent")
      <3>1. Entered(e)' = Entered(e)
        BY <1>0, <2>3 DEF Entered
      <3>2. entries'[e] = entries[e]
        BY <1>0, <2>3 DEF FeedbackTypeOK
      <3> QED
        BY <2>1, <3>1, <3>2
    <2> QED
      BY <2>2, <2>3
  <1>4. \A k \in projectJobs' : k.event \in stored'
    BY <1>0 DEF EventsReal
  <1> QED
    BY <1>1, <1>2, <1>3, <1>4 DEF EventsReal

LEMMA EventsNext ==
    ASSUME FeedbackInv, Grows, [FNext]_fvars
    PROVE  EventsReal'
  <1>0. EventsReal /\ FeedbackTypeOK
    BY DEF FeedbackInv
  <1>1. CASE stored' = stored /\ projectJobs' = projectJobs /\ UNCHANGED <<projected, entries>>
    <2>1. \A x \in stored' : Evidence(x.email, x.msg)'
      BY <1>0, <1>1, EvidenceStays DEF EventsReal
    <2>2. \A e \in Emails : Entered(e)' = Entered(e)
      BY <1>1 DEF Entered
    <2> QED
      BY <1>0, <1>1, <2>1, <2>2 DEF EventsReal
  <1>2. ASSUME NEW m \in accepted, NEW ev \in Reports(m), Ingest(ev)
        PROVE  EventsReal'
    <2>1. Evidence(ev.email, ev.msg) /\ stored' = stored \cup {ev}
      BY <1>2 DEF Reports, Evidence, Ingest
    <2>2. \A x \in stored' : Evidence(x.email, x.msg)'
      BY <1>0, <2>1, EvidenceStays DEF EventsReal
    <2>3. \A e \in Emails : Entered(e)' = Entered(e)
      BY <1>2 DEF Entered, Ingest
    <2>4. \A j \in projectJobs' : j.event \in stored'
      BY <1>0, <1>2, <2>1 DEF Ingest, EventsReal
    <2> QED
      BY <1>0, <1>2, <2>2, <2>3, <2>4 DEF EventsReal, Ingest
  <1>3. ASSUME NEW j \in projectJobs, ProjectLater(j)
        PROVE  EventsReal'
    <2>1. PICK again : again = [j EXCEPT !.attempt = @ + 1]
      OBVIOUS
    <2>2. projectJobs' \subseteq projectJobs \cup {again}
      BY <1>3, <2>1 DEF ProjectLater
    <2>3. again.event = j.event
      BY <1>0, <2>1, FeedbackTypeFields DEF ProjectJob
    <2>4. \A k \in projectJobs' : k.event \in stored'
      BY <1>0, <1>3, <2>2, <2>3 DEF ProjectLater, EventsReal
    <2>5. \A x \in stored' : Evidence(x.email, x.msg)'
      BY <1>0, <1>3, EvidenceStays DEF EventsReal, ProjectLater
    <2>6. \A e \in Emails : Entered(e)' = Entered(e)
      BY <1>3 DEF Entered, ProjectLater
    <2> QED
      BY <1>0, <1>3, <2>4, <2>5, <2>6 DEF EventsReal, ProjectLater
  <1> QED
    BY <1>1, <1>2, <1>3, EventsProject DEF FNext, FeedbackStep, Hit, feedback, fvars

(***************************************************************************)
(* Why feedback is given up.                                               *)
(***************************************************************************)
\* Feedback is about an email that was at SES, so no sender is yet to claim it.
LEMMA StoredIsAtSes ==
    ASSUME FeedbackInv, NEW ev \in stored
    PROVE  /\ ev \in Event /\ ev.email \in Emails /\ ev.to \in Addresses
           /\ ev.email \in born /\ AtSes(ev.email)
           /\ \E a \in accepted : a.email = ev.email /\ a.msg = ev.msg
  <1>1. ev \in Event /\ ev.email \in Emails /\ ev.to \in Addresses
    BY DEF FeedbackInv, FeedbackTypeOK, Event
  <1>2. \E a \in accepted : a.email = ev.email /\ a.msg = ev.msg
    BY DEF FeedbackInv, EventsReal, Evidence
  <1> QED
    BY <1>1, <1>2 DEF FeedbackInv, SendInv, Known, AtSes, Sent

\* What projectEvent cannot apply, it cannot for one of the named reasons.
LEMMA WhyNotProjectable ==
    ASSUME FeedbackInv, NEW ev \in stored, ev \notin projected, ~Projectable(ev)
    PROVE  GivenUpFor(ev)
  <1> DEFINE e == ev.email
  <1> SUFFICES ASSUME e \in emails, ~Retired(e), e \notin sdkRetried,
                      ev.to \notin row[e].dropped
               PROVE  row[e].msg = 0 /\ row[e].status \in Engaged /\ ~row[e].claimed
    BY DEF GivenUpFor
  <1>0. /\ e \in Emails /\ ev.to \in Addresses /\ AtSes(e) /\ row[e] \in Row
        /\ RowFits(e) /\ row[e].attempts > 0 /\ row[e].status \in Status
    BY StoredIsAtSes DEF FeedbackInv, FeedbackTypeOK, TypeOK, RowsFit, SesTold, Row
  <1>1. row[e].msg \in {0, ev.msg}
    <2>1. PICK a \in accepted : a.email = e /\ a.msg = ev.msg
      BY StoredIsAtSes
    <2>2. row[e].msg # 0 => Evidence(e, row[e].msg)
      BY <1>0 DEF RowFits
    <2> QED
      BY <1>0, <2>1, <2>2 DEF Evidence, FeedbackInv, SendInv, OneAtSes
  <1>2. row[e].status \notin Withheld \cup {"scheduled"}
    BY <1>0 DEF FeedbackInv, SendInv, Unreleased, Clear, Withheld
  <1>3. NamesRecipient(ev)
    BY <1>0 DEF NamesRecipient, Reached
  <1>4. ~Expected(row[e])
    BY <1>1, <1>2, <1>3 DEF Projectable
  <1>5. /\ row[e].msg = 0 /\ ~row[e].claimed
        /\ row[e].status # "failed"
    BY <1>0, <1>4 DEF Expected
  <1>6. row[e].status # "queued"
    BY <1>0, <1>5 DEF FeedbackInv, SendInv, Clear
  <1>7. row[e].status \notin Proven
    BY <1>0, <1>5 DEF RowFits
  <1> QED
    BY <1>0, <1>2, <1>5, <1>6, <1>7 DEF Status, Proven, Withheld, Engaged

LEMMA ReasonStays ==
    ASSUME FeedbackInv, Grows, \A e \in Emails : EmailStep(e),
           NEW ev \in stored, GivenUpFor(ev)
    PROVE  GivenUpFor(ev)'
  <1> DEFINE e == ev.email
  <1>0. e \in Emails /\ e \in born /\ AtSes(e) /\ EmailStep(e)
    BY StoredIsAtSes
  <1> SUFFICES ASSUME e \in emails, e \in emails', ~Retired(e)', e \notin sdkRetried'
               PROVE  GivenUpFor(ev)'
    BY <1>0 DEF GivenUpFor, Grows
  <1>1. ~Retired(e) /\ e \notin sdkRetried /\ RowFits(e)
    BY DEF Grows, Retired, FeedbackInv, RowsFit
  <1>2. CASE /\ row[e].msg = 0
             /\ row[e].status \in Engaged
             /\ ~row[e].claimed
    <2>1. ~row[e].sentAt /\ row[e].status \notin Pending \cup {"failed"}
      BY <1>1, <1>2 DEF RowFits, Engaged, Pending
    <2>2. Stays(e) \/ IsOpened(e)
      BY <1>0, <1>2, <2>1 DEF EmailStep, Appears, MovesOn, Fails, IsAccepted, Pending
    <2> QED
      BY <1>2, <2>2 DEF Stays, IsOpened, Silent, GivenUpFor
  <1>3. CASE ev.to \in row[e].dropped
    <2>1. ~(row[e].status = "queued" /\ ~row[e].claimed)
      BY <1>0, <1>1 DEF FeedbackInv, SendInv, Clear
    <2>2. row'[e].dropped = row[e].dropped
      BY <1>0, <2>1 DEF EmailStep, Stays, Appears, MovesOn, Fails, IsAccepted, IsOpened
    <2> QED
      BY <1>3, <2>2 DEF GivenUpFor
  <1> QED
    BY <1>1, <1>2, <1>3 DEF GivenUpFor

LEMMA GivenUpNext ==
    ASSUME FeedbackInv, Grows, \A e \in Emails : EmailStep(e), [FNext]_fvars
    PROVE  GivenUpOnlyFor'
  <1> SUFFICES ASSUME NEW ev \in stored', GivenUp(ev)'
               PROVE  GivenUpFor(ev)'
    BY DEF GivenUpOnlyFor
  <1>0. FeedbackTypeOK
    BY DEF FeedbackInv
  <1>1. CASE ev \in stored /\ GivenUp(ev)
    <2>1. GivenUpFor(ev)
      BY <1>1 DEF FeedbackInv, GivenUpOnlyFor
    <2> QED
      BY <1>1, <2>1, ReasonStays
  <1>2. CASE ~(ev \in stored /\ GivenUp(ev))
    <2>1. CASE UNCHANGED feedback
      BY <1>2, <2>1 DEF GivenUp, feedback
    <2>2. ASSUME NEW m \in accepted, NEW x \in Reports(m), Ingest(x)
          PROVE  FALSE
      <3>1. stored' = stored \cup {x} /\ projected' = projected
            /\ projectJobs \subseteq projectJobs'
        BY <2>2 DEF Ingest
      <3>2. x \notin projected => \E k \in projectJobs' : k.event = x
        <4> SUFFICES ASSUME x \notin projected
                     PROVE  \E k \in projectJobs' : k.event = x
          OBVIOUS
        <4>1. PICK post : projectJobs' = projectJobs \cup
                            {[event |-> x, attempt |-> 0, post |-> post]}
          BY <2>2 DEF Ingest
        <4>2. PICK k : k = [event |-> x, attempt |-> 0, post |-> post]
          OBVIOUS
        <4>3. k \in projectJobs' /\ k.event = x
          BY <4>1, <4>2
        <4> QED
          BY <4>3
      <3> QED
        BY <1>2, <3>1, <3>2 DEF GivenUp
    <2>3. ASSUME NEW j \in projectJobs, Project(j)
          PROVE  FALSE
      BY <1>2, <2>3 DEF Project, GivenUp
    <2>4. ASSUME NEW j \in projectJobs, ProjectLater(j)
          PROVE  GivenUpFor(ev)'
      <3>1. /\ ~Projectable(j.event) /\ projectJobs \ {j} \subseteq projectJobs'
            /\ UNCHANGED <<vars, stored, projected>>
        BY <2>4 DEF ProjectLater
      <3>2. ev = j.event /\ ev \in stored /\ ev \notin projected
        BY <1>2, <3>1 DEF GivenUp
      <3>3. GivenUpFor(ev)
        BY <3>1, <3>2, WhyNotProjectable
      <3> QED
        BY <3>2, <3>3, ReasonStays
    <2>5. ASSUME NEW e \in Emails, NEW status \in Engaged, Hit(e, status)
          PROVE  UNCHANGED feedback
      BY <2>5 DEF Hit
    <2> QED
      BY <2>1, <2>2, <2>3, <2>4, <2>5 DEF FNext, FeedbackStep, fvars
  <1> QED
    BY <1>1, <1>2

(***************************************************************************)
(* The theorems.                                                           *)
(***************************************************************************)
LEMMA FeedbackInit == FInit => FeedbackInv
  <1> SUFFICES ASSUME FInit PROVE FeedbackInv
    OBVIOUS
  <1>1. SendInv /\ FeedbackTypeOK
    BY SendInit DEF FInit, FeedbackTypeOK, SendInv
  <1>2. RowsFit /\ AcceptancesCounted /\ FlightsClaimed /\ SesTold
    BY DEF FInit, Init, RowsFit, AcceptancesCounted, OneSentEntry, Fresh,
           FlightsClaimed, SesTold
  <1>3. projected = {} /\ \A e \in Emails : Entered(e) = {}
    BY DEF FInit, Entered
  <1>4. EventsReal /\ GivenUpOnlyFor
    BY <1>3, FS_EmptySet DEF FInit, EventsReal, GivenUpOnlyFor
  <1> QED
    BY <1>1, <1>2, <1>4 DEF FeedbackInv

LEMMA FeedbackStepInv == FeedbackInv /\ [FNext]_fvars => FeedbackInv'
  <1> SUFFICES ASSUME FeedbackInv, [FNext]_fvars PROVE FeedbackInv'
    OBVIOUS
  <1>1. FeedbackTypeOK' /\ SendInv' /\ Grows /\ Flights /\ EventsReal'
    BY FeedbackTypeNext, SendFNext, GrowsFNext, FlightsFNext, EventsNext
  <1>2. \A e \in Emails : EmailStep(e)
    BY StepFNext
  <1>3. AcceptancesCounted' /\ FlightsClaimed' /\ SesTold' /\ GivenUpOnlyFor'
    BY <1>1, <1>2, CountedNext, FlightsClaimedNext, SesToldNext, GivenUpNext
  <1>4. RowsFit'
    <2> SUFFICES ASSUME NEW e \in emails' PROVE RowFits(e)'
      BY DEF RowsFit
    <2>1. e \in Emails
      BY <1>1 DEF FeedbackTypeOK, TypeOK
    <2> QED
      BY <1>1, <1>2, <2>1, RowFitsNext
  <1> QED
    BY <1>1, <1>3, <1>4 DEF FeedbackInv

\* Every reachable state of the composed system satisfies the inductive invariant.
THEOREM FeedbackInvariant == FSpec => []FeedbackInv
  <1> QED
    BY FeedbackInit, FeedbackStepInv, PTL DEF FSpec

\* The tables keep their shapes, with notifications and hits in any order.
THEOREM FeedbackTypeCorrect == FSpec => []FeedbackTypeOK
  <1>1. FeedbackInv => FeedbackTypeOK
    BY DEF FeedbackInv
  <1> QED
    BY <1>1, FeedbackInvariant, PTL

\* projectEvent, hit, recordOutcome: a status past "failed" means that SES accepted
\* the message, and a recorded acceptance is of a message it accepted.
THEOREM EvidenceIsRealAlways == FSpec => []EvidenceIsReal
  <1>1. FeedbackInv => EvidenceIsReal
    <2> SUFFICES ASSUME FeedbackInv PROVE EvidenceIsReal
      OBVIOUS
    <2>1. ASSUME NEW e \in emails,
                 row[e].status \notin Pending \cup Withheld \cup {"failed"}
          PROVE  Sent(e) # {}
      <3>1. RowFits(e) /\ row[e].status \in Status
        BY DEF FeedbackInv, RowsFit, FeedbackTypeOK, TypeOK, Row
      <3>2. row[e].status \in Proven \cup Engaged
        BY <2>1, <3>1 DEF Status, Pending, Withheld, Proven, Engaged
      <3> QED
        BY <3>1, <3>2 DEF RowFits, Evidence, Sent
    <2>2. SentMeansAccepted
      BY DEF SentMeansAccepted, FeedbackInv, RowsFit, RowFits, Evidence, Sent
    <2> QED
      BY <2>1, <2>2 DEF EvidenceIsReal
  <1> QED
    BY <1>1, FeedbackInvariant, PTL

\* settle, acceptEmail, projectEvent: the sender finds the body it must send; the
\* one-time link of account mail does not outlive its sending.
THEOREM ContentKeptAlways == FSpec => []ContentKept
  <1>1. FeedbackInv => ContentKept
    BY DEF FeedbackInv, RowsFit, RowFits, ContentKept
  <1> QED
    BY <1>1, FeedbackInvariant, PTL

\* projectEvent, project: a notification enters the timeline once, an acceptance
\* once, whoever tells of it first; feedback is given up in the named cases only.
THEOREM FeedbackCountedAlways == FSpec => []FeedbackCounted
  <1>1. FeedbackInv => FeedbackCounted
    <2> SUFFICES ASSUME FeedbackInv PROVE FeedbackCounted
      OBVIOUS
    <2>1. EventEnteredOnce
      BY DEF FeedbackInv, AcceptancesCounted, EventsReal, Entered, EventEnteredOnce
    <2>2. FeedbackGivenUpOnlyWhen
      BY DEF FeedbackInv, GivenUpOnlyFor, GivenUpFor, FeedbackGivenUpOnlyWhen
    <2> QED
      BY <2>1, <2>2 DEF FeedbackCounted
  <1> QED
    BY <1>1, FeedbackInvariant, PTL

\* recordOutcome, projectEvent, RANK: no step, whatever is late, repeated or out of
\* order, loses an acceptance, asks for another send or takes a status back.
THEOREM NothingTakenBackAlways == FSpec => NothingTakenBack
  <1>1. FeedbackInv /\ [FNext]_fvars =>
          [\A e \in emails \cap emails' :
             row[e].sentAt =>
                /\ row'[e].sentAt
                /\ row'[e].msg = row[e].msg
                /\ row'[e].status # "queued"
                /\ ~row'[e].claimed]_fvars
    <2> SUFFICES ASSUME FeedbackInv, [FNext]_fvars,
                        NEW e \in emails \cap emails', row[e].sentAt
                 PROVE  /\ row'[e].sentAt
                        /\ row'[e].msg = row[e].msg
                        /\ row'[e].status # "queued"
                        /\ ~row'[e].claimed
      OBVIOUS
    <2>1. /\ EmailStep(e) /\ FeedbackInv' /\ e \in born
      BY StepFNext, FeedbackStepInv DEF FeedbackInv, FeedbackTypeOK, TypeOK
    <2>2. row'[e].sentAt /\ row'[e].msg = row[e].msg
      BY <2>1 DEF EmailStep, Stays, Appears, MovesOn, Fails, IsAccepted, IsOpened, Silent
    <2>3. RowFits(e)'
      BY <2>1 DEF FeedbackInv, RowsFit
    <2> QED
      BY <2>2, <2>3 DEF RowFits, Pending
  <1>2. FeedbackInv /\ [FNext]_fvars =>
          [\A e \in emails \cap emails' :
             /\ Rank[row[e].status] <= Rank[row'[e].status]
             /\ row[e].status \in Withheld => row'[e].status = row[e].status]_vars
    <2> SUFFICES ASSUME FeedbackInv, [FNext]_fvars, NEW e \in emails \cap emails'
                 PROVE  /\ Rank[row[e].status] <= Rank[row'[e].status]
                        /\ row[e].status \in Withheld => row'[e].status = row[e].status
      OBVIOUS
    <2>1. /\ EmailStep(e) /\ e \in born /\ e \in Emails
          /\ row[e].status \in Status /\ row'[e].status \in Status
      BY StepFNext, FeedbackTypeNext DEF FeedbackInv, FeedbackTypeOK, TypeOK, Row
    <2>2. /\ Rank[row[e].status] \in Nat /\ Rank[row'[e].status] \in Nat
          /\ row[e].status \in Pending => Rank[row[e].status] = 0
      BY <2>1, RankOfPending
    <2>3. Rank[row[e].status] <= Rank[row'[e].status]
      BY <2>1, <2>2 DEF EmailStep, Stays, Appears, MovesOn, Fails, IsAccepted, IsOpened,
                        Pending
    <2>4. row[e].status \in Withheld => row'[e].status = row[e].status
      BY <2>1 DEF EmailStep, Stays, Appears, MovesOn, Fails, IsAccepted, IsOpened,
                  Pending, Withheld
    <2> QED
      BY <2>3, <2>4
  <1>3. FSpec => AcceptanceIsFinal
    BY <1>1, FeedbackInvariant, PTL DEF FSpec, AcceptanceIsFinal
  <1>4. FSpec => StatusNeverRegresses
    BY <1>2, FeedbackInvariant, PTL DEF FSpec, StatusNeverRegresses
  <1> QED
    BY <1>3, <1>4 DEF NothingTakenBack

=============================================================================
