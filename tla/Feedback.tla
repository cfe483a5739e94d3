------------------------------ MODULE Feedback ------------------------------
(***************************************************************************)
(* What comes back about a message SES accepted, composed with the send    *)
(* pipeline of Emails: SNS notifications (src/convex/ses/state.ts and      *)
(* ses/projection.ts) and hits on the tracking endpoints                   *)
(* (src/convex/tracking.ts).                                               *)
(*                                                                         *)
(* SNS delivers a notification any time after SES accepted the message:    *)
(* before the answer to SendEmail was recorded, late, out of order, again, *)
(* or never.                                                               *)
(***************************************************************************)
EXTENDS Emails

CONSTANTS
    Kinds,          \* the kinds of notification SES sends, among KindStatus
    Tracked,        \* emails whose domain had tracking on when first claimed
    ProjectRetries, \* project's retries of an unprojected event (6)
    MaxStored,      \* bound: notifications stored
    MaxPosts        \* bound: chains of project jobs of one notification

\* TYPES, with SES's two kinds of bounce told apart.
KindStatus ==
    [SEND |-> "sent", DELIVERY |-> "delivered", BOUNCE |-> "bounced",
     TRANSIENT |-> "bounced", COMPLAINT |-> "complained",
     DELAY |-> "delivery_delayed", REJECT |-> "failed"]

ASSUME FeedbackAssumption ==
    /\ Kinds \subseteq DOMAIN KindStatus
    /\ Tracked \subseteq Emails \ System
    /\ ProjectRetries \in Nat
    /\ MaxStored \in Nat
    /\ MaxPosts \in Nat \ {0}

VARIABLES
    stored,         \* sesEvents rows
    projected,      \* those with a projectedAt
    projectJobs,    \* scheduled project jobs
    entries         \* timeline entries that events put on each email

feedback == <<stored, projected, projectJobs, entries>>
fvars == <<vars, feedback>>

\* A notification about one recipient `to' of message `msg'.
Event == [email : Emails, msg : Nat, kind : Kinds, to : Addresses]

\* post tells the jobs apart that SNS starts by delivering an event repeatedly.
ProjectJob == [event : Event, attempt : Nat, post : 1..MaxPosts]

FeedbackTypeOK ==
    /\ TypeOK
    /\ stored \subseteq Event
    /\ projected \subseteq stored
    /\ projectJobs \subseteq ProjectJob
    /\ entries \in [Emails -> Nat]

FInit ==
    /\ Init
    /\ stored = {}
    /\ projected = {}
    /\ projectJobs = {}
    /\ entries = [e \in Emails |-> 0]
-----------------------------------------------------------------------------
\* What SES can tell of a message: what became of it for one recipient.
Reports(m) ==
    {[email |-> m.email, msg |-> m.msg, kind |-> k, to |-> a] :
        k \in Kinds, a \in m.to}

PostsOf(ev) == {j.post : j \in {k \in projectJobs : k.event = ev}}

\* ingest: a notification is stored once, and each delivery of one that is not
\* projected yet schedules a project job.
Ingest(ev) ==
    /\ ev \in stored \/ Cardinality(stored) < MaxStored
    /\ stored' = stored \cup {ev}
    /\ IF ev \in projected
       THEN UNCHANGED projectJobs
       ELSE LET free == 1..MaxPosts \ PostsOf(ev)
            IN  /\ free # {}
                /\ \E post \in free :
                     /\ \A p \in free : post <= p
                     /\ projectJobs' = projectJobs \cup
                          {[event |-> ev, attempt |-> 0, post |-> post]}
    /\ UNCHANGED <<vars, projected, entries>>

\* Mutant of Expected: a failed email expects no feedback.
ExpectedUnfailed(r) == r.msg # 0 \/ r.claimed \/ r.status = "sent"

\* The row of a message whose id it does not have may still own the message:
\* its run has claimed it, or failed without an answer.
Expected(r) ==
    \/ r.msg # 0
    \/ r.claimed
    \/ r.status = "sent"
    \/ r.status = "failed" /\ r.attempts > 0

\* Feedback that names no recipient of the email is never projected; a SEND
\* or REJECT speaks of the whole message.
NamesRecipient(ev) ==
    \/ KindStatus[ev.kind] \in {"sent", "failed"}
    \/ ev.to \in Reached(row[ev.email])

\* Mutant of Projectable: an event that was applied is applied again.
ProjectableAgain(ev) ==
    /\ ev.email \in emails
    /\ row[ev.email].msg \in {0, ev.msg}
    /\ ~Retired(ev.email)
    /\ row[ev.email].status \notin Withheld \cup {"scheduled"}
    /\ Expected(row[ev.email])
    /\ NamesRecipient(ev)

\* projectEvent's early returns, of an email whose domain has its row and of an event
\* that names its team and comes from its region.
Projectable(ev) ==
    /\ ev \notin projected
    /\ ev.email \in emails
    /\ row[ev.email].msg \in {0, ev.msg}
    /\ ~Retired(ev.email)
    /\ row[ev.email].status \notin Withheld \cup {"scheduled"}
    /\ Expected(row[ev.email])
    /\ NamesRecipient(ev)

Suppressing(ev) == ev.kind \in {"BOUNCE", "COMPLAINT"} /\ ev.email \notin System

\* projectEvent: acceptance is recorded, the address suppressed, the status
\* raised and the timeline extended in one transaction.
Project(j) ==
    LET ev == j.event
        e == ev.email
        status == KindStatus[ev.kind]
    IN  /\ Projectable(ev)
        /\ projectJobs' = projectJobs \ {j}
        /\ projected' = projected \cup {ev}
        /\ row' = [row EXCEPT ![e] = Raised(AcceptedAs(@, ev.msg), status)]
        /\ IF row[e].sentAt
           THEN UNCHANGED <<sentEntries, content>>
           ELSE /\ sentEntries' = [sentEntries EXCEPT ![e] = @ + 1]
                /\ DropSecret(e)
        /\ suppressions' = IF Suppressing(ev) THEN suppressions \cup {ev.to}
                                              ELSE suppressions
        /\ entries' = IF status = "sent" THEN entries
                                         ELSE [entries EXCEPT ![e] = @ + 1]
        /\ UNCHANGED <<born, emails, jobs, pool, ses, retired, history, stored>>

\* project finds nothing to do: it tries again later unless the event is
\* projected or this was the last attempt.
ProjectLater(j) ==
    /\ ~Projectable(j.event)
    /\ projectJobs' =
         (projectJobs \ {j}) \cup
            (IF j.event \notin projected /\ j.attempt < ProjectRetries
             THEN {[j EXCEPT !.attempt = @ + 1]}
             ELSE {})
    /\ UNCHANGED <<vars, stored, projected, entries>>

\* projectEngagement; its timeline entry and webhook event are not counted
\* here, every hit has its own.
Engage(e, status) == row' = [row EXCEPT ![e] = Raised(@, status)]

\* hit: an open or a click, by someone who received the message.
Hit(e, status) ==
    /\ e \in emails \cap Tracked
    /\ Sent(e) # {}
    /\ ~Retired(e)
    /\ row[e].status \notin Withheld \cup {"scheduled"}
    /\ row[e].sentAt \/ row[e].attempts > 0
    /\ Engage(e, status)
    /\ UNCHANGED <<born, emails, content, sentEntries, jobs, pool, ses, team,
                   history, feedback>>
-----------------------------------------------------------------------------
FeedbackStep ==
    \/ \E m \in accepted : \E ev \in Reports(m) : Ingest(ev)
    \/ \E j \in projectJobs : Project(j) \/ ProjectLater(j)
    \/ \E e \in Emails, status \in Engaged : Hit(e, status)

FNext == FeedbackStep \/ (Next /\ UNCHANGED feedback)

FSpec == FInit /\ [][FNext]_fvars

ProjectionsOf(e) ==
    \E j \in projectJobs : j.event.email = e /\ (Project(j) \/ ProjectLater(j))

FFairness ==
    \A e \in Emails :
        /\ WF_fvars(RunsOf(e) /\ UNCHANGED feedback)
        /\ WF_fvars(JobsOf(e) /\ UNCHANGED feedback)
        /\ WF_fvars(ProjectionsOf(e))

FairFSpec == FSpec /\ FFairness
-----------------------------------------------------------------------------
(***************************************************************************)
(* Properties.                                                             *)
(***************************************************************************)
\* An event no project job will look at again and that was never applied.
GivenUp(ev) ==
    /\ ev \in stored \ projected
    /\ \A j \in projectJobs : j.event # ev

\* docs/ses-tenancy.md: feedback can recover an ambiguous failure, stays
\* visible after an engagement and feeds the suppression list.  So feedback
\* about an email the team still keeps is never given up.
FeedbackKept ==
    \A ev \in stored :
        GivenUp(ev) => ev.email \notin emails \/ Retired(ev.email)

\* projectEvent and project: what feedback is given up.  It is about an email
\* that is gone, about a message the row does not remember as its own, about
\* an email that was opened after its sender failed, about an address the row
\* takes for dropped, or about a repeated request.
FeedbackGivenUpOnlyWhen ==
    \A ev \in stored :
        GivenUp(ev) =>
            LET r == row[ev.email]
            IN  \/ ev.email \notin emails
                \/ Retired(ev.email)
                \/ ev.email \in sdkRetried
                \/ r.msg = 0 /\ r.status \in Engaged
                \/ ev.to \in r.dropped

\* projectEvent: an event adds its timeline entry and its webhook events once,
\* however often SNS delivers it and project retries it, and an acceptance adds
\* its one, whether the sender or SES told of it first.
EventEnteredOnce ==
    /\ \A e \in Emails :
         entries[e] = Cardinality({ev \in projected :
                         ev.email = e /\ KindStatus[ev.kind] # "sent"})
    /\ OneSentEntry

\* Every notification counts: once if it says something of an email that is kept, and
\* not at all only in the named cases (projectEvent).
FeedbackCounted == EventEnteredOnce /\ FeedbackGivenUpOnlyWhen

\* projectEvent and hit: whoever reads a status later than "failed" can rely
\* on it: SES did accept the message, and an acceptance on record, whichever of
\* its writers put it there, is of a message SES did accept.
EvidenceIsReal ==
    /\ \A e \in emails :
         row[e].status \notin Pending \cup Withheld \cup {"failed"} => Sent(e) # {}
    /\ SentMeansAccepted

\* projectEvent, recordOutcome: an acceptance once on record is never lost or
\* exchanged, and the row never asks for another send.
AcceptanceIsFinal ==
    [][\A e \in emails \cap emails' :
         row[e].sentAt =>
            /\ row'[e].sentAt
            /\ row'[e].msg = row[e].msg
            /\ row'[e].status # "queued"
            /\ ~row'[e].claimed]_fvars

\* No step of the sender, of SES, of a tracking hit or of the team takes an email
\* back, whatever order they come in (projectEvent, recordOutcome, RANK).
NothingTakenBack == AcceptanceIsFinal /\ StatusNeverRegresses
=============================================================================
