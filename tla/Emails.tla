------------------------------- MODULE Emails -------------------------------
(***************************************************************************)
(* The send pipeline: src/convex/emails.ts, emailSend.ts and emailRows.ts. *)
(*                                                                         *)
(* An email is a row of the database.  A Convex mutation is one atomic     *)
(* transaction, scheduling included, so every mutation is one action here. *)
(* The sender `deliver' is a Convex action run by a workpool: it is not    *)
(* atomic, it may die at any point, and the pool then calls deliverDone    *)
(* exactly once.  Its run is therefore a process of its own with a phase.  *)
(* SES is the environment: it may accept a request and lose the answer, or *)
(* accept it after the run that made it has given up.                      *)
(*                                                                         *)
(* Time is abstracted.  A scheduled job may fire at any moment once it     *)
(* exists, a delayed run starts at any moment after it is enqueued.        *)
(***************************************************************************)
EXTENDS EmailRow, FiniteSets

CONSTANTS
    Emails,         \* email ids
    System,         \* account mail (SYSTEM_SCOPE): no team, content is secret
    Copies,         \* broadcast copies
    Topical,        \* emails with a topic_id
    RetryLimit,     \* the length of RETRY_DELAYS (5 in the code)
    SdkAttempts,    \* requests one ses.send may make (3: the SDK's default)
    MaxReschedules  \* bound: how often a user moves one email's time

ASSUME EmailsAssumption ==
    /\ Addresses # {}
    /\ System \subseteq Emails
    /\ Copies \subseteq Emails \ System
    /\ Topical \subseteq Emails \ System
    /\ RetryLimit \in Nat
    /\ SdkAttempts \in Nat \ {0}
    /\ MaxReschedules \in Nat

VARIABLES
    born,           \* ids that were ever given to an email
    emails,         \* ids with a row in the table
    row,            \* the row of each id
    content,        \* ids whose emailContents row exists
    sentEntries,    \* "sent" entries (and email.sent events) per email
    jobs,           \* scheduled release jobs: [email, gen]
    runs,           \* deliver runs the pool knows of
    enqueued,       \* runs ever enqueued for each email, their ids
    requests,       \* SendEmail requests ever made for each email
    wire,           \* requests SES has not decided on
    accepted,       \* messages SES accepted: [email, msg, to]
    suppressions,   \* the team's suppression list
    retired         \* whether the team has a retirement row

\* History: what the properties need to remember and the code does not keep.
VARIABLES
    claims,         \* successful claims of each email
    charges,        \* send-rate reservations made for each email
    sdkRetried      \* emails one ses.send requested more than once

table == <<born, emails, row, content, sentEntries>>
pool == <<runs, enqueued>>
ses == <<requests, wire, accepted>>
team == <<suppressions, retired>>
history == <<claims, charges, sdkRetried>>
vars == <<table, jobs, pool, ses, team, history>>

(***************************************************************************)
(* A run of `deliver'.  pending: in the pool; claimed: claim returned the  *)
(* message; waiting: a request is out; sent, throttled, timedout, failed:  *)
(* how ses.send ended; returning: the last mutation is done; crashed: the  *)
(* action died and deliverDone is due.                                     *)
(***************************************************************************)
Phase == {"pending", "claimed", "waiting", "sent", "throttled", "timedout",
          "failed", "returning", "crashed"}
Run == [id : Nat, email : Emails, gen : Nat, phase : Phase, tries : Nat,
        msg : Nat, to : SUBSET Addresses]
Job == [email : Emails, gen : Nat]
Request == [run : Nat, email : Emails, msg : Nat, to : SUBSET Addresses]
Message == [email : Emails, msg : Nat, to : SUBSET Addresses]

TypeOK ==
    /\ born \subseteq Emails
    /\ emails \subseteq born
    /\ row \in [Emails -> Row]
    /\ content \subseteq emails
    /\ sentEntries \in [Emails -> Nat]
    /\ jobs \subseteq Job
    /\ runs \subseteq Run
    /\ enqueued \in [Emails -> Nat]
    /\ requests \in [Emails -> Nat]
    /\ wire \subseteq Request
    /\ accepted \subseteq Message
    /\ suppressions \subseteq Addresses
    /\ retired \in BOOLEAN
    /\ claims \in [Emails -> Nat]
    /\ charges \in [Emails -> Nat]
    /\ sdkRetried \subseteq Emails

Init ==
    /\ born = {}
    /\ emails = {}
    /\ row = [e \in Emails |-> Fresh("queued")]
    /\ content = {}
    /\ sentEntries = [e \in Emails |-> 0]
    /\ jobs = {}
    /\ runs = {}
    /\ enqueued = [e \in Emails |-> 0]
    /\ requests = [e \in Emails |-> 0]
    /\ wire = {}
    /\ accepted = {}
    /\ suppressions = {}
    /\ retired = FALSE
    /\ claims = [e \in Emails |-> 0]
    /\ charges = [e \in Emails |-> 0]
    /\ sdkRetried = {}

\* retirement(ctx, organizationId): account mail belongs to no team.
Retired(e) == retired /\ e \notin System
-----------------------------------------------------------------------------
(***************************************************************************)
(* Writes shared by the handlers.                                          *)
(***************************************************************************)
NewRun(e, g) ==
    [id |-> enqueued[e] + 1, email |-> e, gen |-> g, phase |-> "pending",
     tries |-> 0, msg |-> 0, to |-> {}]

\* pool.enqueueAction, in a transaction that leaves the runs `others'.
Enqueue(others, e, g) ==
    /\ runs' = others \cup {NewRun(e, g)}
    /\ enqueued' = [enqueued EXCEPT ![e] = @ + 1]

Become(r, phase) == (runs \ {r}) \cup {[r EXCEPT !.phase = phase]}

\* A run that moves on without writing to the database.
Advance(r, phase) == runs' = Become(r, phase) /\ UNCHANGED enqueued

\* Mutant of DropSecret: the one-time link stays.
DropNothing(e) == content' = content

\* Account mail drops its body, a one-time link, once the sender is done.
DropSecret(e) == content' = IF e \in System THEN content \ {e} ELSE content

Settle(e, status) ==
    /\ row' = [row EXCEPT ![e] = SettledAs(@, status)]
    /\ DropSecret(e)
    /\ UNCHANGED sentEntries

\* Mutant of Accept: every piece of evidence enters the timeline.
AcceptEach(e, m) ==
    /\ row' = [row EXCEPT ![e] = AcceptedAs(@, m)]
    /\ sentEntries' = [sentEntries EXCEPT ![e] = @ + 1]
    /\ DropSecret(e)

\* acceptEmail.
Accept(e, m) ==
    /\ row' = [row EXCEPT ![e] = AcceptedAs(@, m)]
    /\ IF row[e].sentAt
       THEN UNCHANGED <<sentEntries, content>>
       ELSE /\ sentEntries' = [sentEntries EXCEPT ![e] = @ + 1]
            /\ DropSecret(e)

Keep == UNCHANGED <<row, content, sentEntries>>
-----------------------------------------------------------------------------
(***************************************************************************)
(* Users and the scheduler.                                                *)
(***************************************************************************)
CreateNow(e) ==
    /\ e \notin born
    /\ ~Retired(e)
    /\ born' = born \cup {e}
    /\ emails' = emails \cup {e}
    /\ content' = content \cup {e}
    /\ row' = [row EXCEPT ![e] = Fresh("queued")]
    /\ Enqueue(runs, e, 0)
    /\ UNCHANGED <<sentEntries, jobs, ses, team, history>>

CreateScheduled(e) ==
    /\ e \notin born
    /\ e \notin System \cup Copies
    /\ ~Retired(e)
    /\ born' = born \cup {e}
    /\ emails' = emails \cup {e}
    /\ content' = content \cup {e}
    /\ row' = [row EXCEPT ![e] = Fresh("scheduled")]
    /\ jobs' = jobs \cup {[email |-> e, gen |-> 0]}
    /\ UNCHANGED <<sentEntries, pool, ses, team, history>>

\* dropJob: the pending release job of the row is canceled.
OtherJobs(e) == jobs \ {[email |-> e, gen |-> row[e].gen]}

\* Mutant of CancelEmail: a queued email can be canceled too.
CancelLate(e) ==
    /\ e \in emails
    /\ ~Retired(e)
    /\ row[e].status \in Pending
    /\ jobs' = OtherJobs(e)
    /\ row' = [row EXCEPT ![e].status = "canceled", ![e].gen = @ + 1]
    /\ UNCHANGED <<born, emails, content, sentEntries, pool, ses, team, history>>

CancelEmail(e) ==
    /\ e \in emails
    /\ ~Retired(e)
    /\ row[e].status = "scheduled"
    /\ jobs' = OtherJobs(e)
    /\ row' = [row EXCEPT ![e].status = "canceled", ![e].gen = @ + 1]
    /\ UNCHANGED <<born, emails, content, sentEntries, pool, ses, team, history>>

\* Mutant of RescheduleEmail: the new job carries the old generation.
RescheduleStale(e) ==
    /\ e \in emails
    /\ ~Retired(e)
    /\ row[e].status = "scheduled"
    /\ row[e].gen < MaxReschedules
    /\ jobs' = OtherJobs(e) \cup {[email |-> e, gen |-> row[e].gen]}
    /\ row' = [row EXCEPT ![e].gen = @ + 1]
    /\ UNCHANGED <<born, emails, content, sentEntries, pool, ses, team, history>>

RescheduleEmail(e) ==
    /\ e \in emails
    /\ ~Retired(e)
    /\ row[e].status = "scheduled"
    /\ row[e].gen < MaxReschedules
    /\ jobs' = OtherJobs(e) \cup {[email |-> e, gen |-> row[e].gen + 1]}
    /\ row' = [row EXCEPT ![e].gen = @ + 1]
    /\ UNCHANGED <<born, emails, content, sentEntries, pool, ses, team, history>>

Release(j) ==
    /\ jobs' = jobs \ {j}
    /\ IF /\ j.email \in emails
          /\ row[j.email].status = "scheduled"
          /\ row[j.email].gen = j.gen
          /\ ~Retired(j.email)
       THEN /\ row' = [row EXCEPT ![j.email].status = "queued"]
            /\ Enqueue(runs, j.email, j.gen)
       ELSE UNCHANGED <<row, pool>>
    /\ UNCHANGED <<born, emails, content, sentEntries, ses, team, history>>
-----------------------------------------------------------------------------
(***************************************************************************)
(* claim: the run's first mutation.                                        *)
(***************************************************************************)
Claimable(r) ==
    /\ r.phase = "pending"
    /\ r.email \in emails
    /\ row[r.email].status = "queued"
    /\ row[r.email].gen = r.gen
    /\ ~row[r.email].claimed
    /\ ~Retired(r.email)

\* The email moved on since the run was queued: the run does nothing.
ClaimStale(r) ==
    /\ r.phase = "pending"
    /\ ~Claimable(r)
    /\ Advance(r, "returning")
    /\ UNCHANGED <<table, jobs, ses, team, history>>

\* The audience, domain, tenant or topic is gone, or all opted out of it.
ClaimFailed(r) ==
    /\ Claimable(r)
    /\ Settle(r.email, "failed")
    /\ Advance(r, "returning")
    /\ UNCHANGED <<born, emails, jobs, ses, team, history>>

\* The contact of a broadcast copy unsubscribed meanwhile.
ClaimUnsubscribed(r) ==
    /\ Claimable(r)
    /\ r.email \in Copies
    /\ row' = [row EXCEPT ![r.email] = SuppressedAs(@)]
    /\ Advance(r, "returning")
    /\ UNCHANGED <<born, emails, content, sentEntries, jobs, ses, team, history>>

\* The run holds the message for the recipients that are left.
Holding(r, to) == [r EXCEPT !.phase = "claimed", !.to = to]

\* Which addresses opted out of the email's topic, not all of them.
OptedOut(e) == IF e \in Topical THEN SUBSET Addresses \ {Addresses} ELSE {{}}

\* The team's suppressions guard its own mail, not account mail.
Barred(e) == IF e \in System THEN {} ELSE suppressions

ClaimSuppressed(r) ==
    /\ Claimable(r)
    /\ \E opted \in OptedOut(r.email) : Addresses = Barred(r.email) \cup opted
    /\ row' = [row EXCEPT ![r.email] = SuppressedAs(@)]
    /\ Advance(r, "returning")
    /\ UNCHANGED <<born, emails, content, sentEntries, jobs, ses, team, history>>

\* The region's send rate is reserved and not yet there: a run of the next
\* generation, delayed until it is, takes over.
ClaimDeferred(r) ==
    /\ Claimable(r)
    /\ ~row[r.email].rate
    /\ \E opted \in OptedOut(r.email) : Addresses # Barred(r.email) \cup opted
    /\ row' = [row EXCEPT ![r.email].gen = @ + 1, ![r.email].rate = TRUE]
    /\ charges' = [charges EXCEPT ![r.email] = @ + 1]
    /\ Enqueue(Become(r, "returning"), r.email, r.gen + 1)
    /\ UNCHANGED <<born, emails, content, sentEntries, jobs, ses, team, claims,
                   sdkRetried>>

\* A held reservation is due, since its run was delayed to that moment;
\* otherwise one is made and is due at once.
ClaimTaken(r) ==
    /\ Claimable(r)
    /\ \E opted \in OptedOut(r.email) :
         LET dropped == Barred(r.email) \cup opted
         IN  /\ dropped # Addresses
             /\ row' = [row EXCEPT ![r.email] = ClaimedAs(@, dropped)]
             /\ runs' = (runs \ {r}) \cup {Holding(r, Addresses \ dropped)}
    /\ claims' = [claims EXCEPT ![r.email] = @ + 1]
    /\ charges' = [charges EXCEPT ![r.email] =
                     IF row[r.email].rate THEN @ ELSE @ + 1]
    /\ UNCHANGED <<born, emails, content, sentEntries, jobs, enqueued, ses, team,
                   sdkRetried>>
-----------------------------------------------------------------------------
(***************************************************************************)
(* ses.send, inside a run, and SES itself.                                 *)
(***************************************************************************)
\* An attachment or the AWS connection is missing: nothing was requested.
FailEarly(r) ==
    /\ r.phase = "claimed"
    /\ Advance(r, "failed")
    /\ UNCHANGED <<table, jobs, ses, team, history>>

Requesting(r, m) ==
    [r EXCEPT !.phase = "waiting", !.tries = r.tries + 1, !.msg = m]

\* The first request, or the SDK's own retry after a throttled, 5xx or
\* unanswered one.
Submit(r) ==
    /\ \/ r.phase = "claimed"
       \/ r.phase \in {"throttled", "timedout"} /\ r.tries < SdkAttempts
    /\ LET m == requests[r.email] + 1
       IN  /\ requests' = [requests EXCEPT ![r.email] = m]
           /\ wire' = wire \cup
                {[run |-> r.id, email |-> r.email, msg |-> m, to |-> r.to]}
           /\ runs' = (runs \ {r}) \cup {Requesting(r, m)}
    /\ sdkRetried' = IF r.phase = "claimed" THEN sdkRetried
                                            ELSE sdkRetried \cup {r.email}
    /\ UNCHANGED <<table, jobs, enqueued, accepted, team, claims, charges>>

AwaitedBy(r, q) ==
    /\ r.phase = "waiting"
    /\ r.email = q.email
    /\ r.id = q.run
    /\ r.msg = q.msg

Taken(q) == [email |-> q.email, msg |-> q.msg, to |-> q.to]

\* SES accepts a request; nobody hears of it.
SesAccepts(q) ==
    /\ wire' = wire \ {q}
    /\ accepted' = accepted \cup {Taken(q)}
    /\ UNCHANGED <<table, jobs, pool, requests, team, history>>

SesAnswersAccepted(q, r) ==
    /\ AwaitedBy(r, q)
    /\ wire' = wire \ {q}
    /\ accepted' = accepted \cup {Taken(q)}
    /\ Advance(r, "sent")
    /\ UNCHANGED <<table, jobs, requests, team, history>>

\* A refused request, or one that never arrives.
SesDrops(q) ==
    /\ wire' = wire \ {q}
    /\ UNCHANGED <<table, jobs, pool, requests, accepted, team, history>>

\* throttled: throttling or 5xx, which refuse the message; failed: any 4xx.
SesAnswersRefused(q, r, answer) ==
    /\ AwaitedBy(r, q)
    /\ wire' = wire \ {q}
    /\ Advance(r, answer)
    /\ UNCHANGED <<table, jobs, requests, accepted, team, history>>

\* requestTimeout, or a connection that breaks: the request may still land.
Timeout(r) ==
    /\ r.phase = "waiting"
    /\ Advance(r, "timedout")
    /\ UNCHANGED <<table, jobs, ses, team, history>>
-----------------------------------------------------------------------------
(***************************************************************************)
(* record and deliverDone.                                                 *)
(***************************************************************************)
\* Mutant of Recordable: only a claimed email can fail.
RecordableOnceClaimed(r, was) ==
    /\ r.email \in emails
    /\ was.gen = r.gen
    /\ ~Retired(r.email)
    /\ \/ was.status = "queued" /\ was.claimed
       \/ was.sentAt
       \/ was.status \in Engaged

\* recordOutcome's early returns, on the row `was' the handler read.
Recordable(r, was) ==
    /\ r.email \in emails
    /\ was.gen = r.gen
    /\ ~Retired(r.email)
    /\ was.status = "queued" \/ was.sentAt \/ was.status \in Engaged

\* A failure still says something: no acceptance or engagement is on record.
Failable(r, was) ==
    /\ Recordable(r, was)
    /\ ~was.sentAt
    /\ was.status \notin Engaged

RetryAllowed(r) == row[r.email].attempts <= RetryLimit

\* Mutant of RecordSent: no answer is taken for a yes.
RecordSentUnanswered(r) ==
    /\ r.phase \in {"sent", "timedout"}
    /\ IF Recordable(r, row[r.email]) THEN Accept(r.email, r.msg) ELSE Keep
    /\ Advance(r, "returning")
    /\ UNCHANGED <<born, emails, jobs, ses, team, history>>

RecordSent(r) ==
    /\ r.phase = "sent"
    /\ IF Recordable(r, row[r.email]) THEN Accept(r.email, r.msg) ELSE Keep
    /\ Advance(r, "returning")
    /\ UNCHANGED <<born, emails, jobs, ses, team, history>>

\* Mutants of RecordRetry: an unanswered request is retried; the row stays
\* claimed by the run that gives up.
RecordRetryUnanswered(r) ==
    /\ r.phase \in {"throttled", "timedout"}
    /\ Failable(r, row[r.email])
    /\ RetryAllowed(r)
    /\ row' = [row EXCEPT ![r.email].gen = @ + 1, ![r.email].claimed = FALSE]
    /\ Enqueue(Become(r, "returning"), r.email, r.gen + 1)
    /\ UNCHANGED <<born, emails, content, sentEntries, jobs, ses, team, history>>
RecordRetryClaimed(r) ==
    /\ r.phase = "throttled"
    /\ Failable(r, row[r.email])
    /\ RetryAllowed(r)
    /\ row' = [row EXCEPT ![r.email].gen = @ + 1]
    /\ Enqueue(Become(r, "returning"), r.email, r.gen + 1)
    /\ UNCHANGED <<born, emails, content, sentEntries, jobs, ses, team, history>>

\* A throttled or 5xx outcome is retried by a run of the next generation.
RecordRetry(r) ==
    /\ r.phase = "throttled"
    /\ Failable(r, row[r.email])
    /\ RetryAllowed(r)
    /\ row' = [row EXCEPT ![r.email].gen = @ + 1, ![r.email].claimed = FALSE]
    /\ Enqueue(Become(r, "returning"), r.email, r.gen + 1)
    /\ UNCHANGED <<born, emails, content, sentEntries, jobs, ses, team, history>>

RecordFailed(r) ==
    /\ r.phase \in {"throttled", "timedout", "failed"}
    /\ IF Failable(r, row[r.email])
       THEN /\ r.phase # "throttled" \/ ~RetryAllowed(r)
            /\ Settle(r.email, "failed")
       ELSE Keep
    /\ Advance(r, "returning")
    /\ UNCHANGED <<born, emails, jobs, ses, team, history>>

Return(r) ==
    /\ r.phase = "returning"
    /\ runs' = runs \ {r}
    /\ UNCHANGED <<table, jobs, enqueued, ses, team, history>>

\* The action dies (a redeploy, a crash, its time limit), maybe after its
\* last mutation committed.
Crash(r) ==
    /\ r.phase # "crashed"
    /\ Advance(r, "crashed")
    /\ UNCHANGED <<table, jobs, ses, team, history>>

\* A run that failed before its claim still uses up an attempt.
Attempted(r) ==
    LET was == row[r.email]
    IN  IF /\ r.email \in emails
           /\ was.status = "queued"
           /\ was.gen = r.gen
           /\ ~was.claimed
        THEN [was EXCEPT !.attempts = @ + 1]
        ELSE was

DeliverDone(r) ==
    /\ r.phase = "crashed"
    /\ LET was == Attempted(r)
       IN  IF Failable(r, was)
           THEN /\ row' = [row EXCEPT ![r.email] = SettledAs(was, "failed")]
                /\ DropSecret(r.email)
           ELSE /\ row' = [row EXCEPT ![r.email] = was]
                /\ UNCHANGED content
    /\ runs' = runs \ {r}
    /\ UNCHANGED <<born, emails, sentEntries, enqueued, jobs, ses, team, history>>
-----------------------------------------------------------------------------
(***************************************************************************)
(* Suppressions, retention and the team's end.                             *)
(***************************************************************************)
AddSuppression(a) ==
    /\ ~retired
    /\ a \notin suppressions
    /\ suppressions' = suppressions \cup {a}
    /\ UNCHANGED <<table, jobs, pool, ses, retired, history>>

RemoveSuppression(a) ==
    /\ ~retired
    /\ a \in suppressions
    /\ suppressions' = suppressions \ {a}
    /\ UNCHANGED <<table, jobs, pool, ses, retired, history>>

\* Mutant of Erase: the row goes, its content stays.
EraseRow(e) ==
    /\ emails' = emails \ {e}
    /\ UNCHANGED <<born, row, content, sentEntries, jobs, pool, ses, team, history>>

Erase(e) ==
    /\ emails' = emails \ {e}
    /\ content' = content \ {e}
    /\ UNCHANGED <<born, row, sentEntries, jobs, pool, ses, team, history>>

\* Thirty days after it settled, so no run of it is left and nothing of it
\* is on the wire.
Prune(e) ==
    /\ e \in emails
    /\ row[e].status \notin Pending
    /\ \A r \in runs : r.email # e
    /\ \A q \in wire : q.email # e
    /\ Erase(e)

RetireTeam ==
    /\ ~retired
    /\ retired' = TRUE
    /\ UNCHANGED <<table, jobs, pool, ses, suppressions, history>>

\* teamCleanup.purge, for the emails table.
PurgeEmail(e) ==
    /\ e \in emails
    /\ Retired(e)
    /\ Erase(e)
-----------------------------------------------------------------------------
ClaimStep(r) ==
    \/ ClaimStale(r)
    \/ ClaimFailed(r)
    \/ ClaimUnsubscribed(r)
    \/ ClaimSuppressed(r)
    \/ ClaimDeferred(r)
    \/ ClaimTaken(r)

\* What the workpool and the action do for a run until it is gone.
RunStep(r) ==
    \/ ClaimStep(r)
    \/ FailEarly(r)
    \/ Submit(r)
    \/ Timeout(r)
    \/ RecordSent(r)
    \/ RecordRetry(r)
    \/ RecordFailed(r)
    \/ Return(r)
    \/ DeliverDone(r)

SesStep(q) ==
    \/ SesAccepts(q)
    \/ SesDrops(q)
    \/ \E r \in runs :
         \/ SesAnswersAccepted(q, r)
         \/ \E answer \in {"throttled", "failed"} :
              SesAnswersRefused(q, r, answer)

UserStep(e) ==
    \/ CreateNow(e)
    \/ CreateScheduled(e)
    \/ CancelEmail(e)
    \/ RescheduleEmail(e)

TeamStep ==
    \/ RetireTeam
    \/ \E a \in Addresses : AddSuppression(a) \/ RemoveSuppression(a)

Next ==
    \/ \E e \in Emails : UserStep(e) \/ Prune(e) \/ PurgeEmail(e)
    \/ \E j \in jobs : Release(j)
    \/ \E r \in runs : RunStep(r) \/ Crash(r)
    \/ \E q \in wire : SesStep(q)
    \/ TeamStep

Spec == Init /\ [][Next]_vars

(***************************************************************************)
(* The scheduler fires what is scheduled and the pool drives every run and *)
(* its onComplete; users, SES and crashes owe nothing.                     *)
(***************************************************************************)
RunsOf(e) == \E r \in runs : r.email = e /\ RunStep(r)
JobsOf(e) == \E j \in jobs : j.email = e /\ Release(j)

Fairness == \A e \in Emails : WF_vars(RunsOf(e)) /\ WF_vars(JobsOf(e))

FairSpec == Spec /\ Fairness
-----------------------------------------------------------------------------
Sent(e) == {m \in accepted : m.email = e}
OnWire(e) == {q \in wire : q.email = e}
InFlight == {"claimed", "waiting", "sent", "throttled", "timedout", "failed"}

(***************************************************************************)
(* The inductive invariant behind AcceptedOnce and WithheldMeansUnsent.    *)
(* The row is the lock: a run past its claim owns its email's current      *)
(* generation, so nobody else can claim, and before each claim nothing of  *)
(* the email is at SES.                                                    *)
(***************************************************************************)
\* Nothing exists for an id that was never used, no run is from the future.
Known ==
    /\ \A r \in runs : r.email \in born /\ r.gen <= row[r.email].gen
    /\ \A q \in wire : q.email \in born
    /\ \A m \in accepted : m.email \in born

OneRunPerGeneration ==
    \A r, s \in runs : r.email = s.email /\ r.gen = s.gen => r = s

OneInFlight ==
    \A r, s \in runs :
        /\ r.email = s.email
        /\ r.phase \in InFlight
        /\ s.phase \in InFlight
        => r = s

\* A run past its claim carries the generation of the row, which is claimed
\* or settled.
Owned ==
    \A r \in runs :
        r.phase \in InFlight /\ r.email \in emails =>
            /\ r.gen = row[r.email].gen
            /\ row[r.email].status \notin Withheld \cup {"scheduled"}
            /\ row[r.email].status = "queued" => row[r.email].claimed

AtSes(e) == Sent(e) # {} \/ OnWire(e) # {}

\* Before its time and after a cancel, an email is nowhere but in the table.
Unreleased ==
    \A e \in emails :
        row[e].status \in {"scheduled", "canceled"} =>
            ~AtSes(e) /\ \A r \in runs : r.email # e

\* Who may still make SES accept the email knows that SES has nothing of it.
Clear ==
    \A e \in Emails \ sdkRetried :
        /\ e \in emails
        /\ \/ row[e].status = "suppressed"
           \/ row[e].status = "queued" /\ ~row[e].claimed
        => ~AtSes(e)

ClearRun ==
    \A r \in runs :
        r.phase \in {"claimed", "throttled"} /\ r.email \notin sdkRetried
            => ~AtSes(r.email)

\* One request or one acceptance, not both and not two.
OneAtSes ==
    \A e \in Emails \ sdkRetried :
        /\ \A q1, q2 \in wire : q1.email = e /\ q2.email = e => q1 = q2
        /\ \A m1, m2 \in accepted : m1.email = e /\ m2.email = e => m1 = m2
        /\ \A q \in wire, m \in accepted : ~(q.email = e /\ m.email = e)

SendInv ==
    /\ TypeOK
    /\ Known
    /\ OneRunPerGeneration
    /\ OneInFlight
    /\ Owned
    /\ Unreleased
    /\ Clear
    /\ ClearRun
    /\ OneAtSes
-----------------------------------------------------------------------------
(***************************************************************************)
(* Properties.                                                             *)
(***************************************************************************)
\* docs/rest-api.md promises that an ambiguous outcome is never resent: SES
\* accepts an email at most once, whatever is lost and whatever dies.
AtMostOnce == \A m1, m2 \in accepted : m1.email = m2.email => m1 = m2

\* What the pipeline itself guarantees of that (claim, record, deliverDone):
\* no two runs, retries or crashes make SES accept an email twice.  Only an
\* SDK retry inside one ses.send can.
AcceptedOnce ==
    \A m1, m2 \in accepted :
        m1.email = m2.email /\ m1.email \notin sdkRetried => m1 = m2

\* cancelEmail and claim: an email shown as canceled was never handed to SES
\* and no run can still hand it over; the same for a suppressed one, unless
\* an earlier send was repeated by the SDK.
WithheldMeansUnsent ==
    \A e \in emails :
        /\ row[e].status \in Withheld
        /\ row[e].status = "canceled" \/ e \notin sdkRetried
        => /\ ~AtSes(e)
           /\ \A r \in runs : r.email = e => r.phase \notin {"claimed", "waiting"}

\* enqueue, release, record, deliverDone: a queued email is carried by exactly
\* one run of its current generation, which has or has not claimed it as the
\* row says, and a scheduled one by exactly one release job.  No email is
\* stranded, none is in the hands of two runs.
OneCarrier ==
    \A e \in emails :
        LET own == {r \in runs : r.email = e /\ r.gen = row[e].gen}
        IN  ~Retired(e) =>
            /\ row[e].status = "queued" =>
                 \E r \in own :
                   /\ own = {r}
                   /\ r.phase # "returning"
                   /\ row[e].claimed => r.phase # "pending"
                   /\ ~row[e].claimed => r.phase \in {"pending", "crashed"}
            /\ row[e].status = "scheduled" =>
                 /\ {j \in jobs : j.email = e} =
                      {[email |-> e, gen |-> row[e].gen]}
                 /\ \A r \in runs : r.email # e

\* acceptEmail: an acceptance on record is a message SES did accept.
SentMeansAccepted ==
    \A e \in emails :
        row[e].sentAt => \E m \in Sent(e) : m.msg = row[e].msg

\* claim: the row's `suppressed' list names recipients that were dropped
\* before sending; nobody on it was handed to SES.
DroppedNotSent ==
    \A e \in emails : \A m \in Sent(e) :
        m.msg = row[e].msg => m.to \cap row[e].dropped = {}

\* acceptEmail: one "sent" entry and one email.sent event per email on record
\* as accepted, none for the others, whichever evidence came first.
OneSentEntry ==
    \A e \in Emails : sentEntries[e] = IF row[e].sentAt THEN 1 ELSE 0

\* claim: the send rate is charged once for each claim, through deferrals,
\* retries and crashes; one charge more is a reservation the row still holds.
ChargedOnce ==
    \A e \in Emails :
        charges[e] = claims[e] + (IF row[e].rate THEN 1 ELSE 0)

\* settle, acceptEmail: the sender always finds the body it must send, and
\* the one-time link of account mail does not outlive its sending.
ContentKept ==
    \A e \in emails :
        /\ row[e].status \in Pending => e \in content
        /\ e \in System /\ row[e].status \notin Pending => e \notin content

\* RANK and the handlers' guards: no late, repeated or reordered step ever
\* takes an email's status back; canceled and suppressed are final.
StatusNeverRegresses ==
    [][\A e \in emails \cap emails' :
         /\ Rank[row[e].status] <= Rank[row'[e].status]
         /\ row[e].status \in Withheld => row'[e].status = row[e].status]_vars

\* A queued email of a team that stays is eventually sent, failed or withheld.
QueuedSettles ==
    \A e \in Emails :
        (e \in emails /\ row[e].status = "queued")
            ~> (e \notin emails \/ row[e].status # "queued" \/ Retired(e))

\* A scheduled email eventually leaves the schedule.
ScheduledIsReleased ==
    \A e \in Emails :
        (e \in emails /\ row[e].status = "scheduled")
            ~> (e \notin emails \/ row[e].status # "scheduled" \/ Retired(e))

\* No email is stranded on its way out, in the queue or on the schedule: whatever
\* dies, is repeated or rescheduled leaves a job that goes on with it (deliver,
\* deliverDone, record, releaseScheduled, rescheduleEmail).
EmailsSettle == QueuedSettles /\ ScheduledIsReleased
=============================================================================
