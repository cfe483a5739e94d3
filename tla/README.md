# Verification of opensend

TLA+ models of the parts of opensend where several actors write the same rows
at moments nobody chose: the email sender, the feedback that comes back about a
message, the delivery of webhooks, broadcasts, automations, received mail,
domains and the claims on them, and the idempotency keys of the REST API. TLC
checks the models on small instances; TLAPS proves every safety property that TLC
checks, and the refinement, for every value of the constants.

Paths are relative to the repository; `convex/` is the backend. `PROJECT.json`
maps every definition to the lines it models and lists hazards, runs, mutants
and theorems.

## The system

opensend is a self-hosted email service on Convex and AWS SES. Five facts about
the platform shape every model here.

* A **mutation** is one serializable transaction: it reads, writes and
  schedules atomically. It is one action of a model.
* A **scheduled mutation** (`ctx.scheduler`) is part of the transaction that
  schedules it, and runs exactly once, at any later moment.
* An **action** (`internalAction`) is not atomic: it calls mutations and the
  outside world in turn and may die between any two. It is a process with a
  phase.
* A **workpool** runs enqueued actions; when one does not return it calls the
  `onComplete` mutation, once. The pools of emails and webhooks pass no `retry`:
  their `onComplete` handlers decide what happens. The pool of received mail
  does, so there an action is started again, up to a limit, before `onComplete`.
* A **workflow** (broadcasts, automations, domain operations) is a durable walk through steps. The
  component may run a step again whose result it did not journal, keeps events
  sent to it until they are awaited, and calls a completion hook at the end.

| Component | State it keeps | Operations | What is hard | What makes it correct |
| --- | --- | --- | --- | --- |
| Send pipeline: `emails.ts`, `emailSend.ts`, `emailRows.ts` | a row per email (status, generation, claimed, attempts, rate reservation, acceptance), its content, release jobs, pool runs | create, schedule, cancel, reschedule, release, claim, send, record, deliverDone, prune | a run may die anywhere; SES has no idempotency token; retries, deferrals and reschedules leave stale runs behind | SES accepts an email once; canceled means unsent; no email is stranded |
| SES events, tracking: `ses/state.ts`, `ses/projection.ts`, `tracking.ts` | stored notifications, project jobs | ingest, project, hit | notifications repeat, come early, late or out of order, and race the sender's own record | each event counts once; status only rises; feedback is not lost |
| Suppressions: `suppressions.ts` | a list per team | add, remove, add by bounce or complaint | read by claim long before the send it guards is repeated | nobody on the row's dropped list was sent to |
| Webhooks and outbox: `events.ts`, `webhooks.ts`, `webhookDelivery.ts` | events with a fan-out cursor, endpoints with a failure clock, deliveries with an attempt counter | emit, fan out, claim, post, record, attemptDone, replay, edit, remove | fan-out pages over rows that edits replace; attempts die between post and record | every listener gets one delivery; every delivery ends; no attempt is posted twice |
| Broadcasts: `broadcasts.ts`, `broadcastSend.ts`, `broadcastMetrics.ts` | status, generation, cursor, audience mark, a row per recipient | send, schedule, cancel, start, batch, completed, finish | cancel against start, paging against edits, settling against paging | one copy per contact; finished exactly when all copies are settled |
| REST idempotency: `api/state.ts`, `api/idempotency.ts` | a reservation per key, with its reply | begin, idempotent, finish, expire | a slow request against the retry that takes its key over | one write per key and window, and its reply is what is replayed |
| Automations: `automationRuntime.ts`, `automations.ts` | runs, step rows, waits | start, perform, signal, timeout, stop, dispatch | event, timeout and stop race for one wait | one run per event, one outcome per step |
| Inbound: `ses/inboundMessages.ts`, `ses/inboundTransfer.ts`, `receivedParse.ts`, `received.ts`, `retention.ts` | a row per message, its file, its S3 object, its received email | ingest, transfer, stored, parse, complete, deleted, retention of the row, expiry of the email | duplicate transfers, a crash between copy and delete, a lost answer, a notification later than its row | stored once, deleted at AWS only after that, received once |
| Domains and claims: `domains.ts`, `domainClaims.ts`, `ses/verify.ts`, `ses/provision.ts` | a row per domain (phase, operation, status, next check), claim rows, locks | create, refresh, update, remove, adopt, finish, check, claim, prove, cancel, expire | operations that tell of their end twice or late; checks and DNS lookups between two transactions | a name has one owner; it moves on a current proof only; every lock has a holder; checks go on |
| Retirement: `teams.ts`, `teamLifecycle.ts`, `teamCleanup.ts` | the retirement row | retire, purge | queued work of a team that is going away | fenced handlers, nothing comes back |
| Audience, templates, exports, accounts, tenants and regions, dashboard, SDK | | | mostly single transactions, libraries or AWS state | see `PROJECT.json` for why each is left out |

Interactions: a broadcast, an automation and a REST request create emails; an
email's life emits events into the outbox, which webhooks and automations
consume; SES and SNS answer a send through `ingest`; a bounce or complaint
writes the suppression list that the next claim reads; an email is let in by its
domain's row, and keeps the domain from changing hands until it is sent;
retirement fences all.

## Modules

| Module | Models | State and actions |
| --- | --- | --- |
| `EmailRow` | one row of `emails` and the writes handlers share | operators only: `Fresh`, `SettledAs`, `ClaimedAs`, `AcceptedAs`, `Raised`, `Rank` |
| `Emails` | the send pipeline | `row` is the table, `jobs` the scheduler, `runs` the pool, `wire` and `accepted` are SES, `claims`, `charges` and `sdkRetried` are history. `claim` is split by outcome into `ClaimStale`, `ClaimFailed`, `ClaimUnsubscribed`, `ClaimSuppressed`, `ClaimDeferred`, `ClaimTaken`; `record` into `RecordSent`, `RecordRetry`, `RecordFailed` |
| `Feedback` | SNS notifications and tracking hits, on top of `Emails` | `stored`, `projected`, `projectJobs`, `entries`; `Ingest`, `Project`, `ProjectLater`, `Hit` |
| `EmailsProofs` | the safety of sending | theorems `TypeCorrect`, `SendInvariant`, `AcceptedOnceAlways`, `WithheldIsUnsent`, `ChargedOnceAlways`, `OneCarrierAlways` |
| `FeedbackProofs` | the safety of sending and feedback together | theorems `FeedbackInvariant`, `FeedbackTypeCorrect`, `EvidenceIsRealAlways`, `ContentKeptAlways`, `FeedbackCountedAlways`, `NothingTakenBackAlways` |
| `Webhooks` | the outbox, its fan-out, the attempts at each delivery and the endpoints' failure clocks | `place` is an endpoint's position in the subscription index, `fanJobs` the scheduled `deliverEvent`, `deliveries` the table, `runs` the pool; `EditHook`, `Fan`, `ClaimStale`, `ClaimStopped`, `ClaimTaken`, `Post`, `Record`, `AttemptDone`, `Replay`; `posted`, `taken`, `owed`, `moved`, `interrupted`, `blamed` are history |
| `WebhooksProofs` | the fan-out and the attempts | theorems `WebhooksInvariant`, `WebhooksTypeCorrect`, `EachListenerOnceAlways`, `EachAttemptOnceAlways`, `VerdictIsEarnedAlways`, `ClockIsCurrentAlways` |
| `Broadcasts` | one broadcast, from draft to verdict, against an audience that changes | `row` is the broadcast, `jobs` its start jobs, `flows` its workflows, `rows` the index that is paged, `copies` the `broadcastRecipients`; `SendBroadcast`, `CancelBroadcast`, `RemoveBroadcast`, `Start`, `Batch`, `BatchStops`, `FlowFails`, `Completed`, `Settle`, `Retain`, and the edits of the audience; `made`, `steady` are history |
| `BroadcastsProofs` | the audience and the verdict | theorems `InvariantAlways`, `TypeCorrect`, `AudienceReachedAlways`, `VerdictIsTrueAlways`, `CarriedOnceAlways` |
| `Automations` | the runs of a team's automations | `event` are the events with their dispatch cursor, `run` and `record` the run and step rows, `born` a run's place in the order of their creation (`births` the last one given out), which the index of waits is read in, `timeouts` the scheduler, `flow` and `mail` the workflow component; `Emit`, the `Dispatch...` actions, the `Perform...` actions, `Timeout`, `FinishWait`, `CancelRun`, `SetStatus`, `RemoveAutomation`, `Purge`, `Completed`, `Forget`, `CleanRun`; `effects` is history |
| `AutomationsProofs` | waits, effects and verdicts of runs | theorems `AutomationsInvariant`, `AutomationsTypeCorrect`, `WaitsAnsweredAlways`, `EffectsOnceAndFencedAlways`, `EndedStaysEndedAlways` |
| `Inbound` | received mail, from the S3 object to its expiry | `object` is S3, `row` the `inboundMessages`, `received` the received emails, `files` file storage, `transfer` and `parse` the pool's actions, each a process with a phase, all of an `inboundMessages` row, of which a message may have several, one after the other; `Ingest`, `IngestAgain`, `Retry`, `Get`, `Fetch`, `Store`, `Stored`, `Delete`, `Deleted`, `Reject`, `Fail`, `TransferDone`, `ParseSource`, `Attach`, `Complete`, `Committed`, `Discard`, `ParseFail`, `AnswerDies`, `AnswerLost`, `Lapse`, `Retain`, `DeleteReceived`, `PurgeMessage`; `arrivals`, `lapsed`, `unparsed`, `outlived`, `robbed` are history |
| `InboundProofs` | mail and files of any messages and their rows | theorems `InboundInvariant`, `InboundTypeCorrect`, `MailKeptAlways`, `ReceivedOnceAlways`, `FilesAccountedAlways` |
| `Domains` | the rows of one domain name, their operations and checks, and the claims on the name | `row` is `domains`, `claim` the `domainClaims` (a claim has the name of its placeholder), `work` the workflows with their actions, `check` and `lookup` the actions of `ses/verify.ts` and `ses/claimDns.ts`, `mail` the domains with queued or scheduled emails; the users' actions of `domains.ts`; `Act`, `Succeed`, `ActionFails`, `WorkStops`, `WorkEnds` for an operation, with `finish` as `FinishKept`, `FinishRemoved`, `FinishGone`; `DispatchDue`, `VerifyDomain`, `ReadCheck`, `SaveCheck`, `SaveStale`; `CreateClaim`, `AskProof`, `LookUp`, `AcceptProof`, `ProofRefused`, `ProofStale`, `RetryTransfer`, `CancelClaim`, `Expire`; `proved`, `overlapped`, `unread` are history |
| `DomainsProofs` | ownership, transfers, locks and checks | theorems `InvariantAlways`, `TypeCorrect`, `OneOwnerAlways`, `TransferIsProvedAlways`, `LocksAreHeldAlways`, `ChecksGoOnAlways` |
| `Idempotency` | one Idempotency-Key and the requests under it | `slot` is the `apiIdempotency` row, `phase` what each request did last; `BeginConflict`, `BeginReplay`, `BeginReserve`, `Write`, `Refuse`, `Break`, `Finish`, `Die`, `Lapse`, `Expire`, `Sweep`; `wrote`, `told` are history |
| `IdempotencyPromise` | what the API promises of a key | `Commit`, `Tell`, `NextWindow` over `commits`, `told`, `window` |
| `IdempotencyProofs` | that `Idempotency` implements it | theorems `TypeCorrect`, `OwnReplyAlways`, `PromiseKept` |
| `MCEmails`, `MCFeedback`, `MCWebhooks`, `MCBroadcasts`, `MCAutomations`, `MCInbound`, `MCDomains`, `MCIdempotency` | instances for TLC | model values, orders, the graph of the automations, the symmetry of the teams |

`Feedback` extends `Emails` and its next-state relation interleaves the two;
both write `row` through the operators of `EmailRow`. `Webhooks` stands beside
them: an email's life only inserts events, which is `Emit`. A copy of a
broadcast settles in one step of `Broadcasts` (`Settle`), which is what
`EmailsSettle` shows of an email; `Copies` in `Emails` are the emails that
settle so. An email step of an automation and the `email.received` event of a
message end in `createEmail` and `Emit` in the same way. Of an email `Domains`
sees only that its domain has some under way (`CreateMail`, `SettleMail`).
`Idempotency` stands before all of them: its `Write` is whatever one POST request commits.

### Abstractions

* Time. A job may fire at any moment once it exists; a delayed run starts at
  any moment. A due reservation is therefore one whose run has started.
* Messages are ids. Recipients are the set `Addresses`, and every email is
  addressed to all of them; who opted out of a topic is chosen anew at each
  claim, since contacts may change at any time.
* SES answers a request with acceptance, a throttling or 5xx answer, or a 4xx
  answer, or not at all. The first kind of refusal is taken to mean what the
  code takes it to mean: the message was not accepted. An unanswered request
  may still be accepted at any later moment.
* The SDK repeats a request after a throttling, 5xx or missing answer, up to
  `SdkAttempts` requests in one `ses.send`: the client sets no `maxAttempts`
  (`convex/ses/aws.ts:28`).
* Retention: an email is pruned thirty days after it settled; by then no run,
  request or notification of it is left, which `Prune` takes as its guard.
  `PurgeEmail` (a retired team) has no such guard. The row of an inbound message goes
  a week after its parse, at any moment in the model (`Retain`), and its received
  email thirty days after it was made (`DeleteReceived`). SNS's notifications are
  turned away after 25 days (`convex/ses/sns.ts:127`), so one that is let in finds
  every received email of its message still there (`Fresh`), but maybe no row.
* An email's domain has its row, and a notification names the team of its email and
  comes from its region: what `projectEvent` returns early for otherwise
  (`convex/ses/projection.ts:93-108`) is left out.
* Every delivery of a notification that is not projected yet starts a chain of
  project jobs; `MaxPosts` bounds those that run at a time.
* The subscription index is ordered by insertion, so a subscription is its
  place in that order, and a cursor is the place of the last row read. All
  events are of one type, which an endpoint listens for or does not.
* The failure clock is unset, younger than five days, or older (`Age`).
* A page that is full leads to another transaction, even if it was the last.
* A delivery is cleaned up ninety days on, when no run of it is left. History
  of a delivery goes with its row, and `moved` and `owed` follow only the
  events being fanned out.
* A contact of a broadcast is its address. One that was removed and added again
  is a new, later contact. A page that ends with the last row may or may not
  know that it was the last.
* All automations have one graph, are triggered by one event name and concern
  one contact: the indexes of `dispatch` keep other names and contacts apart. A
  run is named by its automation and its event, which is what `startRun` finds
  it again by, so there is one run by hand per automation. Automations are
  numbered in the order of their index, and events in the order of their creation. What a customer's
  event row goes through before its dispatch is folded into `Emit`. An event names its contact by
  an id. One that names an address only, for which `dispatch` makes the contact
  where there is none (`convex/automationRuntime.ts:643`), is left out. Time counts
  to `MaxTime`, and a deadline past it is at it. An event that is created in
  time and dispatched after the timeout has run finds nobody waiting, as in the
  code.
* The workflow component is external. A step may take effect and be repeated,
  a handler may throw, a workflow may be lost (`Abandon`), and one that has
  journaled nothing yet cannot be canceled.
* One attachment stands for all of a message's. The rows of a message are numbered in
  the order they are made, and so are the transfers of a row; a parse goes by the number of the transfer that enqueued it, and a
  file by the attempt that stored it. The answer of `complete` is a step of its own, and
  may be lost after it committed. The file of an action that died before it
  told of it stays in storage for good, known to nobody; the model forgets it.
  SES has put all messages into S3 before
  the first notification comes; that a message is over the limit is chosen at
  the start.
* Domain rows are those of one name: names share nothing. They are numbered as
  they are made. `pending` stands for `partially_verified` too, unless that is
  enough to send, when `verified` does. What SES and DNS say is chosen anew each
  time they are asked. Reviewing an identity to adopt is one step
  (`previewContext` and `savePreview`), and so is all of an operation between
  what it reads and its end. An operation tells of its end once or twice, in its
  action or in its workflow; a third time, after a success, a failure of the
  action and one of the workflow, is folded into the second.
* A team with domains cannot be deleted (`convex/teams.ts:30`), so the branches of
  `domainClaims.ts` for a deleted team are left out.
* A request reserves its key at most once, so a reservation is named by its
  request. The 60 seconds of a lease and the 24 hours of a key pass in that
  order at any moments. Authentication and rate limits are left out: they
  refuse a request before it reaches the key.

## Runs

| Run | Instance | Shows |
| --- | --- | --- |
| `emails` | one topical email, two addresses, one pipeline retry, one reschedule, fairness | `AcceptedOnce`, `WithheldMeansUnsent`, `OneCarrier`, `ChargedOnce`, `EmailsSettle` and the type invariant |
| `feedback` | a tracked email or an account email, two SDK attempts, two notifications of two kinds (acceptance, complaint), two deliveries of one at a time | `FeedbackCounted`, `EvidenceIsReal`, `ContentKept`, `NothingTakenBack` and the type invariant |
| `emails_twice` | the SDK may repeat a request | `AtMostOnce` is violated |
| `emails_dropped` | two addresses, one retry | `DroppedNotSent` is violated |
| `feedback_lost` | a run that dies after acceptance, a tracked email | `FeedbackKept` is violated |
| `webhooks` | two endpoints, pages of one, three subscription writes, one attempt per delivery, the scheduler's fairness | `EachListenerOnce`, `EventFannedOut` and the type invariant |
| `webhook_attempts` | one endpoint, two attempts, one replay, one death, five days of failures, a team that may be deleted, the pool's fairness | `EachAttemptOnce`, `VerdictIsEarned`, `ClockIsCurrent`, `DeliveryEnds` |
| `broadcasts` | three contacts, pages of one, two pages per workflow, three sends or cancels, two edits of the audience, fairness | `AudienceReached`, `VerdictIsTrue`, `CarriedOnce`, `BroadcastEnds` and the type invariant |
| `automations` | two automations of four steps, one event, two runs, pages of one, one step that is repeated or edit that is made, fairness | `WaitsAnswered`, `EffectsOnceAndFenced`, `EndedStaysEnded`, `RunsEnd` and the type invariant |
| `inbound` | one message, two rows of it one after the other, two transfers in all and their parses, one attempt of a transfer and two of a parse | `MailKept`, `ReceivedOnce`, `FilesAccounted` and the type invariant |
| `domains` | three teams, three rows of one name, two operations, two checks and two lookups of each at a time, two moves | `OneOwner`, `TransferIsProved`, `LocksAreHeld`, `ChecksGoOn` and the type invariant |
| `idempotency` | four requests under one key, one with another payload, two days | `OwnReply`, `KeepsPromise` and the type invariant |

### Bounds

Emails do not interact except through the suppression list and the retirement
row, so one email with every failure shows what its handlers do; the run with
two adds what they share. One pipeline retry is enough because a retried run
starts from the state of the first with a higher generation. (The theorems
below need no such argument: they remove these bounds, and those of every other
instance, for the safety properties. The bounds matter to liveness, to the three
runs that expect a violation, and to whether the invariants are worth proving.) Two addresses make
"some, not all" recipients dropped. Two SDK attempts, in `feedback`, are one
repetition; `emails` has one. Two notifications are an order, a repetition and a mixture of kinds.
`MaxReschedules`, `MaxStored` and `MaxPosts` bound counters and appear in guards; both
cut only how often a user or SES does the same thing again.

Endpoints meet only in the fan-out, so two of them on pages of one make every
way a page can end between them, and attempts need one. Three subscription
writes are two creations and one edit between pages, or a creation, a disabling
and an enabling. Two attempts are one retry and a last one. `MaxPlaces`,
`MaxReplays` and `MaxCrashes` cut how often users edit or replay and actions
die; `MayRetire` leaves the end of the team to one of the two runs.

`feedback` has a tracked email and an account email, and the constraint
`OneEmail` keeps each behaviour to one of them, since emails meet only in the
suppression list and the retirement row; a tracked email has opens and clicks,
an account email a secret, and no email both.

A broadcast to three contacts on pages of one, two pages to a workflow, is
paged by two workflows and has a first, a middle and a last page. `MaxSends` is
a send, a cancel and a send again, or a schedule; `MaxMoves` lets a contact
leave and come back, or opt out and in again, between two pages.

Two automations make a dispatch page end between two runs, and four steps
(a wait, what follows an answer, what follows its deadline) every kind of step.
`MaxRuns` and `MaxEvents` leave one run to each, by hand or for the event;
`MaxTime` and `Patience` of one are a wait that is over before, with or after
the event. `MaxMoves` counts, besides users' edits, what the workflow component
repeats, so that any one of them happens anywhere.

Two transfers of a message are what a repeated notification, an operator's
retry and a pool that starts again after a late answer all come down to: one
that overlaps another at each of its steps. They may be of one row or of the two
that a late notification makes; the second row is to the first what a third would be
to both. Two attempts of a parse are a first and a last. A transfer has one, since what a failed
attempt leaves behind is what a failed transfer leaves to the next; with two the
run passes as well, in 3.5 million states, but takes too long to repeat at every change. Messages share
nothing but the order of the team's purge, so the run has one.

Three rows of a name are an owner and two claims, or an owner, a claim and the
next creation once the name is free. `MaxMoves` is one budget for what users ask of
a domain that exists (previews of an import aside, of which a second changes nothing), the checks sent out, the lookups asked for, the mail created and
the claims whose week passes: with two of them any two meet, at every step of the
operations, claims and transfers, which it does not count: an import that is approved while a
claim's lookup is out takes both. Two operations at a time are one
that has ended and still tells of it, and the next. `LastCheck` of one is a first
and a last check.

`MaxWindows` ends one day of a key, and four requests make an owner, one that
overtakes it, one that is replayed to and one with another payload.

`CHECK_DEADLOCK FALSE`: a system whose emails are settled and pruned, or whose
deliveries have all ended, may stop.

### Fairness

`FairSpec` asks weak fairness of the runs of each email (the pool starts what
is enqueued, an action that does not die goes on, `ses.send` ends by answer or
timeout, and `onComplete` follows a death) and of its release jobs. It asks
nothing of users, of SES and of crashes: a run may die every time. That is what
the workpool and the scheduler promise, and no more.

In `Webhooks` the two are apart: `SchedulerSpec` is fair to the scheduled
`deliverEvent` jobs of each event, which is all that `EventFannedOut` needs, and
`PoolSpec` to the attempts at each endpoint's deliveries of an event, which is
all that `DeliveryEnds` needs. Endpoints need not answer well: a timeout is an
answer.

`FairSpec` of `Broadcasts` is fair to the start job, to the work of the
workflows, to their completion hook, and to each copy: that a copy settles is
what `EmailsSettle` shows. Nothing is asked of a workflow's failure, except
that one whose audience is gone fails, as its code throws on every page.

`FairSpec` of `Automations` is one weak fairness of time, the scheduler and the
workflow component together (`System`). They always have finitely much to do
between two actions of users, which are bounded, so none can be passed over for
ever by the others; events, users and a lost workflow owe nothing.

`Inbound` has no fairness: that mail is eventually received depends on S3, and a
transfer may fail twelve times. `MailKept` says instead that somebody is at work
on a message until it is through, or that its row says that nobody is.

`Domains` has none either: its operations wait for AWS, and a failed one for a user.
`LocksAreHeld` says of a transfer that it is at work or can be retried, and
`ChecksGoOn` that the next check is due.

### Findings

Three runs expect a violation. They show where the program does not do what its
documents say; `PROJECT.json` quotes them.

1. *An ambiguous outcome can be resent* (`emails_twice`). The documents rule it
   out; the pipeline does its part, which `AcceptedOnce` states and
   `AcceptedOnceAlways` proves, but the SDK client inside `ses.send` keeps its
   standard retry mode.
2. *A recipient listed as dropped was sent to* (`emails_dropped`), after the
   suppression was lifted between a throttled attempt and its retry.
3. *Feedback of an ambiguous failure is lost once somebody opens the email*
   (`feedback_lost`).

More came up that contradicts no document, or that no run shows.

* An endpoint edited during a fan-out may get the event twice: the edit inserts
  its subscription again, behind the cursor (`convex/webhooks.ts:605`). Both
  deliveries carry one `svix-id`. `OneDeliveryUnlessMoved`, a part of
  `EachListenerOnce`, is what does hold.
* A message whose parse fails five times (an attachment that cannot be stored,
  an action that dies) stays stored and unparsed: no error is recorded, nothing shows
  it, nothing enqueues another parse and nothing expires it
  (`convex/receivedParse.ts:153`, `convex/ses/inboundMessages.ts:186`).
  `MailKept` has to name these messages (`unparsed`).
* A message whose object could not be deleted at S3 may be received twice. Its row is
  deleted a week after the parse (`convex/retention.ts:46`), notifications are let in
  for 25 days (`convex/ses/sns.ts:127`), and `ingest` knows a notification by that row
  alone (`convex/ses/inboundMessages.ts:86-115`): a late one makes a new row, whose transfer
  finds the object and whose parse makes a second received email and a second
  `email.received`. "SNS retries and parser reruns do not duplicate received rows or
  `email.received` webhooks" (`docs/rest-api.md:311`) and the comment "Keep the
  SNS deduplication tombstone so a retry cannot resurrect expired mail"
  (`convex/received.ts:263`) say otherwise: when mail expires, that row has been gone
  for three weeks. `ReceivedOnce` has to name these
  messages (`outlived`), and says that there are no others. The same notification of
  an object that was deleted makes a row that nothing can fill: its transfer
  runs out of attempts, and the row stays with its error.
* A lost answer of `complete` costs a received email its attachments: the mutation
  committed, the call throws, `committed` is never read, and the `finally` block deletes
  the files the email now has (`convex/receivedParse.ts:145-155`). The next attempt
  finds the message parsed and does nothing. `ReceivedOnce` has to name these emails
  (`robbed`).
* A domain operation may tell of its end twice: the action reads the account's
  quota after `finish` in the same `try` (`convex/ses/provision.ts:575`), the
  workflow's `catch` calls `finish` as well, and `finish` does not ask which
  operation calls. A throttled quota read marks a provision that succeeded as
  failed, or the operation after it, of which a third then may start while it is
  at work. In a transfer, a refresh that so overlaps the removal and ends last
  says "ready" over a removal that failed, and then verifying the claim again
  retries nothing and both teams stay locked. `LocksAreHeld` has to name these
  domains (`overlapped`).
* `verifyDomain` begins the checks anew at zero while an older check still reads
  (`convex/domains.ts:572`). If the older one answers first, the new one finds
  another `checkedAt` and is dropped, and the old schedule goes on, or is over.
* A claimed domain whose provision finds a foreign SES identity cannot adopt it:
  `approveAdoption` starts the provision without `claiming`, which the claim's
  lock refuses (`convex/domains.ts:964`). It can only be retried.

## Proofs

There is a module of proofs for each component. Each proves `Spec => []Inv` for
an inductive invariant `Inv`, from the types and the assumption on the constants
alone, and derives from it the properties that the runs check; action properties
follow from what one step does in a state that satisfies `Inv`. Before it was proved, each
invariant was checked by TLC on the instances of the runs. The proofs have one lemma
per action, on top of lemmas about how a row, a run or a set of jobs moves; a
`...Step` or `...Next` lemma collects them.

The assumptions are what a sensible instance has: limits are natural numbers,
pages and schedules are not empty, subsets are subsets. These three say more:
an email has a recipient (`Addresses # {}`; one without is refused,
`convex/emails.ts:273`), nobody is the owner `NoTeam`, and each address is one contact at the start
of a broadcast (`IsInjective(Oldest)`).

### Sending

`AcceptedOnce` is not inductive: whether a step can make SES accept a second
message depends on who may still submit one. `SendInv` adds that.

* `Known`: nothing refers to an id never used, and no run carries a generation
  the row has not reached.
* `OneRunPerGeneration`, `OneInFlight`: runs of an email differ in generation,
  and at most one is past its claim.
* `Owned`: that one carries the row's generation, and the row is claimed or
  settled. So generation and claim are a lock, and a new claim finds it free.
* `Unreleased`: a scheduled or canceled email is nowhere but in the table.
* `Clear`, `ClearRun`: whoever may still hand the email over (an unclaimed
  queued row, a run that has just claimed or was just refused) knows that SES
  has nothing of it. This is where a retry after an unheard answer would fail.
* `OneAtSes`: one request or one acceptance.

`AcceptedOnceAlways` follows by `OneAtSes`, and `WithheldIsUnsent` by `Clear`,
`Unreleased` and `Owned`. `ChargedOnce` is nearly inductive (`ChargedInv`): an
email that does not exist yet holds no reservation of the send rate. `OneCarrier`
needs why nobody can drop a queued email silently (`CarriedInv`): it is not on record as
accepted, so what its run reports is not taken for old news, and that run's phase
fits the row's claim.

### Feedback

`FeedbackProofs` proves about the composition, so every action of `Emails` is in
it as well. Its invariant takes `SendInv` over and adds what a row says of
acceptances (`RowsFit`, `AcceptancesCounted`), what runs in flight
(`FlightsClaimed`) and notifications (`EventsReal`) know, and for what reason feedback may have been
given up (`GivenUpOnlyFor`), put so that no later step can undo it.

Every step writes at most one row, in one of six ways (`EmailStep`: the email
stays, appears, moves on, fails, is accepted or is opened). The ways are
established once per action; that they keep the invariant, and that they
take nothing back, is then proved of the ways alone.

### Webhooks

`EachListenerOnce` compares pages with places that edits give out anew.
`FanFits` says for each event that an endpoint which stayed where it was is at or
before the cursor exactly if it has its delivery. The step that matters is a page
(`Fan`): by `PageIsPrefix` and `LastOfPage` who is on a page is at or
before the next cursor, and who is not is after it, whatever the places are;
both rest on the least element of a set of numbers (`Smallest`).

The attempts are the other half. `RunsFit` gives each run an attempt that its row has come
to and no two runs the same one; `PostedFits` says that what was posted is
counted or marked as started, which is what stops a run that comes back after
a death. The halves meet in the number of deliveries of an endpoint: a new id has
no row, run or post (`IdsGiven`).

### Broadcasts

`CarriedInv` says that one start job, and then one workflow of the row's
generation, carries a broadcast; `BegunInv` that one which did not start has
touched nothing; `CopiesInv` that before its end a broadcast knows by its copies whom
it made an email for. `IndexInv` is why the cutoff works: contacts that came later are
at the end of the index. `ReachedInv` is `AudienceReached` half way: whoever
stayed in the audience is before the cursor with a copy, or after it.

### Automations

`WaitsAnswered` and the two action properties need to know how a run's row, its
steps, its workflow and the events sent to it agree (`RunFits`): the run waits in a step whose row
is open and unanswered, and its workflow has not got past it (`WaitIsOpen`); a step is open
only where the workflow is, so one that reaches a new step leaves none open behind
it; a step of a running run that has no row did nothing and heard nothing (`StepsFit`). A
workflow that is over, or cleaned up, may have left its run behind in any of these.

`NobodyPassedOver` reads a paged index that the dispatch's own signals take runs
out of. `EventsFit` says that a wait which is not after the cursor began no earlier
than the event, or is too short for it, and that a run told of an event waits,
if it waits again, since that event or later. A page that is not all there is
ends at its greatest place (`LastOfPage`), so nobody between two pages is left out.

### Received mail

`InboundInv` has two layers. Rows share nothing but the file storage, and files are
named for their row, so `AllFits` speaks of one row at a time and each action
is looked at for its own row only (`OthersFit`). A row points to a file of an attempt that its
transfer is beyond (`Past`), so no later attempt takes it for its own and
discards it (`HandsApart`); every other file is held by an action at work or listed
by the received email (`FilesOwned`). The email has its row's file as long as there
is a row, and keeps it when the row is deleted first (`ReceivedFits`).

`MessageFits` is what the rows of one message owe each other. A message has one row at
a time, and a row that is gone left a received email behind. Two rows both
get hold of the mail (`Holds`) only if its object outlived the first (`Spent`):
otherwise the second finds nothing at S3, ever. `MessagesFit` shows that a `Gentle`
step keeps all this: it takes the mail from an object that is there, if at all, lets
go of mail or object only when the row has it in another way, and leaves the row where it
is. Only ingest, the lifecycle, the two ends of a row and the team's are not gentle.

### Domains

`OneOwner` and `TransferIsProved` are held up by both sides of a claim.
`ClaimsStand` says that an open claim has its placeholder, and a domain of
another owner that was proven once; `LocksHold` that the two locks, on the
placeholder and on the owner's domain, name each other as long as the transfer goes on;
`WorkInv` that an operation at work is the one its row asks for, unless two of
them overlapped; `ProofInv` that only the answer to the last lookup counts.
`Sound` and `SoundChecks` carry `ChecksGoOn`: a row that still has checks left is due.

### Idempotency keys

`IdempotencyProofs` shows that the keys keep their promise, for any requests,
payloads and number of days. `PromiseKept` is `Spec => KeepsPromise`, where `KeepsPromise` is `Promise!Spec`
of `IdempotencyPromise` under a refinement mapping: `told` and `window` are
themselves, and the promise's `commits` are read off `wrote`, the window each
request wrote in. `Write` maps to `Commit`, `Finish` and `BeginReplay` of a
success to `Tell`, `Expire` to `NextWindow`, everything else to a stutter. The
invariant `IInv` under it says, besides the types and `OwnReply`:

* `WriterHolds`: whoever wrote in this window still holds the key, unexpired.
  So nobody else passes the fence of `Write` in the same window.
* `NoneAhead`: nobody wrote in a window to come, so a new one begins unwritten.
* `PhaseTells`: a request writes once, between its reservation and its answer.
* `SuccessIsCurrent`: a success that is replayed is of this window.

`WritesStep` shows that they survive each action, `WriteCommits`, `FinishTells`
and `ReplayTells` that the steps map, and `PromiseStep` collects these.

### Not proved

Left to TLC, because fairness and ENABLED are out of the prover's reach: that
emails settle (`EmailsSettle`), that a fan-out and a delivery end
(`EventFannedOut`, `DeliveryEnds`), that a broadcast ends (`BroadcastEnds`), that runs end
(`RunsEnd`). `AtMostOnce`, `DroppedNotSent` and `FeedbackKept` are false. No
model needs a recursive operator.

## Plan

1. Done: `EmailRow`, `Emails`, `Feedback`, `Webhooks`, `Broadcasts`, `Automations`,
   `Inbound`, `Domains`, `Idempotency` with its promise, all model-checked.
2. Done: an inductive invariant of each, and the theorems of every safety property.
3. Next: what an email promises its sender as an abstract specification (it waits,
   is handed to SES at most once, or is withheld), and that `Emails` implements
   it, by `SendInv`.
4. Then the parts that liveness rests on and a proof can reach: that a measure of the
   work left falls with each step of a run (`Emails`) and of an attempt (`Webhooks`).

## Not modelled

Wording, rendering, MIME, signatures and credentials; pagination and search of
the dashboard; metrics and counters, which are derived rows; the AWS calls of
provisioning, whose state lives at AWS; accounts and OAuth, which belong to a library; the
dashboard, the SDK, the MCP server and the SMTP relay, which are clients of the
backend and keep no state of it. They are most of the repository's lines.

SES tenants, regions and the installation (`tenants.ts`, `ses/inboundRegions.ts`,
`installation.ts`) repeat idempotent AWS calls until AWS agrees; what a domain's
operation waits for there may fail at any time, which `WorkStops` stands for. Audience,
templates and API keys are edits of one transaction. An export is one scheduled
action: if it dies its row says processing until it expires, its file stays behind
(`convex/exports.ts:229`), and nothing in the code promises more.

The timeline entry for recipients who opted out of a topic is left out although
each deferral repeats it (`convex/emails.ts:608`).
