------------------------------ MODULE Webhooks ------------------------------
(***************************************************************************)
(* Webhooks: the outbox of src/convex/events.ts, its fan-out to a team's   *)
(* endpoints and the attempts at each delivery (src/convex/webhooks.ts and *)
(* webhookDelivery.ts).                                                    *)
(*                                                                         *)
(* Mutations are atomic.  The fan-out of an event is a chain of them, one  *)
(* page of listeners each.  An attempt is a Convex action: it claims,      *)
(* posts and records in three steps and may die between them, and the pool *)
(* then calls attemptDone exactly once.                                    *)
(*                                                                         *)
(* One team, events of one type.  Payloads, secrets, response bodies and   *)
(* the log of attempts are left out; time is abstracted as in Emails.      *)
(***************************************************************************)
EXTENDS Integers, FiniteSets

CONSTANTS
    Hooks,          \* webhook ids
    Events,         \* ids of outbox events
    PageSize,       \* listeners one fan-out transaction takes (5)
    AttemptLimit,   \* the length of RETRY_DELAYS (8)
    MaxPlaces,      \* bound: subscription rows users write
    MaxReplays,     \* bound: replays of an event to an endpoint
    MaxCrashes,     \* bound: actions that die
    MayRetire       \* bound: whether the team may be deleted

ASSUME WebhooksAssumption ==
    /\ PageSize \in Nat \ {0}
    /\ AttemptLimit \in Nat \ {0}
    /\ MaxPlaces \in Nat
    /\ MaxReplays \in Nat
    /\ MaxCrashes \in Nat
    /\ MayRetire \in BOOLEAN

VARIABLES
    bornHooks,      \* ids that were ever given to a webhook
    hooks,          \* webhooks with a row
    hook,           \* the row of each id
    place,          \* where its subscription row stands in the index, 0: none
    places,         \* the last place given out
    emitted,        \* events in the outbox
    cursor,         \* the last place the fan-out of each event has read
    done,           \* events with webhooksDeliveredAt
    fanJobs,        \* scheduled deliverEvent jobs: [event, cursor]
    deliveries,     \* the rows of webhookDeliveries, by id
    copies,         \* deliveries ever made of an event for an endpoint
    runs,           \* attempt runs the pool knows of
    purgeJobs,      \* removed webhooks whose deliveries are being purged
    retired         \* whether the team has a retirement row

\* History, and what endpoints saw.
VARIABLES
    posted,         \* attempts that were posted: [id, attempt]
    taken,          \* deliveries their endpoint answered with a 2xx status
    crashes,        \* actions that died
    replays,        \* replays made of an event for an endpoint
    owed,           \* per event, endpoints that listened ever since
    moved,          \* per event, endpoints subscribed anew since
    interrupted,    \* deliveries whose endpoint was off at some time
    blamed          \* endpoints with a failure since enabled or successful

endpoints == <<bornHooks, hooks, hook, place, places>>
outbox == <<emitted, cursor, done, fanJobs>>
queue == <<deliveries, copies, runs>>
seen == <<posted, taken>>
history == <<replays, owed, moved, interrupted, blamed>>
team == <<retired, crashes>>
vars == <<endpoints, outbox, queue, purgeJobs, team, seen, history>>

(***************************************************************************)
(* failing abstracts failingSince: unset, less than five days ago, or at   *)
(* least five days ago.                                                    *)
(***************************************************************************)
Hook == [enabled : BOOLEAN, failing : {"no", "recent", "long"}]
Id == [event : Events, hook : Hooks, copy : Nat]

\* started: an attempt has been claimed; next: nextAttemptAt is set.
Delivery == [attempts : Nat, started : BOOLEAN, failed : BOOLEAN,
             next : BOOLEAN, replay : BOOLEAN]

(***************************************************************************)
(* A run of `attempt'.  pending: in the pool; claimed: claimAttempt gave   *)
(* it a target; accepted, refused: the post ended with a 2xx answer or     *)
(* without; returning: the last mutation is done; crashed: the action died *)
(* and attemptDone is due.                                                 *)
(***************************************************************************)
Phase == {"pending", "claimed", "accepted", "refused", "returning", "crashed"}
Run == [id : Id, attempt : Nat, phase : Phase]

TypeOK ==
    /\ bornHooks \subseteq Hooks
    /\ hooks \subseteq bornHooks
    /\ hook \in [Hooks -> Hook]
    /\ place \in [Hooks -> Nat]
    /\ \A h \in Hooks \ hooks : place[h] = 0
    /\ places \in Nat
    /\ emitted \subseteq Events
    /\ cursor \in [Events -> Nat]
    /\ done \subseteq emitted
    /\ fanJobs \subseteq [event : Events, cursor : Nat]
    /\ DOMAIN deliveries \subseteq Id
    /\ deliveries \in [DOMAIN deliveries -> Delivery]
    /\ copies \in [Events -> [Hooks -> Nat]]
    /\ runs \subseteq Run
    /\ purgeJobs \subseteq Hooks
    /\ retired \in BOOLEAN
    /\ posted \subseteq [id : Id, attempt : Nat]
    /\ taken \subseteq DOMAIN deliveries
    /\ crashes \in Nat
    /\ replays \in [Events -> [Hooks -> Nat]]
    /\ owed \in [Events -> SUBSET Hooks]
    /\ moved \in [Events -> SUBSET Hooks]
    /\ interrupted \subseteq DOMAIN deliveries
    /\ blamed \subseteq Hooks

NewHook == [enabled |-> TRUE, failing |-> "no"]

Init ==
    /\ bornHooks = {}
    /\ hooks = {}
    /\ hook = [h \in Hooks |-> NewHook]
    /\ place = [h \in Hooks |-> 0]
    /\ places = 0
    /\ emitted = {}
    /\ cursor = [m \in Events |-> 0]
    /\ done = {}
    /\ fanJobs = {}
    /\ deliveries = [d \in {} |-> {}]
    /\ copies = [m \in Events |-> [h \in Hooks |-> 0]]
    /\ runs = {}
    /\ purgeJobs = {}
    /\ retired = FALSE
    /\ posted = {}
    /\ taken = {}
    /\ crashes = 0
    /\ replays = [m \in Events |-> [h \in Hooks |-> 0]]
    /\ owed = [m \in Events |-> {}]
    /\ moved = [m \in Events |-> {}]
    /\ interrupted = {}
    /\ blamed = {}

rows == DOMAIN deliveries
Enabled(h) == h \in hooks /\ hook[h].enabled
Listens(h) == Enabled(h) /\ place[h] # 0
-----------------------------------------------------------------------------
(***************************************************************************)
(* Writes shared by the handlers.                                          *)
(***************************************************************************)
\* subscribe: an endpoint's subscription row is deleted and, if it listens
\* for the event type, inserted again at the end of the index.
Subscribe(h, listens) ==
    /\ place' = [place EXCEPT ![h] = IF listens THEN places + 1 ELSE 0]
    /\ places' = places + 1

FanningOut(m) == m \in emitted \ done

\* What the history notes of an endpoint that is subscribed anew, for the
\* events that are being fanned out.
NoteSubscribed(h, enabled, listens) ==
    /\ moved' = [m \in Events |->
                   IF FanningOut(m) THEN moved[m] \cup {h} ELSE moved[m]]
    /\ owed' = [m \in Events |->
                  IF FanningOut(m) /\ ~(enabled /\ listens) THEN owed[m] \ {h}
                                                          ELSE owed[m]]
    /\ interrupted' = interrupted \cup
         (IF enabled THEN {} ELSE {d \in rows : d.hook = h})

\* Mutant of DeleteHook: the subscription outlives its endpoint.
DeleteHookOnly(h) ==
    /\ hooks' = hooks \ {h}
    /\ hook' = [hook EXCEPT ![h] = NewHook]
    /\ UNCHANGED <<bornHooks, place, places>>

\* An endpoint's row and its subscription row are deleted.
DeleteHook(h) ==
    /\ hooks' = hooks \ {h}
    /\ hook' = [hook EXCEPT ![h] = NewHook]
    /\ place' = [place EXCEPT ![h] = 0]
    /\ UNCHANGED <<bornHooks, places>>

NewRun(d, attempt) == [id |-> d, attempt |-> attempt, phase |-> "pending"]

NewDelivery(replay) ==
    [attempts |-> 0, started |-> FALSE, failed |-> TRUE, next |-> TRUE,
     replay |-> replay]

NextId(m, h) == [event |-> m, hook |-> h, copy |-> copies[m][h] + 1]

\* send, for each endpoint in `to': a delivery and its first attempt.
Send(m, to, replay) ==
    LET new == {NextId(m, h) : h \in to}
    IN  /\ deliveries' = [d \in rows \cup new |->
                            IF d \in new THEN NewDelivery(replay)
                                         ELSE deliveries[d]]
        /\ runs' = runs \cup {NewRun(d, 0) : d \in new}
        /\ copies' = [copies EXCEPT ![m] =
                        [h \in Hooks |-> IF h \in to THEN @[h] + 1 ELSE @[h]]]

\* A delivery is deleted, and its history with it.
Forget(gone) ==
    /\ deliveries' = [d \in rows \ {gone} |-> deliveries[d]]
    /\ posted' = {p \in posted : p.id # gone}
    /\ taken' = taken \ {gone}
    /\ interrupted' = interrupted \ {gone}
    /\ UNCHANGED <<replays, owed, moved, blamed>>

Become(r, phase) == (runs \ {r}) \cup {[r EXCEPT !.phase = phase]}
Advance(r, phase) == runs' = Become(r, phase) /\ UNCHANGED copies
-----------------------------------------------------------------------------
(***************************************************************************)
(* Users.                                                                  *)
(***************************************************************************)
CreateHook(h, listens) ==
    /\ ~retired
    /\ h \notin bornHooks
    /\ places < MaxPlaces
    /\ bornHooks' = bornHooks \cup {h}
    /\ hooks' = hooks \cup {h}
    /\ hook' = [hook EXCEPT ![h] = NewHook]
    /\ Subscribe(h, listens)
    /\ UNCHANGED <<outbox, queue, purgeJobs, team, seen, history>>

\* Mutant of EditHook: the failure clock of a disabled endpoint keeps going.
EditHookKeepingClock(h, enabled, listens) ==
    /\ ~retired
    /\ h \in hooks
    /\ places < MaxPlaces
    /\ hook' = [hook EXCEPT ![h].enabled = enabled]
    /\ Subscribe(h, listens)
    /\ NoteSubscribed(h, enabled, listens)
    /\ blamed' = IF enabled /\ ~hook[h].enabled THEN blamed \ {h} ELSE blamed
    /\ UNCHANGED <<bornHooks, hooks, outbox, queue, purgeJobs, team, seen,
                   replays>>

\* updateWebhook: re-enabling starts the failure clock over.
EditHook(h, enabled, listens) ==
    /\ ~retired
    /\ h \in hooks
    /\ places < MaxPlaces
    /\ hook' = [hook EXCEPT
                  ![h].enabled = enabled,
                  ![h].failing = IF enabled /\ ~hook[h].enabled THEN "no" ELSE @]
    /\ Subscribe(h, listens)
    /\ NoteSubscribed(h, enabled, listens)
    /\ blamed' = IF enabled /\ ~hook[h].enabled THEN blamed \ {h} ELSE blamed
    /\ UNCHANGED <<bornHooks, hooks, outbox, queue, purgeJobs, team, seen,
                   replays>>

RemoveHook(h) ==
    /\ ~retired
    /\ h \in hooks
    /\ DeleteHook(h)
    /\ purgeJobs' = purgeJobs \cup {h}
    /\ owed' = [m \in Events |-> IF FanningOut(m) THEN owed[m] \ {h} ELSE owed[m]]
    /\ interrupted' = interrupted \cup {d \in rows : d.hook = h}
    /\ blamed' = blamed \ {h}
    /\ UNCHANGED <<outbox, queue, team, seen, replays, moved>>

\* replayDelivery: one more delivery of the same message, never retried.
Replay(d) ==
    /\ ~retired
    /\ d \in rows
    /\ Enabled(d.hook)
    /\ replays[d.event][d.hook] < MaxReplays
    /\ Send(d.event, {d.hook}, TRUE)
    /\ replays' = [replays EXCEPT ![d.event][d.hook] = @ + 1]
    /\ UNCHANGED <<endpoints, outbox, purgeJobs, team, seen, owed, moved,
                   interrupted, blamed>>
-----------------------------------------------------------------------------
(***************************************************************************)
(* The outbox and its fan-out.                                             *)
(***************************************************************************)
\* emitEvent, in the transaction of whatever happened.
Emit(m) ==
    /\ ~retired
    /\ m \notin emitted
    /\ emitted' = emitted \cup {m}
    /\ fanJobs' = fanJobs \cup {[event |-> m, cursor |-> 0]}
    /\ owed' = [owed EXCEPT ![m] = {h \in Hooks : Listens(h)}]
    /\ UNCHANGED <<endpoints, cursor, done, queue, purgeJobs, team, seen,
                   replays, moved, interrupted, blamed>>

\* Mutant of Behind: a page starts with the last listener of the one before.
BehindOrAt(from) == {h \in Hooks : Listens(h) /\ place[h] >= from}

\* The listeners after the cursor.
Behind(from) == {h \in Hooks : Listens(h) /\ place[h] > from}

\* Mutant of Page: pages count listeners instead of following the index.
PageByCount(from) ==
    {h \in Behind(0) :
        LET before == Cardinality({g \in Behind(0) : place[g] < place[h]})
        IN  before >= from /\ before < from + PageSize}

\* The listeners of the next page, in index order.
Page(from) ==
    {h \in Behind(from) :
        Cardinality({g \in Behind(from) : place[g] < place[h]}) < PageSize}

LastOf(page) ==
    CHOOSE p \in {place[h] : h \in page} : \A h \in page : place[h] <= p

\* Mutant of NextPage: the job is scheduled with the cursor it was called with.
NextPageStale(j, page) ==
    IF Cardinality(page) < PageSize THEN {} ELSE {j}

\* The job for what follows a page; one that is not full is the last.
NextPage(j, page) ==
    IF Cardinality(page) < PageSize
    THEN {}
    ELSE {[event |-> j.event, cursor |-> LastOf(page)]}

\* deliverEvent: the next page gets its deliveries.
Fan(j) ==
    LET m == j.event
        page == Page(j.cursor)
        last == Cardinality(page) < PageSize
    IN  /\ IF m \notin done /\ cursor[m] = j.cursor /\ ~retired
           THEN /\ Send(m, page, FALSE)
                /\ done' = IF last THEN done \cup {m} ELSE done
                /\ cursor' = [cursor EXCEPT ![m] = IF last THEN 0 ELSE LastOf(page)]
                /\ fanJobs' = (fanJobs \ {j}) \cup NextPage(j, page)
           ELSE /\ fanJobs' = fanJobs \ {j}
                /\ UNCHANGED <<cursor, done, queue>>
        /\ UNCHANGED <<endpoints, emitted, purgeJobs, team, seen, history>>
-----------------------------------------------------------------------------
(***************************************************************************)
(* An attempt.                                                             *)
(***************************************************************************)
\* claimAttempt's early return, on the row it read.
Claimable(r) ==
    /\ r.id \in rows
    /\ deliveries[r.id].attempts = r.attempt
    /\ ~deliveries[r.id].started
    /\ ~retired

ClaimStale(r) ==
    /\ r.phase = "pending"
    /\ ~Claimable(r)
    /\ Advance(r, "returning")
    /\ UNCHANGED <<endpoints, outbox, deliveries, purgeJobs, team, seen, history>>

\* Mutant of ClaimStopped: the delivery goes on expecting an attempt.
ClaimStoppedQuietly(r) ==
    /\ r.phase = "pending"
    /\ Claimable(r)
    /\ ~Enabled(r.id.hook)
    /\ Advance(r, "returning")
    /\ UNCHANGED <<endpoints, outbox, deliveries, purgeJobs, team, seen, history>>

\* The webhook is gone or disabled, which also ends the delivery's retries.
ClaimStopped(r) ==
    /\ r.phase = "pending"
    /\ Claimable(r)
    /\ ~Enabled(r.id.hook)
    /\ deliveries' = [deliveries EXCEPT ![r.id].next = FALSE]
    /\ Advance(r, "returning")
    /\ UNCHANGED <<endpoints, outbox, purgeJobs, team, seen, history>>

ClaimTaken(r) ==
    /\ r.phase = "pending"
    /\ Claimable(r)
    /\ Enabled(r.id.hook)
    /\ deliveries' = [deliveries EXCEPT ![r.id].started = TRUE]
    /\ Advance(r, "claimed")
    /\ UNCHANGED <<endpoints, outbox, purgeJobs, team, seen, history>>

\* post: the endpoint answers in time with a 2xx status, or it does not.
Post(r, answer) ==
    /\ r.phase = "claimed"
    /\ posted' = posted \cup
         {p \in {[id |-> r.id, attempt |-> r.attempt]} : p.id \in rows}
    /\ taken' = IF answer = "accepted" THEN taken \cup ({r.id} \cap rows)
                                       ELSE taken
    /\ Advance(r, answer)
    /\ UNCHANGED <<endpoints, outbox, deliveries, purgeJobs, team, history>>

\* The attempts have failed for five days: the endpoint is disabled.
Disables(h, failed) == failed /\ Enabled(h) /\ hook[h].failing = "long"

\* Mutant of Retries: the last attempt of the schedule is never made.
RetriesShort(r, failed) ==
    /\ failed
    /\ ~deliveries[r.id].replay
    /\ Enabled(r.id.hook)
    /\ ~Disables(r.id.hook, failed)
    /\ r.attempt + 2 < AttemptLimit

Retries(r, failed) ==
    /\ failed
    /\ ~deliveries[r.id].replay
    /\ Enabled(r.id.hook)
    /\ ~Disables(r.id.hook, failed)
    /\ r.attempt + 1 < AttemptLimit

RecordDelivery(r, failed) ==
    deliveries' = [deliveries EXCEPT
        ![r.id].started = FALSE,
        ![r.id].failed = failed,
        ![r.id].attempts = r.attempt + 1,
        ![r.id].next = Retries(r, failed)]

RecordHealth(h, failed) ==
    IF Disables(h, failed)
    THEN /\ hook' = [hook EXCEPT ![h] = [enabled |-> FALSE, failing |-> "no"]]
         /\ Subscribe(h, place[h] # 0)
         /\ NoteSubscribed(h, FALSE, place[h] # 0)
         /\ blamed' = blamed \ {h}
    ELSE /\ hook' = IF h \notin hooks
                    THEN hook
                    ELSE [hook EXCEPT ![h].failing =
                            IF ~failed THEN "no"
                            ELSE IF @ = "no" THEN "recent" ELSE @]
         /\ blamed' = IF failed /\ Enabled(h) THEN blamed \cup {h}
                                              ELSE blamed \ {h}
         /\ UNCHANGED <<place, places, owed, moved, interrupted>>

\* Mutant of Recordable: an attempt that was counted is counted again.
RecordableAgain(r) == r.id \in rows /\ ~retired

\* record's early return: another run recorded the attempt already.
Recordable(r) ==
    /\ r.id \in rows
    /\ deliveries[r.id].attempts = r.attempt
    /\ ~retired

\* record, whose run then is one of `others': the attempt counts, whatever
\* became of it, unless it was counted before.
RecordResult(r, failed, others) ==
    /\ IF Recordable(r)
       THEN /\ RecordDelivery(r, failed)
            /\ RecordHealth(r.id.hook, failed)
            /\ runs' = others \cup
                 (IF Retries(r, failed) THEN {NewRun(r.id, r.attempt + 1)} ELSE {})
       ELSE /\ runs' = others
            /\ UNCHANGED <<deliveries, hook, place, places, owed, moved,
                           interrupted, blamed>>
    /\ UNCHANGED <<bornHooks, hooks, outbox, copies, purgeJobs, team, seen,
                   replays>>

\* Mutant of Record: whatever was answered is a success.
RecordAnswered(r) ==
    /\ r.phase \in {"accepted", "refused"}
    /\ RecordResult(r, FALSE, Become(r, "returning"))

Record(r) ==
    /\ r.phase \in {"accepted", "refused"}
    /\ RecordResult(r, r.phase = "refused", Become(r, "returning"))

Return(r) ==
    /\ r.phase = "returning"
    /\ runs' = runs \ {r}
    /\ UNCHANGED <<endpoints, outbox, deliveries, copies, purgeJobs, team,
                   seen, history>>

\* The action dies, maybe after its last mutation committed.
Crash(r) ==
    /\ r.phase # "crashed"
    /\ crashes < MaxCrashes
    /\ crashes' = crashes + 1
    /\ Advance(r, "crashed")
    /\ UNCHANGED <<endpoints, outbox, deliveries, purgeJobs, retired, seen, history>>

\* Mutant of AttemptDone: a dead attempt is left as it is.
AttemptDropped(r) ==
    /\ r.phase = "crashed"
    /\ runs' = runs \ {r}
    /\ UNCHANGED <<endpoints, outbox, deliveries, copies, purgeJobs, team,
                   seen, history>>

AttemptDone(r) ==
    /\ r.phase = "crashed"
    /\ RecordResult(r, TRUE, runs \ {r})
-----------------------------------------------------------------------------
(***************************************************************************)
(* Time, cleaning up and the team's end.                                   *)
(***************************************************************************)
\* Five days pass.
Age(h) ==
    /\ hook[h].failing = "recent"
    /\ hook' = [hook EXCEPT ![h].failing = "long"]
    /\ UNCHANGED <<bornHooks, hooks, place, places, outbox, queue, purgeJobs,
                   team, seen, history>>

\* purgeDeliveries, a batch of one delivery at a time.
PurgeDeliveries(h) ==
    /\ h \in purgeJobs
    /\ \/ \E d \in rows : d.hook = h /\ Forget(d) /\ UNCHANGED purgeJobs
       \/ /\ \A d \in rows : d.hook # h
          /\ purgeJobs' = purgeJobs \ {h}
          /\ UNCHANGED <<deliveries, seen, history>>
    /\ UNCHANGED <<endpoints, outbox, copies, runs, team>>

\* cleanup, ninety days on: no run of the delivery is left.
CleanUp(d) ==
    /\ d \in rows
    /\ \A r \in runs : r.id # d
    /\ Forget(d)
    /\ UNCHANGED <<endpoints, outbox, copies, runs, purgeJobs, team>>

RetireTeam ==
    /\ MayRetire
    /\ ~retired
    /\ retired' = TRUE
    /\ UNCHANGED <<endpoints, outbox, queue, purgeJobs, crashes, seen, history>>

\* teamCleanup.purge, for webhooks with their subscriptions and deliveries.
PurgeHook(h) ==
    /\ retired
    /\ h \in hooks
    /\ DeleteHook(h)
    /\ UNCHANGED <<outbox, queue, purgeJobs, team, seen, history>>

PurgeDelivery(d) ==
    /\ retired
    /\ d \in rows
    /\ Forget(d)
    /\ UNCHANGED <<endpoints, outbox, copies, runs, purgeJobs, team>>
-----------------------------------------------------------------------------
\* What the pool and the action do for a run until it is gone.
RunStep(r) ==
    \/ ClaimStale(r)
    \/ ClaimStopped(r)
    \/ ClaimTaken(r)
    \/ \E answer \in {"accepted", "refused"} : Post(r, answer)
    \/ Record(r)
    \/ Return(r)
    \/ AttemptDone(r)

UserStep(h) ==
    \/ \E listens \in BOOLEAN :
         \/ CreateHook(h, listens)
         \/ \E enabled \in BOOLEAN : EditHook(h, enabled, listens)
    \/ RemoveHook(h)

Next ==
    \/ \E h \in Hooks : UserStep(h) \/ Age(h) \/ PurgeDeliveries(h) \/ PurgeHook(h)
    \/ \E m \in Events : Emit(m)
    \/ \E j \in fanJobs : Fan(j)
    \/ \E r \in runs : RunStep(r) \/ Crash(r)
    \/ \E d \in rows : Replay(d) \/ CleanUp(d) \/ PurgeDelivery(d)
    \/ RetireTeam

Spec == Init /\ [][Next]_vars

(***************************************************************************)
(* The scheduler fires what is scheduled and the pool drives every run and *)
(* its onComplete; users, endpoints, time and crashes owe nothing.         *)
(***************************************************************************)
FansOf(m) == \E j \in fanJobs : j.event = m /\ Fan(j)
RunsOf(m, h) == \E r \in runs : r.id.event = m /\ r.id.hook = h /\ RunStep(r)

SchedulerFairness == \A m \in Events : WF_vars(FansOf(m))
PoolFairness == \A m \in Events, h \in Hooks : WF_vars(RunsOf(m, h))

SchedulerSpec == Spec /\ SchedulerFairness
PoolSpec == Spec /\ PoolFairness
-----------------------------------------------------------------------------
(***************************************************************************)
(* Properties.                                                             *)
(***************************************************************************)
Fanned(m, h) == copies[m][h] - replays[m][h]

\* deliverEvent: "one delivery per enabled webhook of the event's team that
\* listens for its type".  Only an endpoint that was subscribed anew while the
\* fan-out was under way can get a second delivery of the event.
OneDeliveryUnlessMoved ==
    \A m \in Events, h \in Hooks : h \notin moved[m] => Fanned(m, h) <= 1

\* deliverEvent: no listener is skipped, however endpoints are added, edited
\* and removed while the pages are read.
NobodySkipped ==
    \A m \in done : retired \/ \A h \in owed[m] : Fanned(m, h) >= 1

\* Every listener gets the event, and only one that moved gets it again
\* (deliverEvent).
EachListenerOnce == OneDeliveryUnlessMoved /\ NobodySkipped

\* claimAttempt, record: no attempt is posted twice, whatever dies.  Whoever
\* may still post one has not posted it.
AttemptPostedOnce ==
    \A r \in runs :
        r.phase = "claimed" => [id |-> r.id, attempt |-> r.attempt] \notin posted

\* nextAttemptAt: a delivery that still expects an attempt is carried by
\* exactly one run, for the attempt its row counts to and claimed as the row
\* says; one that expects none is carried by no run that could still post.
OneCarrier ==
    retired \/ \A d \in rows :
        LET own == {r \in runs : r.id = d /\ r.attempt = deliveries[d].attempts}
        IN  IF deliveries[d].next
            THEN \E r \in own :
                   /\ own = {r}
                   /\ r.phase # "returning"
                   /\ deliveries[d].started => r.phase # "pending"
                   /\ ~deliveries[d].started => r.phase \in {"pending", "crashed"}
            ELSE \A r \in own : r.phase \in {"returning", "crashed"}

\* Each attempt of a delivery is made, by one run, and none is made twice (claimAttempt,
\* record, attemptDone).
EachAttemptOnce == AttemptPostedOnce /\ OneCarrier

\* record: the verdict shown on a delivery was earned.  One that succeeded was
\* taken by its endpoint; one that failed was given its last attempt, unless it
\* is a replay or its endpoint was off at some time.
VerdictIsEarned ==
    \A d \in rows :
        /\ ~deliveries[d].failed => d \in taken
        /\ ~retired /\ deliveries[d].failed /\ ~deliveries[d].next
           => \/ deliveries[d].replay
              \/ d \in interrupted
              \/ deliveries[d].attempts = AttemptLimit

\* record, updateWebhook: the failure clock of an enabled endpoint runs only
\* after a failure since it was last enabled or last successful.
ClockIsCurrent ==
    \A h \in hooks : hook[h].enabled /\ hook[h].failing # "no" => h \in blamed

\* An event is fanned out to the end.
EventFannedOut ==
    \A m \in Events : m \in emitted ~> (m \in done \/ retired)

\* Every delivery comes to an end: success, the last attempt, or its
\* endpoint's.
DeliveryEnds ==
    \A m \in Events, h \in Hooks :
        (\E d \in rows : d.event = m /\ d.hook = h /\ deliveries[d].next)
            ~> (retired \/ \A d \in rows :
                    d.event = m /\ d.hook = h => ~deliveries[d].next)
=============================================================================
