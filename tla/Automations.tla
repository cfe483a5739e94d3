----------------------------- MODULE Automations -----------------------------
(***************************************************************************)
(* The runs of a team's automations: automationRuntime.ts, and what        *)
(* automations.ts does to them.                                            *)
(*                                                                         *)
(* Every event here carries one name and the id of one contact, the        *)
(* trigger of every automation and what every wait waits for: the indexes  *)
(* of dispatch keep other names and contacts apart.  An event that names an *)
(* address only, and makes the contact where there is none, is left out.   *)
(* The graph is the same for all.                                          *)
(*                                                                         *)
(* External: the workflow component.  It walks the graph, may repeat a     *)
(* step whose result it did not journal, keeps the events sent to it until *)
(* they are awaited, and calls completed once it is over.                  *)
(***************************************************************************)
EXTENDS Integers, Sequences, FiniteSetsExt

CONSTANTS
    MaxAutomations,     \* bound: automations, in the order of their index
    MaxEvents,          \* bound: events, in the order of their creation
    Keys,               \* the steps of the graph
    NoKey,              \* no step: the end of the graph, no wait
    First,
    Kind,
    Then,               \* the step after, where its condition is met, its event came
    Otherwise,          \* the step after, where not
    PageSize,
    Patience,           \* how long a wait waits
    MaxTime,            \* bound: a deadline past it is at it
    MaxRuns,            \* bound: runs
    MaxMoves            \* bound: what users change, steps the component repeats

Automations == 1..MaxAutomations
Events == 1..MaxEvents
NoEvent == 0    \* the event of a run that was started by hand

ASSUME AutomationsAssumption ==
    /\ NoKey \notin Keys
    /\ First \in Keys
    /\ Kind \in [Keys -> {"delay", "wait", "condition", "act"}]
    /\ Then \in [Keys -> Keys \cup {NoKey}]
    /\ Otherwise \in [Keys -> Keys \cup {NoKey}]
    /\ PageSize \in Nat \ {0}
    /\ {MaxAutomations, MaxEvents, Patience, MaxTime, MaxRuns, MaxMoves} \subseteq Nat

\* A run is named by what startRun finds it again by.
Runs == Automations \X (Events \cup {NoEvent})

VARIABLES
    now,
    automation,     \* the automations rows
    contact,        \* whether the contact is still there
    retired,        \* whether the team was deleted
    event,          \* the events rows, and where their dispatch is
    run,            \* the automationRuns rows
    born,           \* the place of each run in the order of their creation, 0: none
    births,         \* the last place given out
    record,         \* the automationRunSteps rows, without "start"
    timeouts,       \* the timeout jobs that are scheduled
    flow,           \* external: the workflows
    mail,           \* external: the events sent to them, by name
    effects,        \* history: how often a step of a run took effect
    moves

creation == <<born, births>>
vars == <<now, automation, contact, retired, event, run, creation, record, timeouts,
          flow, mail, effects, moves>>

Time == 0..MaxTime
Ended == {"completed", "failed", "cancelled"}

AutomationRow ==
    [status : {"enabled", "disabled"}, deleted : BOOLEAN, gone : BOOLEAN, enabledAt : Time]
EventRow ==
    [phase : {"none", "wait", "start", "done", "dropped"}, at : Time, cursor : Nat]
RunRow ==
    [status : {"none", "running", "gone"} \cup Ended, key : Keys \cup {NoKey},
     at : Time, until : Time, last : Events \cup {NoEvent}]
StepStatus == {"none", "running", "skipped"} \cup Ended
Answers == Events \cup {NoEvent}     \* NoEvent stands for received: false
Flow ==
    [stage : {"none", "perform", "sleep", "await", "finish", "over", "clean"},
     at : Keys \cup {NoKey}, received : BOOLEAN,
     result : {"none", "success", "failed", "canceled"}]

TypeOK ==
    /\ now \in Time
    /\ automation \in [Automations -> AutomationRow]
    /\ contact \in BOOLEAN
    /\ retired \in BOOLEAN
    /\ event \in [Events -> EventRow]
    /\ run \in [Runs -> RunRow]
    /\ born \in [Runs -> Nat]
    /\ births \in 0..MaxRuns
    /\ record \in [Runs -> [Keys -> [status : StepStatus, met : BOOLEAN]]]
    /\ timeouts \subseteq [run : Runs, key : Keys, at : Time]
    /\ flow \in [Runs -> Flow]
    /\ mail \in [Runs -> [Keys -> Seq(Answers)]]
    /\ effects \in [Runs -> [Keys -> Nat]]
    /\ moves \in 0..MaxMoves

NoRun == [status |-> "none", key |-> NoKey, at |-> 0, until |-> 0, last |-> NoEvent]
NoFlow == [stage |-> "none", at |-> NoKey, received |-> FALSE, result |-> "none"]
NoStep == [status |-> "none", met |-> FALSE]

Init ==
    /\ now = 0
    /\ automation = [a \in Automations |->
           [status |-> "enabled", deleted |-> FALSE, gone |-> FALSE, enabledAt |-> 0]]
    /\ contact = TRUE
    /\ retired = FALSE
    /\ event = [e \in Events |-> [phase |-> "none", at |-> 0, cursor |-> 0]]
    /\ run = [r \in Runs |-> NoRun]
    /\ born = [r \in Runs |-> 0]
    /\ births = 0
    /\ record = [r \in Runs |-> [k \in Keys |-> NoStep]]
    /\ timeouts = {}
    /\ flow = [r \in Runs |-> NoFlow]
    /\ mail = [r \in Runs |-> [k \in Keys |-> <<>>]]
    /\ effects = [r \in Runs |-> [k \in Keys |-> 0]]
    /\ moves = 0

Least(a, b) == IF a < b THEN a ELSE b

Running(r) == run[r].status = "running"

\* active: the run goes on, and neither its automation nor its team was removed.
Active(r) == Running(r) /\ ~automation[r[1]].deleted /\ ~retired
-----------------------------------------------------------------------------
\* stopRun and completed: a wait that nobody waits in.
Idle(row) == [row EXCEPT !.key = NoKey, !.at = 0, !.until = 0]

\* Runs in rs begin (startRun); those that began before are left alone.
Begun(rs) == {r \in rs : run[r].status = "none"}

Begin(rs) ==
    LET new == Begun(rs) IN
    /\ run' = [r \in Runs |->
           IF r \in new THEN [NoRun EXCEPT !.status = "running", !.last = r[2]] ELSE run[r]]
    /\ born' = [r \in Runs |->
           IF r \in new THEN births + Cardinality({q \in new : q[1] <= r[1]}) ELSE born[r]]
    /\ births' = births + Cardinality(new)
    /\ births' <= MaxRuns
    /\ flow' = [r \in Runs |->
           IF r \in new THEN [NoFlow EXCEPT !.stage = "perform", !.at = First] ELSE flow[r]]

\* The step rows of a run that is over: none is left running.
Closed(steps, status) ==
    [k \in Keys |-> IF steps[k].status = "running"
                    THEN [steps[k] EXCEPT !.status = status] ELSE steps[k]]

Over(f, result) == [f EXCEPT !.stage = "over", !.result = result]

Live(r) == flow[r].result = "none"

\* cancel of the component: a workflow that is over stays so.
Cancelled(f) == IF f.result = "none" THEN [f EXCEPT !.result = "canceled"] ELSE f

\* cleanup of the component: nothing is left of a workflow that became f.
CleanUp(r, f) ==
    /\ flow' = [flow EXCEPT ![r] = [NoFlow EXCEPT !.stage = "clean", !.result = f.result]]
    /\ mail' = [mail EXCEPT ![r] = [k \in Keys |-> <<>>]]

\* A run goes with its steps.
DeleteRun(r) ==
    /\ run' = [run EXCEPT ![r] = [NoRun EXCEPT !.status = "gone"]]
    /\ record' = [record EXCEPT ![r] = [k \in Keys |-> NoStep]]

\* Mutant of Stopped: the wait is left in its index.
StoppedWaiting(row) == [row EXCEPT !.status = "cancelled"]

Stopped(row) == [Idle(row) EXCEPT !.status = "cancelled"]
-----------------------------------------------------------------------------
Move == moves < MaxMoves /\ moves' = moves + 1

\* setStatus.
SetStatus(a) ==
    /\ ~retired
    /\ ~automation[a].deleted
    /\ Move
    /\ automation' = [automation EXCEPT ![a] =
           IF @.status = "enabled" THEN [@ EXCEPT !.status = "disabled"]
           ELSE [@ EXCEPT !.status = "enabled", !.enabledAt = now]]
    /\ UNCHANGED <<now, contact, retired, event, run, creation, record, timeouts, flow, mail, effects>>

\* removeAutomation; its purge is scheduled.
RemoveAutomation(a) ==
    /\ ~retired
    /\ ~automation[a].deleted
    /\ Move
    /\ automation' = [automation EXCEPT ![a].deleted = TRUE, ![a].status = "disabled"]
    /\ UNCHANGED <<now, contact, retired, event, run, creation, record, timeouts, flow, mail, effects>>

\* test: a run by hand, one of each automation.
Test(a) ==
    /\ ~retired
    /\ automation[a].status = "enabled"
    /\ contact
    /\ <<a, NoEvent>> \in Begun(Runs)
    /\ Begin({<<a, NoEvent>>})
    /\ UNCHANGED <<now, automation, contact, retired, event, record, timeouts, mail, effects, moves>>

\* cancelRun, by stopRun.
CancelRun(r) ==
    /\ ~retired
    /\ Running(r)
    /\ Move
    /\ ~automation[r[1]].gone
    /\ run' = [run EXCEPT ![r] = Stopped(@)]
    /\ record' = [record EXCEPT ![r] = Closed(@, "cancelled")]
    /\ flow' = [flow EXCEPT ![r] = Cancelled(@)]
    /\ UNCHANGED <<now, automation, contact, retired, event, creation, timeouts, mail, effects>>

\* The runs whose row is there.
Kept == {r \in Runs : run[r].status \notin {"none", "gone"}}

\* The first in the order of creation.
FirstOf(rs) == {r \in rs : \A q \in rs : born[r] <= born[q]}

\* purge: the first run of a removed automation goes, stopped, with its workflow
\* unless that goes on though the run failed; or else the automation.
Purge(a) ==
    LET left == {r \in Kept : r[1] = a} IN
    /\ automation[a].deleted
    /\ ~automation[a].gone
    /\ IF left = {}
       THEN /\ automation' = [automation EXCEPT ![a].gone = TRUE]
            /\ UNCHANGED <<run, record, flow, mail>>
       ELSE \E r \in FirstOf(left) :
            /\ DeleteRun(r)
            /\ IF Running(r) \/ ~Live(r)
               THEN CleanUp(r, Cancelled(flow[r]))
               ELSE UNCHANGED <<flow, mail>>
            /\ UNCHANGED automation
    /\ UNCHANGED <<now, contact, retired, event, creation, timeouts, effects, moves>>

DeleteContact ==
    /\ ~retired
    /\ contact
    /\ Move
    /\ contact' = FALSE
    /\ UNCHANGED <<now, automation, retired, event, run, creation, record, timeouts, flow, mail, effects>>

Tick ==
    /\ now < MaxTime
    /\ now' = now + 1
    /\ UNCHANGED <<automation, contact, retired, event, run, creation, record, timeouts, flow, mail, effects, moves>>
-----------------------------------------------------------------------------
\* emitEvent and consume.
Emit(e) ==
    /\ ~retired
    /\ event[e].phase = "none"
    /\ \A d \in 1..e - 1 : event[d].phase # "none"
    /\ event' = [event EXCEPT ![e] = [phase |-> "wait", at |-> now, cursor |-> 0]]
    /\ UNCHANGED <<now, automation, contact, retired, run, creation, record, timeouts, flow, mail, effects, moves>>

\* The first of the places that an index lists.
PageOf(all) == {i \in all : Cardinality({j \in all : j < i}) < PageSize}

\* The places past the cursor of the runs that the index of waits lists.
WaitingAfter(c) == {born[r] : r \in {q \in Runs : born[q] > c /\ run[q].key # NoKey}}

Hears(e, r) ==
    /\ run[r].last # e
    /\ run[r].at <= event[e].at
    /\ event[e].at <= run[r].until

\* Mutant of Told: the run is left in the index of waits.
ToldWaiting(row, by) == [row EXCEPT !.last = IF by = NoEvent THEN @ ELSE by]

\* signal: what it leaves of a run that waits.
Told(row, by) == [Idle(row) EXCEPT !.last = IF by = NoEvent THEN @ ELSE by]

Waiting(r) == Running(r) /\ run[r].key # NoKey

\* signal, of every run of a page.
Signal(rs, by) ==
    /\ run' = [r \in Runs |->
           IF r \notin rs THEN run[r]
           ELSE IF Waiting(r) THEN Told(run[r], by)
           ELSE [run[r] EXCEPT !.last = IF by = NoEvent THEN @ ELSE by]]
    /\ mail' = [r \in Runs |->
           IF r \in rs /\ Waiting(r) THEN [mail[r] EXCEPT ![run[r].key] = Append(@, by)]
           ELSE mail[r]]

\* Mutant of AfterPage: the waits past the first page are not read.
AfterPageDone(e, all) == [event[e] EXCEPT !.phase = "start", !.cursor = 0]

\* dispatch: its next call, after a page of waits.
AfterPage(e, all) ==
    IF Cardinality(all) <= PageSize THEN [event[e] EXCEPT !.phase = "start", !.cursor = 0]
    ELSE [event[e] EXCEPT !.cursor = Max(PageOf(all))]

\* dispatch: the team is gone, or the contact the event names by its id: "A deleted
\* contact id is never resurrected under the same address" (automationRuntime.ts).
DispatchDrop(e) ==
    /\ event[e].phase \in {"wait", "start"}
    /\ ~contact \/ retired
    /\ event' = [event EXCEPT ![e].phase = "dropped"]
    /\ UNCHANGED <<now, automation, contact, retired, run, creation, record, timeouts, flow, mail, effects, moves>>

\* dispatch, phase wait.
DispatchWaits(e) ==
    LET all == WaitingAfter(event[e].cursor)
        page == {r \in Runs : born[r] \in PageOf(all)}
    IN
    /\ event[e].phase = "wait"
    /\ contact /\ ~retired
    /\ Signal({r \in page : Hears(e, r)}, e)
    /\ event' = [event EXCEPT ![e] = AfterPage(e, all)]
    /\ UNCHANGED <<now, automation, contact, retired, creation, record, timeouts, flow, effects, moves>>

EnabledAfter(c) == {a \in Automations : a > c /\ automation[a].status = "enabled"}

\* dispatch, phase start.
DispatchStarts(e) ==
    LET all == EnabledAfter(event[e].cursor)
        page == PageOf(all)
        fresh == {a \in page : automation[a].enabledAt <= event[e].at}
    IN
    /\ event[e].phase = "start"
    /\ contact /\ ~retired
    /\ Begin({<<a, e>> : a \in fresh})
    /\ event' = [event EXCEPT ![e] =
           IF Cardinality(all) <= PageSize THEN [@ EXCEPT !.phase = "done"]
           ELSE [@ EXCEPT !.cursor = Max(page)]]
    /\ UNCHANGED <<now, automation, contact, retired, record, timeouts, mail, effects, moves>>

\* timeout.
Timeout(r) ==
    \E job \in timeouts :
        /\ job.run = r
        /\ job.at <= now
        /\ timeouts' = timeouts \ {job}
        /\ IF Active(r) /\ run[r].key = job.key /\ run[r].until <= now
           THEN Signal({r}, NoEvent)
           ELSE UNCHANGED <<run, mail>>
        /\ UNCHANGED <<now, automation, contact, retired, event, creation, record, flow, effects, moves>>
-----------------------------------------------------------------------------
\* The walk of execute goes on at k, or returns.
At(f, k) == IF k = NoKey THEN Over(f, "success")
            ELSE [f EXCEPT !.stage = "perform", !.at = k]

\* execute: the component has journaled what perform returned.
Performed(f, k, met) ==
    CASE Kind[k] = "delay" -> [f EXCEPT !.stage = "sleep", !.received = FALSE]
      [] Kind[k] = "wait" -> [f EXCEPT !.stage = "await"]
      [] OTHER -> At(f, IF met THEN Then[k] ELSE Otherwise[k])

\* What the component makes of an answer of perform: it goes on, it repeats the
\* step, or, where the workflow was canceled meanwhile, it stops all the same.
Journal(r, f) ==
    IF flow[r].result = "canceled" THEN
        /\ flow' = [flow EXCEPT ![r].stage = "over"]
        /\ UNCHANGED moves
    ELSE
        \/ /\ flow' = [flow EXCEPT ![r] = f]
           /\ UNCHANGED moves
        \/ /\ Move
           /\ UNCHANGED flow

Performing(r) == flow[r].stage = "perform"

\* Mutant of Fenced: a removed automation's runs go on until they are purged.
FencedEnded(r) == ~Running(r)

\* perform: the run is over or its automation removed.
Fenced(r) == ~Active(r)

PerformFenced(r) ==
    /\ Performing(r)
    /\ Fenced(r)
    /\ Journal(r, Over(flow[r], "success"))
    /\ UNCHANGED <<now, automation, contact, retired, event, run, creation, record, timeouts, mail, effects>>

\* Mutant of Reached: a step that is repeated is performed again.
ReachedNever(r, k) == FALSE

\* perform: the step has its row.
Reached(r, k) == record[r][k].status # "none"

PerformRepeated(r) ==
    LET k == flow[r].at IN
    /\ Performing(r)
    /\ ~Fenced(r)
    /\ Reached(r, k)
    /\ Journal(r, IF record[r][k].status = "failed" THEN Over(flow[r], "success")
                  ELSE Performed(flow[r], k, record[r][k].met))
    /\ UNCHANGED <<now, automation, contact, retired, event, run, creation, record, timeouts, mail, effects>>

Reaches(r, k) == Performing(r) /\ k = flow[r].at /\ ~Fenced(r) /\ ~Reached(r, k)

Deadline == Least(now + Patience, MaxTime)

\* Mutant of Jobs: the deadline is written, and no job for it.
JobsNone(r, k) == timeouts

\* effect of a wait: its timeout is scheduled.
Jobs(r, k) == timeouts \cup {[run |-> r, key |-> k, at |-> Deadline]}

\* perform and effect of a wait.
PerformWait(r) ==
    \E k \in {flow[r].at} :
        /\ Reaches(r, k)
        /\ Kind[k] = "wait"
        /\ record' = [record EXCEPT ![r][k].status = "running"]
        /\ run' = [run EXCEPT ![r].key = k, ![r].at = now, ![r].until = Deadline]
        /\ timeouts' = Jobs(r, k)
        /\ Journal(r, Performed(flow[r], k, TRUE))
        /\ UNCHANGED <<now, automation, contact, retired, event, creation, mail, effects>>

\* perform and effect of a delay.
PerformDelay(r) ==
    \E k \in {flow[r].at} :
        /\ Reaches(r, k)
        /\ Kind[k] = "delay"
        /\ record' = [record EXCEPT ![r][k].status = "running"]
        /\ Journal(r, Performed(flow[r], k, TRUE))
        /\ UNCHANGED <<now, automation, contact, retired, event, run, creation, timeouts, mail, effects>>

\* perform and effect of a condition or of a step that does something: to the
\* contact, who may be deleted, to a segment, an email; one to nobody is skipped.
PerformEffect(r) ==
    \E k \in Keys, met \in BOOLEAN, status \in {"completed", "skipped"} :
        /\ Reaches(r, k)
        /\ Kind[k] \in {"condition", "act"}
        /\ Kind[k] = "condition" => status = "completed"
        /\ Kind[k] = "act" => met
        /\ record' = [record EXCEPT ![r][k] = [status |-> status, met |-> met]]
        /\ contact' \in {contact} \cup IF Kind[k] = "act" /\ status = "completed"
                                    THEN {FALSE} ELSE {}
        /\ effects' = IF status = "completed" THEN [effects EXCEPT ![r][k] = @ + 1] ELSE effects
        /\ Journal(r, Performed(flow[r], k, met))
        /\ UNCHANGED <<now, automation, retired, event, run, creation, timeouts, mail>>

\* perform: its effect is rolled back, and the run ends.
PerformThrows(r) ==
    \E k \in {flow[r].at} :
        /\ Reaches(r, k)
        /\ Kind[k] = "act"
        /\ record' = [record EXCEPT ![r][k].status = "failed"]
        /\ run' = [run EXCEPT ![r].status = "failed"]
        /\ Journal(r, Over(flow[r], "success"))
        /\ UNCHANGED <<now, automation, contact, retired, event, creation, timeouts, mail, effects>>
-----------------------------------------------------------------------------
\* step.sleep.
Wake(r) ==
    /\ flow[r].stage = "sleep"
    /\ Live(r)
    /\ flow' = [flow EXCEPT ![r].stage = "finish"]
    /\ UNCHANGED <<now, automation, contact, retired, event, run, creation, record, timeouts, mail, effects, moves>>

\* step.awaitEvent.
Deliver(r) ==
    LET k == flow[r].at IN
    /\ flow[r].stage = "await"
    /\ Live(r)
    /\ mail[r][k] # <<>>
    /\ flow' = [flow EXCEPT ![r].stage = "finish", ![r].received = Head(mail[r][k]) # NoEvent]
    /\ UNCHANGED <<now, automation, contact, retired, event, run, creation, record, timeouts, mail, effects, moves>>

\* finishWait.
FinishWait(r) ==
    LET k == flow[r].at IN
    /\ flow[r].stage = "finish"
    /\ IF Active(r)
       THEN /\ record' = [record EXCEPT ![r][k].status =
                      IF @ = "running" THEN "completed" ELSE @]
            /\ Journal(r, At(flow[r], IF Kind[k] = "delay" \/ flow[r].received
                                      THEN Then[k] ELSE Otherwise[k]))
       ELSE /\ Journal(r, Over(flow[r], "success"))
            /\ UNCHANGED record
    /\ UNCHANGED <<now, automation, contact, retired, event, run, creation, timeouts, mail, effects>>

\* The component gives up on a workflow whose step keeps failing.
Abandon(r) ==
    /\ flow[r].stage \in {"perform", "sleep", "await", "finish"}
    /\ Live(r)
    /\ Move
    /\ flow' = [flow EXCEPT ![r] = Over(@, "failed")]
    /\ UNCHANGED <<now, automation, contact, retired, event, run, creation, record, timeouts, mail, effects>>

\* The component lets go of a workflow that was canceled.
LetGo(r) ==
    /\ flow[r].stage \in {"perform", "sleep", "await", "finish"}
    /\ ~Live(r)
    /\ flow' = [flow EXCEPT ![r].stage = "over"]
    /\ UNCHANGED <<now, automation, contact, retired, event, run, creation, record, timeouts, mail, effects, moves>>

\* Mutant of Verdict: the component's word for it.
VerdictVerbatim(f) == f.result

Verdict(f) ==
    CASE f.result = "success" -> "completed"
      [] f.result = "canceled" -> "cancelled"
      [] OTHER -> "failed"

\* completed.
Completed(r) ==
    /\ flow[r].stage = "over"
    /\ CleanUp(r, flow[r])
    /\ IF Running(r) /\ ~retired
       THEN /\ run' = [run EXCEPT ![r] = [Idle(@) EXCEPT !.status = Verdict(flow[r])]]
            /\ record' = [record EXCEPT ![r] = Closed(@, Verdict(flow[r]))]
       ELSE UNCHANGED <<run, record>>
    /\ UNCHANGED <<now, automation, contact, retired, event, creation, timeouts, effects, moves>>

\* retention.automations: a run that ended goes with its steps and what is left
\* of its workflow.
Forget(r) ==
    /\ run[r].status \in Ended
    /\ now = MaxTime
    /\ DeleteRun(r)
    /\ CleanUp(r, flow[r])
    /\ UNCHANGED <<now, automation, contact, retired, event, creation, timeouts, effects, moves>>

\* teamRetirements: every handler that looks is fenced from here on.
Retire ==
    /\ ~retired
    /\ Move
    /\ retired' = TRUE
    /\ UNCHANGED <<now, automation, contact, event, run, creation, record, timeouts, flow, mail, effects>>

\* The purge of teamCleanup.ts erases the automations first, one by one.
CleanAutomation(a) ==
    /\ retired
    /\ ~automation[a].gone
    /\ \A b \in 1..a - 1 : automation[b].gone
    /\ automation' = [automation EXCEPT ![a].deleted = TRUE, ![a].gone = TRUE, ![a].status = "disabled"]
    /\ UNCHANGED <<now, contact, retired, event, run, creation, record, timeouts, flow, mail, effects, moves>>

\* A handler that is queued and journaled nothing yet cannot be canceled.
Queued(r) == Live(r) /\ flow[r].stage = "perform" /\ flow[r].at = First

\* Then their runs, with their workflows.
CleanRun(r) ==
    /\ retired
    /\ \A a \in Automations : automation[a].gone
    /\ r \in FirstOf(Kept)
    /\ DeleteRun(r)
    /\ IF Queued(r) THEN UNCHANGED <<flow, mail>> ELSE CleanUp(r, Cancelled(flow[r]))
    /\ UNCHANGED <<now, automation, contact, retired, event, creation, timeouts, effects, moves>>
-----------------------------------------------------------------------------
Users(a) ==
    \/ SetStatus(a)
    \/ RemoveAutomation(a)
    \/ Test(a)

Engine(r) ==
    \/ PerformFenced(r)
    \/ PerformRepeated(r)
    \/ PerformWait(r)
    \/ PerformDelay(r)
    \/ PerformEffect(r)
    \/ PerformThrows(r)
    \/ Wake(r)
    \/ Deliver(r)
    \/ FinishWait(r)
    \/ LetGo(r)
    \/ Completed(r)

Scheduler(e) ==
    \/ DispatchDrop(e)
    \/ DispatchWaits(e)
    \/ DispatchStarts(e)

Next ==
    \/ \E a \in Automations : Users(a) \/ Purge(a) \/ CleanAutomation(a)
    \/ \E r \in Runs :
         \/ CancelRun(r)
         \/ Timeout(r)
         \/ Engine(r)
         \/ Abandon(r)
         \/ Forget(r)
         \/ CleanRun(r)
    \/ \E e \in Events : Emit(e) \/ Scheduler(e)
    \/ DeleteContact
    \/ Retire
    \/ Tick

Spec == Init /\ [][Next]_vars

\* Time passes, and the scheduler and the component do not stop while they have
\* something to do.
System ==
    \/ Tick
    \/ \E a \in Automations : Purge(a) \/ CleanAutomation(a)
    \/ \E r \in Runs : Timeout(r) \/ Engine(r) \/ CleanRun(r)

FairSpec == Spec /\ WF_vars(System)
-----------------------------------------------------------------------------
\* A wait is answered once, by an event of its time or by its deadline, and is
\* over when it is: a matching event or the scheduled timeout signals the
\* workflow once (docs/automations.md; signal, timeout, stopRun).
AnsweredOnce ==
    \A r \in Runs, k \in Keys :
        /\ Len(mail[r][k]) <= 1
        /\ mail[r][k] # <<>> => run[r].key # k
        /\ run[r].key = k => Running(r) /\ record[r][k].status = "running"

\* Once an event's dispatch has read the waits, no run goes on waiting that had
\* begun before the event and had time for it, whatever its pages signalled,
\* stopped or timed out meanwhile (dispatch, which pages over an index its own
\* signals take runs out of).
NobodyPassedOver ==
    \A e \in Events, r \in Runs :
        /\ event[e].phase \in {"start", "done"}
        /\ run[r].key # NoKey
        /\ run[r].at < event[e].at
        => event[e].at > run[r].until

\* Every wait gets its answer, and one (docs/automations.md; dispatch, timeout, stopRun).
WaitsAnswered == AnsweredOnce /\ NobodyPassedOver

\* A step takes effect once however often the component repeats it, and only
\* while its run, its automation and its team are there: deleting fences all
\* steps (docs/automations.md; perform).
EffectsOnceAndFenced ==
    [][effects' # effects =>
          \A r \in Runs, k \in Keys :
              effects'[r][k] # effects[r][k] =>
                  effects[r][k] = 0 /\ Running(r) /\ ~automation[r[1]].deleted /\ ~retired]_vars

\* A run that ended keeps its verdict, waits for nothing and leaves no step
\* running, though the workflow, a timeout or an event comes to it later
\* (completed, stopRun, signal).
EndedStaysEnded ==
    [][\A r \in Runs : run[r].status \in Ended =>
          /\ run'[r].status \in {run[r].status, "gone"}
          /\ run'[r].key = NoKey
          /\ \A k \in Keys : record'[r][k].status # "running"]_vars

\* Every run comes to its end, though no event comes, its automation or its team is
\* removed or its workflow dies: of the finitely many of an instance none goes on for
\* ever (timeout, completed, the purges).
RunsEnd == <>[](\A r \in Runs : ~Running(r))
=============================================================================
