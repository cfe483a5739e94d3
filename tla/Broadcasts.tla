----------------------------- MODULE Broadcasts -----------------------------
(***************************************************************************)
(* A broadcast (src/convex/broadcasts.ts, broadcastSend.ts,                *)
(* broadcastMetrics.ts): it is sent now or later, canceled, sent again or  *)
(* removed; a workflow pages through its audience and creates one email    *)
(* per contact; the emails settle in any order, and the last of the two    *)
(* ends it.  What happens to one copy is the subject of Emails: here it    *)
(* settles once, with an outcome.                                          *)
(*                                                                         *)
(* One broadcast of one team.  A contact is known by its address, which no *)
(* edit changes; an address that is removed and added again is a new,      *)
(* later contact.                                                          *)
(***************************************************************************)
EXTENDS Integers, SequencesExt

CONSTANTS
    Addresses,
    Oldest,         \* Addresses in the order they were added
    PageSize,       \* contacts a batch reads (10)
    Pages,          \* batches a workflow runs before it is replaced (100)
    MaxSends,       \* bound: sends and cancels, which number the generations
    MaxMoves        \* bound: edits of the audience

ASSUME BroadcastsAssumption ==
    /\ IsFiniteSet(Addresses)
    /\ Oldest \in Seq(Addresses)
    /\ ToSet(Oldest) = Addresses
    /\ IsInjective(Oldest)
    /\ PageSize \in Nat \ {0}
    /\ Pages \in Nat \ {0}
    /\ MaxSends \in Nat
    /\ MaxMoves \in Nat

VARIABLES
    row,            \* the broadcasts row
    jobs,           \* pending start jobs, by generation
    flows,          \* workflows that exist
    rows,           \* index the audience is paged by: members, or contacts
    contacts,       \* addresses that are contacts
    unsubscribed,   \* those that opted out, of everything or of the topic
    late,           \* those created after the audience was fixed
    standing,       \* the segment, the topic and the sender's domain are there
    retired,        \* the team is being deleted
    copies,         \* broadcastRecipients row of each address
    made,           \* history: emails created for each address
    steady,         \* history: in the audience ever since the start
    moves           \* edits of the audience so far

audienceVars == <<rows, contacts, unsubscribed, late, moves>>
vars == <<row, jobs, flows, audienceVars, standing, retired, copies, made,
          steady>>

Unsent == {"draft", "scheduled", "canceled"}
Ended == {"sent", "failed"}
\* "removed" stands for a row that was deleted.
Status == Unsent \cup Ended \cup {"queued", "removed"}
Generation == 0..MaxSends

\* begun stands for audienceBefore, flow for workflowId (0 is none).
Row == [status : Status, generation : Generation, begun : BOOLEAN,
        cursor : Nat, done : BOOLEAN, flow : Nat, retained : BOOLEAN,
        segment : BOOLEAN]

\* result is that of a workflow that ended and waits for its completed hook.
Flow == [id : Nat \ {0}, generation : Generation, pages : 0..Pages,
         result : {"none", "success", "failed"}]

Copy == {"none", "pending", "settled", "failed"}

TypeOK ==
    /\ row \in Row
    /\ jobs \subseteq Generation
    /\ flows \subseteq Flow
    /\ rows \in Seq(Addresses)
    /\ contacts \subseteq Addresses
    /\ unsubscribed \subseteq contacts
    /\ late \subseteq contacts
    /\ standing \in BOOLEAN
    /\ retired \in BOOLEAN
    /\ copies \in [Addresses -> Copy]
    /\ made \in [Addresses -> Nat]
    /\ steady \subseteq contacts
    /\ moves \in 0..MaxMoves

\* A draft whose audience is a segment, or every contact of the team.
Init ==
    /\ \E segment \in BOOLEAN :
         row = [status |-> "draft", generation |-> 0, begun |-> FALSE, cursor |-> 0,
                done |-> FALSE, flow |-> 0, retained |-> FALSE, segment |-> segment]
    /\ jobs = {}
    /\ flows = {}
    /\ rows = Oldest
    /\ contacts = Addresses
    /\ unsubscribed = {}
    /\ late = {}
    /\ standing = TRUE
    /\ retired = FALSE
    /\ copies = [a \in Addresses |-> "none"]
    /\ made = [a \in Addresses |-> 0]
    /\ steady = {}
    /\ moves = 0
-----------------------------------------------------------------------------
Eligible(a) == a \in contacts \ (unsubscribed \cup late)

\* Where the index range ends: every member, or the contacts not newer than the cutoff,
\* which come first in the order of creation.
InRange ==
    CHOOSE n \in 0..Len(rows) :
        \A i \in 1..Len(rows) : i <= n <=> (row.segment \/ rows[i] \notin late)

PageEnd == Min({row.cursor + PageSize, InRange})
Page == SubSeq(rows, row.cursor + 1, PageEnd)

\* recipientPage: whom the next page is for.
Recipients == {a \in ToSet(Page) : Eligible(a)}

\* paginate: a page that ends with the last row may or may not know it.
PageIsDone ==
    LET left == InRange - row.cursor - PageSize
    IN  {b \in BOOLEAN : (left < 0 => b) /\ (left > 0 => ~b)}

\* Mutant of Finish: the audience is not asked for.
FinishEarly(r, cs) ==
    IF \/ r.status # "queued"
       \/ \E a \in Addresses : cs[a] = "pending"
    THEN r
    ELSE [r EXCEPT !.status = IF \E a \in Addresses : cs[a] = "failed"
                              THEN "failed" ELSE "sent"]

\* finishBroadcast: the verdict, once the audience and its copies are done.
Finish(r, cs) ==
    IF \/ r.status # "queued"
       \/ ~r.done
       \/ \E a \in Addresses : cs[a] = "pending"
    THEN r
    ELSE [r EXCEPT !.status = IF \E a \in Addresses : cs[a] = "failed"
                              THEN "failed" ELSE "sent"]

\* startWorkflow: the row `r' with a workflow of its own, and that workflow.
WithFlow(r) == [r EXCEPT !.flow = r.flow + 1]
FlowOf(r) ==
    [id |-> r.flow, generation |-> r.generation, pages |-> 0, result |-> "none"]
-----------------------------------------------------------------------------
\* Mutant of Unscheduled: the start job is left where it is.
UnscheduledNever(g) == jobs

\* scheduler.cancel of the row's scheduledJob, the one of its generation.
Unscheduled(g) == jobs \ {g}

\* sendBroadcast, at once or for later; audience() throws when it is gone.
SendBroadcast ==
    /\ row.status \in Unsent
    /\ standing
    /\ ~retired
    /\ row.generation < MaxSends
    /\ \E status \in {"queued", "scheduled"} :
         row' = [row EXCEPT !.status = status, !.generation = @ + 1,
                            !.retained = FALSE, !.done = FALSE, !.cursor = 0]
    /\ jobs' = Unscheduled(row.generation) \cup {row.generation + 1}
    /\ UNCHANGED <<flows, audienceVars, standing, retired, copies, made, steady>>

\* Mutant of Cancelable: a broadcast is canceled in its queue, started or not.
CancelableQueued(r) == r.status \in {"scheduled", "queued"}

Cancelable(r) ==
    \/ r.status = "scheduled"
    \/ r.status = "queued" /\ ~r.begun

\* cancelBroadcast.
CancelBroadcast ==
    /\ Cancelable(row)
    /\ ~retired
    /\ row.generation < MaxSends
    /\ row' = [row EXCEPT !.status = "canceled", !.generation = @ + 1]
    /\ jobs' = Unscheduled(row.generation)
    /\ UNCHANGED <<flows, audienceVars, standing, retired, copies, made, steady>>

\* removeBroadcast.
RemoveBroadcast ==
    /\ row.status \in Unsent
    /\ ~retired
    /\ row' = [row EXCEPT !.status = "removed"]
    /\ jobs' = Unscheduled(row.generation)
    /\ UNCHANGED <<flows, audienceVars, standing, retired, copies, made, steady>>

\* The segment or the topic is deleted.
RemoveAudience ==
    /\ standing
    /\ standing' = FALSE
    /\ UNCHANGED <<row, jobs, flows, audienceVars, retired, copies, made, steady>>

Retire ==
    /\ ~retired
    /\ retired' = TRUE
    /\ UNCHANGED <<row, jobs, flows, audienceVars, standing, copies, made, steady>>

\* start: the audience is fixed and the first workflow begins.
Start(g) ==
    /\ g \in jobs
    /\ jobs' = jobs \ {g}
    /\ IF \/ row.generation # g
          \/ row.status \notin {"queued", "scheduled"}
          \/ row.begun
          \/ retired
       THEN UNCHANGED <<row, flows, steady>>
       ELSE /\ row' = WithFlow([row EXCEPT !.status = "queued", !.begun = TRUE])
            /\ flows' = flows \cup {FlowOf(row')}
            /\ steady' = ToSet(rows) \cap (contacts \ unsubscribed)
    /\ UNCHANGED <<audienceVars, standing, retired, copies, made>>
-----------------------------------------------------------------------------
Ends(f, result) == flows' = (flows \ {f}) \cup {[f EXCEPT !.result = result]}

\* A mutation of execute answered FALSE: the next page, or the end of the journal.
PageOn(f) ==
    flows' = (flows \ {f}) \cup
        {[f EXCEPT !.pages = @ + 1,
                   !.result = IF f.pages + 1 = Pages THEN "success" ELSE "none"]}

\* batch's early return.
Over(f) ==
    \/ row.status # "queued"
    \/ row.generation # f.generation
    \/ row.done
    \/ retired

BatchStops(f) ==
    /\ f \in flows
    /\ f.result = "none"
    /\ Over(f)
    /\ Ends(f, "success")
    /\ UNCHANGED <<row, jobs, audienceVars, standing, retired, copies, made, steady>>

\* Mutant of Uncopied: every recipient of the page gets a copy.
UncopiedEver(page) == page

\* Recipients without a broadcastRecipients row.
Uncopied(page) == {a \in page : copies[a] = "none"}

\* Mutant of BatchDone: a page without recipients is taken for the last one.
BatchDoneEmpty == IF Recipients = {} THEN {TRUE} ELSE PageIsDone

\* What batch may find of page.isDone.
BatchDone == PageIsDone

\* The row after a page, with the verdict when it was the last.
Paged(r, done, cs) ==
    LET paged == [r EXCEPT !.done = done, !.cursor = PageEnd]
    IN  IF done THEN Finish(paged, cs) ELSE paged

\* batch: one transaction creates a page's emails and moves the cursor.
Batch(f) ==
    /\ f \in flows
    /\ f.result = "none"
    /\ ~Over(f)
    /\ standing
    /\ LET new == Uncopied(Recipients)
       IN  /\ copies' = [a \in Addresses |->
                            IF a \in new THEN "pending" ELSE copies[a]]
           /\ made' = [a \in Addresses |->
                            IF a \in new THEN made[a] + 1 ELSE made[a]]
    /\ \E done \in BatchDone :
         /\ row' = Paged(row, done, copies')
         /\ IF done THEN Ends(f, "success") ELSE PageOn(f)
    /\ UNCHANGED <<jobs, audienceVars, standing, retired, steady>>

\* batch throws: its audience is gone, createEmail refuses the sender, or the
\* workflow component gives up.
FlowFails(f) ==
    /\ f \in flows
    /\ f.result = "none"
    /\ Ends(f, "failed")
    /\ UNCHANGED <<row, jobs, audienceVars, standing, retired, copies, made, steady>>

Current(f) == f.id = row.flow /\ row.status # "removed" /\ ~retired

\* Mutant of Renewed: a workflow that used up its journal is not replaced.
RenewedNever(f) == FALSE

Renewed(f) ==
    /\ Current(f)
    /\ f.result = "success"
    /\ row.status = "queued"
    /\ ~row.done
    /\ row.generation = f.generation

\* completed: the workflow's hook fails the broadcast or starts the next one.
Completed(f) ==
    /\ f \in flows
    /\ f.result # "none"
    /\ row' =
         IF Renewed(f) THEN WithFlow(row)
         ELSE IF /\ Current(f)
                 /\ f.result = "failed"
                 /\ row.status = "queued"
                 /\ row.generation = f.generation
              THEN [row EXCEPT !.status = "failed"]
              ELSE row
    /\ flows' = (flows \ {f}) \cup (IF Renewed(f) THEN {FlowOf(row')} ELSE {})
    /\ UNCHANGED <<jobs, audienceVars, standing, retired, copies, made, steady>>

\* broadcastMetric: the first outcome of a copy is its last.
Settle(a) ==
    /\ copies[a] = "pending"
    /\ ~row.retained
    /\ \E outcome \in {"settled", "failed"} :
         copies' = [copies EXCEPT ![a] = outcome]
    /\ row' = Finish(row, copies')
    /\ UNCHANGED <<jobs, flows, audienceVars, standing, retired, made, steady>>

\* retention.broadcasts: the reports of what settled a month ago.
Retain ==
    /\ row.status \in Ended \cup {"canceled"}
    /\ ~row.retained
    /\ row' = [row EXCEPT !.retained = TRUE]
    /\ copies' = [a \in Addresses |-> "none"]
    /\ UNCHANGED <<jobs, flows, audienceVars, standing, retired, made, steady>>
-----------------------------------------------------------------------------
\* Edits that matter: the audience is fixed and still being read.
Edit ==
    /\ row.status = "queued" /\ row.begun /\ ~row.done
    /\ moves < MaxMoves
    /\ moves' = moves + 1
    /\ UNCHANGED <<jobs, flows, standing, retired, copies, made>>

\* The row of `a' leaves the index; the cursor keeps its place.
DropRow(a) ==
    IF a \in ToSet(rows)
    THEN LET at == CHOOSE i \in DOMAIN rows : rows[i] = a
         IN  /\ rows' = RemoveAt(rows, at)
             /\ row' = [row EXCEPT !.cursor = IF at <= @ THEN @ - 1 ELSE @]
    ELSE UNCHANGED <<rows, row>>

\* A contact is created, after the cutoff.
AddContact(a) ==
    /\ Edit
    /\ a \notin contacts
    /\ contacts' = contacts \cup {a}
    /\ late' = late \cup {a}
    /\ rows' = IF row.segment THEN rows ELSE Append(rows, a)
    /\ UNCHANGED <<row, unsubscribed, steady>>

\* Mutant of OptOutsWithout: the topic choices of a deleted contact stay.
OptOutsKept(a) == unsubscribed

\* purgeContactRows: a contact's choices go with it.
OptOutsWithout(a) == unsubscribed \ {a}

\* deleteContact, with its memberships.
RemoveContact(a) ==
    /\ Edit
    /\ a \in contacts
    /\ contacts' = contacts \ {a}
    /\ unsubscribed' = OptOutsWithout(a)
    /\ late' = late \ {a}
    /\ steady' = steady \ {a}
    /\ DropRow(a)

\* A contact joins the segment, behind everybody.
AddMember(a) ==
    /\ Edit
    /\ row.segment
    /\ a \in contacts \ ToSet(rows)
    /\ rows' = Append(rows, a)
    /\ UNCHANGED <<row, contacts, unsubscribed, late, steady>>

RemoveMember(a) ==
    /\ Edit
    /\ row.segment
    /\ a \in ToSet(rows)
    /\ DropRow(a)
    /\ steady' = steady \ {a}
    /\ UNCHANGED <<contacts, unsubscribed, late>>

Unsubscribe(a) ==
    /\ Edit
    /\ a \in contacts \ unsubscribed
    /\ unsubscribed' = unsubscribed \cup {a}
    /\ steady' = steady \ {a}
    /\ UNCHANGED <<row, rows, contacts, late>>

Resubscribe(a) ==
    /\ Edit
    /\ a \in unsubscribed
    /\ unsubscribed' = unsubscribed \ {a}
    /\ UNCHANGED <<row, rows, contacts, late, steady>>
-----------------------------------------------------------------------------
Work(f) == BatchStops(f) \/ Batch(f) \/ (~standing /\ FlowFails(f))

Team ==
    \/ SendBroadcast
    \/ CancelBroadcast
    \/ RemoveBroadcast
    \/ RemoveAudience
    \/ Retire
    \/ \E a \in Addresses :
         \/ AddContact(a)
         \/ RemoveContact(a)
         \/ AddMember(a)
         \/ RemoveMember(a)
         \/ Unsubscribe(a)
         \/ Resubscribe(a)

Backend ==
    \/ \E g \in jobs : Start(g)
    \/ \E f \in flows : BatchStops(f) \/ Batch(f) \/ FlowFails(f) \/ Completed(f)
    \/ \E a \in Addresses : Settle(a)
    \/ Retain

Next == Team \/ Backend

Spec == Init /\ [][Next]_vars

\* The scheduler runs the start job, the workflow component runs what it was
\* given and calls its hook, and every copy settles (QueuedSettles of Emails).
FairSpec ==
    /\ Spec
    /\ WF_vars(\E g \in jobs : Start(g))
    /\ WF_vars(\E f \in flows : Work(f))
    /\ WF_vars(\E f \in flows : Completed(f))
    /\ \A a \in Addresses : WF_vars(Settle(a))
-----------------------------------------------------------------------------
\* Nobody gets two copies of a broadcast, though its audience is read page by
\* page over rows that leave the index and come back behind the cursor, by one
\* workflow after the other (batch's `previous').
OneCopy == \A a \in Addresses : made[a] <= 1

\* Whoever was in the audience when it was fixed and stayed in it got a copy
\* by the time the audience is done: no page is skipped or read short, whatever
\* joins and leaves meanwhile (batch's cursor and isDone).
NobodyMissed ==
    row.done => \A a \in steady : made[a] >= 1

\* The audience gets the broadcast, each of it once (batch).
EachOneCopy == OneCopy /\ NobodyMissed

\* A broadcast is "sent" only once its whole audience is settled without a
\* failure, and it is never left in its queue when the last of the audience and
\* the copies was done (finishBroadcast, called by batch and broadcastMetric).
VerdictIsTrue ==
    /\ row.status = "sent" =>
         /\ row.done
         /\ \A a \in Addresses : copies[a] \notin {"pending", "failed"}
    /\ row.status = "queued" /\ row.done =>
         \E a \in Addresses : copies[a] = "pending"

\* Before it starts, a broadcast that is to go out has one start job, of its
\* generation; while its audience is read it has one workflow, the row's; and
\* nothing else ever works on it (sendBroadcast, cancelBroadcast, completed).
CarriedOnce ==
    /\ jobs \subseteq {row.generation}
    /\ ~retired =>
         (jobs # {} <=> \/ row.status = "scheduled"
                        \/ row.status = "queued" /\ ~row.begun)
    /\ Cardinality(flows) <= 1
    /\ row.status = "queued" /\ row.begun /\ ~row.done /\ ~retired =>
         \E f \in flows : Current(f) /\ f.generation = row.generation

\* A broadcast that was canceled or removed, or still waits, has reached
\* nobody, whenever its start job fired (cancelBroadcast's condition).
UnsentReachNobody ==
    row.status \in Unsent \cup {"removed"} =>
        \A a \in Addresses : made[a] = 0

\* A broadcast that is sent reaches its audience, each of it once, and one that is not
\* reaches nobody (batch, cancelBroadcast).
AudienceReached == EachOneCopy /\ UnsentReachNobody

\* A broadcast in its queue ends: its start job, its pages, the workflows that
\* replace each other and its copies together always come to a verdict.
BroadcastEnds ==
    row.status = "queued" ~> (row.status # "queued" \/ retired)
=============================================================================
