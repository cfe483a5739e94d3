----------------------------- MODULE AutomationsProofs -----------------------------
(***************************************************************************)
(* Theorems about the runs of automations, for any automations, events,    *)
(* graph, page size, patience and number of moves.                         *)
(*                                                                         *)
(* The invariant says of each run how its row, its steps, its workflow and *)
(* the events sent to it agree, though the workflow may repeat a step,     *)
(* die, or go on when the run is over; and of each event which waits its   *)
(* dispatch has left behind.                                               *)
(***************************************************************************)
EXTENDS Automations, FiniteSetTheorems, WellFoundedInduction, TLAPS

(***************************************************************************)
(* The inductive invariant.                                                *)
(***************************************************************************)
Walking == {"perform", "sleep", "await", "finish"}

\* The workflow is past its steps, or at k in one of the stages.
PastOrAt(f, k, stages) == f.stage \in {"over", "clean"} \/ (f.at = k /\ f.stage \in stages)

\* Nothing is there of a run that did not begin.
UnbornIsNothing(r) ==
    run[r].status = "none" =>
        /\ run[r].key = NoKey /\ run[r].last = NoEvent /\ born[r] = 0
        /\ \A k \in Keys : record[r][k].status = "none" /\ mail[r][k] = <<>> /\ effects[r][k] = 0

\* A run waits in a step that is open and unanswered, where its workflow is.
WaitIsOpen(r) ==
    run[r].key # NoKey =>
        /\ Running(r) /\ record[r][run[r].key].status = "running"
        /\ Kind[run[r].key] = "wait"
        /\ mail[r][run[r].key] = <<>>
        /\ PastOrAt(flow[r], run[r].key, {"perform", "await"})

\* A step is open only where the workflow is; one without a row did nothing.
StepsFit(r) ==
    \A k \in Keys :
        /\ record[r][k].status = "running" =>
             /\ Running(r) /\ Kind[k] \in {"delay", "wait"}
             /\ PastOrAt(flow[r], k, Walking)
        /\ Running(r) /\ record[r][k].status = "none" => effects[r][k] = 0 /\ mail[r][k] = <<>>
        /\ Len(mail[r][k]) <= 1

RunFits(r) ==
    /\ UnbornIsNothing(r)
    /\ Running(r) => born[r] >= 1
    /\ WaitIsOpen(r)
    /\ StepsFit(r)
    /\ flow[r].stage \in Walking => flow[r].at \in Keys

\* The wait of r is too short for event e.
TooShort(e, r) == run[r].key # NoKey /\ run[r].at < event[e].at => run[r].until < event[e].at

\* The dispatch of e has read the waits up to the place of r.
HasRead(e, r) ==
    \/ event[e].phase \in {"start", "done"}
    \/ event[e].phase = "wait" /\ born[r] <= event[e].cursor

EventsFit ==
    /\ \A e \in Events : event[e].at <= now
    /\ \A r \in Runs, e \in Events : run[r].last = e =>
         /\ event[e].phase # "none"
         /\ run[r].key # NoKey => event[e].at <= run[r].at
    /\ \A e \in Events, r \in Runs : HasRead(e, r) => TooShort(e, r)

AutomationsInv ==
    /\ TypeOK
    /\ \A r \in Runs : RunFits(r)
    /\ EventsFit

(***************************************************************************)
(* What a step may do to one run, and to its waits.                        *)
(***************************************************************************)
Left(q) ==
    /\ run'[q] = run[q] /\ record'[q] = record[q] /\ flow'[q] = flow[q]
    /\ mail'[q] = mail[q] /\ effects'[q] = effects[q] /\ born'[q] = born[q]

OnlyRun(r) == \A q \in Runs \ {r} : Left(q)

\* EndedStaysEnded, of one run and one step.
EndedKept(r) ==
    run[r].status \in Ended =>
        /\ run'[r].status \in {run[r].status, "gone"}
        /\ run'[r].key = NoKey
        /\ \A k \in Keys : record'[r][k].status # "running"

\* EffectsOnceAndFenced, of one step.
EffectsKept ==
    \A r \in Runs : \A k \in Keys :
        effects'[r][k] # effects[r][k] =>
            effects[r][k] = 0 /\ Running(r) /\ ~automation[r[1]].deleted /\ ~retired

\* A wait ends, stays or begins now, and tells of no event that was not emitted.
WaitKept(r) ==
    /\ \/ run'[r].key = NoKey
       \/ run'[r].at = now
       \/ run'[r].key = run[r].key /\ run'[r].at = run[r].at /\ run'[r].until = run[r].until
    /\ \/ run'[r].last = run[r].last
       \/ /\ run'[r].key = NoKey
          /\ run'[r].last \in Events => event[run'[r].last].phase # "none"

EventsKept ==
    /\ now <= now'
    /\ \A e \in Events : /\ event'[e].at = event[e].at
                         /\ event[e].phase # "none" => event'[e].phase # "none"
    /\ \A e \in Events, r \in Runs : HasRead(e, r)' => HasRead(e, r) \/ TooShort(e, r)'
    /\ \A r \in Runs : WaitKept(r)

LEMMA EventsAreKept ==
    ASSUME TypeOK, TypeOK', EventsFit, EventsKept
    PROVE  EventsFit'
  <1>1. /\ now \in Nat /\ now' \in Nat
        /\ \A e \in Events : event[e].at \in Nat /\ event'[e].at \in Nat
        /\ \A r \in Runs : run[r].at \in Nat /\ run'[r].at \in Nat
        /\ \A r \in Runs : run[r].until \in Nat /\ run'[r].until \in Nat
    BY SMTT(30) DEF TypeOK, Time, EventRow, RunRow
  <1>2. /\ now <= now'
        /\ \A e \in Events : /\ event'[e].at = event[e].at
                             /\ event[e].phase # "none" => event'[e].phase # "none"
                             /\ event[e].at <= now
    BY DEF EventsKept, EventsFit
  <1>3. \A e \in Events : event'[e].at <= now'
    BY <1>1, <1>2
  <1>4. ASSUME NEW r \in Runs, NEW e \in Events, run'[r].last = e
        PROVE  /\ event'[e].phase # "none"
               /\ run'[r].key # NoKey => event'[e].at <= run'[r].at
    <2>1. WaitKept(r)
      BY DEF EventsKept
    <2>2. event[e].phase # "none"
      BY <1>4, <2>1 DEF WaitKept, EventsFit
    <2>3. ASSUME run'[r].key # NoKey
          PROVE  event[e].at <= run'[r].at
      <3>1. run[r].last = e
        BY <1>4, <2>1, <2>3 DEF WaitKept
      <3>2. CASE run'[r].at = now
        BY <1>2, <3>2
      <3>3. CASE run'[r].key = run[r].key /\ run'[r].at = run[r].at
        BY <2>3, <3>1, <3>3 DEF EventsFit
      <3> QED
        BY <2>1, <2>3, <3>2, <3>3 DEF WaitKept
    <2> QED
      BY <1>2, <2>2, <2>3
  <1>5. ASSUME NEW e \in Events, NEW r \in Runs, HasRead(e, r)'
        PROVE  TooShort(e, r)'
    <2>1. HasRead(e, r) \/ TooShort(e, r)'
      BY <1>5 DEF EventsKept
    <2>2. SUFFICES ASSUME HasRead(e, r), run'[r].key # NoKey, run'[r].at < event'[e].at
                   PROVE  run'[r].until < event'[e].at
      BY <2>1 DEF TooShort
    <2>3. WaitKept(r) /\ TooShort(e, r)
      BY <2>2 DEF EventsKept, EventsFit
    <2>4. run'[r].at # now
      BY <1>1, <1>2, <2>2
    <2>5. run'[r].key = run[r].key /\ run'[r].at = run[r].at /\ run'[r].until = run[r].until
      BY <2>2, <2>3, <2>4 DEF WaitKept
    <2> QED
      BY <1>2, <2>2, <2>3, <2>5 DEF TooShort
  <1> QED
    BY <1>3, <1>4, <1>5 DEF EventsFit

\* The dispatches are where they were.
LEMMA EventsStay ==
    ASSUME TypeOK, TypeOK', EventsFit, event' = event, now <= now',
           \A r \in Runs : WaitKept(r) /\ (born'[r] = born[r] \/ run'[r].key = NoKey)
    PROVE  EventsFit'
  <1>1. \A e \in Events, r \in Runs : HasRead(e, r)' => HasRead(e, r) \/ TooShort(e, r)'
    BY DEF HasRead, TooShort
  <1>2. EventsKept
    BY <1>1 DEF EventsKept
  <1> QED
    BY <1>2, EventsAreKept

\* A step of one run, the others being left alone.
LEMMA OneRunMoves ==
    ASSUME AutomationsInv, TypeOK', NEW r \in Runs, OnlyRun(r),
           RunFits(r)', EndedKept(r), WaitKept(r), born'[r] = born[r],
           event' = event, now' = now
    PROVE  AutomationsInv' /\ \A q \in Runs : EndedKept(q)
  <1>0. TypeOK /\ EventsFit /\ \A q \in Runs : RunFits(q)
    BY DEF AutomationsInv
  <1>1. \A q \in Runs : RunFits(q)'
    <2> SUFFICES ASSUME NEW q \in Runs, q # r
                 PROVE  RunFits(q)'
      OBVIOUS
    <2>1. RunFits(q) /\ Left(q)
      BY <1>0 DEF OnlyRun
    <2> QED
      BY <2>1 DEF RunFits, Left, UnbornIsNothing, WaitIsOpen, StepsFit, Running, PastOrAt
  <1>2. \A q \in Runs : EndedKept(q)
    <2> SUFFICES ASSUME NEW q \in Runs, q # r
                 PROVE  EndedKept(q)
      OBVIOUS
    <2>1. RunFits(q) /\ Left(q)
      BY <1>0 DEF OnlyRun
    <2> QED
      BY <2>1 DEF RunFits, Left, WaitIsOpen, StepsFit, Running, EndedKept, Ended
  <1>3. EventsFit'
    <2>1. \A q \in Runs : WaitKept(q) /\ born'[q] = born[q]
      BY DEF OnlyRun, Left, WaitKept
    <2>2. now <= now'
      BY <1>0 DEF TypeOK, Time
    <2> QED
      BY <1>0, <2>1, <2>2, EventsStay
  <1> QED
    BY <1>1, <1>2, <1>3 DEF AutomationsInv

(***************************************************************************)
(* The workflow moves.                                                     *)
(***************************************************************************)
LEMMA FlowMoves ==
    ASSUME TypeOK, NEW r \in Runs, NEW g \in Flow, flow' = [flow EXCEPT ![r] = g]
    PROVE  flow' \in [Runs -> Flow] /\ flow'[r] = g /\ \A q \in Runs \ {r} : flow'[q] = flow[q]
  BY DEF TypeOK

LEMMA StageMoves ==
    ASSUME NEW f \in Flow,
           NEW stage \in {"none", "perform", "sleep", "await", "finish", "over", "clean"}
    PROVE  LET g == [f EXCEPT !.stage = stage]
           IN  g \in Flow /\ g.stage = stage /\ g.at = f.at /\ g.result = f.result
  BY DEF Flow

LEMMA OverIsOver ==
    ASSUME NEW f \in Flow, NEW result \in {"success", "failed", "canceled"}
    PROVE  Over(f, result) \in Flow /\ Over(f, result).stage = "over"
  BY DEF Over, Flow

LEMMA AtMoves ==
    ASSUME NEW f \in Flow, NEW k \in Keys \cup {NoKey}
    PROVE  /\ At(f, k) \in Flow
           /\ At(f, k).stage = "over" \/ (At(f, k).stage = "perform" /\ At(f, k).at \in Keys)
  <1>1. CASE k = NoKey
    <2>1. At(f, k) = Over(f, "success")
      BY <1>1 DEF At
    <2> QED
      BY <2>1, OverIsOver
  <1>2. CASE k # NoKey
    <2>1. At(f, k) = [f EXCEPT !.stage = "perform", !.at = k]
      BY <1>2 DEF At
    <2> QED
      BY <1>2, <2>1 DEF Flow
  <1> QED
    BY <1>1, <1>2

LEMMA PerformedMoves ==
    ASSUME NEW f \in Flow, NEW k \in Keys, f.at = k, NEW met \in BOOLEAN
    PROVE  LET g == Performed(f, k, met) IN
           /\ g \in Flow
           /\ \/ g.stage = "sleep" /\ g.at = k /\ Kind[k] = "delay"
              \/ g.stage = "await" /\ g.at = k /\ Kind[k] = "wait"
              \/ g.stage = "over" /\ Kind[k] \notin {"delay", "wait"}
              \/ g.stage = "perform" /\ g.at \in Keys /\ Kind[k] \notin {"delay", "wait"}
  <1> DEFINE g == Performed(f, k, met)
  <1>1. CASE Kind[k] = "delay"
    <2>1. g = [f EXCEPT !.stage = "sleep", !.received = FALSE]
      BY <1>1 DEF Performed
    <2> HIDE DEF g
    <2>2. g \in Flow /\ g.stage = "sleep" /\ g.at = k
      BY <2>1 DEF Flow
    <2> QED
      BY <1>1, <2>2 DEF g
  <1>2. CASE Kind[k] = "wait"
    <2>1. g = [f EXCEPT !.stage = "await"]
      BY <1>2 DEF Performed
    <2> HIDE DEF g
    <2>2. g \in Flow /\ g.stage = "await" /\ g.at = k
      BY <2>1, StageMoves
    <2> QED
      BY <1>2, <2>2 DEF g
  <1>3. CASE Kind[k] \notin {"delay", "wait"}
    <2>1. g = At(f, IF met THEN Then[k] ELSE Otherwise[k])
      BY <1>3 DEF Performed
    <2> HIDE DEF g
    <2>2. (IF met THEN Then[k] ELSE Otherwise[k]) \in Keys \cup {NoKey}
      BY AutomationsAssumption
    <2>3. g \in Flow /\ (g.stage = "over" \/ (g.stage = "perform" /\ g.at \in Keys))
      BY <2>1, <2>2, AtMoves
    <2> QED
      BY <1>3, <2>3 DEF g
  <1> QED
    BY <1>1, <1>2, <1>3

\* A workflow that agrees with the row and the steps of r.
GoodFlow(r, g) ==
    /\ g \in Flow
    /\ g.stage \in Walking => g.at \in Keys
    /\ run[r].key # NoKey => PastOrAt(g, run[r].key, {"perform", "await"})
    /\ \A k \in Keys : record[r][k].status = "running" => PastOrAt(g, k, Walking)

LEMMA FlowIsGood ==
    ASSUME AutomationsInv, NEW r \in Runs
    PROVE  GoodFlow(r, flow[r])
  <1>1. flow[r] \in Flow /\ RunFits(r)
    BY DEF AutomationsInv, TypeOK
  <1> QED
    BY <1>1 DEF RunFits, GoodFlow, WaitIsOpen, StepsFit

LEMMA OverIsGood ==
    ASSUME NEW r, NEW g \in Flow, g.stage \in {"over", "clean"}
    PROVE  GoodFlow(r, g)
  BY DEF GoodFlow, PastOrAt, Walking

\* The answer of a step is journaled, lost, or comes to a workflow that was canceled.
Journaled(r, f) ==
    /\ flow' \in [Runs -> Flow] /\ \A q \in Runs \ {r} : flow'[q] = flow[q]
    /\ moves' \in 0..MaxMoves
    /\ flow'[r] = f \/ flow'[r] = flow[r] \/ flow'[r].stage = "over"

LEMMA JournalMoves ==
    ASSUME TypeOK, NEW r \in Runs, NEW f \in Flow, Journal(r, f)
    PROVE  Journaled(r, f)
  <1>1. flow[r] \in Flow /\ moves \in 0..MaxMoves /\ MaxMoves \in Nat
    BY AutomationsAssumption DEF TypeOK
  <1>2. CASE flow[r].result = "canceled"
    <2> DEFINE g == [flow[r] EXCEPT !.stage = "over"]
    <2>1. flow' = [flow EXCEPT ![r] = g] /\ moves' = moves
      BY <1>2 DEF Journal
    <2>2. g \in Flow /\ g.stage = "over"
      BY <1>1, StageMoves
    <2> HIDE DEF g
    <2> QED
      BY <1>1, <2>1, <2>2, FlowMoves DEF Journaled
  <1>3. CASE flow' = [flow EXCEPT ![r] = f] /\ moves' = moves
    BY <1>1, <1>3, FlowMoves DEF Journaled
  <1>4. CASE Move /\ flow' = flow
    BY <1>1, <1>4 DEF Journaled, Move, TypeOK
  <1> QED
    BY <1>2, <1>3, <1>4 DEF Journal

\* Only the workflow of r moves.
LEMMA WalkFits ==
    ASSUME AutomationsInv, NEW r \in Runs,
           flow' \in [Runs -> Flow], \A q \in Runs \ {r} : flow'[q] = flow[q],
           moves' \in 0..MaxMoves,
           UNCHANGED <<now, automation, contact, retired, event, run, creation, record, timeouts,
                       mail, effects>>,
           NEW g, GoodFlow(r, g), flow'[r] = g
    PROVE  AutomationsInv' /\ \A q \in Runs : EndedKept(q)
  <1>0. TypeOK /\ RunFits(r)
    BY DEF AutomationsInv
  <1>1. UNCHANGED <<born, births>>
    BY DEF creation
  <1>2. TypeOK'
    BY <1>0, <1>1 DEF TypeOK
  <1>3. OnlyRun(r) /\ WaitKept(r)
    BY <1>1 DEF OnlyRun, Left, WaitKept
  <1>4. RunFits(r)'
    BY <1>0, <1>1 DEF RunFits, GoodFlow, UnbornIsNothing, WaitIsOpen, StepsFit, Running
  <1>5. EndedKept(r)
    BY <1>0 DEF RunFits, WaitIsOpen, StepsFit, Running, EndedKept, Ended
  <1> QED
    BY <1>1, <1>2, <1>3, <1>4, <1>5, OneRunMoves

LEMMA WalkJournaled ==
    ASSUME AutomationsInv, NEW r \in Runs, NEW f, GoodFlow(r, f), Journal(r, f),
           UNCHANGED <<now, automation, contact, retired, event, run, creation, record, timeouts,
                       mail, effects>>
    PROVE  AutomationsInv' /\ \A q \in Runs : EndedKept(q)
  <1>1. f \in Flow /\ TypeOK
    BY DEF GoodFlow, AutomationsInv
  <1>2. Journaled(r, f)
    BY <1>1, JournalMoves
  <1>3. GoodFlow(r, flow'[r])
    <2>1. flow'[r] \in Flow
      BY <1>2 DEF Journaled
    <2> QED
      BY <1>2, <2>1, FlowIsGood, OverIsGood DEF Journaled
  <1> QED
    BY <1>2, <1>3, WalkFits DEF Journaled

LEMMA PerformFencedFits ==
    ASSUME AutomationsInv, NEW r \in Runs, PerformFenced(r)
    PROVE  AutomationsInv' /\ \A q \in Runs : EndedKept(q)
  <1>1. flow[r] \in Flow
    BY DEF AutomationsInv, TypeOK
  <1>2. GoodFlow(r, Over(flow[r], "success"))
    BY <1>1, OverIsOver, OverIsGood
  <1> QED
    BY <1>2, WalkJournaled DEF PerformFenced

LEMMA PerformRepeatedFits ==
    ASSUME AutomationsInv, NEW r \in Runs, PerformRepeated(r)
    PROVE  AutomationsInv' /\ \A q \in Runs : EndedKept(q)
  <1> DEFINE k == flow[r].at
             f == Performed(flow[r], k, record[r][k].met)
  <1>1. /\ TypeOK /\ RunFits(r) /\ flow[r] \in Flow /\ flow[r].stage = "perform"
        /\ Running(r) /\ k \in Keys /\ record[r][k].met \in BOOLEAN
    BY DEF AutomationsInv, TypeOK, PerformRepeated, Performing, Fenced, Active, RunFits, Walking
  <1>2. /\ f \in Flow
        /\ \/ f.stage = "sleep" /\ f.at = k /\ Kind[k] = "delay"
           \/ f.stage = "await" /\ f.at = k /\ Kind[k] = "wait"
           \/ f.stage = "over" /\ Kind[k] \notin {"delay", "wait"}
           \/ f.stage = "perform" /\ f.at \in Keys /\ Kind[k] \notin {"delay", "wait"}
    BY <1>1, PerformedMoves
  <1> HIDE DEF f
  <1>3. /\ run[r].key # NoKey => run[r].key = k /\ Kind[k] = "wait"
        /\ \A j \in Keys : record[r][j].status = "running" => j = k /\ Kind[k] \in {"delay", "wait"}
    BY <1>1 DEF RunFits, WaitIsOpen, StepsFit, PastOrAt
  <1>4. GoodFlow(r, f)
    BY <1>1, <1>2, <1>3 DEF GoodFlow, PastOrAt, Walking
  <1>5. GoodFlow(r, Over(flow[r], "success"))
    BY <1>1, OverIsOver, OverIsGood
  <1>6. UNCHANGED <<now, automation, contact, retired, event, run, creation, record, timeouts,
                    mail, effects>>
    BY DEF PerformRepeated
  <1>7. Journal(r, Over(flow[r], "success")) \/ Journal(r, f)
    BY DEF PerformRepeated, f
  <1> QED
    BY <1>4, <1>5, <1>6, <1>7, WalkJournaled

LEMMA WakeFits ==
    ASSUME AutomationsInv, NEW r \in Runs, Wake(r)
    PROVE  AutomationsInv' /\ \A q \in Runs : EndedKept(q)
  <1> DEFINE g == [flow[r] EXCEPT !.stage = "finish"]
  <1>1. TypeOK /\ RunFits(r) /\ flow[r] \in Flow /\ flow[r].stage = "sleep"
    BY DEF AutomationsInv, TypeOK, Wake
  <1>2. g \in Flow /\ g.stage = "finish" /\ g.at = flow[r].at
    BY <1>1, StageMoves
  <1>3. flow' = [flow EXCEPT ![r] = g]
    BY DEF Wake
  <1> HIDE DEF g
  <1>4. GoodFlow(r, g)
    BY <1>1, <1>2 DEF GoodFlow, PastOrAt, Walking, RunFits, WaitIsOpen, StepsFit
  <1>5. moves' \in 0..MaxMoves
    BY <1>1 DEF Wake, TypeOK
  <1>6. flow' \in [Runs -> Flow] /\ flow'[r] = g /\ \A q \in Runs \ {r} : flow'[q] = flow[q]
    BY <1>1, <1>2, <1>3, FlowMoves
  <1> QED
    BY <1>4, <1>5, <1>6, WalkFits DEF Wake

LEMMA DeliverFits ==
    ASSUME AutomationsInv, NEW r \in Runs, Deliver(r)
    PROVE  AutomationsInv' /\ \A q \in Runs : EndedKept(q)
  <1> DEFINE k == flow[r].at
  <1>1. /\ TypeOK /\ RunFits(r) /\ flow[r] \in Flow /\ flow[r].stage = "await"
        /\ mail[r][k] # <<>>
    BY DEF AutomationsInv, TypeOK, Deliver
  <1>2. PICK came \in BOOLEAN : came = (Head(mail[r][k]) # NoEvent)
    OBVIOUS
  <1> DEFINE g == [flow[r] EXCEPT !.stage = "finish", !.received = came]
  <1>3. g \in Flow /\ g.stage = "finish" /\ g.at = k
    BY <1>1 DEF Flow
  <1>4. flow' = [flow EXCEPT ![r] = g]
    <2>1. flow' = [flow EXCEPT ![r].stage = "finish", ![r].received = came]
      BY <1>2 DEF Deliver
    <2> QED
      BY <2>1
  <1> HIDE DEF g
  <1>5. run[r].key = NoKey
    BY <1>1 DEF RunFits, WaitIsOpen, PastOrAt
  <1>6. GoodFlow(r, g)
    BY <1>1, <1>3, <1>5 DEF GoodFlow, PastOrAt, Walking, RunFits, StepsFit
  <1>7. moves' \in 0..MaxMoves
    BY <1>1 DEF Deliver, TypeOK
  <1>8. flow' \in [Runs -> Flow] /\ flow'[r] = g /\ \A q \in Runs \ {r} : flow'[q] = flow[q]
    BY <1>1, <1>3, <1>4, FlowMoves
  <1> QED
    BY <1>6, <1>7, <1>8, WalkFits DEF Deliver

LEMMA LettingGoFits ==
    ASSUME AutomationsInv, NEW r \in Runs, Abandon(r) \/ LetGo(r)
    PROVE  AutomationsInv' /\ \A q \in Runs : EndedKept(q)
  <1>1. TypeOK /\ flow[r] \in Flow
    BY DEF AutomationsInv, TypeOK
  <1>2. PICK g \in Flow : g.stage = "over" /\ flow' = [flow EXCEPT ![r] = g]
    <2>1. CASE Abandon(r)
      BY <1>1, <2>1, OverIsOver DEF Abandon
    <2>2. CASE LetGo(r)
      BY <1>1, <2>2, StageMoves DEF LetGo
    <2> QED
      BY <2>1, <2>2
  <1>3. GoodFlow(r, g)
    BY <1>2, OverIsGood
  <1>4. moves' \in 0..MaxMoves
    BY SMTT(30), <1>1, AutomationsAssumption DEF Abandon, LetGo, Move, TypeOK
  <1>5. flow' \in [Runs -> Flow] /\ flow'[r] = g /\ \A q \in Runs \ {r} : flow'[q] = flow[q]
    BY <1>1, <1>2, FlowMoves
  <1>6. UNCHANGED <<now, automation, contact, retired, event, run, creation, record, timeouts,
                    mail, effects>>
    BY DEF Abandon, LetGo
  <1> QED
    BY <1>3, <1>4, <1>5, <1>6, WalkFits

(***************************************************************************)
(* A step is performed.                                                    *)
(***************************************************************************)
Step == [status : StepStatus, met : BOOLEAN]

StepMoves(r, k, y) ==
    /\ record' \in [Runs -> [Keys -> Step]]
    /\ record'[r][k] = y
    /\ \A j \in Keys \ {k} : record'[r][j] = record[r][j]
    /\ \A q \in Runs \ {r} : record'[q] = record[q]

LEMMA RecordMoves ==
    ASSUME TypeOK, NEW r \in Runs, NEW k \in Keys, NEW y \in Step,
           record' = [record EXCEPT ![r][k] = y]
    PROVE  StepMoves(r, k, y)
  <1>1. record \in [Runs -> [Keys -> Step]]
    BY DEF TypeOK, Step
  <1> DEFINE c == [record[r] EXCEPT ![k] = y]
  <1>2. record' = [record EXCEPT ![r] = c]
    OBVIOUS
  <1>3. c \in [Keys -> Step] /\ c[k] = y /\ \A j \in Keys \ {k} : c[j] = record[r][j]
    BY <1>1
  <1> HIDE DEF c
  <1> QED
    BY <1>1, <1>2, <1>3 DEF StepMoves

LEMMA StatusMoves ==
    ASSUME TypeOK, NEW r \in Runs, NEW k \in Keys, NEW status \in StepStatus,
           record' = [record EXCEPT ![r][k].status = status]
    PROVE  \E y \in Step : y.status = status /\ StepMoves(r, k, y)
  <1> DEFINE y == [record[r][k] EXCEPT !.status = status]
  <1>1. record[r][k] \in Step
    BY DEF TypeOK, Step
  <1>2. y \in Step /\ y.status = status
    BY <1>1 DEF Step
  <1>3. record' = [record EXCEPT ![r][k] = y]
    OBVIOUS
  <1> HIDE DEF y
  <1>4. StepMoves(r, k, y)
    BY <1>2, <1>3, RecordMoves
  <1> QED
    BY <1>2, <1>4

\* A run that reaches a step waits for nothing, and no step of it is open.
LEMMA ReachesFirst ==
    ASSUME AutomationsInv, NEW r \in Runs, NEW k, Reaches(r, k)
    PROVE  /\ TypeOK /\ RunFits(r) /\ flow[r] \in Flow /\ run[r] \in RunRow
           /\ k \in Keys /\ flow[r].stage = "perform" /\ flow[r].at = k
           /\ run[r].status = "running" /\ run[r].key = NoKey /\ born[r] >= 1
           /\ ~automation[r[1]].deleted /\ ~retired
           /\ effects[r][k] = 0 /\ mail[r][k] = <<>>
           /\ \A j \in Keys : record[r][j].status # "running"
  <1>1. TypeOK /\ RunFits(r) /\ flow[r] \in Flow /\ run[r] \in RunRow
    BY DEF AutomationsInv, TypeOK
  <1>2. /\ flow[r].stage = "perform" /\ flow[r].at = k /\ Running(r)
        /\ ~automation[r[1]].deleted /\ ~retired /\ record[r][k].status = "none"
    BY DEF Reaches, Performing, Fenced, Active, Reached
  <1>3. k \in Keys /\ born[r] >= 1
    BY <1>1, <1>2 DEF RunFits, Walking
  <1>4. run[r].key = NoKey
    BY <1>1, <1>2 DEF RunFits, WaitIsOpen, PastOrAt
  <1>5. /\ effects[r][k] = 0 /\ mail[r][k] = <<>>
        /\ \A j \in Keys : record[r][j].status # "running"
    BY <1>1, <1>2, <1>3 DEF RunFits, StepsFit, PastOrAt
  <1> QED
    BY <1>1, <1>2, <1>3, <1>4, <1>5 DEF Running

LEMMA DeadlineIsTime ==
    ASSUME TypeOK
    PROVE  Deadline \in Time
  BY AutomationsAssumption DEF Deadline, Least, Time, TypeOK

LEMMA PerformWaitFits ==
    ASSUME AutomationsInv, NEW r \in Runs, PerformWait(r)
    PROVE  AutomationsInv' /\ (\A q \in Runs : EndedKept(q)) /\ effects' = effects
  <1>1. PICK k \in {flow[r].at} :
           /\ Reaches(r, k)
           /\ Kind[k] = "wait"
           /\ record' = [record EXCEPT ![r][k].status = "running"]
           /\ run' = [run EXCEPT ![r].key = k, ![r].at = now, ![r].until = Deadline]
           /\ timeouts' = Jobs(r, k)
           /\ Journal(r, Performed(flow[r], k, TRUE))
           /\ UNCHANGED <<now, automation, contact, retired, event, creation, mail, effects>>
    BY DEF PerformWait
  <1>2. /\ TypeOK /\ RunFits(r) /\ flow[r] \in Flow /\ run[r] \in RunRow
        /\ k \in Keys /\ flow[r].stage = "perform" /\ flow[r].at = k
        /\ run[r].status = "running" /\ run[r].key = NoKey /\ born[r] >= 1
        /\ mail[r][k] = <<>> /\ \A j \in Keys : record[r][j].status # "running"
    BY <1>1, ReachesFirst
  <1> DEFINE f == Performed(flow[r], k, TRUE)
             x == [run[r] EXCEPT !.key = k, !.at = now, !.until = Deadline]
  <1>3. f \in Flow /\ f.stage = "await" /\ f.at = k
    BY <1>1, <1>2, PerformedMoves
  <1> HIDE DEF f
  <1>4. Journaled(r, f)
    BY <1>1, <1>2, <1>3, JournalMoves DEF f
  <1>5. PICK y \in Step : y.status = "running" /\ StepMoves(r, k, y)
    <2>1. "running" \in StepStatus
      BY DEF StepStatus
    <2> QED
      BY <1>1, <1>2, <2>1, StatusMoves
  <1>6. /\ x \in RunRow /\ x.status = "running" /\ x.key = k /\ x.at = now
        /\ x.last = run[r].last
    <2>1. now \in Time /\ Deadline \in Time
      BY <1>2, DeadlineIsTime DEF TypeOK
    <2> QED
      BY <1>2, <2>1 DEF RunRow
  <1>7. run' = [run EXCEPT ![r] = x]
    BY <1>1
  <1> HIDE DEF x
  <1>8. run' \in [Runs -> RunRow] /\ run'[r] = x /\ \A q \in Runs \ {r} : run'[q] = run[q]
    BY <1>2, <1>6, <1>7 DEF TypeOK
  <1>9. UNCHANGED <<now, automation, contact, retired, event, born, births, mail, effects>>
    BY <1>1 DEF creation
  <1>10. timeouts' \subseteq [run : Runs, key : Keys, at : Time]
    <2>1. [run |-> r, key |-> k, at |-> Deadline] \in [run : Runs, key : Keys, at : Time]
      BY <1>2, DeadlineIsTime
    <2> QED
      BY <1>1, <1>2, <2>1 DEF Jobs, TypeOK
  <1>11. TypeOK'
    BY <1>2, <1>4, <1>5, <1>8, <1>9, <1>10 DEF TypeOK, Journaled, StepMoves, Step
  <1>12. OnlyRun(r) /\ WaitKept(r) /\ EndedKept(r)
    BY <1>2, <1>4, <1>5, <1>6, <1>8, <1>9
    DEF OnlyRun, Left, WaitKept, EndedKept, Ended, Journaled, StepMoves
  <1>13. RunFits(r)'
    <2>1. PastOrAt(flow[r], k, {"perform", "await"})' /\ PastOrAt(flow[r], k, Walking)'
          /\ (flow[r].stage \in Walking => flow[r].at \in Keys)'
      BY <1>2, <1>3, <1>4 DEF Journaled, PastOrAt, Walking
    <2>2. WaitIsOpen(r)'
      BY <1>1, <1>2, <1>5, <1>6, <1>8, <1>9, <2>1 DEF WaitIsOpen, Running, StepMoves
    <2>3. StepsFit(r)'
      BY <1>1, <1>2, <1>5, <1>6, <1>8, <1>9, <2>1 DEF RunFits, StepsFit, Running, StepMoves
    <2>4. UnbornIsNothing(r)' /\ (Running(r) => born[r] >= 1)'
      BY <1>2, <1>6, <1>8, <1>9 DEF UnbornIsNothing
    <2> QED
      BY <2>1, <2>2, <2>3, <2>4 DEF RunFits
  <1> QED
    BY <1>9, <1>11, <1>12, <1>13, OneRunMoves

\* What is written of a step that is not a wait, by a run that goes on.
LEMMA StepFits ==
    ASSUME AutomationsInv, TypeOK', NEW r \in Runs, NEW k, Reaches(r, k),
           NEW y \in Step, StepMoves(r, k, y),
           y.status # "none",
           y.status = "running" => Kind[k] = "delay",
           NEW f, Journaled(r, f),
           f.stage = "over" \/ (f.stage \in Walking /\ f.at \in Keys),
           y.status = "running" => f.stage = "sleep" /\ f.at = k,
           UNCHANGED <<now, event, run, creation, mail>>,
           \A q \in Runs \ {r} : effects'[q] = effects[q],
           \A j \in Keys \ {k} : effects'[r][j] = effects[r][j]
    PROVE  AutomationsInv' /\ \A q \in Runs : EndedKept(q)
  <1>1. /\ TypeOK /\ RunFits(r) /\ flow[r] \in Flow /\ run[r] \in RunRow
        /\ k \in Keys /\ flow[r].stage = "perform" /\ flow[r].at = k
        /\ run[r].status = "running" /\ run[r].key = NoKey /\ born[r] >= 1
        /\ \A j \in Keys : record[r][j].status # "running"
    BY ReachesFirst
  <1>2. UNCHANGED <<now, event, run, born, births, mail>>
    BY DEF creation
  <1>3. OnlyRun(r) /\ WaitKept(r) /\ EndedKept(r)
    BY <1>1, <1>2 DEF OnlyRun, Left, WaitKept, EndedKept, Ended, Journaled, StepMoves
  <1>4. RunFits(r)'
    <2>1. (flow[r].stage \in Walking => flow[r].at \in Keys)'
      BY <1>1 DEF Journaled, Walking
    <2>2. WaitIsOpen(r)' /\ UnbornIsNothing(r)' /\ (Running(r) => born[r] >= 1)'
      BY <1>1, <1>2 DEF WaitIsOpen, UnbornIsNothing
    <2>3. y.status = "running" => PastOrAt(flow[r], k, Walking)'
      BY <1>1 DEF Journaled, PastOrAt, Walking
    <2>4. StepsFit(r)'
      BY <1>1, <1>2, <2>3 DEF RunFits, StepsFit, Running, StepMoves
    <2> QED
      BY <2>1, <2>2, <2>4 DEF RunFits
  <1> QED
    BY <1>2, <1>3, <1>4, OneRunMoves

LEMMA PerformDelayFits ==
    ASSUME AutomationsInv, NEW r \in Runs, PerformDelay(r)
    PROVE  AutomationsInv' /\ (\A q \in Runs : EndedKept(q)) /\ effects' = effects
  <1>1. PICK k \in {flow[r].at} :
           /\ Reaches(r, k)
           /\ Kind[k] = "delay"
           /\ record' = [record EXCEPT ![r][k].status = "running"]
           /\ Journal(r, Performed(flow[r], k, TRUE))
           /\ UNCHANGED <<now, automation, contact, retired, event, run, creation, timeouts,
                          mail, effects>>
    BY DEF PerformDelay
  <1>2. TypeOK /\ flow[r] \in Flow /\ k \in Keys /\ flow[r].at = k
    BY <1>1, ReachesFirst
  <1> DEFINE f == Performed(flow[r], k, TRUE)
  <1>3. f \in Flow /\ f.stage = "sleep" /\ f.at = k
    BY <1>1, <1>2, PerformedMoves
  <1> HIDE DEF f
  <1>4. Journaled(r, f)
    BY <1>1, <1>2, <1>3, JournalMoves DEF f
  <1>5. PICK y \in Step : y.status = "running" /\ StepMoves(r, k, y)
    <2>1. "running" \in StepStatus
      BY DEF StepStatus
    <2> QED
      BY <1>1, <1>2, <2>1, StatusMoves
  <1>6. TypeOK'
    BY <1>1, <1>2, <1>4, <1>5 DEF TypeOK, Journaled, StepMoves, Step, creation
  <1>7. f.stage \in Walking /\ f.at \in Keys
    BY <1>2, <1>3 DEF Walking
  <1> QED
    BY <1>1, <1>3, <1>4, <1>5, <1>6, <1>7, StepFits

LEMMA PerformEffectFits ==
    ASSUME AutomationsInv, NEW r \in Runs, PerformEffect(r)
    PROVE  AutomationsInv' /\ (\A q \in Runs : EndedKept(q)) /\ EffectsKept
  <1>1. PICK k \in Keys, met \in BOOLEAN, status \in {"completed", "skipped"} :
           /\ Reaches(r, k)
           /\ Kind[k] \in {"condition", "act"}
           /\ record' = [record EXCEPT ![r][k] = [status |-> status, met |-> met]]
           /\ contact' \in {contact} \cup IF Kind[k] = "act" /\ status = "completed"
                                       THEN {FALSE} ELSE {}
           /\ effects' = IF status = "completed" THEN [effects EXCEPT ![r][k] = @ + 1] ELSE effects
           /\ Journal(r, Performed(flow[r], k, met))
           /\ UNCHANGED <<now, automation, retired, event, run, creation, timeouts, mail>>
    BY ZenonT(30) DEF PerformEffect
  <1>2. /\ TypeOK /\ flow[r] \in Flow /\ flow[r].at = k
        /\ run[r].status = "running" /\ ~automation[r[1]].deleted /\ ~retired
        /\ effects[r][k] = 0
    BY <1>1, ReachesFirst
  <1> DEFINE f == Performed(flow[r], k, met)
             y == [status |-> status, met |-> met]
  <1>3. /\ f \in Flow
        /\ f.stage = "over" \/ (f.stage = "perform" /\ f.at \in Keys)
    BY <1>1, <1>2, PerformedMoves
  <1> HIDE DEF f
  <1>4. Journaled(r, f)
    BY <1>1, <1>2, <1>3, JournalMoves DEF f
  <1>5. y \in Step /\ y.status = status
    BY <1>1 DEF Step, StepStatus, Ended
  <1>6. record' = [record EXCEPT ![r][k] = y]
    BY <1>1
  <1> HIDE DEF y
  <1>7. StepMoves(r, k, y)
    BY <1>2, <1>5, <1>6, RecordMoves
  <1>8. /\ effects' \in [Runs -> [Keys -> Nat]]
        /\ \A q \in Runs \ {r} : effects'[q] = effects[q]
        /\ \A j \in Keys \ {k} : effects'[r][j] = effects[r][j]
    <2>1. effects \in [Runs -> [Keys -> Nat]]
      BY <1>2 DEF TypeOK
    <2>2. effects' = effects \/ effects' = [effects EXCEPT ![r] = [effects[r] EXCEPT ![k] = 1]]
      BY <1>1, <1>2
    <2> QED
      BY <2>1, <2>2
  <1>9. contact' \in BOOLEAN
    BY <1>1, <1>2 DEF TypeOK
  <1>10. TypeOK'
    BY <1>1, <1>2, <1>4, <1>7, <1>8, <1>9 DEF TypeOK, Journaled, StepMoves, Step, creation
  <1>11. EffectsKept
    BY <1>2, <1>8 DEF EffectsKept, Running
  <1>12. f.stage = "over" \/ (f.stage \in Walking /\ f.at \in Keys)
    BY <1>3 DEF Walking
  <1>13. y.status # "none" /\ y.status # "running"
    BY <1>5
  <1> QED
    BY <1>1, <1>4, <1>5, <1>7, <1>8, <1>10, <1>11, <1>12, <1>13, StepFits

LEMMA PerformThrowsFits ==
    ASSUME AutomationsInv, NEW r \in Runs, PerformThrows(r)
    PROVE  AutomationsInv' /\ (\A q \in Runs : EndedKept(q)) /\ effects' = effects
  <1>1. PICK k \in {flow[r].at} :
           /\ Reaches(r, k)
           /\ record' = [record EXCEPT ![r][k].status = "failed"]
           /\ run' = [run EXCEPT ![r].status = "failed"]
           /\ Journal(r, Over(flow[r], "success"))
           /\ UNCHANGED <<now, automation, contact, retired, event, creation, timeouts, mail,
                          effects>>
    BY DEF PerformThrows
  <1>2. /\ TypeOK /\ RunFits(r) /\ flow[r] \in Flow /\ run[r] \in RunRow
        /\ k \in Keys /\ flow[r].stage = "perform" /\ flow[r].at = k
        /\ run[r].status = "running" /\ run[r].key = NoKey
        /\ \A j \in Keys : record[r][j].status # "running"
    BY <1>1, ReachesFirst
  <1> DEFINE x == [run[r] EXCEPT !.status = "failed"]
  <1>3. PICK f \in Flow : f.stage = "over" /\ f = Over(flow[r], "success")
    BY <1>2, OverIsOver
  <1>4. Journaled(r, f)
    BY <1>1, <1>2, <1>3, JournalMoves
  <1>5. PICK y \in Step : y.status = "failed" /\ StepMoves(r, k, y)
    <2>1. "failed" \in StepStatus
      BY DEF StepStatus, Ended
    <2> QED
      BY <1>1, <1>2, <2>1, StatusMoves
  <1>6. x \in RunRow /\ x.status = "failed" /\ x.key = NoKey /\ x.last = run[r].last
    BY <1>2 DEF RunRow, Ended
  <1>7. run' = [run EXCEPT ![r] = x]
    BY <1>1
  <1> HIDE DEF x
  <1>8. run' \in [Runs -> RunRow] /\ run'[r] = x /\ \A q \in Runs \ {r} : run'[q] = run[q]
    BY <1>2, <1>6, <1>7 DEF TypeOK
  <1>9. UNCHANGED <<now, automation, contact, retired, event, born, births, timeouts, mail, effects>>
    BY <1>1 DEF creation
  <1>10. TypeOK'
    BY <1>2, <1>4, <1>5, <1>8, <1>9 DEF TypeOK, Journaled, StepMoves, Step
  <1>11. OnlyRun(r) /\ WaitKept(r) /\ EndedKept(r)
    BY <1>2, <1>4, <1>5, <1>6, <1>8, <1>9
    DEF OnlyRun, Left, WaitKept, EndedKept, Ended, Journaled, StepMoves
  <1>12. RunFits(r)'
    <2>1. (flow[r].stage \in Walking => flow[r].at \in Keys)'
      BY <1>2, <1>3, <1>4 DEF Journaled, Walking
    <2>2. WaitIsOpen(r)' /\ UnbornIsNothing(r)' /\ (Running(r) => born[r] >= 1)'
      BY <1>6, <1>8 DEF WaitIsOpen, UnbornIsNothing, Running
    <2>3. StepsFit(r)'
      BY <1>2, <1>5, <1>6, <1>8, <1>9 DEF RunFits, StepsFit, Running, StepMoves
    <2> QED
      BY <2>1, <2>2, <2>3 DEF RunFits
  <1> QED
    BY <1>9, <1>10, <1>11, <1>12, OneRunMoves

\* A wait or a delay that is over is closed, once, and the walk goes on.
LEMMA FinishWaitFits ==
    ASSUME AutomationsInv, NEW r \in Runs, FinishWait(r)
    PROVE  AutomationsInv' /\ (\A q \in Runs : EndedKept(q)) /\ effects' = effects
  <1> DEFINE k == flow[r].at
  <1>1. /\ TypeOK /\ RunFits(r) /\ flow[r] \in Flow /\ flow[r].stage = "finish"
        /\ k \in Keys /\ run[r].key = NoKey
        /\ \A j \in Keys \ {k} : record[r][j].status # "running"
    BY DEF AutomationsInv, TypeOK, FinishWait, RunFits, Walking, WaitIsOpen, StepsFit, PastOrAt
  <1>2. /\ UNCHANGED <<now, automation, contact, retired, event, run, creation, timeouts, mail,
                       effects>>
        /\ UNCHANGED <<born, births>>
    BY DEF FinishWait, creation
  <1>3. CASE ~Active(r)
    <2>1. Journal(r, Over(flow[r], "success")) /\ UNCHANGED record
      BY <1>3 DEF FinishWait
    <2>2. GoodFlow(r, Over(flow[r], "success"))
      BY <1>1, OverIsOver, OverIsGood
    <2> QED
      BY <1>2, <2>1, <2>2, WalkJournaled
  <1>4. CASE Active(r)
    <2> DEFINE next == IF Kind[k] = "delay" \/ flow[r].received THEN Then[k] ELSE Otherwise[k]
               f == At(flow[r], next)
               status == IF record[r][k].status = "running" THEN "completed"
                                                            ELSE record[r][k].status
    <2>1. /\ record' = [record EXCEPT ![r][k].status = status]
          /\ Journal(r, f)
      BY <1>4 DEF FinishWait
    <2>2. next \in Keys \cup {NoKey}
      BY <1>1, AutomationsAssumption
    <2> HIDE DEF next
    <2>3. f \in Flow /\ (f.stage = "over" \/ (f.stage = "perform" /\ f.at \in Keys))
      BY <1>1, <2>2, AtMoves
    <2> HIDE DEF f
    <2>4. Journaled(r, f)
      BY <1>1, <2>1, <2>3, JournalMoves
    <2>5. status \in StepStatus /\ status # "running"
          /\ (status = "none" => record[r][k].status = "none")
      BY <1>1 DEF TypeOK, StepStatus, Ended
    <2> HIDE DEF status
    <2>6. PICK y \in Step : y.status = status /\ StepMoves(r, k, y)
      BY <1>1, <2>1, <2>5, StatusMoves
    <2>7. TypeOK'
      BY <1>1, <1>2, <2>4, <2>6 DEF TypeOK, Journaled, StepMoves, Step
    <2>8. OnlyRun(r) /\ WaitKept(r) /\ EndedKept(r)
      BY <1>1, <1>2, <1>4, <2>4, <2>6
      DEF OnlyRun, Left, WaitKept, EndedKept, Ended, Journaled, StepMoves, Active, Running
    <2>9. RunFits(r)'
      <3>1. (flow[r].stage \in Walking => flow[r].at \in Keys)'
        BY <1>1, <2>3, <2>4 DEF Journaled, Walking
      <3>2. UnbornIsNothing(r)' /\ WaitIsOpen(r)' /\ (Running(r) => born[r] >= 1)'
        BY <1>1, <1>2, <1>4 DEF UnbornIsNothing, WaitIsOpen, Active, Running, RunFits
      <3>3. StepsFit(r)'
        BY <1>1, <1>2, <2>5, <2>6 DEF RunFits, StepsFit, Running, StepMoves
      <3> QED
        BY <3>1, <3>2, <3>3 DEF RunFits
    <2> QED
      BY <1>2, <2>7, <2>8, <2>9, OneRunMoves
  <1> QED
    BY <1>3, <1>4

(***************************************************************************)
(* A run ends, or goes.                                                    *)
(***************************************************************************)
LEMMA RunEnds ==
    ASSUME AutomationsInv, TypeOK', NEW r \in Runs, OnlyRun(r),
           run'[r].key = NoKey, run'[r].status \in Ended \cup {"gone"},
           run[r].status \in Ended => run'[r].status \in {run[r].status, "gone"},
           run'[r].last \in {run[r].last, NoEvent},
           \A k \in Keys : record'[r][k].status # "running" /\ Len(mail'[r][k]) <= 1,
           flow'[r].stage \in Walking => flow'[r].at \in Keys,
           UNCHANGED <<now, event, creation, effects>>
    PROVE  AutomationsInv' /\ \A q \in Runs : EndedKept(q)
  <1>1. UNCHANGED <<now, event, born, births, effects>>
    BY DEF creation
  <1>2. RunFits(r)'
    BY DEF RunFits, UnbornIsNothing, WaitIsOpen, StepsFit, Running, Ended
  <1>3. EndedKept(r)
    BY DEF EndedKept
  <1>4. WaitKept(r)
    <2>1. NoEvent \notin Events
      BY AutomationsAssumption DEF NoEvent, Events
    <2> QED
      BY <2>1 DEF WaitKept
  <1> QED
    BY <1>1, <1>2, <1>3, <1>4, OneRunMoves

LEMMA RunMoves ==
    ASSUME TypeOK, NEW r \in Runs, NEW x \in RunRow, run' = [run EXCEPT ![r] = x]
    PROVE  run' \in [Runs -> RunRow] /\ run'[r] = x /\ \A q \in Runs \ {r} : run'[q] = run[q]
  BY DEF TypeOK

LEMMA ClosedMoves ==
    ASSUME TypeOK, NEW r \in Runs, NEW status \in Ended,
           record' = [record EXCEPT ![r] = Closed(@, status)]
    PROVE  /\ record' \in [Runs -> [Keys -> Step]]
           /\ \A k \in Keys : record'[r][k].status # "running"
           /\ \A q \in Runs \ {r} : record'[q] = record[q]
  <1> DEFINE c == Closed(record[r], status)
  <1>1. record \in [Runs -> [Keys -> Step]]
    BY DEF TypeOK, Step
  <1>2. record' = [record EXCEPT ![r] = c]
    OBVIOUS
  <1>3. ASSUME NEW k \in Keys
        PROVE  c[k] \in Step /\ c[k].status # "running"
    <2>1. record[r][k] \in Step
      BY <1>1
    <2>2. CASE record[r][k].status = "running"
      <3> DEFINE y == [record[r][k] EXCEPT !.status = status]
      <3>1. c[k] = y
        BY <2>2 DEF Closed
      <3>2. y \in Step /\ y.status = status
        BY <2>1 DEF Step, StepStatus
      <3> HIDE DEF y
      <3> QED
        BY <3>1, <3>2 DEF Ended
    <2>3. CASE record[r][k].status # "running"
      BY <2>1, <2>3 DEF Closed
    <2> QED
      BY <2>2, <2>3
  <1>4. DOMAIN c = Keys /\ c = [k \in Keys |-> c[k]]
    BY DEF Closed
  <1> HIDE DEF c
  <1>5. c \in [Keys -> Step]
    BY <1>3, <1>4
  <1> QED
    BY <1>1, <1>2, <1>3, <1>5

LEMMA IdleMoves ==
    ASSUME TypeOK, NEW x \in RunRow, NEW status \in Ended
    PROVE  LET y == [Idle(x) EXCEPT !.status = status]
           IN  y \in RunRow /\ y.status = status /\ y.key = NoKey /\ y.last = x.last
  <1>1. 0 \in Time
    BY AutomationsAssumption DEF Time
  <1> DEFINE z == [x EXCEPT !.key = NoKey, !.at = 0, !.until = 0]
             y == [z EXCEPT !.status = status]
  <1>2. z \in RunRow /\ z.key = NoKey /\ z.last = x.last
    BY <1>1 DEF RunRow
  <1>3. y = [Idle(x) EXCEPT !.status = status]
    BY DEF Idle
  <1> HIDE DEF z
  <1>4. y \in RunRow /\ y.status = status /\ y.key = NoKey /\ y.last = x.last
    BY <1>2 DEF RunRow
  <1> HIDE DEF y
  <1> QED
    BY <1>3, <1>4

LEMMA CancelRunFits ==
    ASSUME AutomationsInv, NEW r \in Runs, CancelRun(r)
    PROVE  AutomationsInv' /\ (\A q \in Runs : EndedKept(q)) /\ effects' = effects
  <1>1. /\ TypeOK /\ RunFits(r) /\ flow[r] \in Flow /\ run[r] \in RunRow
        /\ Running(r) /\ Move
        /\ UNCHANGED <<now, automation, contact, retired, event, creation, timeouts, mail, effects>>
    BY DEF AutomationsInv, TypeOK, CancelRun
  <1> DEFINE x == [Idle(run[r]) EXCEPT !.status = "cancelled"]
             g == Cancelled(flow[r])
  <1>2. "cancelled" \in Ended
    BY DEF Ended
  <1>3. x \in RunRow /\ x.status = "cancelled" /\ x.key = NoKey /\ x.last = run[r].last
    BY <1>1, <1>2, IdleMoves
  <1>4. run' = [run EXCEPT ![r] = x]
    BY DEF CancelRun, Stopped
  <1> HIDE DEF x
  <1>5. run' \in [Runs -> RunRow] /\ run'[r] = x /\ \A q \in Runs \ {r} : run'[q] = run[q]
    BY <1>1, <1>3, <1>4, RunMoves
  <1>6. /\ record' \in [Runs -> [Keys -> Step]]
        /\ \A k \in Keys : record'[r][k].status # "running"
        /\ \A q \in Runs \ {r} : record'[q] = record[q]
    BY <1>1, <1>2, ClosedMoves DEF CancelRun
  <1>7. g \in Flow /\ g.stage = flow[r].stage /\ g.at = flow[r].at
    BY <1>1 DEF Cancelled, Flow
  <1>8. flow' = [flow EXCEPT ![r] = g]
    BY DEF CancelRun
  <1> HIDE DEF g
  <1>9. flow' \in [Runs -> Flow] /\ flow'[r] = g /\ \A q \in Runs \ {r} : flow'[q] = flow[q]
    BY <1>1, <1>7, <1>8, FlowMoves
  <1>10. TypeOK'
    <2>1. moves' \in 0..MaxMoves
      BY SMTT(30), <1>1, AutomationsAssumption DEF TypeOK, Move
    <2>2. UNCHANGED <<now, automation, contact, retired, event, born, births, timeouts, mail, effects>>
      BY <1>1 DEF creation
    <2> QED
      BY <1>1, <1>5, <1>6, <1>9, <2>1, <2>2 DEF TypeOK, Step
  <1>11. OnlyRun(r)
    BY <1>1, <1>5, <1>6, <1>9 DEF OnlyRun, Left, creation
  <1>12. \A k \in Keys : record'[r][k].status # "running" /\ Len(mail'[r][k]) <= 1
    BY <1>1, <1>6 DEF RunFits, StepsFit
  <1>13. flow'[r].stage \in Walking => flow'[r].at \in Keys
    BY <1>1, <1>7, <1>9 DEF RunFits
  <1>14. /\ run'[r].key = NoKey /\ run'[r].status \in Ended \cup {"gone"}
         /\ run[r].status \in Ended => run'[r].status \in {run[r].status, "gone"}
         /\ run'[r].last \in {run[r].last, NoEvent}
    BY <1>1, <1>2, <1>3, <1>5 DEF Running, Ended
  <1> QED
    BY <1>1, <1>10, <1>11, <1>12, <1>13, <1>14, RunEnds

LEMMA CleanUpMoves ==
    ASSUME TypeOK, NEW r \in Runs, NEW f \in Flow, CleanUp(r, f)
    PROVE  /\ flow' \in [Runs -> Flow] /\ flow'[r].stage = "clean"
           /\ mail' \in [Runs -> [Keys -> Seq(Answers)]]
           /\ \A k \in Keys : mail'[r][k] = <<>>
           /\ \A q \in Runs \ {r} : flow'[q] = flow[q] /\ mail'[q] = mail[q]
  <1> DEFINE g == [NoFlow EXCEPT !.stage = "clean", !.result = f.result]
             c == [k \in Keys |-> <<>>]
  <1>1. g \in Flow /\ g.stage = "clean"
    BY DEF Flow, NoFlow
  <1>2. c \in [Keys -> Seq(Answers)] /\ \A k \in Keys : c[k] = <<>>
    OBVIOUS
  <1>3. flow' = [flow EXCEPT ![r] = g] /\ mail' = [mail EXCEPT ![r] = c]
    BY DEF CleanUp
  <1> HIDE DEF g, c
  <1> QED
    BY <1>1, <1>2, <1>3 DEF TypeOK

LEMMA CompletedFits ==
    ASSUME AutomationsInv, NEW r \in Runs, Completed(r)
    PROVE  AutomationsInv' /\ (\A q \in Runs : EndedKept(q)) /\ effects' = effects
  <1>1. /\ TypeOK /\ RunFits(r) /\ flow[r] \in Flow /\ run[r] \in RunRow
        /\ CleanUp(r, flow[r])
        /\ UNCHANGED <<now, automation, contact, retired, event, creation, timeouts, effects, moves>>
    BY DEF AutomationsInv, TypeOK, Completed
  <1>2. /\ flow' \in [Runs -> Flow] /\ flow'[r].stage = "clean"
        /\ mail' \in [Runs -> [Keys -> Seq(Answers)]]
        /\ \A k \in Keys : mail'[r][k] = <<>>
        /\ \A q \in Runs \ {r} : flow'[q] = flow[q] /\ mail'[q] = mail[q]
    BY <1>1, CleanUpMoves
  <1>3. /\ flow'[r].stage \notin Walking
        /\ \A k \in Keys : Len(mail'[r][k]) <= 1
    BY <1>2 DEF Walking
  <1>4. CASE Running(r) /\ ~retired
    <2>1. PICK status \in Ended : status = Verdict(flow[r])
      BY DEF Verdict, Ended
    <2> DEFINE x == [Idle(run[r]) EXCEPT !.status = status]
    <2>2. x \in RunRow /\ x.status = status /\ x.key = NoKey /\ x.last = run[r].last
      BY <1>1, IdleMoves
    <2>3. run' = [run EXCEPT ![r] = x]
      BY <1>4, <2>1 DEF Completed
    <2> HIDE DEF x
    <2>4. run' \in [Runs -> RunRow] /\ run'[r] = x /\ \A q \in Runs \ {r} : run'[q] = run[q]
      BY <1>1, <2>2, <2>3, RunMoves
    <2>5. /\ record' \in [Runs -> [Keys -> Step]]
          /\ \A k \in Keys : record'[r][k].status # "running"
          /\ \A q \in Runs \ {r} : record'[q] = record[q]
      <3>1. record' = [record EXCEPT ![r] = Closed(@, status)]
        BY <1>4, <2>1 DEF Completed
      <3> QED
        BY <1>1, <3>1, ClosedMoves
    <2>6. TypeOK'
      BY <1>1, <1>2, <2>4, <2>5 DEF TypeOK, Step, creation
    <2>7. OnlyRun(r)
      BY <1>1, <1>2, <2>4, <2>5 DEF OnlyRun, Left, creation
    <2>8. run[r].status \notin Ended
      BY <1>4 DEF Running, Ended
    <2> QED
      BY <1>1, <1>3, <2>2, <2>4, <2>5, <2>6, <2>7, <2>8, RunEnds
  <1>5. CASE ~(Running(r) /\ ~retired)
    <2>1. UNCHANGED <<run, record>>
      BY <1>5 DEF Completed
    <2>2. TypeOK'
      BY <1>1, <1>2, <2>1 DEF TypeOK, creation
    <2>3. OnlyRun(r) /\ WaitKept(r) /\ born'[r] = born[r]
      BY <1>1, <1>2, <2>1 DEF OnlyRun, Left, WaitKept, creation
    <2>4. EndedKept(r)
      BY <1>1, <2>1 DEF RunFits, WaitIsOpen, StepsFit, Running, Ended, EndedKept
    <2>5. RunFits(r)'
      <3>1. UnbornIsNothing(r)' /\ (Running(r) => born[r] >= 1)'
        BY <1>1, <1>2, <2>1, <2>3 DEF RunFits, UnbornIsNothing, Running
      <3>2. WaitIsOpen(r)'
        <4>1. run[r].key # NoKey => run[r].key \in Keys
          BY <1>1 DEF RunRow
        <4> QED
          BY <1>1, <1>2, <2>1, <4>1 DEF RunFits, WaitIsOpen, Running, PastOrAt
      <3>3. StepsFit(r)'
        BY <1>1, <1>2, <1>3, <2>1 DEF RunFits, StepsFit, Running, PastOrAt
      <3> QED
        BY <1>3, <3>1, <3>2, <3>3 DEF RunFits
    <2> QED
      BY <1>1, <2>2, <2>3, <2>4, <2>5, OneRunMoves
  <1> QED
    BY <1>1, <1>4, <1>5

\* The row and the steps go; the workflow goes with them, or is left to itself.
LEMMA DeleteRunFits ==
    ASSUME AutomationsInv, NEW r \in Runs, run[r].status \notin {"none", "gone"}, DeleteRun(r),
           NEW f \in Flow, CleanUp(r, f) \/ UNCHANGED <<flow, mail>>,
           UNCHANGED <<now, automation, contact, retired, event, creation, timeouts, effects, moves>>
    PROVE  AutomationsInv' /\ \A q \in Runs : EndedKept(q)
  <1>1. TypeOK /\ RunFits(r) /\ UNCHANGED <<born, births>>
    BY DEF AutomationsInv, creation
  <1> DEFINE x == [NoRun EXCEPT !.status = "gone"]
             c == [k \in Keys |-> NoStep]
  <1>2. x \in RunRow /\ x.status = "gone" /\ x.key = NoKey /\ x.last = NoEvent
    <2>1. 0 \in Time
      BY AutomationsAssumption DEF Time
    <2> QED
      BY <2>1 DEF RunRow, NoRun
  <1>3. c \in [Keys -> Step] /\ \A k \in Keys : c[k].status = "none"
    BY DEF NoStep, Step, StepStatus
  <1>4. run' = [run EXCEPT ![r] = x] /\ record' = [record EXCEPT ![r] = c]
    BY DEF DeleteRun
  <1> HIDE DEF x, c
  <1>5. run' \in [Runs -> RunRow] /\ run'[r] = x /\ \A q \in Runs \ {r} : run'[q] = run[q]
    BY <1>1, <1>2, <1>4, RunMoves
  <1>6. /\ record' \in [Runs -> [Keys -> Step]]
        /\ \A k \in Keys : record'[r][k].status # "running"
        /\ \A q \in Runs \ {r} : record'[q] = record[q]
    BY <1>1, <1>3, <1>4 DEF TypeOK, Step
  <1>7. /\ flow' \in [Runs -> Flow] /\ (flow'[r].stage \in Walking => flow'[r].at \in Keys)
        /\ mail' \in [Runs -> [Keys -> Seq(Answers)]]
        /\ \A k \in Keys : Len(mail'[r][k]) <= 1
        /\ \A q \in Runs \ {r} : flow'[q] = flow[q] /\ mail'[q] = mail[q]
    <2>1. CASE CleanUp(r, f)
      <3>1. /\ flow' \in [Runs -> Flow] /\ flow'[r].stage = "clean"
            /\ mail' \in [Runs -> [Keys -> Seq(Answers)]]
            /\ \A k \in Keys : mail'[r][k] = <<>>
            /\ \A q \in Runs \ {r} : flow'[q] = flow[q] /\ mail'[q] = mail[q]
        BY <1>1, <2>1, CleanUpMoves
      <3> QED
        BY <3>1 DEF Walking
    <2>2. CASE UNCHANGED <<flow, mail>>
      BY <1>1, <2>2 DEF TypeOK, RunFits, StepsFit
    <2> QED
      BY <2>1, <2>2
  <1>8. TypeOK'
    BY <1>1, <1>5, <1>6, <1>7 DEF TypeOK, Step
  <1>9. OnlyRun(r)
    BY <1>1, <1>5, <1>6, <1>7 DEF OnlyRun, Left
  <1> QED
    BY <1>1, <1>2, <1>5, <1>6, <1>7, <1>8, <1>9, RunEnds

LEMMA GoingFits ==
    ASSUME AutomationsInv,
           \/ \E a \in Automations : Purge(a) /\ automation' = automation
           \/ \E r \in Runs : Forget(r) \/ CleanRun(r)
    PROVE  AutomationsInv' /\ (\A q \in Runs : EndedKept(q)) /\ effects' = effects
  <1>1. TypeOK /\ \A r \in Runs : flow[r] \in Flow
    BY DEF AutomationsInv, TypeOK
  <1>2. \A r \in Runs : Cancelled(flow[r]) \in Flow
    BY <1>1 DEF Cancelled, Flow
  <1>3. PICK r \in Runs, f \in Flow :
           /\ run[r].status \notin {"none", "gone"} /\ DeleteRun(r)
           /\ CleanUp(r, f) \/ UNCHANGED <<flow, mail>>
           /\ UNCHANGED <<now, automation, contact, retired, event, creation, timeouts, effects,
                          moves>>
    <2>1. ASSUME NEW a \in Automations, Purge(a), automation' = automation
          PROVE  \E r \in Runs, f \in Flow :
                    /\ run[r].status \notin {"none", "gone"} /\ DeleteRun(r)
                    /\ CleanUp(r, f) \/ UNCHANGED <<flow, mail>>
      <3> DEFINE left == {r \in Kept : r[1] = a}
      <3>1. left # {}
        <4> SUFFICES ASSUME left = {}
                     PROVE  FALSE
          OBVIOUS
        <4>1. automation' = [automation EXCEPT ![a].gone = TRUE] /\ ~automation[a].gone
          BY <2>1 DEF Purge
        <4>2. automation[a] \in AutomationRow
          BY <1>1 DEF TypeOK
        <4>3. automation'[a].gone
          BY <1>1, <4>1, <4>2 DEF TypeOK, AutomationRow
        <4> QED
          BY <2>1, <4>1, <4>3
      <3>2. PICK r \in FirstOf(left) :
               /\ DeleteRun(r)
               /\ IF Running(r) \/ ~Live(r) THEN CleanUp(r, Cancelled(flow[r]))
                                            ELSE UNCHANGED <<flow, mail>>
        BY <2>1, <3>1 DEF Purge
      <3>3. r \in Runs /\ run[r].status \notin {"none", "gone"}
        BY <3>2 DEF FirstOf, Kept
      <3> QED
        BY <1>2, <3>2, <3>3
    <2>2. ASSUME NEW r \in Runs, Forget(r) \/ CleanRun(r)
          PROVE  /\ run[r].status \notin {"none", "gone"} /\ DeleteRun(r)
                 /\ \E f \in Flow : CleanUp(r, f) \/ UNCHANGED <<flow, mail>>
      BY <1>1, <1>2, <2>2 DEF Forget, CleanRun, FirstOf, Kept, Ended
    <2>3. UNCHANGED <<now, automation, contact, retired, event, creation, timeouts, effects, moves>>
      BY DEF Purge, Forget, CleanRun
    <2> QED
      BY <2>1, <2>2, <2>3
  <1> QED
    BY <1>3, DeleteRunFits

(***************************************************************************)
(* Pages.                                                                  *)
(***************************************************************************)
LEMMA RunsAreFinite ==
    IsFiniteSet(Runs) /\ IsFiniteSet(Automations)
  <1>1. MaxAutomations \in Int /\ MaxEvents \in Int
    BY AutomationsAssumption
  <1>2. IsFiniteSet(Automations) /\ IsFiniteSet(Events)
    BY <1>1, FS_Interval DEF Automations, Events
  <1>3. IsFiniteSet(Events \cup {NoEvent})
    BY <1>2, FS_AddElement
  <1> QED
    BY <1>2, <1>3, FS_Product DEF Runs

\* What a page is read from is a finite set of places.
LEMMA PlacesAreFinite ==
    ASSUME TypeOK, NEW c \in Nat
    PROVE  /\ WaitingAfter(c) \in SUBSET Nat /\ IsFiniteSet(WaitingAfter(c))
           /\ EnabledAfter(c) \in SUBSET Nat /\ IsFiniteSet(EnabledAfter(c))
  <1>1. IsFiniteSet(WaitingAfter(c))
    <2> DEFINE waiting == {q \in Runs : born[q] > c /\ run[q].key # NoKey}
               f == [q \in waiting |-> born[q]]
    <2>1. IsFiniteSet(waiting)
      BY RunsAreFinite, FS_Subset
    <2>2. f \in Surjection(waiting, WaitingAfter(c))
      BY DEF Surjection, WaitingAfter
    <2> HIDE DEF f, waiting
    <2> QED
      BY <2>1, <2>2, FS_Surjection
  <1>2. IsFiniteSet(EnabledAfter(c))
    BY RunsAreFinite, FS_Subset DEF EnabledAfter
  <1> QED
    BY <1>1, <1>2, AutomationsAssumption DEF WaitingAfter, EnabledAfter, Automations, TypeOK

LEMMA Smallest ==
    ASSUME NEW S \in SUBSET Nat, S # {}
    PROVE  \E x \in S : \A y \in S : x <= y
  <1> DEFINE R == OpToRel(<, Nat)
  <1>1. IsWellFoundedOn(R, Nat)
    BY NatLessThanWellFounded
  <1>2. \A x, y \in Nat : x < y => <<x, y>> \in R
    BY DEF OpToRel
  <1> HIDE DEF R
  <1>3. PICK x \in S : \A y \in S : ~ (<<y, x>> \in R)
    BY <1>1, WFMin
  <1>4. ASSUME NEW y \in S
        PROVE  x <= y
    <2>1. x \in Nat /\ y \in Nat /\ ~(y < x)
      BY <1>2, <1>3
    <2> QED
      BY <2>1
  <1> QED
    BY <1>4

\* A page is the first of the places, and all of them where they are not more than it holds.
LEMMA PageIsPrefix ==
    ASSUME NEW all \in SUBSET Nat, IsFiniteSet(all)
    PROVE  /\ PageOf(all) \subseteq all
           /\ \A i \in all, j \in PageOf(all) : i <= j => i \in PageOf(all)
           /\ Cardinality(all) <= PageSize => PageOf(all) = all
           /\ \A i \in all : Cardinality({j \in all : j < i}) \in Nat
           /\ \A i, j \in all : i < j => Cardinality({k \in all : k < i})
                                         < Cardinality({k \in all : k < j})
  <1> DEFINE before(i) == {j \in all : j < i}
  <1>1. PageSize \in Nat /\ Cardinality(all) \in Nat
    BY AutomationsAssumption, FS_CardinalityType
  <1>2. \A i \in Nat : IsFiniteSet(before(i)) /\ Cardinality(before(i)) \in Nat
    BY FS_Subset, FS_CardinalityType
  <1>3. ASSUME NEW i \in all, NEW j \in all, i < j
        PROVE  Cardinality(before(i)) < Cardinality(before(j))
    <2>1. i \in Nat /\ j \in Nat
      OBVIOUS
    <2>2. before(i) \in SUBSET before(j) /\ i \in before(j) /\ i \notin before(i)
      <3>1. i \in before(j) /\ ~(i < i)
        BY <1>3, <2>1
      <3>2. ASSUME NEW k \in all, k < i
            PROVE  k < j
        <4>1. k \in Nat
          OBVIOUS
        <4> QED
          BY <1>3, <2>1, <3>2, <4>1
      <3> QED
        BY <3>1, <3>2
    <2>3. IsFiniteSet(before(j)) /\ Cardinality(before(i)) \in Nat /\ Cardinality(before(j)) \in Nat
      BY <1>2, <2>1
    <2> HIDE DEF before
    <2>4. Cardinality(before(i)) <= Cardinality(before(j))
          /\ Cardinality(before(i)) # Cardinality(before(j))
      BY <2>2, <2>3, FS_Subset
    <2> QED
      BY <2>3, <2>4
  <1>4. PageOf(all) = {i \in all : Cardinality(before(i)) < PageSize}
    BY DEF PageOf
  <1>5. ASSUME NEW i \in all
        PROVE  Cardinality(before(i)) < Cardinality(all)
    <2>1. before(i) \in SUBSET all /\ before(i) # all /\ Cardinality(before(i)) \in Nat
      <3>1. i \in Nat
        OBVIOUS
      <3>2. i \notin before(i)
        BY <3>1
      <3> QED
        BY <1>2, <3>1, <3>2
    <2> HIDE DEF before
    <2>2. Cardinality(before(i)) <= Cardinality(all) /\ Cardinality(before(i)) # Cardinality(all)
      BY <2>1, FS_Subset
    <2> QED
      BY <1>1, <2>1, <2>2
  <1>6. ASSUME NEW i \in all, NEW j \in PageOf(all), i <= j
        PROVE  i \in PageOf(all)
    <2>1. i \in Nat /\ j \in Nat /\ j \in all
      BY <1>4
    <2>2. Cardinality(before(j)) < PageSize
      BY <1>4
    <2>3. Cardinality(before(i)) \in Nat /\ Cardinality(before(j)) \in Nat
      BY <1>2, <2>1
    <2>4. Cardinality(before(i)) <= Cardinality(before(j))
      <3>1. CASE i = j
        BY <2>3, <3>1
      <3>2. CASE i < j
        <4>1. Cardinality(before(i)) < Cardinality(before(j))
          BY <1>3, <2>1, <3>2
        <4> QED
          BY <2>3, <4>1
      <3> QED
        BY <1>6, <2>1, <3>1, <3>2
    <2>5. Cardinality(before(i)) < PageSize
      BY <1>1, <2>2, <2>3, <2>4
    <2> QED
      BY <1>4, <2>5
  <1>7. Cardinality(all) <= PageSize => \A i \in all : Cardinality(before(i)) < PageSize
    <2> SUFFICES ASSUME Cardinality(all) <= PageSize, NEW i \in all
                 PROVE  Cardinality(before(i)) < PageSize
      OBVIOUS
    <2>1. Cardinality(before(i)) \in Nat /\ Cardinality(before(i)) < Cardinality(all)
      BY <1>2, <1>5
    <2> QED
      BY <1>1, <2>1
  <1> QED
    BY <1>2, <1>3, <1>4, <1>6, <1>7

\* The cursor after a page that is not all: who was on it is not after it, who was not is.
LEMMA LastOfPage ==
    ASSUME NEW all \in SUBSET Nat, IsFiniteSet(all), ~(Cardinality(all) <= PageSize)
    PROVE  /\ Max(PageOf(all)) \in Nat
           /\ \A i \in all : i <= Max(PageOf(all)) => i \in PageOf(all)
  <1> DEFINE page == PageOf(all)
             before(i) == Cardinality({j \in all : j < i})
  <1>1. /\ page \subseteq all
        /\ \A i \in all, j \in page : i <= j => i \in page
        /\ \A i \in all : before(i) \in Nat
        /\ \A i, j \in all : i < j => before(i) < before(j)
    BY PageIsPrefix
  <1>2. page = {i \in all : before(i) < PageSize}
    BY DEF PageOf
  <1> HIDE DEF page, before
  <1>3. PageSize \in Nat /\ PageSize > 0
    BY AutomationsAssumption
  <1>4. page # {}
    <2>1. all # {}
      BY <1>3, FS_EmptySet
    <2>2. PICK x \in all : \A y \in all : x <= y
      BY <2>1, Smallest
    <2>3. {j \in all : j < x} = {}
      <3> SUFFICES ASSUME NEW j \in all, j < x
                   PROVE  FALSE
        OBVIOUS
      <3>1. j \in Nat /\ x \in Nat /\ x <= j
        BY <2>2
      <3> QED
        BY <3>1
    <2>4. before(x) = 0
      BY <2>3, FS_EmptySet DEF before
    <2> QED
      BY <1>2, <1>3, <2>4
  <1>5. \E x \in page : \A y \in page : x >= y
    <2> DEFINE T == {PageSize - before(x) : x \in page}
    <2>1. \A x \in page : PageSize - before(x) \in Nat
      BY <1>1, <1>2, <1>3
    <2>2. T \in SUBSET Nat /\ T # {}
      BY <1>4, <2>1
    <2>3. PICK z \in T : \A t \in T : z <= t
      BY <2>2, Smallest
    <2>4. PICK x \in page : z = PageSize - before(x)
      OBVIOUS
    <2>5. ASSUME NEW y \in page
          PROVE  x >= y
      <3>1. z <= PageSize - before(y)
        BY <2>3
      <3>2. x \in all /\ y \in all /\ before(x) \in Nat /\ before(y) \in Nat
        BY <1>1
      <3>3. ~(before(x) < before(y))
        BY <1>3, <2>4, <3>1, <3>2
      <3>4. ~(x < y)
        BY <1>1, <3>2, <3>3
      <3> QED
        BY <3>2, <3>4
    <2> QED
      BY <2>5
  <1>6. Max(page) \in page
    BY <1>5 DEF Max
  <1> QED
    BY <1>1, <1>6 DEF page

(***************************************************************************)
(* Waits are answered.                                                     *)
(***************************************************************************)
Heard(q, by) ==
    /\ run'[q].status = run[q].status /\ run'[q].key = NoKey
    /\ run'[q].last = run[q].last \/ (by # NoEvent /\ run'[q].last = by)

LEMMA ToldMoves ==
    ASSUME TypeOK, NEW q \in Runs, NEW by \in Answers,
           run'[q] = IF Waiting(q) THEN Told(run[q], by)
                     ELSE [run[q] EXCEPT !.last = IF by = NoEvent THEN @ ELSE by],
           run[q].key # NoKey => Running(q)
    PROVE  run'[q] \in RunRow /\ Heard(q, by)
  <1> DEFINE x == run[q]
             last == IF by = NoEvent THEN x.last ELSE by
             y == [x EXCEPT !.last = last]
             z == [x EXCEPT !.key = NoKey, !.at = 0, !.until = 0]
             w == [z EXCEPT !.last = last]
  <1>1. x \in RunRow /\ 0 \in Time
    BY AutomationsAssumption DEF TypeOK, Time
  <1>2. last \in Events \cup {NoEvent} /\ (last = x.last \/ (by # NoEvent /\ last = by))
    BY <1>1 DEF Answers, RunRow
  <1>3. z \in RunRow /\ z.key = NoKey /\ z.last = x.last /\ z.status = x.status
    BY <1>1 DEF RunRow
  <1>4. Told(x, by) = w
    BY <1>3 DEF Told, Idle
  <1> HIDE DEF z, last
  <1>5. w \in RunRow /\ w.key = NoKey /\ w.last = last /\ w.status = x.status
    BY <1>2, <1>3 DEF RunRow
  <1>6. y \in RunRow /\ y.key = x.key /\ y.last = last /\ y.status = x.status
    BY <1>1, <1>2 DEF RunRow
  <1>7. run'[q] = IF Waiting(q) THEN w ELSE y
    BY <1>4 DEF last
  <1> HIDE DEF w, y
  <1>8. x.key # NoKey => Waiting(q)
    BY DEF Waiting
  <1> QED
    BY <1>2, <1>5, <1>6, <1>7, <1>8 DEF Heard

LEMMA MailMoves ==
    ASSUME AutomationsInv, NEW q \in Runs, NEW by \in Answers,
           mail'[q] = IF Waiting(q) THEN [mail[q] EXCEPT ![run[q].key] = Append(@, by)]
                      ELSE mail[q]
    PROVE  /\ mail'[q] \in [Keys -> Seq(Answers)]
           /\ \A k \in Keys : Len(mail'[q][k]) <= 1
           /\ \A k \in Keys : mail'[q][k] = mail[q][k] \/ (Waiting(q) /\ k = run[q].key)
  <1>1. mail[q] \in [Keys -> Seq(Answers)] /\ run[q].key \in Keys \cup {NoKey} /\ RunFits(q)
    BY DEF AutomationsInv, TypeOK, RunRow
  <1>2. \A k \in Keys : Len(mail[q][k]) <= 1
    BY <1>1 DEF RunFits, StepsFit
  <1>3. CASE Waiting(q)
    <2>1. PICK k \in Keys : k = run[q].key /\ mail[q][k] = <<>>
      BY <1>1, <1>3 DEF Waiting, RunFits, WaitIsOpen
    <2> DEFINE c == Append(mail[q][k], by)
    <2>2. c \in Seq(Answers) /\ Len(c) = 1
      BY <1>1, <2>1
    <2>3. mail'[q] = [mail[q] EXCEPT ![k] = c]
      BY <1>3, <2>1
    <2> HIDE DEF c
    <2> QED
      BY <1>1, <1>2, <1>3, <2>1, <2>2, <2>3
  <1>4. CASE ~Waiting(q)
    BY <1>1, <1>2, <1>4
  <1> QED
    BY <1>3, <1>4

Signalled(rs, by) ==
    /\ run' \in [Runs -> RunRow] /\ mail' \in [Runs -> [Keys -> Seq(Answers)]]
    /\ \A q \in Runs : RunFits(q)' /\ EndedKept(q)
    /\ \A q \in Runs \ rs : run'[q] = run[q]
    /\ \A q \in rs : Heard(q, by)

LEMMA SignalFits ==
    ASSUME AutomationsInv, NEW rs \in SUBSET Runs, NEW by \in Answers, Signal(rs, by),
           \A q \in rs : run[q].status # "none",
           UNCHANGED <<record, flow, creation, effects>>
    PROVE  Signalled(rs, by)
  <1>1. TypeOK /\ \A q \in Runs : RunFits(q)
    BY DEF AutomationsInv
  <1>2. UNCHANGED <<record, flow, born, births, effects>>
    BY DEF creation
  <1>3. \A q \in Runs \ rs : run'[q] = run[q] /\ mail'[q] = mail[q]
    BY DEF Signal
  <1>4. ASSUME NEW q \in rs
        PROVE  run'[q] \in RunRow /\ Heard(q, by)
    <2>1. run[q].key # NoKey => Running(q)
      BY <1>1 DEF RunFits, WaitIsOpen
    <2> QED
      BY <1>1, <2>1, ToldMoves DEF Signal
  <1>5. ASSUME NEW q \in rs
        PROVE  /\ mail'[q] \in [Keys -> Seq(Answers)]
               /\ \A k \in Keys : Len(mail'[q][k]) <= 1
               /\ \A k \in Keys : mail'[q][k] = mail[q][k] \/ (Waiting(q) /\ k = run[q].key)
    BY MailMoves DEF Signal
  <1>6. run' \in [Runs -> RunRow]
    <2>1. \A q \in Runs : run'[q] \in RunRow
      BY <1>1, <1>3, <1>4 DEF TypeOK
    <2> QED
      BY <2>1 DEF Signal
  <1>7. mail' \in [Runs -> [Keys -> Seq(Answers)]]
    <2>1. \A q \in Runs : mail'[q] \in [Keys -> Seq(Answers)]
      BY <1>1, <1>3, <1>5 DEF TypeOK
    <2> QED
      BY <2>1 DEF Signal
  <1>8. ASSUME NEW q \in rs
        PROVE  RunFits(q)' /\ EndedKept(q)
    <2>1. RunFits(q) /\ Heard(q, by)
      BY <1>1, <1>4
    <2>2. Running(q)' <=> Running(q)
      BY <2>1 DEF Heard, Running
    <2>3. UnbornIsNothing(q)' /\ WaitIsOpen(q)'
      BY <2>1 DEF Heard, UnbornIsNothing, WaitIsOpen
    <2>4. StepsFit(q)'
      <3>1. ASSUME NEW k \in Keys, Running(q), record[q][k].status = "none"
            PROVE  mail'[q][k] = <<>>
        <4>1. ~(Waiting(q) /\ k = run[q].key)
          BY <2>1, <3>1 DEF RunFits, WaitIsOpen, Waiting
        <4> QED
          BY <1>5, <2>1, <3>1, <4>1 DEF RunFits, StepsFit
      <3> QED
        BY <1>2, <1>5, <2>1, <2>2, <3>1 DEF RunFits, StepsFit, PastOrAt
    <2>5. EndedKept(q)
      BY <1>2, <2>1 DEF EndedKept, Heard, RunFits, StepsFit, Running, Ended
    <2> QED
      BY <1>2, <2>1, <2>2, <2>3, <2>4, <2>5 DEF RunFits
  <1>9. ASSUME NEW q \in Runs \ rs
        PROVE  RunFits(q)' /\ EndedKept(q)
    <2>1. RunFits(q) /\ run'[q] = run[q] /\ mail'[q] = mail[q]
      BY <1>1, <1>3
    <2>2. RunFits(q)'
      BY <1>2, <2>1 DEF RunFits, UnbornIsNothing, WaitIsOpen, StepsFit, Running, PastOrAt
    <2>3. EndedKept(q)
      BY <1>2, <2>1 DEF EndedKept, RunFits, WaitIsOpen, StepsFit, Running, Ended
    <2> QED
      BY <2>2, <2>3
  <1> QED
    BY <1>3, <1>4, <1>6, <1>7, <1>8, <1>9 DEF Signalled

LEMMA TimeoutFits ==
    ASSUME AutomationsInv, NEW r \in Runs, Timeout(r)
    PROVE  AutomationsInv' /\ (\A q \in Runs : EndedKept(q)) /\ effects' = effects
  <1>1. PICK job \in timeouts :
           /\ timeouts' = timeouts \ {job}
           /\ IF Active(r) /\ run[r].key = job.key /\ run[r].until <= now
              THEN Signal({r}, NoEvent) ELSE UNCHANGED <<run, mail>>
           /\ UNCHANGED <<now, automation, contact, retired, event, creation, record, flow,
                          effects, moves>>
    BY DEF Timeout
  <1>2. TypeOK /\ EventsFit /\ \A q \in Runs : RunFits(q)
    BY DEF AutomationsInv
  <1>3. UNCHANGED <<now, automation, contact, retired, event, born, births, record, flow,
                    effects, moves>>
    BY <1>1 DEF creation
  <1>4. /\ run' \in [Runs -> RunRow] /\ mail' \in [Runs -> [Keys -> Seq(Answers)]]
        /\ \A q \in Runs : RunFits(q)' /\ EndedKept(q)
        /\ \A q \in Runs : run'[q] = run[q] \/ Heard(q, NoEvent)
    <2>1. CASE Active(r) /\ Signal({r}, NoEvent)
      <3>1. run[r].status # "none" /\ NoEvent \in Answers
        BY <2>1 DEF Active, Running, Answers
      <3>2. Signalled({r}, NoEvent)
        BY <1>1, <2>1, <3>1, SignalFits
      <3> QED
        BY <3>2 DEF Signalled
    <2>2. CASE UNCHANGED <<run, mail>>
      <3>1. \A q \in Runs : RunFits(q)'
        BY <1>2, <1>3, <2>2
        DEF RunFits, UnbornIsNothing, WaitIsOpen, StepsFit, Running, PastOrAt
      <3>2. \A q \in Runs : EndedKept(q)
        BY <1>2, <1>3, <2>2 DEF EndedKept, RunFits, WaitIsOpen, StepsFit, Running, Ended
      <3> QED
        BY <1>2, <2>2, <3>1, <3>2 DEF TypeOK
    <2> QED
      BY <1>1, <2>1, <2>2
  <1>5. TypeOK'
    BY <1>1, <1>2, <1>3, <1>4 DEF TypeOK
  <1>6. \A q \in Runs : WaitKept(q)
    BY <1>4 DEF WaitKept, Heard
  <1>7. now <= now'
    BY <1>2, <1>3 DEF TypeOK, Time
  <1>8. EventsFit'
    BY <1>2, <1>3, <1>5, <1>6, <1>7, EventsStay
  <1> QED
    BY <1>3, <1>4, <1>5, <1>8 DEF AutomationsInv

\* Whoever still waits when a page was read was not on it, or had no time for the event.
LEMMA DispatchWaitsFits ==
    ASSUME AutomationsInv, NEW e \in Events, DispatchWaits(e)
    PROVE  AutomationsInv' /\ (\A q \in Runs : EndedKept(q)) /\ effects' = effects
  <1> DEFINE all == WaitingAfter(event[e].cursor)
             page == {r \in Runs : born[r] \in PageOf(all)}
             rs == {r \in page : Hears(e, r)}
  <1>1. TypeOK /\ EventsFit /\ (\A q \in Runs : RunFits(q)) /\ event[e] \in EventRow
    BY DEF AutomationsInv, TypeOK
  <1>2. /\ event[e].phase = "wait"
        /\ Signal(rs, e)
        /\ event' = [event EXCEPT ![e] = AfterPage(e, all)]
        /\ UNCHANGED <<now, automation, contact, retired, creation, record, timeouts, flow,
                       effects, moves>>
    BY DEF DispatchWaits
  <1>3. UNCHANGED <<now, automation, contact, retired, born, births, record, timeouts, flow,
                    effects, moves>>
    BY <1>2 DEF creation
  <1>4. all \in SUBSET Nat /\ IsFiniteSet(all)
    BY <1>1, PlacesAreFinite DEF EventRow
  <1>5. /\ PageOf(all) \subseteq all
        /\ Cardinality(all) <= PageSize => PageOf(all) = all
    BY <1>4, PageIsPrefix
  <1>6. ASSUME ~(Cardinality(all) <= PageSize)
        PROVE  /\ Max(PageOf(all)) \in Nat
               /\ \A i \in all : i <= Max(PageOf(all)) => i \in PageOf(all)
    BY <1>4, <1>6, LastOfPage
  <1>7. e \in Answers /\ e # NoEvent
    BY AutomationsAssumption DEF Answers, Events, NoEvent
  <1>8. Signalled(rs, e)
    <2>1. ASSUME NEW q \in rs
          PROVE  run[q].status # "none"
      <3>1. q \in Runs /\ born[q] \in all
        BY <1>5
      <3>2. born[q] > event[e].cursor /\ event[e].cursor \in Nat
        BY <1>1, <3>1 DEF WaitingAfter, EventRow
      <3>3. born[q] # 0
        BY <3>2
      <3> QED
        BY <1>1, <3>1, <3>3 DEF RunFits, UnbornIsNothing
    <2> HIDE DEF all
    <2> QED
      BY <1>2, <1>3, <1>7, <2>1, SignalFits
  <1>9. PICK x \in EventRow : /\ event' = [event EXCEPT ![e] = x] /\ x.at = event[e].at
                              /\ \/ x.phase = "start" /\ PageOf(all) = all
                                 \/ /\ x.phase = "wait" /\ ~(Cardinality(all) <= PageSize)
                                    /\ x.cursor = Max(PageOf(all))
    <2>1. CASE Cardinality(all) <= PageSize
      <3> DEFINE x == [event[e] EXCEPT !.phase = "start", !.cursor = 0]
      <3>1. AfterPage(e, all) = x
        BY <2>1 DEF AfterPage
      <3>2. x \in EventRow /\ x.at = event[e].at /\ x.phase = "start"
        BY <1>1 DEF EventRow
      <3> HIDE DEF x, all
      <3> QED
        BY <1>2, <1>5, <2>1, <3>1, <3>2
    <2>2. CASE ~(Cardinality(all) <= PageSize)
      <3> DEFINE c == Max(PageOf(all))
                 x == [event[e] EXCEPT !.cursor = c]
      <3>1. AfterPage(e, all) = x
        BY <2>2 DEF AfterPage
      <3>2. c \in Nat
        BY <1>6, <2>2
      <3> HIDE DEF c
      <3>3. x \in EventRow /\ x.at = event[e].at /\ x.phase = "wait" /\ x.cursor = c
        BY <1>1, <1>2, <3>2 DEF EventRow
      <3> HIDE DEF x, all
      <3> QED
        BY <1>2, <2>2, <3>1, <3>3 DEF c
    <2> QED
      BY <2>1, <2>2
  <1>10. /\ event' \in [Events -> EventRow] /\ event'[e] = x
         /\ \A d \in Events \ {e} : event'[d] = event[d]
    BY <1>1, <1>9 DEF TypeOK
  <1>11. TypeOK'
    BY <1>1, <1>3, <1>8, <1>10 DEF TypeOK, Signalled
  <1>12. ASSUME NEW d \in Events, NEW r \in Runs, HasRead(d, r)', ~HasRead(d, r),
                ~TooShort(d, r)'
         PROVE  FALSE
    <2>1. d = e
      BY <1>3, <1>10, <1>12 DEF HasRead
    <2>2. /\ run'[r].key # NoKey /\ run'[r].at < event'[e].at
          /\ ~(run'[r].until < event'[e].at)
      BY <1>12, <2>1 DEF TooShort
    <2>3. r \notin rs /\ run'[r] = run[r]
      BY <1>8, <2>2 DEF Signalled, Heard
    <2>4. /\ run[r].key # NoKey /\ run[r].at < event[e].at /\ ~(run[r].until < event[e].at)
      BY <1>9, <1>10, <2>2, <2>3
    <2>5. born[r] \in Nat /\ event[e].cursor \in Nat /\ ~(born[r] <= event[e].cursor)
      BY <1>1, <1>2, <1>12, <2>1 DEF HasRead, TypeOK, EventRow
    <2>6. born[r] \in all
      BY <2>4, <2>5 DEF WaitingAfter
    <2>7. born[r] \in PageOf(all)
      <3>1. CASE x.phase = "start" /\ PageOf(all) = all
        BY <2>6, <3>1
      <3>2. CASE x.phase = "wait" /\ ~(Cardinality(all) <= PageSize) /\ x.cursor = Max(PageOf(all))
        <4>1. born[r] <= Max(PageOf(all))
          BY <1>3, <1>10, <1>12, <2>1, <3>2 DEF HasRead
        <4> QED
          BY <1>6, <2>6, <3>2, <4>1
      <3> QED
        BY <1>9, <3>1, <3>2
    <2>8. ~Hears(e, r)
      BY <2>3, <2>7
    <2>9. run[r].last # e
      <3>1. run[r].at \in Nat /\ event[e].at \in Nat
        BY <1>1 DEF TypeOK, RunRow, EventRow, Time
      <3> QED
        BY <1>1, <2>4, <3>1 DEF EventsFit
    <2>10. /\ run[r].at \in Nat /\ event[e].at \in Nat /\ run[r].until \in Nat
      BY <1>1 DEF TypeOK, RunRow, EventRow, Time
    <2> QED
      BY <2>4, <2>8, <2>9, <2>10 DEF Hears
  <1>13. \A r \in Runs : WaitKept(r)
    <2>1. ASSUME NEW r \in rs
          PROVE  WaitKept(r)
      BY <1>2, <1>8, <2>1 DEF Signalled, Heard, WaitKept
    <2>2. ASSUME NEW r \in Runs \ rs
          PROVE  WaitKept(r)
      BY <1>8, <2>2 DEF Signalled, WaitKept
    <2> QED
      BY <2>1, <2>2
  <1>14. EventsKept
    <2>1. now <= now'
      BY <1>1, <1>3 DEF TypeOK, Time
    <2>2. \A d \in Events : /\ event'[d].at = event[d].at
                            /\ event[d].phase # "none" => event'[d].phase # "none"
      BY <1>9, <1>10
    <2>3. \A d \in Events, r \in Runs : HasRead(d, r)' => HasRead(d, r) \/ TooShort(d, r)'
      BY <1>12
    <2> QED
      BY <1>13, <2>1, <2>2, <2>3 DEF EventsKept
  <1>15. EventsFit'
    BY <1>1, <1>11, <1>14, EventsAreKept
  <1> QED
    BY <1>3, <1>8, <1>11, <1>15 DEF AutomationsInv, Signalled

(***************************************************************************)
(* Runs begin.                                                             *)
(***************************************************************************)
HasBegun(new) ==
    /\ run' \in [Runs -> RunRow] /\ flow' \in [Runs -> Flow]
    /\ born' \in [Runs -> Nat] /\ births' \in 0..MaxRuns
    /\ \A q \in Runs : RunFits(q)' /\ EndedKept(q) /\ WaitKept(q)
    /\ \A q \in Runs : born'[q] = born[q] \/ run'[q].key = NoKey

LEMMA BeginFits ==
    ASSUME AutomationsInv, NEW rs \in SUBSET Runs, Begin(rs),
           \A r \in rs : r[2] \in Events => event[r[2]].phase # "none",
           UNCHANGED <<record, mail, effects>>
    PROVE  HasBegun(Begun(rs))
  <1> DEFINE new == Begun(rs)
             upTo(r) == {q \in new : q[1] <= r[1]}
  <1>1. TypeOK /\ \A q \in Runs : RunFits(q)
    BY DEF AutomationsInv
  <1>2. new \in SUBSET Runs /\ new \subseteq rs /\ \A r \in new : run[r].status = "none"
    BY DEF Begun
  <1>3. /\ run' = [r \in Runs |->
               IF r \in new THEN [NoRun EXCEPT !.status = "running", !.last = r[2]] ELSE run[r]]
        /\ born' = [r \in Runs |->
               IF r \in new THEN births + Cardinality(upTo(r)) ELSE born[r]]
        /\ births' = births + Cardinality(new) /\ births' <= MaxRuns
        /\ flow' = [r \in Runs |->
               IF r \in new THEN [NoFlow EXCEPT !.stage = "perform", !.at = First] ELSE flow[r]]
    BY DEF Begin
  <1> HIDE DEF new
  <1>4. births \in Nat /\ MaxRuns \in Nat
    BY <1>1, AutomationsAssumption DEF TypeOK
  <1>5. Cardinality(new) \in Nat /\ \A r \in new : Cardinality(upTo(r)) \in Nat \ {0}
    <2>1. IsFiniteSet(new)
      BY <1>2, RunsAreFinite, FS_Subset
    <2>2. ASSUME NEW r \in new
          PROVE  Cardinality(upTo(r)) \in Nat \ {0}
      <3>1. r[1] \in Nat
        BY <1>2, AutomationsAssumption DEF Runs, Automations
      <3>2. r \in upTo(r)
        BY <3>1
      <3>3. IsFiniteSet(upTo(r))
        BY <2>1, FS_Subset
      <3> HIDE DEF upTo
      <3> QED
        BY <3>2, <3>3, FS_EmptySet, FS_CardinalityType
    <2> QED
      BY <2>1, <2>2, FS_CardinalityType
  <1> HIDE DEF upTo
  <1>6. births' \in 0..MaxRuns
    <2>1. PICK n \in Nat : n = Cardinality(new)
      BY <1>5
    <2>2. births' = births + n /\ births' <= MaxRuns
      BY <1>3, <2>1
    <2> QED
      BY <1>4, <2>2
  <1>7. ASSUME NEW r \in new
        PROVE  born'[r] \in Nat /\ born'[r] >= 1
    <2>1. PICK n \in Nat \ {0} : n = Cardinality(upTo(r))
      BY <1>5
    <2>2. born'[r] = births + n
      BY <1>2, <1>3, <2>1
    <2> QED
      BY <1>4, <2>2
  <1>8. born' \in [Runs -> Nat]
    BY <1>1, <1>2, <1>3, <1>7 DEF TypeOK
  <1>9. ASSUME NEW r \in new
        PROVE  /\ run'[r] \in RunRow /\ run'[r].status = "running" /\ run'[r].key = NoKey
               /\ run'[r].last = r[2]
    <2> DEFINE x == [NoRun EXCEPT !.status = "running", !.last = r[2]]
    <2>1. r \in Runs /\ r[2] \in Events \cup {NoEvent} /\ 0 \in Time
      BY <1>2, AutomationsAssumption DEF Runs, Time
    <2>2. run'[r] = x
      BY <1>3, <2>1
    <2>3. x \in RunRow /\ x.status = "running" /\ x.key = NoKey /\ x.last = r[2]
      BY <2>1 DEF NoRun, RunRow
    <2> HIDE DEF x
    <2> QED
      BY <2>2, <2>3
  <1>10. ASSUME NEW r \in new
         PROVE  flow'[r] \in Flow /\ flow'[r].at \in Keys
    <2> DEFINE x == [NoFlow EXCEPT !.stage = "perform", !.at = First]
    <2>1. flow'[r] = x
      BY <1>2, <1>3
    <2>2. x \in Flow /\ x.at = First
      BY AutomationsAssumption DEF NoFlow, Flow
    <2> HIDE DEF x
    <2> QED
      BY <2>1, <2>2, AutomationsAssumption
  <1>11. \A r \in Runs \ new : run'[r] = run[r] /\ born'[r] = born[r] /\ flow'[r] = flow[r]
    BY <1>3
  <1>12. run' \in [Runs -> RunRow] /\ flow' \in [Runs -> Flow]
    <2>1. \A r \in Runs : run'[r] \in RunRow /\ flow'[r] \in Flow
      BY <1>1, <1>9, <1>10, <1>11 DEF TypeOK
    <2> QED
      BY <1>3, <2>1
  <1>13. ASSUME NEW r \in new
         PROVE  RunFits(r)' /\ EndedKept(r) /\ WaitKept(r)
    <2>1. /\ r \in Runs /\ run[r].status = "none"
          /\ \A k \in Keys : record[r][k].status = "none" /\ mail[r][k] = <<>>
                             /\ effects[r][k] = 0
      BY <1>1, <1>2 DEF RunFits, UnbornIsNothing
    <2>2. UnbornIsNothing(r)' /\ WaitIsOpen(r)' /\ (Running(r) => born[r] >= 1)'
      BY <1>7, <1>9 DEF UnbornIsNothing, WaitIsOpen
    <2>3. StepsFit(r)'
      BY <2>1 DEF StepsFit
    <2>4. RunFits(r)'
      BY <1>10, <2>2, <2>3 DEF RunFits
    <2>5. EndedKept(r)
      BY <2>1 DEF EndedKept, Ended
    <2>6. WaitKept(r)
      BY <1>2, <1>9 DEF WaitKept
    <2> QED
      BY <2>4, <2>5, <2>6
  <1>14. ASSUME NEW r \in Runs \ new
         PROVE  RunFits(r)' /\ EndedKept(r) /\ WaitKept(r)
    <2>1. /\ RunFits(r) /\ run'[r] = run[r] /\ born'[r] = born[r] /\ flow'[r] = flow[r]
          /\ UNCHANGED <<record, mail, effects>>
      BY <1>1, <1>11
    <2>2. RunFits(r)'
      BY <2>1 DEF RunFits, UnbornIsNothing, WaitIsOpen, StepsFit, Running, PastOrAt
    <2>3. EndedKept(r)
      BY <2>1 DEF EndedKept, RunFits, WaitIsOpen, StepsFit, Running, Ended
    <2>4. WaitKept(r)
      BY <2>1 DEF WaitKept
    <2> QED
      BY <2>2, <2>3, <2>4
  <1>15. \A q \in Runs : born'[q] = born[q] \/ run'[q].key = NoKey
    BY <1>9, <1>11
  <1> QED
    BY <1>6, <1>8, <1>12, <1>13, <1>14, <1>15 DEF HasBegun

LEMMA TestFits ==
    ASSUME AutomationsInv, NEW a \in Automations, Test(a)
    PROVE  AutomationsInv' /\ (\A q \in Runs : EndedKept(q)) /\ effects' = effects
  <1>1. TypeOK /\ EventsFit
    BY DEF AutomationsInv
  <1> DEFINE rs == {<<a, NoEvent>>}
  <1>2. /\ Begin(rs)
        /\ UNCHANGED <<now, automation, contact, retired, event, record, timeouts, mail, effects,
                       moves>>
    BY DEF Test
  <1>3. rs \in SUBSET Runs /\ \A r \in rs : r[2] \in Events => event[r[2]].phase # "none"
    BY AutomationsAssumption DEF Runs, Events, NoEvent
  <1> HIDE DEF rs
  <1>4. HasBegun(Begun(rs))
    BY <1>2, <1>3, BeginFits
  <1>5. TypeOK'
    BY <1>1, <1>2, <1>4 DEF TypeOK, HasBegun
  <1>6. now <= now'
    BY <1>1, <1>2 DEF TypeOK, Time
  <1>7. EventsFit'
    BY <1>1, <1>2, <1>4, <1>5, <1>6, EventsStay DEF HasBegun
  <1> QED
    BY <1>2, <1>4, <1>5, <1>7 DEF AutomationsInv, HasBegun

LEMMA DispatchStartsFits ==
    ASSUME AutomationsInv, NEW e \in Events, DispatchStarts(e)
    PROVE  AutomationsInv' /\ (\A q \in Runs : EndedKept(q)) /\ effects' = effects
  <1> DEFINE all == EnabledAfter(event[e].cursor)
             page == PageOf(all)
             fresh == {a \in page : automation[a].enabledAt <= event[e].at}
             rs == {<<a, e>> : a \in fresh}
  <1>1. TypeOK /\ EventsFit /\ event[e] \in EventRow
    BY DEF AutomationsInv, TypeOK
  <1>2. /\ event[e].phase = "start"
        /\ Begin(rs)
        /\ event' = [event EXCEPT ![e] =
               IF Cardinality(all) <= PageSize THEN [@ EXCEPT !.phase = "done"]
               ELSE [@ EXCEPT !.cursor = Max(page)]]
        /\ UNCHANGED <<now, automation, contact, retired, record, timeouts, mail, effects, moves>>
    BY DEF DispatchStarts
  <1>3. all \in SUBSET Nat /\ IsFiniteSet(all) /\ all \subseteq Automations
    BY <1>1, PlacesAreFinite DEF EventRow, EnabledAfter
  <1>4. page \subseteq all
    BY <1>3, PageIsPrefix
  <1>5. ~(Cardinality(all) <= PageSize) => Max(page) \in Nat
    BY <1>3, LastOfPage
  <1>6. rs \in SUBSET Runs /\ \A r \in rs : r[2] \in Events => event[r[2]].phase # "none"
    BY <1>2, <1>3, <1>4 DEF Runs
  <1> HIDE DEF rs
  <1>7. HasBegun(Begun(rs))
    BY <1>2, <1>6, BeginFits
  <1>8. PICK x \in EventRow : /\ event' = [event EXCEPT ![e] = x] /\ x.at = event[e].at
                              /\ x.phase \in {"start", "done"}
    <2>1. CASE Cardinality(all) <= PageSize
      <3> DEFINE x == [event[e] EXCEPT !.phase = "done"]
      <3>1. x \in EventRow /\ x.at = event[e].at /\ x.phase = "done"
        BY <1>1 DEF EventRow
      <3>2. event' = [event EXCEPT ![e] = x]
        BY <1>2, <2>1
      <3> HIDE DEF x
      <3> QED
        BY <3>1, <3>2
    <2>2. CASE ~(Cardinality(all) <= PageSize)
      <3>1. PICK c \in Nat : c = Max(page)
        BY <1>5, <2>2
      <3> DEFINE x == [event[e] EXCEPT !.cursor = c]
      <3>2. x \in EventRow /\ x.at = event[e].at /\ x.phase = "start"
        BY <1>1, <1>2 DEF EventRow
      <3>3. event' = [event EXCEPT ![e] = x]
        BY <1>2, <2>2, <3>1
      <3> HIDE DEF x
      <3> QED
        BY <3>2, <3>3
    <2> QED
      BY <2>1, <2>2
  <1>9. /\ event' \in [Events -> EventRow] /\ event'[e] = x
        /\ \A d \in Events \ {e} : event'[d] = event[d]
    BY <1>1, <1>8 DEF TypeOK
  <1>10. TypeOK'
    BY <1>1, <1>2, <1>7, <1>9 DEF TypeOK, HasBegun
  <1>11. EventsKept
    <2>1. now <= now'
      BY <1>1, <1>2 DEF TypeOK, Time
    <2>2. \A d \in Events : /\ event'[d].at = event[d].at
                            /\ event[d].phase # "none" => event'[d].phase # "none"
      BY <1>8, <1>9
    <2>3. \A d \in Events, r \in Runs : HasRead(d, r)' => HasRead(d, r) \/ TooShort(d, r)'
      <3>1. ASSUME NEW d \in Events, NEW r \in Runs, HasRead(d, r)', born'[r] = born[r]
            PROVE  HasRead(d, r)
        BY <1>2, <1>9, <3>1 DEF HasRead
      <3>2. ASSUME NEW d \in Events, NEW r \in Runs, run'[r].key = NoKey
            PROVE  TooShort(d, r)'
        BY <3>2 DEF TooShort
      <3> QED
        BY <1>7, <3>1, <3>2 DEF HasBegun
    <2> QED
      BY <1>7, <2>1, <2>2, <2>3 DEF EventsKept, HasBegun
  <1>12. EventsFit'
    BY <1>1, <1>10, <1>11, EventsAreKept
  <1> QED
    BY <1>2, <1>7, <1>10, <1>12 DEF AutomationsInv, HasBegun

LEMMA EmitFits ==
    ASSUME AutomationsInv, NEW e \in Events, Emit(e)
    PROVE  AutomationsInv' /\ (\A q \in Runs : EndedKept(q)) /\ effects' = effects
  <1>1. /\ TypeOK /\ EventsFit /\ \A q \in Runs : RunFits(q)
        /\ event[e].phase = "none"
        /\ UNCHANGED <<now, automation, contact, retired, run, creation, record, timeouts, flow,
                       mail, effects, moves>>
        /\ UNCHANGED <<born, births>>
    BY DEF AutomationsInv, Emit, creation
  <1> DEFINE x == [phase |-> "wait", at |-> now, cursor |-> 0]
  <1>2. x \in EventRow /\ x.phase = "wait" /\ x.at = now /\ x.cursor = 0
    BY <1>1 DEF EventRow, TypeOK
  <1>3. event' = [event EXCEPT ![e] = x]
    BY DEF Emit
  <1> HIDE DEF x
  <1>4. /\ event' \in [Events -> EventRow] /\ event'[e] = x
        /\ \A d \in Events \ {e} : event'[d] = event[d]
    BY <1>1, <1>2, <1>3 DEF TypeOK
  <1>5. TypeOK'
    BY <1>1, <1>4 DEF TypeOK
  <1>6. \A q \in Runs : RunFits(q)'
    BY <1>1 DEF RunFits, UnbornIsNothing, WaitIsOpen, StepsFit, Running, PastOrAt
  <1>7. \A q \in Runs : EndedKept(q)
    BY <1>1 DEF EndedKept, RunFits, WaitIsOpen, StepsFit, Running, Ended
  <1>8. EventsFit'
    <2>1. \A d \in Events : event'[d].at <= now'
      <3>1. now \in Nat /\ now' = now /\ \A d \in Events : event[d].at <= now
        BY <1>1 DEF EventsFit, TypeOK, Time
      <3>2. \A d \in Events \ {e} : event'[d].at <= now'
        BY <1>4, <3>1
      <3>3. event'[e].at <= now'
        BY <1>2, <1>4, <3>1
      <3> QED
        BY <3>2, <3>3
    <2>2. ASSUME NEW q \in Runs, NEW d \in Events, run'[q].last = d
          PROVE  /\ event'[d].phase # "none"
                 /\ run'[q].key # NoKey => event'[d].at <= run'[q].at
      BY <1>1, <1>4, <2>2 DEF EventsFit
    <2>3. ASSUME NEW d \in Events, NEW q \in Runs, HasRead(d, q)'
          PROVE  TooShort(d, q)'
      <3>1. CASE d = e
        <4>1. born[q] <= 0
          BY <1>1, <1>2, <1>4, <2>3, <3>1 DEF HasRead
        <4>2. ~Running(q)
          BY <1>1, <4>1 DEF RunFits, TypeOK
        <4> QED
          BY <1>1, <4>2 DEF RunFits, WaitIsOpen, TooShort
      <3>2. CASE d # e
        BY <1>1, <1>4, <2>3, <3>2 DEF EventsFit, HasRead, TooShort
      <3> QED
        BY <3>1, <3>2
    <2> QED
      BY <2>1, <2>2, <2>3 DEF EventsFit
  <1> QED
    BY <1>1, <1>5, <1>6, <1>7, <1>8 DEF AutomationsInv

\* A step that touches no run, and no event but to drop it.
LEMMA RunsStay ==
    ASSUME AutomationsInv, TypeOK', now <= now',
           event' = event \/ \E e \in Events : DispatchDrop(e),
           UNCHANGED <<run, creation, record, flow, mail, effects>>
    PROVE  AutomationsInv' /\ (\A q \in Runs : EndedKept(q)) /\ effects' = effects
  <1>1. /\ TypeOK /\ EventsFit /\ \A q \in Runs : RunFits(q)
        /\ UNCHANGED <<run, born, births, record, flow, mail, effects>>
    BY DEF AutomationsInv, creation
  <1>2. \A q \in Runs : RunFits(q)'
    BY <1>1 DEF RunFits, UnbornIsNothing, WaitIsOpen, StepsFit, Running, PastOrAt
  <1>3. \A q \in Runs : EndedKept(q)
    BY <1>1 DEF EndedKept, RunFits, WaitIsOpen, StepsFit, Running, Ended
  <1>4. \A q \in Runs : WaitKept(q) /\ born'[q] = born[q]
    BY <1>1 DEF WaitKept
  <1>5. EventsFit'
    <2>1. CASE event' = event
      BY <1>1, <1>4, <2>1, EventsStay
    <2>2. ASSUME NEW e \in Events, DispatchDrop(e)
          PROVE  EventsFit'
      <3> DEFINE x == [event[e] EXCEPT !.phase = "dropped"]
      <3>1. x.phase = "dropped" /\ x.at = event[e].at
        BY <1>1 DEF TypeOK, EventRow
      <3>2. event' = [event EXCEPT ![e] = x]
        BY <2>2 DEF DispatchDrop
      <3> HIDE DEF x
      <3>3. event'[e] = x /\ \A d \in Events \ {e} : event'[d] = event[d]
        BY <1>1, <3>2 DEF TypeOK
      <3>4. \A d \in Events : /\ event'[d].at = event[d].at
                              /\ event[d].phase # "none" => event'[d].phase # "none"
        BY <3>1, <3>3
      <3>5. \A d \in Events, r \in Runs : HasRead(d, r)' => HasRead(d, r)
        BY <1>4, <3>1, <3>3 DEF HasRead
      <3>6. EventsKept
        BY <1>4, <3>4, <3>5 DEF EventsKept
      <3> QED
        BY <1>1, <3>6, EventsAreKept
    <2> QED
      BY <2>1, <2>2
  <1> QED
    BY <1>1, <1>2, <1>3, <1>5 DEF AutomationsInv

\* The step leaves every run, and the events but for one that is dropped.
Aside ==
    \/ DeleteContact \/ Retire \/ Tick
    \/ \E e \in Events : DispatchDrop(e)
    \/ \E a \in Automations :
          \/ SetStatus(a) \/ RemoveAutomation(a) \/ CleanAutomation(a)
          \/ Purge(a) /\ automation' # automation

LEMMA AsideFits ==
    ASSUME AutomationsInv, Aside
    PROVE  AutomationsInv' /\ (\A q \in Runs : EndedKept(q)) /\ effects' = effects
  <1>1. /\ TypeOK /\ now \in Time /\ moves \in 0..MaxMoves /\ MaxMoves \in Nat /\ MaxTime \in Nat
    BY AutomationsAssumption DEF AutomationsInv, TypeOK
  <1>2. UNCHANGED <<run, creation, record, timeouts, flow, mail, effects>>
    BY DEF Aside, DeleteContact, Retire, Tick, DispatchDrop, SetStatus, RemoveAutomation,
           CleanAutomation, Purge
  <1>3. moves' \in 0..MaxMoves
    <2>1. moves' = moves \/ Move
      BY DEF Aside, DeleteContact, Retire, Tick, DispatchDrop, SetStatus, RemoveAutomation,
             CleanAutomation, Purge
    <2> QED
      BY <1>1, <2>1 DEF Move
  <1>4. now' \in Time /\ now <= now'
    <2>1. now' = now \/ Tick
      BY DEF Aside, DeleteContact, Retire, DispatchDrop, SetStatus, RemoveAutomation,
             CleanAutomation, Purge
    <2> QED
      BY <1>1, <2>1 DEF Tick, Time
  <1>5. contact' \in BOOLEAN /\ retired' \in BOOLEAN
    BY <1>1 DEF TypeOK, Aside, DeleteContact, Retire, Tick, DispatchDrop, SetStatus,
                RemoveAutomation, CleanAutomation, Purge
  <1>6. event' \in [Events -> EventRow] /\ (event' = event \/ \E e \in Events : DispatchDrop(e))
    <2>1. CASE event' = event
      BY <1>1, <2>1 DEF TypeOK
    <2>2. ASSUME NEW e \in Events, DispatchDrop(e)
          PROVE  event' \in [Events -> EventRow]
      <3>1. [event[e] EXCEPT !.phase = "dropped"] \in EventRow
        BY <1>1 DEF TypeOK, EventRow
      <3> QED
        BY <1>1, <2>2, <3>1 DEF DispatchDrop, TypeOK
    <2>3. event' = event \/ \E e \in Events : DispatchDrop(e)
      BY DEF Aside, DeleteContact, Retire, Tick, SetStatus, RemoveAutomation, CleanAutomation,
             Purge
    <2> QED
      BY <2>1, <2>2, <2>3
  <1>7. automation' \in [Automations -> AutomationRow]
    <2>1. CASE automation' = automation
      BY <1>1, <2>1 DEF TypeOK
    <2>2. ASSUME NEW a \in Automations, NEW x \in AutomationRow,
                 automation' = [automation EXCEPT ![a] = x]
          PROVE  automation' \in [Automations -> AutomationRow]
      BY <1>1, <2>2 DEF TypeOK
    <2>3. ASSUME NEW a \in Automations, SetStatus(a)
          PROVE  \E x \in AutomationRow : automation' = [automation EXCEPT ![a] = x]
      <3> DEFINE off == [automation[a] EXCEPT !.status = "disabled"]
                 on == [automation[a] EXCEPT !.status = "enabled", !.enabledAt = now]
      <3>1. automation[a] \in AutomationRow
        BY <1>1 DEF TypeOK
      <3>2. off \in AutomationRow /\ on \in AutomationRow
        BY <1>1, <3>1 DEF AutomationRow
      <3>3. automation' = [automation EXCEPT ![a] = IF automation[a].status = "enabled" THEN off
                                                    ELSE on]
        BY <2>3 DEF SetStatus
      <3> HIDE DEF off, on
      <3> QED
        BY <3>2, <3>3
    <2>4. ASSUME NEW a \in Automations, RemoveAutomation(a)
          PROVE  \E x \in AutomationRow : automation' = [automation EXCEPT ![a] = x]
      <3> DEFINE x == [automation[a] EXCEPT !.deleted = TRUE, !.status = "disabled"]
      <3>1. x \in AutomationRow
        BY <1>1 DEF TypeOK, AutomationRow
      <3>2. automation' = [automation EXCEPT ![a] = x]
        BY <2>4 DEF RemoveAutomation
      <3> HIDE DEF x
      <3> QED
        BY <3>1, <3>2
    <2>5. ASSUME NEW a \in Automations, CleanAutomation(a)
          PROVE  \E x \in AutomationRow : automation' = [automation EXCEPT ![a] = x]
      <3> DEFINE x == [automation[a] EXCEPT !.deleted = TRUE, !.gone = TRUE,
                                            !.status = "disabled"]
      <3>1. x \in AutomationRow
        BY <1>1 DEF TypeOK, AutomationRow
      <3>2. automation' = [automation EXCEPT ![a] = x]
        BY <2>5 DEF CleanAutomation
      <3> HIDE DEF x
      <3> QED
        BY <3>1, <3>2
    <2>6. ASSUME NEW a \in Automations, Purge(a), automation' # automation
          PROVE  \E x \in AutomationRow : automation' = [automation EXCEPT ![a] = x]
      <3> DEFINE x == [automation[a] EXCEPT !.gone = TRUE]
      <3>1. x \in AutomationRow
        BY <1>1 DEF TypeOK, AutomationRow
      <3>2. automation' = [automation EXCEPT ![a] = x]
        BY <2>6 DEF Purge
      <3> HIDE DEF x
      <3> QED
        BY <3>1, <3>2
    <2>7. \/ automation' = automation
          \/ \E a \in Automations : \/ SetStatus(a) \/ RemoveAutomation(a) \/ CleanAutomation(a)
                                    \/ Purge(a) /\ automation' # automation
      BY DEF Aside, DeleteContact, Retire, Tick, DispatchDrop
    <2> QED
      BY <2>1, <2>2, <2>3, <2>4, <2>5, <2>6, <2>7
  <1>8. TypeOK'
    BY <1>1, <1>2, <1>3, <1>4, <1>5, <1>6, <1>7 DEF TypeOK, creation
  <1> QED
    BY <1>2, <1>4, <1>6, <1>8, RunsStay

(***************************************************************************)
(* The theorems.                                                           *)
(***************************************************************************)
LEMMA AutomationsInit ==
    ASSUME Init
    PROVE  AutomationsInv
  <1>1. 0 \in Time /\ 0 \in 0..MaxRuns /\ 0 \in 0..MaxMoves
    BY AutomationsAssumption DEF Time
  <1>2. NoRun \in RunRow /\ NoRun.status = "none" /\ NoRun.key = NoKey /\ NoRun.last = NoEvent
    BY <1>1 DEF NoRun, RunRow
  <1>3. NoFlow \in Flow /\ NoFlow.stage = "none"
    BY DEF NoFlow, Flow
  <1>4. NoStep \in Step /\ NoStep.status = "none"
    BY DEF NoStep, Step, StepStatus
  <1>5. TypeOK
    <2>1. /\ now \in Time /\ contact \in BOOLEAN /\ retired \in BOOLEAN
          /\ automation \in [Automations -> AutomationRow] /\ event \in [Events -> EventRow]
      BY <1>1 DEF Init, AutomationRow, EventRow
    <2>2. /\ run \in [Runs -> RunRow] /\ born \in [Runs -> Nat] /\ births \in 0..MaxRuns
          /\ timeouts \subseteq [run : Runs, key : Keys, at : Time]
          /\ flow \in [Runs -> Flow] /\ moves \in 0..MaxMoves
      BY <1>1, <1>2, <1>3 DEF Init
    <2>3. /\ record \in [Runs -> [Keys -> [status : StepStatus, met : BOOLEAN]]]
          /\ mail \in [Runs -> [Keys -> Seq(Answers)]] /\ effects \in [Runs -> [Keys -> Nat]]
      BY <1>4 DEF Init, Step
    <2> QED
      BY <2>1, <2>2, <2>3 DEF TypeOK
  <1>6. ASSUME NEW r \in Runs
        PROVE  RunFits(r)
    <2>1. /\ run[r].status = "none" /\ run[r].key = NoKey /\ run[r].last = NoEvent
          /\ flow[r].stage = "none" /\ born[r] = 0
          /\ \A k \in Keys : record[r][k].status = "none" /\ mail[r][k] = <<>>
                             /\ effects[r][k] = 0
      BY <1>2, <1>3, <1>4 DEF Init
    <2>2. \A k \in Keys : Len(mail[r][k]) <= 1
      BY <2>1
    <2> QED
      BY <2>1, <2>2 DEF RunFits, UnbornIsNothing, WaitIsOpen, StepsFit, Running, Walking
  <1>7. EventsFit
    <2>1. NoEvent \notin Events
      BY AutomationsAssumption DEF NoEvent, Events
    <2>2. /\ \A e \in Events : event[e].at = 0 /\ event[e].phase = "none"
          /\ \A r \in Runs : run[r].last = NoEvent /\ run[r].key = NoKey
          /\ now = 0
      BY <1>2 DEF Init
    <2> QED
      BY <2>1, <2>2 DEF EventsFit, HasRead
  <1> QED
    BY <1>5, <1>6, <1>7 DEF AutomationsInv

LEMMA AutomationsStep ==
    ASSUME AutomationsInv, Next
    PROVE  AutomationsInv' /\ (\A q \in Runs : EndedKept(q)) /\ EffectsKept
  <1>1. effects' = effects => EffectsKept
    BY DEF EffectsKept
  <1>2. ASSUME NEW a \in Automations, Users(a) \/ Purge(a) \/ CleanAutomation(a)
        PROVE  AutomationsInv' /\ (\A q \in Runs : EndedKept(q)) /\ effects' = effects
    <2>1. CASE Test(a)
      BY <2>1, TestFits
    <2>2. CASE Purge(a) /\ automation' = automation
      BY <2>2, GoingFits
    <2>3. CASE SetStatus(a) \/ RemoveAutomation(a) \/ CleanAutomation(a)
               \/ (Purge(a) /\ automation' # automation)
      BY <2>3, AsideFits DEF Aside
    <2> QED
      BY <1>2, <2>1, <2>2, <2>3 DEF Users
  <1>3. ASSUME NEW r \in Runs, PerformFenced(r) \/ PerformRepeated(r) \/ Wake(r) \/ Deliver(r)
                               \/ LetGo(r) \/ Abandon(r)
        PROVE  AutomationsInv' /\ (\A q \in Runs : EndedKept(q)) /\ effects' = effects
    <2>1. effects' = effects
      BY <1>3 DEF PerformFenced, PerformRepeated, Wake, Deliver, LetGo, Abandon
    <2> QED
      BY <1>3, <2>1, PerformFencedFits, PerformRepeatedFits, WakeFits, DeliverFits, LettingGoFits
  <1>4. ASSUME NEW r \in Runs, PerformWait(r) \/ PerformDelay(r) \/ PerformThrows(r)
                               \/ FinishWait(r) \/ Completed(r)
        PROVE  AutomationsInv' /\ (\A q \in Runs : EndedKept(q)) /\ effects' = effects
    BY <1>4, PerformWaitFits, PerformDelayFits, PerformThrowsFits, FinishWaitFits, CompletedFits
  <1>5. ASSUME NEW r \in Runs, PerformEffect(r)
        PROVE  AutomationsInv' /\ (\A q \in Runs : EndedKept(q)) /\ EffectsKept
    BY <1>5, PerformEffectFits
  <1>6. ASSUME NEW r \in Runs, CancelRun(r) \/ Timeout(r) \/ Forget(r) \/ CleanRun(r)
        PROVE  AutomationsInv' /\ (\A q \in Runs : EndedKept(q)) /\ effects' = effects
    BY <1>6, CancelRunFits, TimeoutFits, GoingFits
  <1>7. ASSUME NEW e \in Events, Emit(e) \/ DispatchWaits(e) \/ DispatchStarts(e)
        PROVE  AutomationsInv' /\ (\A q \in Runs : EndedKept(q)) /\ effects' = effects
    BY <1>7, EmitFits, DispatchWaitsFits, DispatchStartsFits
  <1>8. CASE DeleteContact \/ Retire \/ Tick \/ \E e \in Events : DispatchDrop(e)
    BY <1>1, <1>8, AsideFits DEF Aside
  <1> QED
    BY <1>1, <1>2, <1>3, <1>4, <1>5, <1>6, <1>7, <1>8 DEF Next, Engine, Scheduler

\* The inductive invariant holds always: of each run, its row, its steps, its workflow and
\* its mail agree, and no dispatch has passed over a wait (automationRuntime.ts).
THEOREM AutomationsInvariant == Spec => []AutomationsInv
  <1>1. ASSUME AutomationsInv, UNCHANGED vars
        PROVE  AutomationsInv'
    <2>1. /\ TypeOK /\ TypeOK'
      BY <1>1 DEF AutomationsInv, TypeOK, vars, creation
    <2>2. now <= now' /\ UNCHANGED <<event, run, creation, record, flow, mail, effects>>
      BY <1>1, <2>1 DEF TypeOK, Time, vars
    <2> QED
      BY <1>1, <2>1, <2>2, RunsStay
  <1>2. AutomationsInv /\ [Next]_vars => AutomationsInv'
    BY <1>1, AutomationsStep
  <1> QED
    BY <1>2, AutomationsInit, PTL DEF Spec

\* Types: whatever users, the dispatches and the workflows do.
THEOREM AutomationsTypeCorrect == Spec => []TypeOK
  <1>1. AutomationsInv => TypeOK
    BY DEF AutomationsInv
  <1> QED
    BY <1>1, AutomationsInvariant, PTL

\* Every wait is answered at most once and is over then, and no wait that had time for an
\* event is passed over by its dispatch (dispatch, signal, timeout, stopRun).
THEOREM WaitsAnsweredAlways == Spec => []WaitsAnswered
  <1>1. ASSUME AutomationsInv
        PROVE  AnsweredOnce
    <2> SUFFICES ASSUME NEW r \in Runs, NEW k \in Keys
                 PROVE  /\ Len(mail[r][k]) <= 1
                        /\ mail[r][k] # <<>> => run[r].key # k
                        /\ run[r].key = k => Running(r) /\ record[r][k].status = "running"
      BY DEF AnsweredOnce
    <2>1. RunFits(r) /\ k # NoKey
      BY <1>1, AutomationsAssumption DEF AutomationsInv
    <2> QED
      BY <2>1 DEF RunFits, WaitIsOpen, StepsFit
  <1>2. ASSUME AutomationsInv
        PROVE  NobodyPassedOver
    <2>1. \A e \in Events, r \in Runs : HasRead(e, r) => TooShort(e, r)
      BY <1>2 DEF AutomationsInv, EventsFit
    <2>2. \A e \in Events, r \in Runs : event[e].at \in Nat /\ run[r].until \in Nat
      BY <1>2 DEF AutomationsInv, TypeOK, EventRow, RunRow, Time
    <2>3. \A e \in Events, r \in Runs :
             run[r].until < event[e].at => event[e].at > run[r].until
      BY <2>2
    <2> QED
      BY <2>1, <2>3 DEF NobodyPassedOver, HasRead, TooShort
  <1>3. AutomationsInv => WaitsAnswered
    BY <1>1, <1>2 DEF WaitsAnswered
  <1> QED
    BY <1>3, AutomationsInvariant, PTL

\* A step takes effect at most once, and only while its run, its automation and its team are
\* there, however often the component repeats it (perform).
THEOREM EffectsOnceAndFencedAlways == Spec => EffectsOnceAndFenced
  <1> DEFINE A == effects' # effects =>
                    \A r \in Runs, k \in Keys :
                      effects'[r][k] # effects[r][k] =>
                        effects[r][k] = 0 /\ Running(r) /\ ~automation[r[1]].deleted /\ ~retired
  <1>1. AutomationsInv /\ [Next]_vars => [A]_vars
    BY AutomationsStep DEF EffectsKept
  <1>2. Spec => [][A]_vars
    BY <1>1, AutomationsInvariant, PTL DEF Spec
  <1> QED
    BY <1>2 DEF EffectsOnceAndFenced

\* A run that ended keeps its verdict, waits for nothing and leaves no step running, whatever
\* comes to it later (completed, stopRun, signal).
THEOREM EndedStaysEndedAlways == Spec => EndedStaysEnded
  <1> DEFINE A == \A r \in Runs : run[r].status \in Ended =>
                    /\ run'[r].status \in {run[r].status, "gone"}
                    /\ run'[r].key = NoKey
                    /\ \A k \in Keys : record'[r][k].status # "running"
  <1>1. AutomationsInv /\ [Next]_vars => [A]_vars
    BY AutomationsStep DEF EndedKept
  <1>2. Spec => [][A]_vars
    BY <1>1, AutomationsInvariant, PTL DEF Spec
  <1> QED
    BY <1>2 DEF EndedStaysEnded

=============================================================================
