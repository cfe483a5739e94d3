---------------------------- MODULE EmailsProofs ----------------------------
(***************************************************************************)
(* Theorems about the send pipeline of Emails, for any number of emails,   *)
(* addresses, retries and repeated SDK requests: its rows and runs keep    *)
(* their types; SES accepts an email once, from the inductive invariant    *)
(* SendInv; the send rate is charged once and every email is carried once, *)
(* from ChargedInv and CarriedInv.                                         *)
(***************************************************************************)
EXTENDS Emails, TLAPS

(***************************************************************************)
(* The shared writes keep a row a row.                                     *)
(***************************************************************************)
LEMMA FreshRow ==
    ASSUME NEW s \in Status
    PROVE  Fresh(s) \in Row
  BY DEF Fresh, Row

LEMMA SettledRow ==
    ASSUME NEW r \in Row, NEW s \in Status
    PROVE  SettledAs(r, s) \in Row
  BY DEF SettledAs, Row

LEMMA SuppressedRow ==
    ASSUME NEW r \in Row
    PROVE  SuppressedAs(r) \in Row
  BY DEF SuppressedAs, Row, Status

LEMMA ClaimedRow ==
    ASSUME NEW r \in Row, NEW d \in SUBSET Addresses
    PROVE  ClaimedAs(r, d) \in Row
  <1> DEFINE list == IF d = {} THEN r.dropped ELSE d
             n == r.attempts + 1
  <1>1. list \in SUBSET Addresses /\ n \in Nat
    BY DEF Row
  <1>2. ClaimedAs(r, d) = [r EXCEPT !.claimed = TRUE, !.rate = FALSE,
                                    !.attempts = n, !.dropped = list]
    BY DEF ClaimedAs
  <1> HIDE DEF list, n
  <1> QED
    BY <1>1, <1>2 DEF Row

\* What RecordRetry makes of a row.
LEMMA RetriedRow ==
    ASSUME NEW r \in Row
    PROVE  [r EXCEPT !.gen = @ + 1, !.claimed = FALSE] \in Row
  <1> DEFINE n == r.gen + 1
  <1>1. n \in Nat
    BY DEF Row
  <1>2. [r EXCEPT !.gen = @ + 1, !.claimed = FALSE] =
          [r EXCEPT !.gen = n, !.claimed = FALSE]
    OBVIOUS
  <1> HIDE DEF n
  <1> QED
    BY <1>1, <1>2 DEF Row

LEMMA RequestingRun ==
    ASSUME NEW r \in Run, NEW m \in Nat
    PROVE  Requesting(r, m) \in Run
  <1> DEFINE n == r.tries + 1
  <1>1. n \in Nat
    BY DEF Run
  <1>2. Requesting(r, m) =
          [r EXCEPT !.phase = "waiting", !.tries = n, !.msg = m]
    BY DEF Requesting
  <1> HIDE DEF n
  <1> QED
    BY <1>1, <1>2 DEF Run, Phase

LEMMA HoldingRun ==
    ASSUME NEW r \in Run, NEW to \in SUBSET Addresses
    PROVE  Holding(r, to) \in Run
  BY DEF Holding, Run, Phase

LEMMA AcceptedRow ==
    ASSUME NEW r \in Row, NEW m \in Nat
    PROVE  AcceptedAs(r, m) \in Row
  BY DEF AcceptedAs, Row, Status, Pending

\* Enqueue adds one run, of the current count plus one.
LEMMA EnqueueType ==
    ASSUME TypeOK, NEW others \in SUBSET Run, NEW e \in Emails, NEW g \in Nat,
           Enqueue(others, e, g)
    PROVE  runs' \in SUBSET Run /\ enqueued' \in [Emails -> Nat]
  BY DEF TypeOK, Enqueue, NewRun, Run, Phase

LEMMA BecomeType ==
    ASSUME NEW R, R \subseteq Run, NEW r \in R, NEW p \in Phase
    PROVE  (R \ {r}) \cup {[r EXCEPT !.phase = p]} \in SUBSET Run
  BY DEF Run

(***************************************************************************)
(* Type correctness: every action writes values of the declared types.     *)
(***************************************************************************)
LEMMA TypeInit == Init => TypeOK
  <1> SUFFICES ASSUME Init PROVE TypeOK
    OBVIOUS
  <1>1. Fresh("queued") \in Row
    BY FreshRow DEF Status
  <1> QED
    BY <1>1 DEF Init, TypeOK

LEMMA TypeUser ==
    ASSUME TypeOK, NEW e \in Emails,
           UserStep(e) \/ Prune(e) \/ PurgeEmail(e)
    PROVE  TypeOK'
  <1>1. CASE CreateNow(e)
    <2>1. Fresh("queued") \in Row
      BY FreshRow DEF Status
    <2>2. runs' \in SUBSET Run /\ enqueued' \in [Emails -> Nat]
      BY <1>1, EnqueueType DEF CreateNow, TypeOK
    <2> QED
      BY <1>1, <2>1, <2>2 DEF CreateNow, TypeOK, ses, team, history
  <1>2. CASE CreateScheduled(e)
    <2>1. Fresh("scheduled") \in Row
      BY FreshRow DEF Status
    <2> QED
      BY <1>2, <2>1 DEF CreateScheduled, TypeOK, pool, ses, team, history, Job
  <1>3. CASE CancelEmail(e)
    <2>1. row' \in [Emails -> Row]
      BY SMTT(30), <1>3 DEF CancelEmail, TypeOK, Row, Status
    <2> QED
      BY <1>3, <2>1 DEF CancelEmail, OtherJobs, TypeOK, pool, ses, team, history
  <1>4. CASE RescheduleEmail(e)
    <2>1. row' \in [Emails -> Row] /\ row[e].gen + 1 \in Nat
      BY SMTT(30), <1>4 DEF RescheduleEmail, TypeOK, Row
    <2> QED
      BY <1>4, <2>1 DEF RescheduleEmail, OtherJobs, TypeOK, pool, ses, team,
                        history, Job
  <1>5. CASE Prune(e) \/ PurgeEmail(e)
    BY <1>5 DEF Prune, PurgeEmail, Erase, TypeOK, pool, ses, team, history
  <1> QED
    BY <1>1, <1>2, <1>3, <1>4, <1>5 DEF UserStep

LEMMA TypeRelease ==
    ASSUME TypeOK, NEW j \in jobs, Release(j)
    PROVE  TypeOK'
  <1>0. j.email \in Emails /\ j.gen \in Nat
    BY DEF TypeOK, Job
  <1> DEFINE goes == /\ j.email \in emails
                     /\ row[j.email].status = "scheduled"
                     /\ row[j.email].gen = j.gen
                     /\ ~Retired(j.email)
  <1>1. CASE goes
    <2>1. row' \in [Emails -> Row]
      <3>1. [row[j.email] EXCEPT !.status = "queued"] \in Row
        BY <1>0 DEF TypeOK, Row, Status
      <3> QED
        BY <1>0, <1>1, <3>1 DEF Release, TypeOK
    <2>2. runs' \in SUBSET Run /\ enqueued' \in [Emails -> Nat]
      BY <1>0, <1>1, EnqueueType DEF Release, TypeOK
    <2> QED
      BY <1>1, <2>1, <2>2 DEF Release, TypeOK, ses, team, history
  <1>2. CASE ~goes
    BY <1>2 DEF Release, TypeOK, pool, ses, team, history
  <1> QED
    BY <1>1, <1>2

LEMMA TypeSettle ==
    ASSUME TypeOK, NEW e \in Emails, NEW s \in Status, Settle(e, s)
    PROVE  /\ row' \in [Emails -> Row]
           /\ content' \subseteq emails
           /\ sentEntries' \in [Emails -> Nat]
  <1>1. SettledAs(row[e], s) \in Row
    BY SettledRow DEF TypeOK
  <1> QED
    BY <1>1 DEF Settle, DropSecret, TypeOK

LEMMA TypeAccept ==
    ASSUME TypeOK, NEW e \in Emails, NEW m \in Nat, Accept(e, m)
    PROVE  /\ row' \in [Emails -> Row]
           /\ content' \subseteq emails
           /\ sentEntries' \in [Emails -> Nat]
  <1>1. AcceptedAs(row[e], m) \in Row
    BY AcceptedRow DEF TypeOK
  <1> QED
    BY <1>1 DEF Accept, DropSecret, TypeOK

LEMMA TypeClaim ==
    ASSUME TypeOK, NEW r \in runs, ClaimStep(r)
    PROVE  TypeOK'
  <1>0. /\ r \in Run /\ r.email \in Emails /\ r.gen \in Nat
        /\ runs \subseteq Run
        /\ row[r.email] \in Row
        /\ "returning" \in Phase /\ "claimed" \in Phase
    BY DEF TypeOK, Run, Phase
  <1>1. Become(r, "returning") \in SUBSET Run
    BY <1>0, BecomeType DEF Become
  <1>2. CASE ClaimStale(r)
    BY <1>1, <1>2 DEF ClaimStale, Advance, TypeOK, table, ses, team, history
  <1>3. CASE ClaimFailed(r)
    <2>1. /\ row' \in [Emails -> Row]
          /\ content' \subseteq emails
          /\ sentEntries' \in [Emails -> Nat]
      BY <1>0, <1>3, TypeSettle DEF ClaimFailed, Status
    <2> QED
      BY <1>1, <1>3, <2>1 DEF ClaimFailed, Advance, TypeOK, ses, team, history
  <1>5. CASE ClaimUnsubscribed(r) \/ ClaimSuppressed(r)
    <2>1. SuppressedAs(row[r.email]) \in Row
      BY <1>0, SuppressedRow
    <2>2. row' \in [Emails -> Row]
      BY <1>0, <1>5, <2>1 DEF ClaimUnsubscribed, ClaimSuppressed, TypeOK
    <2> QED
      BY <1>1, <1>5, <2>2 DEF ClaimUnsubscribed, ClaimSuppressed, Advance, TypeOK,
                              ses, team, history
  <1>6. CASE ClaimDeferred(r)
    <2>1. row' \in [Emails -> Row]
      BY <1>0, <1>6 DEF ClaimDeferred, TypeOK, Row
    <2>2. runs' \in SUBSET Run /\ enqueued' \in [Emails -> Nat]
      BY <1>0, <1>1, <1>6, EnqueueType DEF ClaimDeferred
    <2>3. charges' \in [Emails -> Nat]
      BY <1>0, <1>6 DEF ClaimDeferred, TypeOK
    <2> QED
      BY <1>6, <2>1, <2>2, <2>3 DEF ClaimDeferred, TypeOK, ses, team
  <1>7. CASE ClaimTaken(r)
    <2>1. PICK opted \in OptedOut(r.email) :
            LET dropped == Barred(r.email) \cup opted
            IN  /\ dropped # Addresses
                /\ row' = [row EXCEPT ![r.email] = ClaimedAs(@, dropped)]
                /\ runs' = (runs \ {r}) \cup {Holding(r, Addresses \ dropped)}
      BY <1>7 DEF ClaimTaken
    <2> DEFINE dropped == Barred(r.email) \cup opted
    <2>2. dropped \in SUBSET Addresses
      BY DEF OptedOut, Barred, TypeOK
    <2>3. Holding(r, Addresses \ dropped) \in Run
      BY <1>0, HoldingRun
    <2>4. runs' \in SUBSET Run
      BY <1>0, <2>1, <2>3
    <2>5. ClaimedAs(row[r.email], dropped) \in Row
      BY <1>0, <2>2, ClaimedRow
    <2>6. row' \in [Emails -> Row]
      BY <1>0, <2>1, <2>5 DEF TypeOK
    <2>7. claims' \in [Emails -> Nat] /\ charges' \in [Emails -> Nat]
      BY <1>0, <1>7 DEF ClaimTaken, TypeOK
    <2> QED
      BY <1>7, <2>4, <2>6, <2>7 DEF ClaimTaken, TypeOK, ses, team
  <1> QED
    BY <1>2, <1>3, <1>5, <1>6, <1>7 DEF ClaimStep

LEMMA TypeSend ==
    ASSUME TypeOK, NEW r \in runs,
           FailEarly(r) \/ Submit(r) \/ Timeout(r) \/ Return(r) \/ Crash(r)
    PROVE  TypeOK'
  <1>0. /\ r \in Run /\ r.email \in Emails /\ r.to \subseteq Addresses
        /\ r.id \in Nat /\ r.tries \in Nat
        /\ runs \subseteq Run
    BY DEF TypeOK, Run
  <1>1. CASE FailEarly(r) \/ Timeout(r) \/ Crash(r)
    <2>1. PICK p \in Phase : Advance(r, p)
      BY <1>1 DEF FailEarly, Timeout, Crash, Phase
    <2>2. runs' \in SUBSET Run
      BY <1>0, <2>1, BecomeType DEF Advance, Become
    <2> QED
      BY <1>1, <2>1, <2>2 DEF FailEarly, Timeout, Crash, Advance, TypeOK, table, ses,
                              team, history
  <1>2. CASE Submit(r)
    <2> DEFINE m == requests[r.email] + 1
    <2>1. m \in Nat
      BY <1>0 DEF TypeOK
    <2>2. Requesting(r, m) \in Run
      BY <1>0, <2>1, RequestingRun
    <2>3. [run |-> r.id, email |-> r.email, msg |-> m, to |-> r.to] \in Request
      BY <1>0, <2>1 DEF Request
    <2>4. runs' \in SUBSET Run /\ wire' \in SUBSET Request
      BY <1>0, <1>2, <2>2, <2>3 DEF Submit, TypeOK
    <2>5. requests' \in [Emails -> Nat] /\ sdkRetried' \in SUBSET Emails
      BY <1>0, <1>2, <2>1 DEF Submit, TypeOK
    <2> QED
      BY <1>2, <2>4, <2>5 DEF Submit, TypeOK, table, team
  <1>3. CASE Return(r)
    BY <1>0, <1>3 DEF Return, TypeOK, table, ses, team, history
  <1> QED
    BY <1>1, <1>2, <1>3

LEMMA TypeSes ==
    ASSUME TypeOK, NEW q \in wire, SesStep(q)
    PROVE  TypeOK'
  <1>0. /\ q \in Request /\ q.email \in Emails /\ q.msg \in Nat
        /\ q.to \subseteq Addresses
        /\ runs \subseteq Run
    BY DEF TypeOK, Request
  <1>1. Taken(q) \in Message
    BY <1>0 DEF Taken, Message
  <1>2. CASE SesAccepts(q)
    BY <1>1, <1>2 DEF SesAccepts, TypeOK, table, pool, team, history
  <1>3. CASE SesDrops(q)
    BY <1>3 DEF SesDrops, TypeOK, table, pool, team, history
  <1>4. ASSUME NEW r \in runs, SesAnswersAccepted(q, r)
        PROVE  TypeOK'
    <2>1. runs' \in SUBSET Run
      BY <1>0, <1>4, BecomeType DEF SesAnswersAccepted, Advance, Become, Phase
    <2> QED
      BY <1>1, <1>4, <2>1 DEF SesAnswersAccepted, Advance, TypeOK, table, team, history
  <1>5. ASSUME NEW r \in runs, NEW answer \in {"throttled", "failed"},
               SesAnswersRefused(q, r, answer)
        PROVE  TypeOK'
    <2>1. runs' \in SUBSET Run
      BY <1>0, <1>5, BecomeType DEF SesAnswersRefused, Advance, Become, Phase
    <2> QED
      BY <1>5, <2>1 DEF SesAnswersRefused, Advance, TypeOK, table, team, history
  <1> QED
    BY <1>2, <1>3, <1>4, <1>5 DEF SesStep

LEMMA TypeRecord ==
    ASSUME TypeOK, NEW r \in runs,
           RecordSent(r) \/ RecordRetry(r) \/ RecordFailed(r) \/ DeliverDone(r)
    PROVE  TypeOK'
  <1>0. /\ r \in Run /\ r.email \in Emails /\ r.gen \in Nat /\ r.msg \in Nat
        /\ runs \subseteq Run
        /\ row[r.email] \in Row
        /\ "returning" \in Phase
    BY DEF TypeOK, Run, Phase
  <1>1. Become(r, "returning") \in SUBSET Run
    BY <1>0, BecomeType DEF Become
  <1> DEFINE stays == /\ row' \in [Emails -> Row]
                      /\ content' \subseteq emails
                      /\ sentEntries' \in [Emails -> Nat]
  <1>2. Keep => stays
    BY DEF Keep, TypeOK
  <1>3. CASE RecordSent(r)
    <2>1. stays
      BY <1>0, <1>2, <1>3, TypeAccept DEF RecordSent
    <2> QED
      BY <1>1, <1>3, <2>1 DEF RecordSent, Advance, TypeOK, ses, team, history
  <1>4. CASE RecordRetry(r)
    <2> DEFINE tried == [row[r.email] EXCEPT !.gen = @ + 1, !.claimed = FALSE]
    <2>0. tried \in Row
      BY <1>0, RetriedRow
    <2>1. row' \in [Emails -> Row]
      <3>1. row' = [row EXCEPT ![r.email] = tried]
        BY <1>4, <1>0 DEF RecordRetry, TypeOK
      <3> QED
        BY <2>0, <3>1 DEF TypeOK
    <2>2. runs' \in SUBSET Run /\ enqueued' \in [Emails -> Nat]
      BY <1>0, <1>1, <1>4, EnqueueType DEF RecordRetry
    <2> QED
      BY <1>4, <2>1, <2>2 DEF RecordRetry, TypeOK, ses, team, history
  <1>5. CASE RecordFailed(r)
    <2>1. stays
      BY <1>0, <1>2, <1>5, TypeSettle DEF RecordFailed, Status
    <2> QED
      BY <1>1, <1>5, <2>1 DEF RecordFailed, Advance, TypeOK, ses, team, history
  <1>6. CASE DeliverDone(r)
    <2>1. Attempted(r) \in Row
      BY <1>0 DEF Attempted, Row
    <2>2. SettledAs(Attempted(r), "failed") \in Row
      BY <2>1, SettledRow DEF Status
    <2>3. row' \in [Emails -> Row] /\ content' \subseteq emails
      BY <1>0, <1>6, <2>1, <2>2 DEF DeliverDone, DropSecret, TypeOK
    <2> QED
      BY <1>0, <1>6, <2>3 DEF DeliverDone, TypeOK, ses, team, history
  <1> QED
    BY <1>3, <1>4, <1>5, <1>6

LEMMA TypeTeam ==
    ASSUME TypeOK, TeamStep
    PROVE  TypeOK'
  BY DEF TeamStep, RetireTeam, AddSuppression, RemoveSuppression, TypeOK, table,
         pool, ses, history

LEMMA TypeNext == TypeOK /\ [Next]_vars => TypeOK'
  <1> SUFFICES ASSUME TypeOK, [Next]_vars PROVE TypeOK'
    OBVIOUS
  <1>1. ASSUME NEW r \in runs, RunStep(r) \/ Crash(r) PROVE TypeOK'
    BY <1>1, TypeClaim, TypeSend, TypeRecord DEF RunStep
  <1>2. CASE UNCHANGED vars
    BY <1>2 DEF vars, TypeOK, table, pool, ses, team, history
  <1> QED
    BY <1>1, <1>2, TypeUser, TypeRelease, TypeSes, TypeTeam DEF Next

\* Every reachable state is well typed: the table, the pool's runs, the
\* scheduled jobs and what SES holds never leave their declared shapes.
THEOREM TypeCorrect == Spec => []TypeOK
  <1> QED
    BY TypeInit, TypeNext, PTL DEF Spec

(***************************************************************************)
(* Runs.                                                                   *)
(***************************************************************************)
\* One run changes its phase, or goes: the others stay what they were.
LEMMA RunMoves ==
    ASSUME OneRunPerGeneration, OneInFlight,
           NEW r \in runs, NEW r2,
           r2.email = r.email, r2.gen = r.gen,
           r2.phase \in InFlight => r.phase \in InFlight,
           runs' \subseteq (runs \ {r}) \cup {r2}
    PROVE  OneRunPerGeneration' /\ OneInFlight'
  BY DEF OneRunPerGeneration, OneInFlight, InFlight

\* A run of a generation that no run carries joins them, not yet in flight.
LEMMA RunJoins ==
    ASSUME NEW R, NEW e, NEW g,
           \A r, s \in R : r.email = s.email /\ r.gen = s.gen => r = s,
           \A r, s \in R : /\ r.email = s.email
                           /\ r.phase \in InFlight
                           /\ s.phase \in InFlight
                           => r = s,
           \A r \in R : r.email = e => r.gen # g,
           runs' = R \cup {NewRun(e, g)}
    PROVE  OneRunPerGeneration' /\ OneInFlight'
  BY DEF OneRunPerGeneration, OneInFlight, InFlight, NewRun

\* A row that can be claimed has nobody in flight.
LEMMA NobodyInFlight ==
    ASSUME Owned, NEW r \in runs, Claimable(r)
    PROVE  \A s \in runs : s.email = r.email => s.phase \notin InFlight
  BY DEF Owned, Claimable

LEMMA SendInit == Init => SendInv
  <1> SUFFICES ASSUME Init PROVE SendInv
    OBVIOUS
  <1>1. TypeOK
    BY TypeInit
  <1> QED
    BY <1>1 DEF Init, SendInv, Known, OneRunPerGeneration, OneInFlight, Owned,
                Unreleased, AtSes, Sent, OnWire, Clear, ClearRun, OneAtSes

(***************************************************************************)
(* A run that only moves on: nothing is written, nothing requested.        *)
(***************************************************************************)
LEMMA SendAdvance ==
    ASSUME SendInv, TypeOK', NEW r \in runs,
           ClaimStale(r) \/ FailEarly(r) \/ Timeout(r) \/ Return(r) \/ Crash(r)
    PROVE  SendInv'
  <1> USE DEF SendInv
  <1>0. /\ UNCHANGED <<born, emails, row, ses, sdkRetried>>
        /\ \E r2 : /\ r2.email = r.email /\ r2.gen = r.gen
                   /\ r2.phase \in InFlight => r.phase \in InFlight
                   /\ r2.phase \notin {"claimed", "throttled"}
                   /\ runs' \subseteq (runs \ {r}) \cup {r2}
    <2>1. CASE ClaimStale(r) \/ FailEarly(r) \/ Timeout(r) \/ Crash(r)
      <3>1. PICK p \in Phase :
              /\ Advance(r, p)
              /\ p \in InFlight => r.phase \in InFlight
              /\ p \notin {"claimed", "throttled"}
        BY <2>1 DEF ClaimStale, FailEarly, Timeout, Crash, Phase, InFlight
      <3>2. r \in Run
        BY DEF TypeOK
      <3> DEFINE r2 == [r EXCEPT !.phase = p]
      <3>3. r2.email = r.email /\ r2.gen = r.gen /\ r2.phase = p
        BY <3>2 DEF Run
      <3>4. runs' \subseteq (runs \ {r}) \cup {r2}
        BY <3>1 DEF Advance, Become
      <3> HIDE DEF r2
      <3>5. UNCHANGED <<born, emails, row, ses, sdkRetried>>
        BY <2>1 DEF ClaimStale, FailEarly, Timeout, Crash, table, ses, history
      <3> QED
        BY <3>1, <3>3, <3>4, <3>5
    <2>2. CASE Return(r)
      <3> DEFINE r2 == r
      <3>1. r.phase \notin {"claimed", "throttled"} /\ runs' \subseteq runs
        BY <2>2 DEF Return
      <3> QED
        BY <2>2, <3>1 DEF Return, table, ses, history
    <2> QED
      BY <2>1, <2>2
  <1>1. PICK r2 : /\ r2.email = r.email /\ r2.gen = r.gen
                  /\ r2.phase \in InFlight => r.phase \in InFlight
                  /\ r2.phase \notin {"claimed", "throttled"}
                  /\ runs' \subseteq (runs \ {r}) \cup {r2}
    BY <1>0
  <1>2. OneRunPerGeneration' /\ OneInFlight'
    BY <1>1, RunMoves
  <1>3. Known'
    BY <1>0, <1>1 DEF Known, ses
  <1>4. Owned'
    BY <1>0, <1>1 DEF Owned
  <1>5. Unreleased'
    BY <1>0, <1>1 DEF Unreleased, AtSes, Sent, OnWire, ses
  <1>6. Clear' /\ OneAtSes'
    BY <1>0 DEF Clear, OneAtSes, AtSes, Sent, OnWire, ses
  <1>7. ClearRun'
    BY <1>0, <1>1 DEF ClearRun, AtSes, Sent, OnWire, ses
  <1> QED
    BY <1>2, <1>3, <1>4, <1>5, <1>6, <1>7

(***************************************************************************)
(* A run that settles its email, or leaves it, and is done.                *)
(***************************************************************************)
\* The row keeps its generation, is not withheld from a run in flight and is
\* not opened to a new claim.
LEMMA SendSettle ==
    ASSUME SendInv, TypeOK', NEW r \in runs, NEW x \in Row,
           row' = [row EXCEPT ![r.email] = x],
           UNCHANGED <<born, emails, ses, sdkRetried>>,
           \/ Advance(r, "returning")
           \/ runs' = runs \ {r},
           x.gen = row[r.email].gen,
           x.status \in {"scheduled", "canceled"} =>
              x.status = row[r.email].status,
           /\ r.email \in emails
           /\ x.status = "suppressed" \/ (x.status = "queued" /\ ~x.claimed)
           => \/ row[r.email].status = "suppressed"
              \/ row[r.email].status = "queued" /\ ~row[r.email].claimed,
           x # row[r.email] /\ r.email \in emails =>
              \A s \in runs \ {r} :
                s.email = r.email => s.phase \notin InFlight
    PROVE  SendInv'
  <1> USE DEF SendInv
  <1>0. r.email \in Emails /\ row \in [Emails -> Row] /\ r \in Run
    BY DEF TypeOK, Run
  <1>1. \E r2 : /\ r2.email = r.email /\ r2.gen = r.gen
                /\ r2.phase \notin InFlight \/ r2 = r
                /\ runs' \subseteq (runs \ {r}) \cup {r2}
                /\ r \notin runs' \/ r2.phase \notin InFlight
    <2>1. CASE Advance(r, "returning")
      <3> DEFINE r2 == [r EXCEPT !.phase = "returning"]
      <3>1. r2.email = r.email /\ r2.gen = r.gen /\ r2.phase = "returning"
        BY <1>0 DEF Run
      <3>2. runs' \subseteq (runs \ {r}) \cup {r2}
        BY <2>1 DEF Advance, Become
      <3> HIDE DEF r2
      <3> QED
        BY <3>1, <3>2 DEF InFlight
    <2>2. CASE runs' = runs \ {r}
      BY <2>2
    <2> QED
      BY <2>1, <2>2
  <1>2. PICK r2 : /\ r2.email = r.email /\ r2.gen = r.gen
                  /\ r2.phase \notin InFlight \/ r2 = r
                  /\ runs' \subseteq (runs \ {r}) \cup {r2}
                  /\ r \notin runs' \/ r2.phase \notin InFlight
    BY <1>1
  <1>3. \A e \in Emails : row'[e] = IF e = r.email THEN x ELSE row[e]
    BY <1>0
  <1>4. OneRunPerGeneration' /\ OneInFlight'
    BY <1>2, RunMoves
  <1>5. Known'
    BY <1>0, <1>2, <1>3 DEF Known, ses, TypeOK, Run
  <1>6. Owned'
    <2> SUFFICES ASSUME NEW s \in runs', s.phase \in InFlight, s.email \in emails
                 PROVE  /\ s.gen = row'[s.email].gen
                        /\ row'[s.email].status \notin Withheld \cup {"scheduled"}
                        /\ row'[s.email].status = "queued" => row'[s.email].claimed
      BY <1>0 DEF Owned
    <2>1. s \in runs /\ s # r /\ s.email \in Emails
      BY <1>2 DEF TypeOK, Run
    <2>2. s.email = r.email => x = row[r.email]
      BY <2>1
    <2> QED
      BY <1>3, <2>1, <2>2 DEF Owned
  <1>7. Unreleased'
    <2> SUFFICES ASSUME NEW e \in emails, row'[e].status \in {"scheduled", "canceled"}
                 PROVE  ~AtSes(e)' /\ \A s \in runs' : s.email # e
      BY DEF Unreleased
    <2>1. e \in Emails /\ row[e].status \in {"scheduled", "canceled"}
      BY <1>3 DEF TypeOK
    <2> QED
      BY <1>2, <2>1 DEF Unreleased, AtSes, Sent, OnWire, ses
  <1>8. Clear'
    BY <1>3 DEF Clear, AtSes, Sent, OnWire, ses
  <1>9. ClearRun'
    BY <1>2 DEF ClearRun, AtSes, Sent, OnWire, ses, InFlight
  <1>10. OneAtSes'
    BY DEF OneAtSes, ses
  <1> QED
    BY <1>4, <1>5, <1>6, <1>7, <1>8, <1>9, <1>10

LEMMA SettledFields ==
    ASSUME NEW r \in Row, NEW s \in Status
    PROVE  SettledAs(r, s).gen = r.gen /\ SettledAs(r, s).status = s
  BY DEF SettledAs, Row

LEMMA SuppressedFields ==
    ASSUME NEW r \in Row
    PROVE  SuppressedAs(r).gen = r.gen /\ SuppressedAs(r).status = "suppressed"
  BY DEF SuppressedAs, Row

LEMMA SendClaimSettles ==
    ASSUME SendInv, TypeOK', NEW r \in runs,
           ClaimFailed(r) \/ ClaimUnsubscribed(r) \/ ClaimSuppressed(r)
    PROVE  SendInv'
  <1>0. /\ r.email \in Emails /\ row[r.email] \in Row
        /\ Claimable(r) /\ Advance(r, "returning")
        /\ UNCHANGED <<born, emails, ses, sdkRetried>>
    BY DEF SendInv, TypeOK, Run, ClaimFailed, ClaimUnsubscribed, ClaimSuppressed,
           history
  <1>1. \E x \in {SettledAs(row[r.email], "failed"), SuppressedAs(row[r.email])} :
           row' = [row EXCEPT ![r.email] = x]
    BY DEF ClaimFailed, ClaimUnsubscribed, ClaimSuppressed, Settle
  <1>2. PICK x \in {SettledAs(row[r.email], "failed"), SuppressedAs(row[r.email])} :
           row' = [row EXCEPT ![r.email] = x]
    BY <1>1
  <1>3. /\ x \in Row
        /\ x.gen = row[r.email].gen
        /\ x.status \in {"failed", "suppressed"}
    <2>1. CASE x = SettledAs(row[r.email], "failed")
      BY <1>0, <2>1, SettledRow, SettledFields DEF Status
    <2>2. CASE x = SuppressedAs(row[r.email])
      BY <1>0, <2>2, SuppressedRow, SuppressedFields
    <2> QED
      BY <1>2, <2>1, <2>2
  <1>4. \A s \in runs \ {r} : s.email = r.email => s.phase \notin InFlight
    BY <1>0, NobodyInFlight DEF SendInv
  <1>5. row[r.email].status = "queued" /\ ~row[r.email].claimed
    BY <1>0 DEF Claimable
  <1> QED
    BY <1>0, <1>2, <1>3, <1>4, <1>5, SendSettle

LEMMA SendRecords ==
    ASSUME SendInv, TypeOK', NEW r \in runs,
           RecordSent(r) \/ RecordFailed(r)
    PROVE  SendInv'
  <1>0. /\ r.email \in Emails /\ row[r.email] \in Row /\ r.msg \in Nat
        /\ row \in [Emails -> Row]
        /\ Advance(r, "returning")
        /\ UNCHANGED <<born, emails, ses, sdkRetried>>
    BY DEF SendInv, TypeOK, Run, RecordSent, RecordFailed, history
  <1>1. r.phase \in InFlight
    BY DEF RecordSent, RecordFailed, InFlight
  <1>2. \A s \in runs \ {r} : s.email = r.email => s.phase \notin InFlight
    BY <1>1 DEF SendInv, OneInFlight
  <1>3. r.email \in emails =>
          /\ row[r.email].status \notin Withheld \cup {"scheduled"}
          /\ row[r.email].status = "queued" => row[r.email].claimed
    BY <1>1 DEF SendInv, Owned
  <1> DEFINE y == AcceptedAs(row[r.email], r.msg)
             z == SettledAs(row[r.email], "failed")
  <1>4. CASE row' = row
    <2>1. row' = [row EXCEPT ![r.email] = row[r.email]]
      BY <1>0, <1>4
    <2> QED
      BY <1>0, <1>2, <2>1, SendSettle
  <1>5. CASE r.email \in emails /\ row' = [row EXCEPT ![r.email] = y]
    <2>1. /\ y \in Row
          /\ y.gen = row[r.email].gen
          /\ y.status \in {"sent", row[r.email].status}
          /\ y.status = "queued" => y.claimed
      BY <1>0, <1>3, <1>5, AcceptedRow DEF AcceptedAs, Row, Pending
    <2>2. y.status \notin Withheld \cup {"scheduled"}
      BY <1>3, <1>5, <2>1 DEF Withheld
    <2> HIDE DEF y
    <2> QED
      BY <1>0, <1>2, <1>5, <2>1, <2>2, SendSettle DEF Withheld
  <1>6. CASE row' = [row EXCEPT ![r.email] = z]
    <2>1. z \in Row /\ z.gen = row[r.email].gen /\ z.status = "failed"
      BY <1>0, SettledRow, SettledFields DEF Status
    <2> HIDE DEF z
    <2> QED
      BY <1>0, <1>2, <1>6, <2>1, SendSettle
  <1> QED
    BY <1>4, <1>5, <1>6 DEF RecordSent, RecordFailed, Recordable, Accept, Settle, Keep

\* deliverDone fails the email only if the run that died still owns it.
LEMMA SendDone ==
    ASSUME SendInv, TypeOK', NEW r \in runs, DeliverDone(r)
    PROVE  SendInv'
  <1>0. /\ r.email \in Emails /\ row[r.email] \in Row
        /\ runs' = runs \ {r}
        /\ UNCHANGED <<born, emails, ses, sdkRetried>>
    BY DEF SendInv, TypeOK, Run, DeliverDone, history
  <1> DEFINE was == Attempted(r)
             z == SettledAs(was, "failed")
  <1>1. /\ was \in Row
        /\ was.gen = row[r.email].gen
        /\ was.status = row[r.email].status
        /\ was.claimed = row[r.email].claimed
    BY <1>0 DEF Attempted, Row
  <1>2. was # row[r.email] =>
          /\ row[r.email].gen = r.gen
          /\ row[r.email].status = "queued" /\ ~row[r.email].claimed
    BY DEF Attempted
  <1> HIDE DEF was
  <1>3. z \in Row /\ z.gen = was.gen /\ z.status = "failed"
    BY <1>1, SettledRow, SettledFields DEF Status
  <1>4. CASE row' = [row EXCEPT ![r.email] = was]
    <2>1. was # row[r.email] /\ r.email \in emails =>
            \A s \in runs \ {r} : s.email = r.email => s.phase \notin InFlight
      BY <1>2 DEF SendInv, Owned
    <2> QED
      BY <1>0, <1>1, <1>4, <2>1, SendSettle
  <1>5. CASE row' = [row EXCEPT ![r.email] = z] /\ Failable(r, was)
    <2>1. was.gen = r.gen
      BY <1>5 DEF Failable, Recordable
    <2>2. ASSUME r.email \in emails, NEW s \in runs \ {r}, s.email = r.email
          PROVE  s.phase \notin InFlight
      <3>1. OneRunPerGeneration /\ Owned
        BY DEF SendInv
      <3>2. s.phase \in InFlight => s.gen = row[r.email].gen
        BY <2>2, <3>1 DEF Owned
      <3>3. s.gen # r.gen
        BY <2>2, <3>1 DEF OneRunPerGeneration
      <3> QED
        BY <1>1, <2>1, <3>2, <3>3
    <2> HIDE DEF z
    <2> QED
      BY <1>0, <1>1, <1>3, <1>5, <2>2, SendSettle
  <1> QED
    BY <1>4, <1>5 DEF DeliverDone, was

(***************************************************************************)
(* A new run of the next generation takes over.                            *)
(***************************************************************************)
LEMMA SendHandover ==
    ASSUME SendInv, TypeOK', NEW r \in runs,
           ClaimDeferred(r) \/ RecordRetry(r)
    PROVE  SendInv'
  <1> USE DEF SendInv
  <1> DEFINE e == r.email
             old == [r EXCEPT !.phase = "returning"]
             R == (runs \ {r}) \cup {old}
  <1>0. /\ e \in Emails /\ e \in emails /\ row \in [Emails -> Row]
        /\ r \in Run /\ runs \subseteq Run
        /\ UNCHANGED <<born, emails, ses, sdkRetried>>
        /\ row[e].status = "queued" \/ row[e].status \notin Withheld \cup Pending
        /\ row[e].gen = r.gen /\ r.gen \in Nat
    <2>1. r \in Run /\ row \in [Emails -> Row] /\ runs \subseteq Run
      BY DEF TypeOK
    <2>2. CASE ClaimDeferred(r)
      BY <2>1, <2>2 DEF ClaimDeferred, Claimable, Run, history
    <2>3. CASE RecordRetry(r)
      BY <2>1, <2>3 DEF RecordRetry, Failable, Recordable, Run, history, Withheld,
                        Pending, Engaged
    <2> QED
      BY <2>2, <2>3
  <1>1. old.email = e /\ old.gen = r.gen /\ old.phase = "returning"
    BY <1>0 DEF Run
  <1>2. runs' = R \cup {NewRun(e, r.gen + 1)}
    BY DEF ClaimDeferred, RecordRetry, Enqueue, Become
  <1>3. /\ row'[e].gen = row[e].gen + 1
        /\ row'[e].status = row[e].status
        /\ ~row'[e].claimed
        /\ \A f \in Emails \ {e} : row'[f] = row[f]
    BY <1>0 DEF ClaimDeferred, Claimable, RecordRetry, Row
  <1> HIDE DEF old
  <1>4. \A s \in R : s.email = e => s.phase \notin InFlight
    <2>1. CASE ClaimDeferred(r)
      BY <1>1, <2>1, NobodyInFlight DEF ClaimDeferred, InFlight
    <2>2. CASE RecordRetry(r)
      BY <1>1, <2>2 DEF RecordRetry, OneInFlight, InFlight
    <2> QED
      BY <2>1, <2>2
  <1>5. \A s \in R : s.email = e => s.gen \in Nat /\ s.gen <= r.gen
    BY <1>0, <1>1 DEF Known, Run
  <1>6. OneRunPerGeneration' /\ OneInFlight'
    <2>1. \A s \in R : s.email = e => s.gen # r.gen + 1
      BY <1>0, <1>5
    <2>2. \A s, t \in R : s.email = t.email /\ s.gen = t.gen => s = t
      BY <1>1 DEF OneRunPerGeneration
    <2>3. \A s, t \in R : /\ s.email = t.email
                          /\ s.phase \in InFlight
                          /\ t.phase \in InFlight
                          => s = t
      BY <1>1, <1>4 DEF OneInFlight
    <2> HIDE DEF R
    <2> QED
      BY <1>2, <2>1, <2>2, <2>3, RunJoins
  <1>7. \A s \in runs' : s.email = e =>
          s.phase \notin InFlight /\ s.gen <= row'[e].gen
    BY <1>0, <1>2, <1>3, <1>4, <1>5 DEF NewRun, InFlight
  <1>8. \A s \in runs' : s.email # e => s \in runs
    BY <1>1, <1>2 DEF NewRun
  <1>9. Known'
    BY <1>0, <1>3, <1>7, <1>8 DEF Known, TypeOK, Run, ses
  <1>10. Owned'
    BY <1>0, <1>3, <1>7, <1>8 DEF Owned, TypeOK, Run
  <1>11. Unreleased'
    BY <1>0, <1>3, <1>8 DEF Unreleased, Withheld, Pending, AtSes, Sent, OnWire, ses, TypeOK
  <1>12. Clear'
    <2>1. e \notin sdkRetried => ~AtSes(e)
      BY <1>0 DEF ClaimDeferred, Claimable, RecordRetry, Clear, ClearRun
    <2> QED
      BY <1>0, <1>3, <2>1 DEF Clear, AtSes, Sent, OnWire, ses
  <1>13. ClearRun'
    BY <1>0, <1>7, <1>8 DEF ClearRun, InFlight, AtSes, Sent, OnWire, ses
  <1>14. OneAtSes'
    BY <1>0 DEF OneAtSes, ses
  <1> QED
    BY <1>6, <1>9, <1>10, <1>11, <1>12, <1>13, <1>14

(***************************************************************************)
(* The claim that goes through: nothing of the email is at SES.            *)
(***************************************************************************)
LEMMA SendTaken ==
    ASSUME SendInv, TypeOK', NEW r \in runs, ClaimTaken(r)
    PROVE  SendInv'
  <1> USE DEF SendInv
  <1> DEFINE e == r.email
  <1>0. /\ e \in Emails /\ e \in emails /\ row \in [Emails -> Row]
        /\ r \in Run /\ Claimable(r) /\ r.phase = "pending"
        /\ row[e].status = "queued" /\ ~row[e].claimed /\ row[e].gen = r.gen
        /\ UNCHANGED <<born, emails, ses, sdkRetried>>
    BY DEF ClaimTaken, Claimable, TypeOK, Run
  <1>1. PICK dropped \in SUBSET Addresses :
          /\ row' = [row EXCEPT ![e] = ClaimedAs(@, dropped)]
          /\ runs' = (runs \ {r}) \cup {Holding(r, Addresses \ dropped)}
    BY DEF ClaimTaken, OptedOut, Barred, TypeOK
  <1> DEFINE r2 == Holding(r, Addresses \ dropped)
             x == ClaimedAs(row[e], dropped)
  <1>2. r2.email = e /\ r2.gen = r.gen /\ r2.phase = "claimed"
    BY <1>0 DEF Holding, Run
  <1>3. x.status = "queued" /\ x.claimed /\ x.gen = row[e].gen
    BY <1>0 DEF ClaimedAs, Row
  <1>4. runs' = (runs \ {r}) \cup {r2} /\ row' = [row EXCEPT ![e] = x]
    BY <1>1
  <1> HIDE DEF r2, x
  <1>5. \A f \in Emails : row'[f] = IF f = e THEN x ELSE row[f]
    BY <1>0, <1>4
  <1>6. \A s \in runs : s.email = e => s.phase \notin InFlight
    BY <1>0, NobodyInFlight
  <1>7. OneRunPerGeneration' /\ OneInFlight'
    BY <1>2, <1>4, <1>6 DEF OneRunPerGeneration, OneInFlight
  <1>8. Known'
    BY <1>0, <1>2, <1>3, <1>4, <1>5 DEF Known, TypeOK, Run, ses
  <1>9. Owned'
    BY <1>0, <1>2, <1>3, <1>4, <1>5, <1>6 DEF Owned, TypeOK, Run, Withheld
  <1>10. Unreleased'
    BY <1>0, <1>2, <1>3, <1>4, <1>5 DEF Unreleased, AtSes, Sent, OnWire, ses, TypeOK
  <1>11. Clear'
    BY <1>0, <1>3, <1>5 DEF Clear, AtSes, Sent, OnWire, ses
  <1>12. ClearRun'
    BY <1>0, <1>2, <1>4 DEF Clear, ClearRun, AtSes, Sent, OnWire, ses
  <1>13. OneAtSes'
    BY <1>0 DEF OneAtSes, ses
  <1> QED
    BY <1>7, <1>8, <1>9, <1>10, <1>11, <1>12, <1>13

(***************************************************************************)
(* A request.                                                              *)
(***************************************************************************)
LEMMA SendSubmit ==
    ASSUME SendInv, TypeOK', NEW r \in runs, Submit(r)
    PROVE  SendInv'
  <1> USE DEF SendInv
  <1> DEFINE e == r.email
             m == requests[e] + 1
             q == [run |-> r.id, email |-> e, msg |-> m, to |-> r.to]
             r2 == Requesting(r, m)
  <1>0. /\ e \in Emails /\ r \in Run /\ r.phase \in {"claimed", "throttled", "timedout"}
        /\ UNCHANGED <<born, emails, row, accepted>>
        /\ wire' = wire \cup {q} /\ runs' = (runs \ {r}) \cup {r2}
        /\ sdkRetried' = IF r.phase = "claimed" THEN sdkRetried
                                                ELSE sdkRetried \cup {e}
    BY DEF Submit, TypeOK, Run, table
  <1>1. r2.email = e /\ r2.gen = r.gen /\ r2.phase = "waiting" /\ r.phase \in InFlight
    BY <1>0 DEF Requesting, Run, InFlight
  <1>2. q.email = e
    OBVIOUS
  <1> HIDE DEF r2, q
  <1>3. OneRunPerGeneration' /\ OneInFlight'
    BY <1>0, <1>1, RunMoves
  <1>4. e \in emails => /\ row[e].status \notin Withheld \cup {"scheduled"}
                        /\ row[e].status = "queued" => row[e].claimed
    BY <1>1 DEF Owned
  <1>5. e \notin sdkRetried' => ~AtSes(e)
    BY <1>0 DEF ClearRun
  <1>6. \A f : f # e => AtSes(f)' = AtSes(f)
    BY <1>0, <1>2 DEF AtSes, Sent, OnWire
  <1>7. Known'
    BY <1>0, <1>1, <1>2 DEF Known
  <1>8. Owned'
    BY <1>0, <1>1 DEF Owned
  <1>9. Unreleased'
    BY <1>0, <1>1, <1>4, <1>6 DEF Unreleased, Withheld
  <1>10. Clear'
    BY <1>0, <1>4, <1>6 DEF Clear, Withheld
  <1>11. ClearRun'
    <2> SUFFICES ASSUME NEW s \in runs', s.phase \in {"claimed", "throttled"},
                        s.email \notin sdkRetried'
                 PROVE  ~AtSes(s.email)'
      BY DEF ClearRun
    <2>1. s \in runs /\ s # r
      BY <1>0, <1>1
    <2>2. s.email # e
      BY <1>1, <2>1 DEF OneInFlight, InFlight
    <2> QED
      BY <1>0, <1>6, <2>1, <2>2 DEF ClearRun
  <1>12. OneAtSes'
    <2>1. e \notin sdkRetried' =>
            /\ \A p \in wire : p.email # e
            /\ \A n \in accepted : n.email # e
      BY <1>5 DEF AtSes, Sent, OnWire
    <2> QED
      BY <1>0, <1>2, <2>1 DEF OneAtSes
  <1> QED
    BY <1>3, <1>7, <1>8, <1>9, <1>10, <1>11, <1>12

(***************************************************************************)
(* SES decides on a request.                                               *)
(***************************************************************************)
LEMMA SendSes ==
    ASSUME SendInv, TypeOK', NEW q \in wire, SesStep(q)
    PROVE  SendInv'
  <1> USE DEF SendInv
  <1>0. /\ UNCHANGED <<born, emails, row, sdkRetried>>
        /\ wire' = wire \ {q}
        /\ accepted' \in {accepted, accepted \cup {Taken(q)}}
        /\ Taken(q).email = q.email
    BY DEF SesStep, SesAccepts, SesDrops, SesAnswersAccepted, SesAnswersRefused, Taken,
           table, history
  <1>1. \/ runs' = runs
        \/ \E r \in runs : \E r2 :
             /\ r.email = q.email /\ r.phase = "waiting"
             /\ r2.email = r.email /\ r2.gen = r.gen
             /\ r2.phase \in InFlight /\ r2.phase # "claimed"
             /\ r2.phase # "throttled" \/ accepted' = accepted
             /\ runs' = (runs \ {r}) \cup {r2}
    <2>1. CASE SesAccepts(q) \/ SesDrops(q)
      BY <2>1 DEF SesAccepts, SesDrops, pool
    <2>2. ASSUME NEW r \in runs, NEW p \in {"sent", "throttled", "failed"},
                 AwaitedBy(r, q), Advance(r, p),
                 p # "throttled" \/ accepted' = accepted
          PROVE  \E r2 :
                   /\ r.email = q.email /\ r.phase = "waiting"
                   /\ r2.email = r.email /\ r2.gen = r.gen
                   /\ r2.phase \in InFlight /\ r2.phase # "claimed"
                   /\ r2.phase # "throttled" \/ accepted' = accepted
                   /\ runs' = (runs \ {r}) \cup {r2}
      <3> DEFINE r2 == [r EXCEPT !.phase = p]
      <3>1. r2.email = r.email /\ r2.gen = r.gen /\ r2.phase = p
        BY DEF TypeOK, Run
      <3>2. runs' = (runs \ {r}) \cup {r2}
        BY <2>2 DEF Advance, Become
      <3> HIDE DEF r2
      <3> QED
        BY <2>2, <3>1, <3>2 DEF AwaitedBy, InFlight
    <2> QED
      BY <2>1, <2>2 DEF SesStep, SesAnswersAccepted, SesAnswersRefused
  <1>2. OneRunPerGeneration' /\ OneInFlight'
    <2>1. CASE runs' = runs
      BY <2>1 DEF OneRunPerGeneration, OneInFlight
    <2>2. CASE runs' # runs
      BY <1>1, <2>2, RunMoves DEF InFlight
    <2> QED
      BY <2>1, <2>2
  <1>3. Known'
    BY <1>0, <1>1 DEF Known
  <1>4. Owned'
    BY <1>0, <1>1 DEF Owned, InFlight
  <1>5. AtSes(q.email) /\ \A f : AtSes(f)' => AtSes(f)
    BY <1>0 DEF AtSes, Sent, OnWire
  <1>6. Unreleased'
    BY <1>0, <1>1, <1>5 DEF Unreleased
  <1>7. Clear'
    BY <1>0, <1>5 DEF Clear
  <1>8. OneAtSes'
    BY <1>0 DEF OneAtSes
  <1>9. ClearRun'
    <2> SUFFICES ASSUME NEW s \in runs', s.phase \in {"claimed", "throttled"},
                        s.email \notin sdkRetried
                 PROVE  ~AtSes(s.email)'
      BY <1>0 DEF ClearRun
    <2>1. CASE s \in runs
      BY <1>5, <2>1 DEF ClearRun
    <2>2. CASE s \notin runs
      <3>1. s.email = q.email /\ accepted' = accepted
        BY <1>1, <2>2
      <3>2. s.email \in Emails
        BY <1>0, <3>1 DEF TypeOK, Request
      <3> QED
        BY <1>0, <3>1, <3>2 DEF OneAtSes, AtSes, Sent, OnWire
    <2> QED
      BY <2>1, <2>2
  <1> QED
    BY <1>2, <1>3, <1>4, <1>6, <1>7, <1>8, <1>9

(***************************************************************************)
(* Users, the scheduler, retention and the team.                           *)
(***************************************************************************)
LEMMA SendCreate ==
    ASSUME SendInv, TypeOK', NEW e \in Emails,
           CreateNow(e) \/ CreateScheduled(e)
    PROVE  SendInv'
  <1> USE DEF SendInv
  <1>0. /\ e \notin born /\ e \notin emails
        /\ born' = born \cup {e} /\ emails' = emails \cup {e}
        /\ row \in [Emails -> Row]
        /\ UNCHANGED <<ses, sdkRetried>>
    BY DEF CreateNow, CreateScheduled, TypeOK, history
  <1>1. /\ \A s \in runs : s.email # e
        /\ \A q \in wire : q.email # e
        /\ \A n \in accepted : n.email # e
    BY <1>0 DEF Known
  <1>2. /\ row'[e].gen = 0 /\ row'[e].status \in Pending
        /\ \A f \in Emails \ {e} : row'[f] = row[f]
    BY <1>0 DEF CreateNow, CreateScheduled, Fresh, Pending
  <1>3. runs' = runs \/ runs' = runs \cup {NewRun(e, 0)}
    BY DEF CreateNow, CreateScheduled, Enqueue, pool
  <1>3a. row'[e].status = "scheduled" => runs' = runs
    BY <1>0 DEF CreateNow, CreateScheduled, Fresh, pool
  <1>4. /\ NewRun(e, 0).email = e /\ NewRun(e, 0).gen = 0
        /\ NewRun(e, 0).phase = "pending"
    BY DEF NewRun
  <1>5. OneRunPerGeneration' /\ OneInFlight'
    <2>1. CASE runs' = runs
      BY <2>1 DEF OneRunPerGeneration, OneInFlight
    <2>2. CASE runs' = runs \cup {NewRun(e, 0)}
      BY <1>1, <2>2, RunJoins DEF OneRunPerGeneration, OneInFlight
    <2> QED
      BY <1>3, <2>1, <2>2
  <1>6. Known'
    BY <1>0, <1>1, <1>2, <1>3, <1>4 DEF Known, TypeOK, Run, ses
  <1>7. Owned'
    BY <1>0, <1>1, <1>2, <1>3, <1>4 DEF Owned, TypeOK, Run, InFlight
  <1>8. Unreleased'
    BY <1>0, <1>1, <1>2, <1>3, <1>3a, <1>4
       DEF Unreleased, AtSes, Sent, OnWire, ses, TypeOK, Pending
  <1>9. Clear'
    BY <1>0, <1>1, <1>2 DEF Clear, AtSes, Sent, OnWire, ses, TypeOK
  <1>10. ClearRun'
    BY <1>0, <1>3, <1>4 DEF ClearRun, AtSes, Sent, OnWire, ses
  <1>11. OneAtSes'
    BY <1>0 DEF OneAtSes, ses
  <1> QED
    BY <1>5, <1>6, <1>7, <1>8, <1>9, <1>10, <1>11

\* Until its release no run carries a scheduled email.
LEMMA SendScheduled ==
    ASSUME SendInv, TypeOK', NEW e \in Emails,
           CancelEmail(e) \/ RescheduleEmail(e)
    PROVE  SendInv'
  <1> USE DEF SendInv
  <1>0. /\ e \in emails /\ row \in [Emails -> Row] /\ row[e].status = "scheduled"
        /\ UNCHANGED <<born, emails, runs, ses, sdkRetried>>
    BY DEF CancelEmail, RescheduleEmail, TypeOK, history, pool
  <1>1. /\ row'[e].status \in {"scheduled", "canceled"}
        /\ \A f \in Emails \ {e} : row'[f] = row[f]
    BY <1>0 DEF CancelEmail, RescheduleEmail, Row
  <1>2. ~AtSes(e) /\ \A s \in runs : s.email # e
    BY <1>0 DEF Unreleased
  <1>3. OneRunPerGeneration' /\ OneInFlight' /\ OneAtSes'
    BY <1>0 DEF OneRunPerGeneration, OneInFlight, OneAtSes, ses
  <1>4. Known' /\ Owned'
    BY <1>0, <1>1, <1>2 DEF Known, Owned, TypeOK, Run, ses
  <1>5. Unreleased' /\ Clear' /\ ClearRun'
    BY <1>0, <1>1, <1>2 DEF Unreleased, Clear, ClearRun, AtSes, Sent, OnWire, ses, TypeOK
  <1> QED
    BY <1>3, <1>4, <1>5

LEMMA SendRelease ==
    ASSUME SendInv, TypeOK', NEW j \in jobs, Release(j)
    PROVE  SendInv'
  <1> USE DEF SendInv
  <1> DEFINE e == j.email
             goes == /\ e \in emails
                     /\ row[e].status = "scheduled"
                     /\ row[e].gen = j.gen
                     /\ ~Retired(e)
  <1>0. /\ e \in Emails /\ row \in [Emails -> Row]
        /\ UNCHANGED <<born, emails, ses, sdkRetried>>
    BY DEF Release, TypeOK, Job, history
  <1>1. CASE ~goes
    <2>1. UNCHANGED <<row, runs>>
      BY <1>1 DEF Release, pool
    <2> QED
      BY <1>0, <2>1 DEF Known, OneRunPerGeneration, OneInFlight, Owned, Unreleased,
                        Clear, ClearRun, OneAtSes, AtSes, Sent, OnWire, ses
  <1>2. CASE goes
    <2>1. /\ row'[e].status = "queued" /\ row'[e].gen = j.gen
          /\ \A f \in Emails \ {e} : row'[f] = row[f]
      BY <1>0, <1>2 DEF Release, Row
    <2>2. runs' = runs \cup {NewRun(e, j.gen)}
      BY <1>2 DEF Release, Enqueue
    <2>3. ~AtSes(e) /\ \A s \in runs : s.email # e
      BY <1>2 DEF Unreleased
    <2>4. /\ NewRun(e, j.gen).email = e /\ NewRun(e, j.gen).gen = j.gen
          /\ NewRun(e, j.gen).phase = "pending" /\ j.gen \in Nat /\ e \in born
      BY <1>2 DEF NewRun, TypeOK, Job
    <2>5. OneRunPerGeneration' /\ OneInFlight'
      BY <2>2, <2>3, RunJoins DEF OneRunPerGeneration, OneInFlight
    <2>6. Known'
      BY <1>0, <2>1, <2>2, <2>3, <2>4 DEF Known, TypeOK, Run, ses
    <2>7. Owned'
      BY <1>0, <2>1, <2>2, <2>3, <2>4 DEF Owned, TypeOK, Run, InFlight
    <2>8. Unreleased'
      BY <1>0, <2>1, <2>2, <2>4 DEF Unreleased, AtSes, Sent, OnWire, ses, TypeOK
    <2>9. Clear' /\ ClearRun' /\ OneAtSes'
      BY <1>0, <2>1, <2>2, <2>3, <2>4
         DEF Clear, ClearRun, OneAtSes, AtSes, Sent, OnWire, ses
    <2> QED
      BY <2>5, <2>6, <2>7, <2>8, <2>9
  <1> QED
    BY <1>1, <1>2

\* Rows go, or only the suppression list and the team change.
LEMMA SendErase ==
    ASSUME SendInv, TypeOK', emails' \subseteq emails,
           UNCHANGED <<born, row, runs, ses, sdkRetried>>
    PROVE  SendInv'
  BY DEF SendInv, Known, OneRunPerGeneration, OneInFlight, Owned, Unreleased, Clear,
         ClearRun, OneAtSes, AtSes, Sent, OnWire, ses

LEMMA SendNext == SendInv /\ [Next]_vars => SendInv'
  <1> SUFFICES ASSUME SendInv, [Next]_vars PROVE SendInv'
    OBVIOUS
  <1>1. TypeOK'
    BY TypeNext DEF SendInv
  <1>2. ASSUME NEW e \in Emails, UserStep(e) PROVE SendInv'
    BY <1>1, <1>2, SendCreate, SendScheduled DEF UserStep
  <1>3. ASSUME NEW e \in Emails, Prune(e) \/ PurgeEmail(e) PROVE SendInv'
    BY <1>1, <1>3, SendErase DEF Prune, PurgeEmail, Erase, pool, history
  <1>4. ASSUME NEW j \in jobs, Release(j) PROVE SendInv'
    BY <1>1, <1>4, SendRelease
  <1>5. ASSUME NEW r \in runs, RunStep(r) \/ Crash(r) PROVE SendInv'
    BY <1>1, <1>5, SendAdvance, SendClaimSettles, SendHandover, SendTaken, SendSubmit,
       SendRecords, SendDone DEF RunStep, ClaimStep
  <1>6. ASSUME NEW q \in wire, SesStep(q) PROVE SendInv'
    BY <1>1, <1>6, SendSes
  <1>7. CASE TeamStep
    BY <1>1, <1>7, SendErase DEF TeamStep, RetireTeam, AddSuppression,
                                 RemoveSuppression, table, pool, history
  <1>8. CASE UNCHANGED vars
    BY <1>1, <1>8, SendErase DEF vars, table, pool, history
  <1> QED
    BY <1>2, <1>3, <1>4, <1>5, <1>6, <1>7, <1>8 DEF Next

\* The lock of the pipeline: each generation of an email has one run, one of
\* them at most is past its claim and owns the row, and whoever may still hand
\* the email to SES knows that SES has nothing of it.
THEOREM SendInvariant == Spec => []SendInv
  <1> QED
    BY SendInit, SendNext, PTL DEF Spec

\* claim, record and deliverDone: whatever is lost, late or dies, SES accepts
\* an email at most once unless one ses.send repeated its request.
THEOREM AcceptedOnceAlways == Spec => []AcceptedOnce
  <1>1. SendInv => AcceptedOnce
    BY DEF SendInv, AcceptedOnce, OneAtSes, TypeOK, Message
  <1> QED
    BY <1>1, SendInvariant, PTL

\* cancelEmail and claim: an email shown as canceled or suppressed was not
\* handed to SES and nobody can still hand it over.
THEOREM WithheldIsUnsent == Spec => []WithheldMeansUnsent
  <1>1. SendInv => WithheldMeansUnsent
    <2> SUFFICES ASSUME SendInv, NEW e \in emails, row[e].status \in Withheld,
                        row[e].status = "canceled" \/ e \notin sdkRetried
                 PROVE  /\ ~AtSes(e)
                        /\ \A r \in runs : r.email = e =>
                              r.phase \notin {"claimed", "waiting"}
      BY DEF WithheldMeansUnsent
    <2>1. e \in Emails
      BY DEF SendInv, TypeOK
    <2>2. ~AtSes(e)
      BY <2>1 DEF SendInv, Unreleased, Clear, Withheld
    <2>3. \A r \in runs : r.email = e => r.phase \notin InFlight
      BY DEF SendInv, Owned
    <2> QED
      BY <2>2, <2>3 DEF InFlight
  <1> QED
    BY <1>1, SendInvariant, PTL

(***************************************************************************)
(* What the send rate is charged.                                          *)
(***************************************************************************)
\* No reservation is held for an email that does not exist yet.
UnbornUncharged == \A e \in Emails \ born : ~row[e].rate

ChargedInv == ChargedOnce /\ UnbornUncharged

\* A step that charges and claims nothing keeps the account when the rows keep
\* their reservations, that of a new email aside, which holds none.
LEMMA NoCharge ==
    ASSUME ChargedInv, UNCHANGED <<claims, charges>>, born \subseteq born',
           \A e \in Emails :
             \/ row'[e].rate <=> row[e].rate
             \/ e \notin born /\ ~row'[e].rate
    PROVE  ChargedInv'
  BY DEF ChargedInv, ChargedOnce, UnbornUncharged

LEMMA RateOfSettled ==
    ASSUME NEW r \in Row, NEW s \in Status
    PROVE  SettledAs(r, s).rate = r.rate
  BY DEF SettledAs, Row

LEMMA RateOfSuppressed ==
    ASSUME NEW r \in Row
    PROVE  SuppressedAs(r).rate = r.rate
  BY DEF SuppressedAs, Row

LEMMA RateOfAccepted ==
    ASSUME NEW r \in Row, NEW m \in Nat
    PROVE  AcceptedAs(r, m).rate = r.rate
  BY DEF AcceptedAs, Row

LEMMA ChargedUser ==
    ASSUME TypeOK, ChargedInv, NEW e \in Emails,
           UserStep(e) \/ Prune(e) \/ PurgeEmail(e)
    PROVE  ChargedInv'
  <1>0. row \in [Emails -> Row] /\ UNCHANGED <<claims, charges>>
    BY DEF TypeOK, UserStep, CreateNow, CreateScheduled, CancelEmail, RescheduleEmail,
           Prune, PurgeEmail, Erase, history
  <1>1. CASE CreateNow(e) \/ CreateScheduled(e)
    <2>1. e \notin born /\ born \subseteq born' /\ ~row'[e].rate
      BY <1>0, <1>1 DEF CreateNow, CreateScheduled, Fresh
    <2>2. \A f \in Emails \ {e} : row'[f] = row[f]
      BY <1>0, <1>1 DEF CreateNow, CreateScheduled
    <2> QED
      BY <1>0, <2>1, <2>2, NoCharge
  <1>2. CASE CancelEmail(e) \/ RescheduleEmail(e)
    <2>1. born' = born /\ \A f \in Emails : row'[f].rate = row[f].rate
      BY <1>0, <1>2 DEF CancelEmail, RescheduleEmail, Row
    <2> QED
      BY <1>0, <2>1, NoCharge
  <1>3. CASE Prune(e) \/ PurgeEmail(e)
    BY <1>0, <1>3, NoCharge DEF Prune, PurgeEmail, Erase
  <1> QED
    BY <1>1, <1>2, <1>3 DEF UserStep

LEMMA ChargedRelease ==
    ASSUME TypeOK, ChargedInv, NEW j \in jobs, Release(j)
    PROVE  ChargedInv'
  <1>1. \A e \in Emails : row'[e].rate = row[e].rate
    BY DEF Release, TypeOK, Row
  <1> QED
    BY <1>1, NoCharge DEF Release, history

LEMMA ChargedClaim ==
    ASSUME TypeOK, ChargedInv, Known, NEW r \in runs, ClaimStep(r)
    PROVE  ChargedInv'
  <1> DEFINE e == r.email
  <1>0. row \in [Emails -> Row] /\ e \in Emails /\ row[e] \in Row /\ e \in born
    BY DEF TypeOK, Run, Known
  <1>1. CASE ClaimStale(r) \/ ClaimFailed(r) \/ ClaimUnsubscribed(r) \/ ClaimSuppressed(r)
    <2>1. \A f \in Emails : row'[f].rate = row[f].rate
      BY <1>0, <1>1, RateOfSettled, RateOfSuppressed
         DEF ClaimStale, ClaimFailed, ClaimUnsubscribed, ClaimSuppressed, Settle, table,
             Status
    <2> QED
      BY <1>1, <2>1, NoCharge DEF ClaimStale, ClaimFailed, ClaimUnsubscribed,
                                  ClaimSuppressed, table, history
  <1>2. CASE ClaimDeferred(r)
    <2>1. /\ ~row[e].rate /\ row'[e].rate
          /\ \A f \in Emails \ {e} : row'[f] = row[f]
          /\ charges' = [charges EXCEPT ![e] = @ + 1]
          /\ UNCHANGED <<claims, born>>
      BY <1>0, <1>2 DEF ClaimDeferred, Row
    <2> QED
      BY <1>0, <2>1 DEF ChargedInv, ChargedOnce, UnbornUncharged, TypeOK
  <1>3. CASE ClaimTaken(r)
    <2>1. PICK d \in SUBSET Addresses : row' = [row EXCEPT ![e] = ClaimedAs(@, d)]
      BY <1>0, <1>3 DEF ClaimTaken, OptedOut, Barred, TypeOK
    <2>2. ~ClaimedAs(row[e], d).rate
      BY <1>0 DEF ClaimedAs, Row
    <2>3. ~row'[e].rate /\ \A f \in Emails \ {e} : row'[f] = row[f]
      BY <1>0, <2>1, <2>2
    <2>4. /\ claims' = [claims EXCEPT ![e] = @ + 1]
          /\ charges' = [charges EXCEPT ![e] = IF row[e].rate THEN @ ELSE @ + 1]
          /\ born' = born
      BY <1>3 DEF ClaimTaken
    <2> QED
      BY <1>0, <2>3, <2>4 DEF ChargedInv, ChargedOnce, UnbornUncharged, TypeOK
  <1> QED
    BY <1>1, <1>2, <1>3 DEF ClaimStep

LEMMA ChargedRun ==
    ASSUME TypeOK, ChargedInv, NEW r \in runs,
           \/ FailEarly(r) \/ Submit(r) \/ Timeout(r) \/ Return(r) \/ Crash(r)
           \/ RecordSent(r) \/ RecordRetry(r) \/ RecordFailed(r) \/ DeliverDone(r)
    PROVE  ChargedInv'
  <1> DEFINE e == r.email
  <1>0. /\ row \in [Emails -> Row] /\ e \in Emails /\ row[e] \in Row /\ r.msg \in Nat
        /\ UNCHANGED <<claims, charges, born>>
    BY DEF TypeOK, Run, FailEarly, Submit, Timeout, Return, Crash, RecordSent,
           RecordRetry, RecordFailed, DeliverDone, table, history
  <1>1. \A f \in Emails : row'[f].rate = row[f].rate
    <2>1. CASE FailEarly(r) \/ Submit(r) \/ Timeout(r) \/ Return(r) \/ Crash(r)
      BY <2>1 DEF FailEarly, Submit, Timeout, Return, Crash, table
    <2>2. CASE RecordSent(r)
      BY <1>0, <2>2, RateOfAccepted DEF RecordSent, Accept, Keep
    <2>3. CASE RecordRetry(r)
      BY <1>0, <2>3 DEF RecordRetry, Row
    <2>4. CASE RecordFailed(r)
      BY <1>0, <2>4, RateOfSettled DEF RecordFailed, Settle, Keep, Status
    <2>5. CASE DeliverDone(r)
      <3>1. Attempted(r) \in Row /\ Attempted(r).rate = row[e].rate
        BY <1>0 DEF Attempted, Row
      <3>2. SettledAs(Attempted(r), "failed").rate = row[e].rate
        BY <3>1, RateOfSettled DEF Status
      <3> QED
        BY <1>0, <2>5, <3>1, <3>2 DEF DeliverDone
    <2> QED
      BY <2>1, <2>2, <2>3, <2>4, <2>5
  <1> QED
    BY <1>0, <1>1, NoCharge

LEMMA ChargedNext == SendInv /\ ChargedInv /\ [Next]_vars => ChargedInv'
  <1> SUFFICES ASSUME SendInv, ChargedInv, [Next]_vars PROVE ChargedInv'
    OBVIOUS
  <1>0. TypeOK /\ Known
    BY DEF SendInv
  <1>1. ASSUME NEW r \in runs, RunStep(r) \/ Crash(r) PROVE ChargedInv'
    BY <1>0, <1>1, ChargedClaim, ChargedRun DEF RunStep
  <1>2. ASSUME NEW q \in wire, SesStep(q) PROVE ChargedInv'
    BY <1>2, NoCharge DEF SesStep, SesAccepts, SesDrops, SesAnswersAccepted,
                          SesAnswersRefused, table, history
  <1>3. CASE TeamStep
    BY <1>3, NoCharge DEF TeamStep, RetireTeam, AddSuppression, RemoveSuppression,
                          table, history
  <1>4. CASE UNCHANGED vars
    BY <1>4, NoCharge DEF vars, table, history
  <1> QED
    BY <1>0, <1>1, <1>2, <1>3, <1>4, ChargedUser, ChargedRelease DEF Next

\* claim: through deferrals, retries and crashes the send rate is charged once for
\* each claim, and once more exactly while the row holds a reservation.
THEOREM ChargedOnceAlways == Spec => []ChargedOnce
  <1>1. Init => ChargedInv
    BY DEF Init, ChargedInv, ChargedOnce, UnbornUncharged, Fresh
  <1>2. SendInv /\ ChargedInv /\ [Next]_vars => ChargedInv'
    BY ChargedNext
  <1>3. ChargedInv => ChargedOnce
    BY DEF ChargedInv
  <1> QED
    BY <1>1, <1>2, <1>3, SendInvariant, PTL DEF Spec

(***************************************************************************)
(* Who carries an email on.                                                *)
(***************************************************************************)
\* The run that carries a queued email: its phase fits the row's claim.
Carries(r, e) ==
    /\ r.email = e
    /\ r.gen = row[e].gen
    /\ r.phase # "returning"
    /\ row[e].claimed => r.phase # "pending"
    /\ ~row[e].claimed => r.phase \in {"pending", "crashed"}

OwnJob(e) == [email |-> e, gen |-> row[e].gen]
JobsFor(e) == {j \in jobs : j.email = e}

\* Why nobody can drop a queued email silently: it is not on record as accepted,
\* so what its run reports is never taken for old news.
CarriedInv ==
    /\ \A j \in jobs : j.email \in born
    /\ \A e \in emails :
         /\ row[e].status \in Pending => ~row[e].sentAt
         /\ row[e].status = "scheduled" => ~row[e].claimed
    /\ \A e \in emails :
         row[e].status = "queued" /\ ~Retired(e) => \E r \in runs : Carries(r, e)
    /\ \A e \in emails :
         row[e].status = "scheduled" /\ ~Retired(e) => JobsFor(e) = {OwnJob(e)}

\* An email whose row, jobs and carrier are what they were.
Undisturbed(e) ==
    /\ row'[e] = row[e]
    /\ JobsFor(e)' = JobsFor(e)
    /\ \A r \in runs : r.email = e => r \in runs'

\* A step disturbs one email at most, and leaves that one fine.
LEMMA CarriedStep ==
    ASSUME CarriedInv, NEW e \in Emails, TypeOK,
           born \subseteq born', retired => retired',
           jobs' \subseteq jobs \/ \A j \in jobs' : j.email \in born',
           \A f \in emails' \ {e} : f \in emails /\ Undisturbed(f),
           e \in emails' =>
              /\ row'[e].status \in Pending => ~row'[e].sentAt
              /\ row'[e].status = "scheduled" => ~row'[e].claimed
              /\ row'[e].status = "queued" /\ ~Retired(e)' =>
                   \E r \in runs' : Carries(r, e)'
              /\ row'[e].status = "scheduled" /\ ~Retired(e)' =>
                   JobsFor(e)' = {OwnJob(e)'}
    PROVE  CarriedInv'
  <1>1. \A j \in jobs' : j.email \in born'
    BY DEF CarriedInv
  <1>2. ASSUME NEW f \in emails', f # e
        PROVE  /\ row'[f].status \in Pending => ~row'[f].sentAt
               /\ row'[f].status = "scheduled" => ~row'[f].claimed
               /\ row'[f].status = "queued" /\ ~Retired(f)' =>
                    \E r \in runs' : Carries(r, f)'
               /\ row'[f].status = "scheduled" /\ ~Retired(f)' =>
                    JobsFor(f)' = {OwnJob(f)'}
    <2>1. f \in emails /\ Undisturbed(f)
      BY <1>2
    <2>2. ~Retired(f)' => ~Retired(f)
      BY DEF Retired
    <2>3. ASSUME row'[f].status = "queued", ~Retired(f)'
          PROVE  \E r \in runs' : Carries(r, f)'
      <3>1. PICK r \in runs : Carries(r, f)
        BY <2>1, <2>2, <2>3 DEF CarriedInv, Undisturbed
      <3>2. r \in runs' /\ Carries(r, f)'
        BY <2>1, <3>1 DEF Undisturbed, Carries
      <3> QED
        BY <3>2
    <2> QED
      BY <2>1, <2>2, <2>3 DEF CarriedInv, Undisturbed, OwnJob
  <1> QED
    BY <1>1, <1>2 DEF CarriedInv

\* The run that carries an email is the only one of its generation.
LEMMA TheCarrier ==
    ASSUME CarriedInv, OneRunPerGeneration, NEW r \in runs, r.email \in emails,
           row[r.email].status = "queued", row[r.email].gen = r.gen, ~Retired(r.email)
    PROVE  Carries(r, r.email)
  BY DEF CarriedInv, OneRunPerGeneration, Carries

LEMMA Advanced ==
    ASSUME TypeOK, NEW r \in runs, NEW p \in Phase, Advance(r, p)
    PROVE  \E s : /\ s.email = r.email /\ s.gen = r.gen /\ s.phase = p
                  /\ runs' = (runs \ {r}) \cup {s}
  <1> DEFINE s == [r EXCEPT !.phase = p]
  <1>1. s.email = r.email /\ s.gen = r.gen /\ s.phase = p
    BY DEF TypeOK, Run
  <1>2. runs' = (runs \ {r}) \cup {s}
    BY DEF Advance, Become
  <1> HIDE DEF s
  <1> QED
    BY <1>1, <1>2

\* A run changes its phase within what fits the row, which stays.
LEMMA CarriedMoves ==
    ASSUME SendInv, CarriedInv, NEW r \in runs, NEW s,
           s.email = r.email, s.gen = r.gen, runs' = (runs \ {r}) \cup {s},
           UNCHANGED <<born, emails, row, jobs, retired>>,
           Carries(r, r.email) /\ r.email \in emails /\ ~Retired(r.email) =>
              \/ row[r.email].status # "queued"
              \/ s.phase = "crashed"
              \/ row[r.email].claimed /\ s.phase \notin {"pending", "returning"}
    PROVE  CarriedInv'
  <1> DEFINE e == r.email
  <1>0. /\ e \in Emails /\ TypeOK /\ CarriedInv /\ OneRunPerGeneration
        /\ runs' = (runs \ {r}) \cup {s}
    BY DEF SendInv, TypeOK, Run
  <1>2. \A f \in emails' \ {e} : f \in emails /\ Undisturbed(f)
    BY DEF Undisturbed, JobsFor
  <1>3. ASSUME e \in emails', row'[e].status = "queued", ~Retired(e)'
        PROVE  \E t \in runs' : Carries(t, e)'
    <2>1. e \in emails /\ row[e].status = "queued" /\ ~Retired(e)
      BY <1>3 DEF Retired
    <2>2. PICK t \in runs : Carries(t, e)
      BY <1>0, <2>1 DEF CarriedInv
    <2>3. CASE t = r
      <3>1. Carries(s, e)'
        BY <1>0, <2>1, <2>2, <2>3 DEF Carries
      <3> QED
        BY <1>0, <3>1
    <2>4. CASE t # r
      <3>1. Carries(t, e)' /\ t \in runs'
        BY <1>0, <2>2, <2>4 DEF Carries
      <3> QED
        BY <3>1
    <2> QED
      BY <2>3, <2>4
  <1>4. e \in emails' =>
          /\ row'[e].status \in Pending => ~row'[e].sentAt
          /\ row'[e].status = "scheduled" => ~row'[e].claimed
          /\ row'[e].status = "scheduled" /\ ~Retired(e)' => JobsFor(e)' = {OwnJob(e)'}
    BY <1>0 DEF CarriedInv, JobsFor, OwnJob, Retired
  <1> QED
    BY <1>0, <1>2, <1>3, <1>4, CarriedStep

LEMMA CarriedAdvance ==
    ASSUME SendInv, CarriedInv, NEW r \in runs,
           ClaimStale(r) \/ FailEarly(r) \/ Timeout(r) \/ Crash(r) \/ Submit(r)
    PROVE  CarriedInv'
  <1>0. /\ r.email \in Emails /\ r \in Run /\ TypeOK
        /\ OneRunPerGeneration /\ Owned
        /\ UNCHANGED <<born, emails, row, jobs, retired>>
    BY DEF SendInv, TypeOK, Run, ClaimStale, FailEarly, Timeout, Crash, Submit, table, team
  <1>1. CASE ClaimStale(r)
    <2>1. Carries(r, r.email) /\ r.email \in emails /\ ~Retired(r.email) =>
            row[r.email].status # "queued"
      BY <1>1 DEF ClaimStale, Claimable, Carries
    <2>2. PICK s : /\ s.email = r.email /\ s.gen = r.gen
                   /\ runs' = (runs \ {r}) \cup {s}
      BY <1>0, <1>1, Advanced DEF ClaimStale, Phase
    <2> QED
      BY <1>0, <2>1, <2>2, CarriedMoves
  <1>2. CASE FailEarly(r) \/ Timeout(r) \/ Submit(r)
    <2>1. r.email \in emails => row[r.email].status # "queued" \/ row[r.email].claimed
      BY <1>0, <1>2 DEF FailEarly, Timeout, Submit, Owned, InFlight
    <2>2. PICK s : /\ s.email = r.email /\ s.gen = r.gen
                   /\ s.phase \in {"failed", "timedout", "waiting"}
                   /\ runs' = (runs \ {r}) \cup {s}
      <3>1. CASE FailEarly(r) \/ Timeout(r)
        BY <1>0, <3>1, Advanced DEF FailEarly, Timeout, Phase
      <3>2. CASE Submit(r)
        <4> DEFINE m == requests[r.email] + 1
                   s == Requesting(r, m)
        <4>1. s.email = r.email /\ s.gen = r.gen /\ s.phase = "waiting"
          BY <1>0 DEF Requesting, Run
        <4>2. runs' = (runs \ {r}) \cup {s}
          BY <3>2 DEF Submit
        <4> HIDE DEF s
        <4> QED
          BY <4>1, <4>2
      <3> QED
        BY <1>2, <3>1, <3>2
    <2> QED
      BY <1>0, <2>1, <2>2, CarriedMoves
  <1>3. CASE Crash(r)
    <2>1. PICK s : /\ s.email = r.email /\ s.gen = r.gen /\ s.phase = "crashed"
                   /\ runs' = (runs \ {r}) \cup {s}
      BY <1>0, <1>3, Advanced DEF Crash, Phase
    <2> QED
      BY <1>0, <2>1, CarriedMoves
  <1> QED
    BY <1>1, <1>2, <1>3

\* SES answers a run that is waiting: it has claimed its email.
LEMMA CarriedSes ==
    ASSUME SendInv, CarriedInv, NEW q \in wire, SesStep(q)
    PROVE  CarriedInv'
  <1>0. TypeOK /\ Owned /\ UNCHANGED <<born, emails, row, jobs, retired>>
    BY DEF SendInv, SesStep, SesAccepts, SesDrops, SesAnswersAccepted, SesAnswersRefused,
           table, team
  <1>1. CASE SesAccepts(q) \/ SesDrops(q)
    BY <1>0, <1>1 DEF SesAccepts, SesDrops, pool, CarriedInv, Carries, JobsFor, OwnJob,
                      Retired
  <1>2. ASSUME NEW r \in runs, NEW p \in {"sent", "throttled", "failed"},
               AwaitedBy(r, q), Advance(r, p)
        PROVE  CarriedInv'
    <2>1. p \in Phase /\ p \notin {"pending", "returning"}
      BY DEF Phase
    <2>2. r.email \in emails => row[r.email].status # "queued" \/ row[r.email].claimed
      BY <1>0, <1>2 DEF AwaitedBy, Owned, InFlight
    <2>3. PICK s : /\ s.email = r.email /\ s.gen = r.gen /\ s.phase = p
                   /\ runs' = (runs \ {r}) \cup {s}
      BY <1>0, <1>2, <2>1, Advanced
    <2> QED
      BY <1>0, <2>1, <2>2, <2>3, CarriedMoves
  <1> QED
    BY <1>1, <1>2 DEF SesStep, SesAnswersAccepted, SesAnswersRefused

\* Rows go, the team changes, or a run that is through returns.
LEMMA CarriedStays ==
    ASSUME CarriedInv, emails' \subseteq emails, UNCHANGED <<born, row, jobs>>,
           retired => retired',
           \A r \in runs : r.phase # "returning" => r \in runs'
    PROVE  CarriedInv'
  <1>1. ASSUME NEW e \in emails', row'[e].status = "queued", ~Retired(e)'
        PROVE  \E r \in runs' : Carries(r, e)'
    <2>1. PICK r \in runs : Carries(r, e)
      BY <1>1 DEF CarriedInv, Retired
    <2>2. r \in runs' /\ Carries(r, e)'
      BY <2>1 DEF Carries
    <2> QED
      BY <2>2
  <1> QED
    BY <1>1 DEF CarriedInv, Retired, JobsFor, OwnJob

\* A run is through with its email: the row left the queue, or the run was not the
\* one that carried it.
LEMMA CarriedEnds ==
    ASSUME CarriedInv, TypeOK, NEW r \in runs, NEW x \in Row,
           row' = [row EXCEPT ![r.email] = x],
           UNCHANGED <<born, emails, jobs, retired>>,
           runs \ {r} \subseteq runs',
           r.email \in emails /\ x.status \in Pending =>
              /\ x.status = row[r.email].status
              /\ x.gen = row[r.email].gen
              /\ x.claimed <=> row[r.email].claimed
              /\ x.sentAt <=> row[r.email].sentAt
              /\ Retired(r.email) \/ x.status = "scheduled" \/ ~Carries(r, r.email)
    PROVE  CarriedInv'
  <1> DEFINE e == r.email
  <1>0. e \in Emails /\ row'[e] = x /\ \A f \in Emails \ {e} : row'[f] = row[f]
    BY DEF TypeOK, Run
  <1>1. \A f \in emails' \ {e} : f \in emails /\ Undisturbed(f)
    BY <1>0 DEF Undisturbed, JobsFor, TypeOK
  <1>2. ASSUME e \in emails', x.status = "queued", ~Retired(e)'
        PROVE  \E t \in runs' : Carries(t, e)'
    <2>1. /\ e \in emails /\ row[e].status = "queued" /\ ~Retired(e)
          /\ x.gen = row[e].gen /\ (x.claimed <=> row[e].claimed)
          /\ ~Carries(r, e)
      BY <1>2 DEF Retired, Pending
    <2>2. PICK t \in runs : Carries(t, e)
      BY <2>1 DEF CarriedInv
    <2>3. t \in runs' /\ Carries(t, e)'
      BY <1>0, <2>1, <2>2 DEF Carries
    <2> QED
      BY <2>3
  <1>3. e \in emails' =>
          /\ x.status \in Pending => ~x.sentAt
          /\ x.status = "scheduled" => ~x.claimed
          /\ x.status = "scheduled" /\ ~Retired(e)' => JobsFor(e)' = {OwnJob(e)'}
    BY <1>0 DEF CarriedInv, JobsFor, OwnJob, Retired, Pending
  <1> QED
    BY <1>0, <1>1, <1>2, <1>3, CarriedStep

LEMMA CarriedClaimEnds ==
    ASSUME SendInv, CarriedInv, NEW r \in runs,
           ClaimFailed(r) \/ ClaimUnsubscribed(r) \/ ClaimSuppressed(r)
    PROVE  CarriedInv'
  <1>0. /\ TypeOK /\ row[r.email] \in Row /\ runs \ {r} \subseteq runs'
        /\ UNCHANGED <<born, emails, jobs, retired>>
    BY DEF SendInv, TypeOK, Run, ClaimFailed, ClaimUnsubscribed, ClaimSuppressed,
           Advance, Become, team
  <1>1. \E x \in {SettledAs(row[r.email], "failed"), SuppressedAs(row[r.email])} :
           row' = [row EXCEPT ![r.email] = x]
    BY DEF ClaimFailed, ClaimUnsubscribed, ClaimSuppressed, Settle
  <1>2. PICK x \in {SettledAs(row[r.email], "failed"), SuppressedAs(row[r.email])} :
           row' = [row EXCEPT ![r.email] = x]
    BY <1>1
  <1>3. x \in Row /\ x.status \notin Pending
    <2>1. CASE x = SettledAs(row[r.email], "failed")
      BY <1>0, <2>1, SettledRow, SettledFields DEF Status, Pending
    <2>2. CASE x = SuppressedAs(row[r.email])
      BY <1>0, <2>2, SuppressedRow, SuppressedFields DEF Pending
    <2> QED
      BY <1>2, <2>1, <2>2
  <1> QED
    BY <1>0, <1>2, <1>3, CarriedEnds

LEMMA AcceptedFields ==
    ASSUME NEW r \in Row, NEW m \in Nat
    PROVE  AcceptedAs(r, m).sentAt /\ (~r.sentAt => AcceptedAs(r, m).status \notin Pending)
  BY DEF AcceptedAs, Row, Pending

\* recordOutcome and deliverDone: the run that carries a queued email is heard.
LEMMA CarrierIsHeard ==
    ASSUME TypeOK, CarriedInv, NEW r \in runs, Carries(r, r.email), r.email \in emails,
           row[r.email].status = "queued", ~Retired(r.email), NEW was \in Row,
           was.status = "queued", was.gen = row[r.email].gen,
           was.sentAt <=> row[r.email].sentAt
    PROVE  Recordable(r, was) /\ Failable(r, was)
  BY DEF CarriedInv, Carries, Recordable, Failable, Pending, Engaged

LEMMA CarriedRecords ==
    ASSUME SendInv, CarriedInv, NEW r \in runs,
           RecordSent(r) \/ RecordFailed(r)
    PROVE  CarriedInv'
  <1> DEFINE e == r.email
  <1>0. /\ TypeOK /\ e \in Emails /\ row[e] \in Row /\ runs \ {r} \subseteq runs'
        /\ r.msg \in Nat /\ row \in [Emails -> Row]
        /\ UNCHANGED <<born, emails, jobs, retired>>
    BY DEF SendInv, TypeOK, Run, RecordSent, RecordFailed, Advance, Become, team
  <1>1. CASE row' = row
    <2>1. row' = [row EXCEPT ![e] = row[e]]
      BY <1>0, <1>1
    <2>2. e \in emails /\ row[e].status = "queued" /\ Carries(r, e) /\ ~Retired(e) =>
            row'[e] # row[e]
      <3> SUFFICES ASSUME e \in emails, row[e].status = "queued", Carries(r, e),
                          ~Retired(e)
                   PROVE  row'[e] # row[e]
        OBVIOUS
      <3>1. Recordable(r, row[e]) /\ Failable(r, row[e])
        BY <1>0, CarrierIsHeard
      <3>2. CASE RecordSent(r)
        <4>1. row'[e] = AcceptedAs(row[e], r.msg)
          BY <1>0, <3>1, <3>2 DEF RecordSent, Accept
        <4> QED
          BY <1>0, <4>1, AcceptedFields DEF CarriedInv, Pending
      <3>3. CASE RecordFailed(r)
        <4>1. row'[e] = SettledAs(row[e], "failed")
          BY <1>0, <3>1, <3>3 DEF RecordFailed, Settle
        <4> QED
          BY <1>0, <4>1, SettledFields DEF Status
      <3> QED
        BY <3>2, <3>3
    <2> QED
      BY <1>0, <1>1, <2>1, <2>2, CarriedEnds DEF Pending
  <1>2. CASE row' = [row EXCEPT ![e] = AcceptedAs(row[e], r.msg)] /\ ~row[e].sentAt
    BY <1>0, <1>2, AcceptedRow, AcceptedFields, CarriedEnds
  <1>3. CASE row' = [row EXCEPT ![e] = SettledAs(row[e], "failed")]
    BY <1>0, <1>3, SettledRow, SettledFields, CarriedEnds DEF Status, Pending
  <1>4. row[e].sentAt => AcceptedAs(row[e], r.msg) = row[e]
    BY DEF AcceptedAs
  <1> QED
    BY <1>0, <1>1, <1>2, <1>3, <1>4 DEF RecordSent, RecordFailed, Accept, Settle, Keep

LEMMA CarriedDone ==
    ASSUME SendInv, CarriedInv, NEW r \in runs, DeliverDone(r)
    PROVE  CarriedInv'
  <1> DEFINE e == r.email
             was == Attempted(r)
  <1>0. /\ TypeOK /\ e \in Emails /\ row[e] \in Row /\ runs \ {r} \subseteq runs'
        /\ UNCHANGED <<born, emails, jobs, retired>>
    BY DEF SendInv, TypeOK, Run, DeliverDone, team
  <1>1. /\ was \in Row /\ was.status = row[e].status /\ was.gen = row[e].gen
        /\ was.claimed <=> row[e].claimed
        /\ was.sentAt <=> row[e].sentAt
    BY <1>0 DEF Attempted, Row
  <1>2. CASE Failable(r, was)
    <2> DEFINE x == SettledAs(was, "failed")
    <2>1. x \in Row /\ x.status = "failed"
      BY <1>1, SettledRow, SettledFields DEF Status
    <2>2. row' = [row EXCEPT ![e] = x]
      BY <1>2 DEF DeliverDone
    <2> HIDE DEF x
    <2> QED
      BY <1>0, <2>1, <2>2, CarriedEnds DEF Pending
  <1>3. CASE ~Failable(r, was)
    <2>1. row' = [row EXCEPT ![e] = was]
      BY <1>3 DEF DeliverDone
    <2>2. e \in emails /\ row[e].status = "queued" /\ Carries(r, e) => Retired(e)
      BY <1>0, <1>1, <1>3, CarrierIsHeard
    <2> HIDE DEF was
    <2> QED
      BY <1>0, <1>1, <2>1, <2>2, CarriedEnds DEF Pending
  <1> QED
    BY <1>2, <1>3

\* A run that hands its email over enqueues the one that carries it on.
LEMMA CarriedHandover ==
    ASSUME SendInv, CarriedInv, NEW r \in runs,
           ClaimDeferred(r) \/ RecordRetry(r)
    PROVE  CarriedInv'
  <1> DEFINE e == r.email
             g == r.gen + 1
  <1>0. /\ TypeOK /\ e \in Emails /\ e \in emails /\ row \in [Emails -> Row]
        /\ row[e].gen = r.gen /\ row[e].status = "queued"
        /\ UNCHANGED <<born, emails, jobs, retired>>
    <2>1. CASE ClaimDeferred(r)
      BY <2>1 DEF SendInv, TypeOK, Run, ClaimDeferred, Claimable, team
    <2>2. CASE RecordRetry(r)
      BY <2>2 DEF SendInv, TypeOK, Run, RecordRetry, Failable, Recordable, team
    <2> QED
      BY <2>1, <2>2
  <1>1. /\ row'[e].gen = g /\ row'[e].status = "queued" /\ ~row'[e].claimed
        /\ row'[e].sentAt <=> row[e].sentAt
        /\ \A f \in Emails \ {e} : row'[f] = row[f]
    BY <1>0 DEF ClaimDeferred, Claimable, RecordRetry, Row
  <1>2. PICK n : n = NewRun(e, g)
    OBVIOUS
  <1>3. /\ runs' = Become(r, "returning") \cup {n}
        /\ n.email = e /\ n.gen = g /\ n.phase = "pending"
    BY <1>2 DEF ClaimDeferred, RecordRetry, Enqueue, NewRun
  <1>4. n \in runs' /\ Carries(n, e)'
    BY <1>1, <1>3 DEF Carries
  <1>5. \A f \in emails' \ {e} : f \in emails /\ Undisturbed(f)
    BY <1>0, <1>1, <1>3 DEF Undisturbed, JobsFor, Become, TypeOK
  <1>6. ~row'[e].sentAt
    BY <1>0, <1>1 DEF CarriedInv, Pending
  <1> QED
    BY <1>0, <1>1, <1>4, <1>5, <1>6, CarriedStep

LEMMA CarriedTaken ==
    ASSUME SendInv, CarriedInv, NEW r \in runs, ClaimTaken(r)
    PROVE  CarriedInv'
  <1> DEFINE e == r.email
  <1>0. /\ TypeOK /\ e \in Emails /\ e \in emails /\ row \in [Emails -> Row]
        /\ r \in Run /\ row[e].status = "queued" /\ row[e].gen = r.gen
        /\ UNCHANGED <<born, emails, jobs, retired>>
    BY DEF SendInv, ClaimTaken, Claimable, TypeOK, Run, team
  <1>1. PICK dropped \in SUBSET Addresses :
          /\ row' = [row EXCEPT ![e] = ClaimedAs(@, dropped)]
          /\ runs' = (runs \ {r}) \cup {Holding(r, Addresses \ dropped)}
    BY <1>0 DEF ClaimTaken, OptedOut, Barred, TypeOK
  <1> DEFINE s == Holding(r, Addresses \ dropped)
             x == ClaimedAs(row[e], dropped)
  <1>2. s.email = e /\ s.gen = r.gen /\ s.phase = "claimed"
    BY <1>0 DEF Holding, Run
  <1>3. /\ x.status = "queued" /\ x.claimed /\ x.gen = row[e].gen
        /\ x.sentAt <=> row[e].sentAt
    BY <1>0 DEF ClaimedAs, Row
  <1>4. runs' = (runs \ {r}) \cup {s} /\ row' = [row EXCEPT ![e] = x]
    BY <1>1
  <1> HIDE DEF s, x
  <1>5. row'[e] = x /\ \A f \in Emails \ {e} : row'[f] = row[f]
    BY <1>0, <1>4
  <1>6. s \in runs' /\ Carries(s, e)'
    BY <1>0, <1>2, <1>3, <1>4, <1>5 DEF Carries
  <1>7. \A f \in emails' \ {e} : f \in emails /\ Undisturbed(f)
    BY <1>0, <1>4, <1>5 DEF Undisturbed, JobsFor, TypeOK
  <1>8. ~x.sentAt
    BY <1>0, <1>3 DEF CarriedInv, Pending
  <1> QED
    BY <1>0, <1>3, <1>5, <1>6, <1>7, <1>8, CarriedStep

LEMMA CarriedCreate ==
    ASSUME SendInv, CarriedInv, NEW e \in Emails,
           CreateNow(e) \/ CreateScheduled(e)
    PROVE  CarriedInv'
  <1>0. /\ TypeOK /\ e \notin born /\ born' = born \cup {e}
        /\ emails' = emails \cup {e} /\ row \in [Emails -> Row] /\ retired' = retired
        /\ emails \subseteq Emails
    BY DEF SendInv, CreateNow, CreateScheduled, TypeOK, team
  <1>1. /\ \A f \in Emails \ {e} : row'[f] = row[f]
        /\ row'[e].gen = 0 /\ ~row'[e].claimed /\ ~row'[e].sentAt
    BY <1>0 DEF CreateNow, CreateScheduled, Fresh
  <1>2. JobsFor(e) = {} /\ \A j \in jobs : j.email \in born
    BY <1>0 DEF CarriedInv, JobsFor
  <1>3. CASE CreateNow(e)
    <2>0. PICK n : n = NewRun(e, 0)
      OBVIOUS
    <2>1. /\ runs' = runs \cup {n} /\ jobs' = jobs
          /\ row'[e].status = "queued"
      BY <1>0, <1>3, <2>0 DEF CreateNow, Enqueue, Fresh
    <2>2. n \in runs' /\ Carries(n, e)'
      BY <1>1, <2>0, <2>1 DEF Carries, NewRun
    <2>3. \A f \in emails' \ {e} : f \in emails /\ Undisturbed(f)
      BY <1>0, <1>1, <2>1 DEF Undisturbed, JobsFor
    <2> QED
      BY <1>0, <1>1, <2>1, <2>2, <2>3, CarriedStep
  <1>4. CASE CreateScheduled(e)
    <2> DEFINE new == [email |-> e, gen |-> 0]
    <2>1. runs' = runs /\ jobs' = jobs \cup {new} /\ row'[e].status = "scheduled"
      BY <1>0, <1>4 DEF CreateScheduled, Fresh, pool
    <2>2. new = OwnJob(e)' /\ new.email = e
      BY <1>1 DEF OwnJob
    <2> HIDE DEF new
    <2>3. JobsFor(e)' = {OwnJob(e)'}
      BY <1>2, <2>1, <2>2 DEF JobsFor
    <2>4. \A f \in emails' \ {e} : f \in emails /\ Undisturbed(f)
      BY <1>0, <1>1, <2>1, <2>2 DEF Undisturbed, JobsFor
    <2>5. \A j \in jobs' : j.email \in born'
      BY <1>0, <1>2, <2>1, <2>2
    <2> QED
      BY <1>0, <1>1, <2>1, <2>3, <2>4, <2>5, CarriedStep
  <1> QED
    BY <1>3, <1>4

LEMMA CarriedScheduled ==
    ASSUME SendInv, CarriedInv, NEW e \in Emails,
           CancelEmail(e) \/ RescheduleEmail(e)
    PROVE  CarriedInv'
  <1>0. /\ TypeOK /\ e \in emails /\ row \in [Emails -> Row] /\ e \in born
        /\ row[e].status = "scheduled" /\ ~Retired(e)
        /\ emails \subseteq Emails
        /\ UNCHANGED <<born, emails, runs, retired>>
    BY DEF SendInv, CancelEmail, RescheduleEmail, TypeOK, pool, team
  <1>1. /\ \A f \in Emails \ {e} : row'[f] = row[f]
        /\ ~row'[e].sentAt /\ ~row'[e].claimed
    BY <1>0 DEF CancelEmail, RescheduleEmail, Row, CarriedInv, Pending
  <1>2. JobsFor(e) = {OwnJob(e)}
    BY <1>0 DEF CarriedInv
  <1>3. CASE CancelEmail(e)
    <2>1. jobs' = jobs \ {OwnJob(e)} /\ row'[e].status = "canceled"
      BY <1>0, <1>3 DEF CancelEmail, OtherJobs, OwnJob, Row
    <2>2. \A f \in emails' \ {e} : f \in emails /\ Undisturbed(f)
      BY <1>0, <1>1, <2>1 DEF Undisturbed, JobsFor, OwnJob
    <2> QED
      BY <1>0, <1>1, <2>1, <2>2, CarriedStep DEF Pending
  <1>4. CASE RescheduleEmail(e)
    <2> DEFINE new == [email |-> e, gen |-> row[e].gen + 1]
    <2>1. /\ jobs' = (jobs \ {OwnJob(e)}) \cup {new}
          /\ row'[e].status = "scheduled" /\ row'[e].gen = row[e].gen + 1
      BY <1>0, <1>4 DEF RescheduleEmail, OtherJobs, OwnJob, Row
    <2>2. new = OwnJob(e)' /\ new.email = e
      BY <2>1 DEF OwnJob
    <2> HIDE DEF new
    <2>3. JobsFor(e)' = {OwnJob(e)'}
      BY <1>2, <2>1, <2>2 DEF JobsFor
    <2>4. \A f \in emails' \ {e} : f \in emails /\ Undisturbed(f)
      BY <1>0, <1>1, <2>1, <2>2 DEF Undisturbed, JobsFor, OwnJob
    <2>5. \A j \in jobs' : j.email \in born'
      BY <1>0, <2>1, <2>2 DEF CarriedInv
    <2> QED
      BY <1>0, <1>1, <2>1, <2>3, <2>4, <2>5, CarriedStep
  <1> QED
    BY <1>3, <1>4

LEMMA CarriedRelease ==
    ASSUME SendInv, CarriedInv, NEW j \in jobs, Release(j)
    PROVE  CarriedInv'
  <1> DEFINE e == j.email
             goes == /\ e \in emails
                     /\ row[e].status = "scheduled"
                     /\ row[e].gen = j.gen
                     /\ ~Retired(e)
  <1>0. /\ TypeOK /\ e \in Emails /\ row \in [Emails -> Row] /\ j \in Job
        /\ jobs' = jobs \ {j} /\ emails \subseteq Emails
        /\ UNCHANGED <<born, emails, retired>>
    BY DEF SendInv, Release, TypeOK, Job, team
  <1>1. CASE goes
    <2>0. PICK n : n = NewRun(e, j.gen)
      OBVIOUS
    <2>1. /\ runs' = runs \cup {n}
          /\ row'[e].status = "queued" /\ row'[e].gen = j.gen
          /\ ~row'[e].claimed /\ ~row'[e].sentAt
          /\ \A f \in Emails \ {e} : row'[f] = row[f]
      BY <1>0, <1>1, <2>0 DEF Release, Enqueue, Row, CarriedInv, Pending
    <2>2. n \in runs' /\ Carries(n, e)'
      BY <2>0, <2>1 DEF Carries, NewRun
    <2>3. \A f \in emails' \ {e} : f \in emails /\ Undisturbed(f)
      BY <1>0, <2>1 DEF Undisturbed, JobsFor
    <2> QED
      BY <1>0, <2>1, <2>2, <2>3, CarriedStep
  <1>2. CASE ~goes
    <2>1. UNCHANGED <<row, runs>>
      BY <1>2 DEF Release, pool
    <2>2. \A f \in emails' \ {e} : f \in emails /\ Undisturbed(f)
      BY <1>0, <2>1 DEF Undisturbed, JobsFor
    <2>3. e \in emails /\ row[e].status = "scheduled" => Retired(e)
      BY <1>0, <1>2 DEF CarriedInv, JobsFor, OwnJob
    <2>4. e \in emails' /\ row'[e].status = "queued" /\ ~Retired(e)' =>
            \E r \in runs' : Carries(r, e)'
      BY <1>0, <2>1 DEF CarriedInv, Carries, Retired
    <2> QED
      BY <1>0, <2>1, <2>2, <2>3, <2>4, CarriedStep DEF CarriedInv, Retired
  <1> QED
    BY <1>1, <1>2

LEMMA CarriedNext == SendInv /\ CarriedInv /\ [Next]_vars => CarriedInv'
  <1> SUFFICES ASSUME SendInv, CarriedInv, [Next]_vars PROVE CarriedInv'
    OBVIOUS
  <1>1. ASSUME NEW e \in Emails, UserStep(e) PROVE CarriedInv'
    BY <1>1, CarriedCreate, CarriedScheduled DEF UserStep
  <1>2. ASSUME NEW e \in Emails, Prune(e) \/ PurgeEmail(e) PROVE CarriedInv'
    BY <1>2, CarriedStays DEF Prune, PurgeEmail, Erase, pool, team
  <1>3. ASSUME NEW r \in runs, Return(r) PROVE CarriedInv'
    BY <1>3, CarriedStays DEF Return, table, team
  <1>4. ASSUME NEW r \in runs, RunStep(r) \/ Crash(r) PROVE CarriedInv'
    BY <1>3, <1>4, CarriedAdvance, CarriedClaimEnds, CarriedHandover, CarriedTaken,
       CarriedRecords, CarriedDone DEF RunStep, ClaimStep
  <1>5. CASE TeamStep
    BY <1>5, CarriedStays DEF TeamStep, RetireTeam, AddSuppression, RemoveSuppression,
                              table, pool
  <1>6. CASE UNCHANGED vars
    BY <1>6, CarriedStays DEF vars, table, pool, team
  <1> QED
    BY <1>1, <1>2, <1>4, <1>5, <1>6, CarriedRelease, CarriedSes DEF Next

\* enqueue, release, record, deliverDone: a queued email of a team that stays is in
\* the hands of exactly one run of its current generation, a scheduled one of
\* exactly one release job, whatever dies, is repeated or rescheduled.
THEOREM OneCarrierAlways == Spec => []OneCarrier
  <1>1. Init => CarriedInv
    BY DEF Init, CarriedInv
  <1>2. SendInv /\ CarriedInv /\ [Next]_vars => CarriedInv'
    BY CarriedNext
  <1>3. SendInv /\ CarriedInv => OneCarrier
    <2> SUFFICES ASSUME SendInv, CarriedInv, NEW e \in emails, ~Retired(e)
                 PROVE  LET own == {r \in runs : r.email = e /\ r.gen = row[e].gen}
                        IN  /\ row[e].status = "queued" =>
                                 \E r \in own :
                                   /\ own = {r}
                                   /\ r.phase # "returning"
                                   /\ row[e].claimed => r.phase # "pending"
                                   /\ ~row[e].claimed => r.phase \in {"pending", "crashed"}
                            /\ row[e].status = "scheduled" =>
                                 /\ {j \in jobs : j.email = e} =
                                      {[email |-> e, gen |-> row[e].gen]}
                                 /\ \A r \in runs : r.email # e
      BY DEF OneCarrier
    <2> DEFINE own == {r \in runs : r.email = e /\ r.gen = row[e].gen}
    <2>1. ASSUME row[e].status = "queued"
          PROVE  \E r \in own :
                   /\ own = {r}
                   /\ r.phase # "returning"
                   /\ row[e].claimed => r.phase # "pending"
                   /\ ~row[e].claimed => r.phase \in {"pending", "crashed"}
      <3>1. PICK r \in runs : Carries(r, e)
        BY <2>1 DEF CarriedInv
      <3>2. r \in own /\ \A s \in own : s = r
        BY <3>1 DEF Carries, SendInv, OneRunPerGeneration
      <3>3. own = {r}
        BY <3>2
      <3> QED
        BY <3>1, <3>2, <3>3 DEF Carries
    <2>2. row[e].status = "scheduled" =>
            /\ {j \in jobs : j.email = e} = {[email |-> e, gen |-> row[e].gen]}
            /\ \A r \in runs : r.email # e
      BY DEF CarriedInv, JobsFor, OwnJob, SendInv, Unreleased
    <2> QED
      BY <2>1, <2>2
  <1> QED
    BY <1>1, <1>2, <1>3, SendInvariant, PTL DEF Spec

=============================================================================
