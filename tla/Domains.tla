-------------------------------- MODULE Domains --------------------------------
(***************************************************************************)
(* One domain name: the rows of `domains` that want it (domains.ts), the   *)
(* operations that set it up at AWS (ses/workflows.ts, ses/provision.ts),  *)
(* its status checks (ses/verify.ts), and the claims by which a team that  *)
(* proves by DNS that it owns the name takes it over (domainClaims.ts,     *)
(* ses/claimDns.ts).                                                       *)
(*                                                                         *)
(* A claim is named by the placeholder made for it.  Operations, checks    *)
(* and lookups are processes: what they read may be old when they write.   *)
(***************************************************************************)
EXTENDS Integers, FiniteSets

CONSTANTS
    Teams,          \* teams
    LastCheck,      \* last status check of the 72 hours (CHECK_DELAYS)
    MaxDomains,     \* bound: domain rows, numbered in the order they are made
    MaxMoves,       \* bound: see Move
    MaxWork,        \* bound: operations of a domain at a time
    MaxChecks,      \* bound: status checks of a domain at a time
    MaxLookups      \* bound: DNS lookups of a claim

NoTeam == "no team"

ASSUME DomainsAssumption ==
    /\ {LastCheck, MaxDomains, MaxMoves, MaxWork, MaxChecks, MaxLookups} \subseteq Nat
    /\ NoTeam \notin Teams

Domains == 1..MaxDomains
NoDomain == 0

VARIABLES
    row,        \* the domains rows
    claim,      \* the domainClaims rows
    mail,       \* domains with queued or scheduled emails
    work,       \* operations: domainOperationWithTenant and its action
    check,      \* status checks: ses.verify.run
    lookup,     \* DNS lookups: ses.claimDns.verify
    moves       \* how many of MaxMoves were made

\* History.
VARIABLES
    proved,     \* claims whose record the lookup asked for last has found
    overlapped, \* domains on which an operation began while another was at work
    unread      \* domains no check has read since an operation ended

history == <<proved, overlapped, unread>>
vars == <<row, claim, mail, work, check, lookup, moves, history>>

Operation == {"provision", "refresh", "settings", "remove"}
DomainStatus == {"pending", "verified", "failed"}

Row == [state : {"none", "live", "gone"}, team : Teams \cup {NoTeam}, phase : {"pending", "running", "ready", "failed"},
        op : Operation, status : DomainStatus, proven : BOOLEAN, sending : BOOLEAN,
        placeholder : BOOLEAN, claimed : BOOLEAN, transfer : Domains \cup {NoDomain},
        adoption : {"none", "previewed", "approved"},
        due : BOOLEAN, attempt : 0..LastCheck + 1]
NoRow == [state |-> "none", team |-> NoTeam, phase |-> "pending", op |-> "provision", status |-> "pending",
          proven |-> FALSE, sending |-> FALSE, placeholder |-> FALSE, claimed |-> FALSE,
          transfer |-> NoDomain, adoption |-> "none", due |-> FALSE, attempt |-> 0]
Gone == [NoRow EXCEPT !.state = "gone"]

Open == {"pending", "blocked"}
Over == {"completed", "canceled", "superseded"}
Claim == [status : {"none", "expired", "verified"} \cup Open \cup Over,
          team : Teams \cup {NoTeam}, from : Domains \cup {NoDomain}, lapsed : BOOLEAN, checking : 0..MaxLookups]
NoClaim == [status |-> "none", team |-> NoTeam, from |-> NoDomain, lapsed |-> FALSE, checking |-> 0]

\* An operation is "told" when its action has called finish and has yet to return.
Work == [phase : {"none", "waiting", "acting", "told"}, op : Operation]
NoWork == [phase |-> "none", op |-> "provision"]
Told == [NoWork EXCEPT !.phase = "told"]
Check == [phase : {"none", "queued", "reading"}, attempt : 0..LastCheck + 1, current : BOOLEAN]
NoCheck == [phase |-> "none", attempt |-> 0, current |-> FALSE]

TypeOK ==
    /\ row \in [Domains -> Row]
    /\ \A d \in Domains :
         row[d].state # "live" => row[d] = [NoRow EXCEPT !.state = row[d].state]
    /\ claim \in [Domains -> Claim]
    /\ mail \subseteq Domains
    /\ work \in [Domains -> [1..MaxWork -> Work]]
    /\ check \in [Domains -> [1..MaxChecks -> Check]]
    /\ lookup \in [Domains -> [1..MaxLookups -> {"none", "asked", "found", "missed"}]]
    /\ moves \in 0..MaxMoves
    /\ proved \cup overlapped \cup unread \subseteq Domains

Init ==
    /\ row = [d \in Domains |-> NoRow]
    /\ claim = [d \in Domains |-> NoClaim]
    /\ mail = {}
    /\ work = [d \in Domains |-> [i \in 1..MaxWork |-> NoWork]]
    /\ check = [d \in Domains |-> [i \in 1..MaxChecks |-> NoCheck]]
    /\ lookup = [c \in Domains |-> [i \in 1..MaxLookups |-> "none"]]
    /\ moves = 0
    /\ proved = {}
    /\ overlapped = {}
    /\ unread = {}

New(d) == row[d].state = "none" /\ \A p \in 1..d - 1 : row[p].state # "none"
Live(d) == row[d].state = "live"

\* activeName: placeholders reserve nothing.
Active == {d \in Domains : Live(d) /\ ~row[d].placeholder}

\* ses/contracts.ts: what an operation that failed leaves standing.
Provisioned(r) ==
    r.phase = "ready" \/ (r.phase = "failed" /\ r.op \in {"refresh", "settings"})
Checkable(d) == Live(d) /\ row[d].phase # "running" /\ Provisioned(row[d])

\* A domain one of whose two teams is being served by a claim.
Locked(d) == row[d].claimed \/ row[d].transfer # NoDomain

\* effectiveStatus
Standing(c) == claim[c].status \in Open /\ ~claim[c].lapsed
Expired(c) ==
    claim[c].status = "expired" \/ (claim[c].status \in Open /\ claim[c].lapsed)
-----------------------------------------------------------------------------
(***************************************************************************)
(* Operations.                                                             *)
(***************************************************************************)
AtWork(d) == \E i \in 1..MaxWork : work[d][i].phase \in {"waiting", "acting"}

\* start, of a domain that no operation is running on.
Started(r, op) ==
    [r EXCEPT !.phase = "running", !.op = op, !.due = FALSE,
              !.sending = @ /\ op # "remove"]

\* startWorkflow, beside the other changes `ws` of the operations.
Enqueue(d, ws) ==
    \E i \in 1..MaxWork :
        /\ ws[d][i].phase = "none"
        /\ \A j \in 1..i - 1 : ws[d][j].phase # "none"
        /\ work' = [ws EXCEPT ![d][i].phase = "waiting"]
        /\ overlapped' = IF AtWork(d) THEN overlapped \cup {d} ELSE overlapped

\* start, from a handler that changes the row to `r` before.
Start(d, r, op) ==
    /\ r.phase # "running"
    /\ row' = [row EXCEPT ![d] = Started(r, op)]
    /\ Enqueue(d, work)

\* createDomain: a name is one team's, in all regions.
Taken == Active # {}

CreateDomain(d, t) ==
    /\ New(d)
    /\ ~Taken
    /\ Start(d, [NoRow EXCEPT !.state = "live", !.team = t, !.sending = TRUE], "provision")
    /\ UNCHANGED <<claim, mail, check, lookup, moves, proved, unread>>

\* Bound: what users ask of domains that exist, previews of an import aside, the checks
\* sent out, the mail created and the claims whose week passes, all together.
Move == moves < MaxMoves /\ moves' = moves + 1

Unlocked(d) == Live(d) /\ ~row[d].placeholder /\ ~Locked(d)

\* refresh, and verifyDomain of a failed domain; refreshForNewOrigin is a refresh
\* of a domain whose last operation left it standing.
Refresh(d) ==
    /\ Move
    /\ Unlocked(d)
    /\ \E op \in {IF row[d].phase = "failed" THEN row[d].op ELSE "refresh"}
                 \cup IF Provisioned(row[d]) THEN {"refresh"} ELSE {} :
         Start(d, row[d], op)
    /\ UNCHANGED <<claim, mail, check, lookup, proved, unread>>

\* updateDomain: sending alone needs no operation.
UpdateSending(d) ==
    /\ Move
    /\ Live(d)
    /\ ~Locked(d)
    /\ Provisioned(row[d])
    /\ row' = [row EXCEPT ![d].sending = ~@]
    /\ UNCHANGED <<claim, mail, work, check, lookup, history>>

UpdateDomain(d) ==
    /\ Move
    /\ Unlocked(d)
    /\ Provisioned(row[d])
    /\ \E s \in BOOLEAN, op \in {"settings", "refresh"} :
         Start(d, [row[d] EXCEPT !.sending = s], op)
    /\ UNCHANGED <<claim, mail, check, lookup, proved, unread>>

RemoveDomain(d) ==
    /\ Move
    /\ Unlocked(d)
    /\ Start(d, row[d], "remove")
    /\ UNCHANGED <<claim, mail, check, lookup, proved, unread>>

\* previewContext, savePreview: nothing to count, a second preview is the first.
SavePreview(d) ==
    /\ Live(d)
    /\ row[d].phase = "failed"
    /\ row[d].op = "provision"
    /\ row' = [row EXCEPT ![d].adoption = "previewed"]
    /\ UNCHANGED <<claim, mail, work, check, lookup, moves, history>>

ApproveAdoption(d) ==
    /\ Move
    /\ Unlocked(d)
    /\ row[d].phase = "failed"
    /\ row[d].adoption # "none"
    /\ Start(d, [row[d] EXCEPT !.adoption = "approved"], "provision")
    /\ UNCHANGED <<claim, mail, check, lookup, proved, unread>>

\* The action reads what to do when it starts (workerContext).
Act(d, i) ==
    /\ work[d][i].phase = "waiting"
    /\ Live(d)
    /\ work' = [work EXCEPT ![d][i] = [phase |-> "acting", op |-> row[d].op]]
    /\ UNCHANGED <<row, claim, mail, check, lookup, moves, history>>

\* finish: the row after an operation told of its end.  Only a provision can fail with
\* nothing standing behind it; a check is due while what stands is not verified.
FinishedCounting(r, error, status) ==
    LET phase == IF error THEN "failed" ELSE "ready"
        now == IF error /\ r.op = "provision" THEN "failed" ELSE status
    IN  [r EXCEPT !.phase = phase, !.status = now, !.attempt = @ + 1,
                  !.proven = @ \/ (~error /\ now = "verified"),
                  !.due = now # "verified" /\ Provisioned([r EXCEPT !.phase = phase])]
Finished(r, error, status) ==
    LET phase == IF error THEN "failed" ELSE "ready"
        now == IF error /\ r.op = "provision" THEN "failed" ELSE status
    IN  [r EXCEPT !.phase = phase, !.status = now, !.attempt = 0,
                  !.proven = @ \/ (~error /\ now = "verified"),
                  !.due = now # "verified" /\ Provisioned([r EXCEPT !.phase = phase])]

\* Whatever a check has read of a domain is no longer its checkedAt.
OutdatedNever(d) == check
Outdated(d) ==
    [check EXCEPT ![d] = [i \in 1..MaxChecks |-> [check[d][i] EXCEPT !.current = FALSE]]]

\* finish, of whichever operation calls it; a removed domain stays as it is.
FinishGone(d, i, after) ==
    /\ ~Live(d)
    /\ work' = [work EXCEPT ![d][i] = after]
    /\ UNCHANGED <<row, claim, mail, check, lookup, moves, history>>

\* domainClaims.finish, of the placeholder's own operation: the claim is through.
Completes(d, r) ==
    row[d].transfer = NoDomain /\ row[d].claimed
      /\ claim[d].status = "verified" /\ r.phase = "ready"

FinishKept(d, i, error, status, after) ==
    /\ Live(d)
    /\ LET r == Finished(row[d], error, status)
       IN  IF Completes(d, r)
           THEN /\ row' = [row EXCEPT ![d] = [r EXCEPT !.claimed = FALSE]]
                /\ claim' = [claim EXCEPT ![d].status = "completed"]
           ELSE /\ row' = [row EXCEPT ![d] = r]
                /\ UNCHANGED claim
    /\ work' = [work EXCEPT ![d][i] = after]
    /\ check' = Outdated(d)
    /\ unread' = unread \cup {d}
    /\ UNCHANGED <<mail, lookup, moves, proved, overlapped>>

\* domainClaims.finish, of the old owner's removal: the name is the placeholder's at once.
SucceededHidden(r) == Started([r EXCEPT !.sending = TRUE], "provision")
Succeeded(r) == Started([r EXCEPT !.placeholder = FALSE, !.sending = TRUE], "provision")

FinishRemoved(d, i, after) ==
    /\ Live(d)
    /\ LET c == row[d].transfer
           ws == [work EXCEPT ![d][i] = after]
       IN  IF c # NoDomain /\ claim[c].status = "verified"
           THEN /\ row' = [row EXCEPT ![d] = Gone, ![c] = Succeeded(@)]
                /\ Enqueue(c, ws)
           ELSE /\ row' = [row EXCEPT ![d] = Gone]
                /\ work' = ws
                /\ UNCHANGED overlapped
    /\ check' = Outdated(d)
    /\ UNCHANGED <<claim, mail, lookup, moves, proved, unread>>

\* The action succeeds at AWS; SES and DNS say what is verified.
Succeed(d, i) ==
    LET op == work[d][i].op
    IN  /\ work[d][i].phase = "acting"
        /\ \/ op = "remove" /\ FinishRemoved(d, i, NoWork)
           \/ op = "settings" /\ FinishKept(d, i, FALSE, row[d].status, Told)
           \/ /\ op \in {"provision", "refresh"}
              /\ \E s \in {"pending", "verified"} : FinishKept(d, i, FALSE, s, Told)
           \/ FinishGone(d, i, Told)

FinishUntold(d, i, after) ==
    /\ work' = [work EXCEPT ![d][i] = after]
    /\ UNCHANGED <<row, claim, mail, check, lookup, moves, history>>
FinishFailed(d, i, after) ==
    FinishKept(d, i, TRUE, row[d].status, after) \/ FinishGone(d, i, after)

\* The action fails at AWS and says so.
ActionFails(d, i) ==
    /\ work[d][i].phase = "acting"
    /\ FinishFailed(d, i, Told)

\* A step of the workflow throws, or its action dies, at any point, and the workflow
\* says so.  An action that has told may also say so itself: it calls finish in the
\* same try block as the reading of the account's quota after it.
WorkStops(d, i) ==
    /\ work[d][i].phase # "none"
    /\ FinishFailed(d, i, NoWork)

WorkEnds(d, i) ==
    /\ work[d][i].phase = "told"
    /\ work' = [work EXCEPT ![d][i] = NoWork]
    /\ UNCHANGED <<row, claim, mail, check, lookup, moves, history>>

Operate(d) ==
    \E i \in 1..MaxWork :
        Act(d, i) \/ Succeed(d, i) \/ ActionFails(d, i) \/ WorkStops(d, i) \/ WorkEnds(d, i)
-----------------------------------------------------------------------------
(***************************************************************************)
(* Status checks.                                                          *)
(***************************************************************************)
\* dispatchCheck
Dispatch(d, attempt) ==
    /\ Move
    /\ row' = [row EXCEPT ![d].attempt = attempt, ![d].due = TRUE]
    /\ \E i \in 1..MaxChecks :
         /\ check[d][i].phase = "none"
         /\ \A j \in 1..i - 1 : check[d][j].phase # "none"
         /\ check' = [check EXCEPT ![d][i] = [NoCheck EXCEPT !.phase = "queued", !.attempt = attempt]]
    /\ UNCHANGED <<claim, mail, work, lookup, history>>

\* dispatchChecks, when a check or the lease of the one before is over.
DispatchDue(d) == row[d].due /\ Dispatch(d, row[d].attempt)

\* verifyDomain, of one that did not fail.
VerifyDomain(d) ==
    /\ ~Locked(d)
    /\ row[d].phase # "failed"
    /\ Checkable(d)
    /\ Dispatch(d, 0)

\* checkTarget, and what run does at SES.
ReadCheck(d, i) ==
    /\ check[d][i].phase = "queued"
    /\ check' = [check EXCEPT ![d][i] =
           IF Checkable(d) THEN [@ EXCEPT !.phase = "reading", !.current = TRUE] ELSE NoCheck]
    /\ unread' = unread \ {d}
    /\ UNCHANGED <<row, claim, mail, work, lookup, moves, proved, overlapped>>

\* The check's action dies.
LoseCheck(d, i) ==
    /\ check[d][i].phase # "none"
    /\ check' = [check EXCEPT ![d][i] = NoCheck]
    /\ UNCHANGED <<row, claim, mail, work, lookup, moves, history>>

Current(d, i) == Checkable(d) /\ check[d][i].current

\* saveCheck: nothing if the row was written since, the schedule if SES did not answer.
SaveStale(d, i) ==
    /\ check[d][i].phase = "reading"
    /\ ~Current(d, i)
    /\ check' = [check EXCEPT ![d][i] = NoCheck]
    /\ UNCHANGED <<row, claim, mail, work, lookup, moves, history>>

CheckedShort(r, attempt, status) ==
    [r EXCEPT !.attempt = attempt + 1, !.status = status,
              !.due = status # "verified" /\ attempt + 1 < LastCheck,
              !.proven = @ \/ status = "verified"]
Checked(r, attempt, status) ==
    [r EXCEPT !.attempt = attempt + 1, !.status = status,
              !.due = status # "verified" /\ attempt < LastCheck,
              !.proven = @ \/ status = "verified"]

SaveCheck(d, i) ==
    LET at == check[d][i].attempt
    IN  /\ check[d][i].phase = "reading"
        /\ Current(d, i)
        /\ \/ /\ row' = [row EXCEPT ![d] = Checked(@, at, @.status)]
              /\ check' = [check EXCEPT ![d][i] = NoCheck]
           \/ \E s \in {"pending", "verified"} :
                /\ row' = [row EXCEPT ![d] = Checked(@, at, s)]
                /\ check' = [Outdated(d) EXCEPT ![d][i] = NoCheck]
        /\ UNCHANGED <<claim, mail, work, lookup, moves, history>>
-----------------------------------------------------------------------------
(***************************************************************************)
(* Claims.                                                                 *)
(***************************************************************************)
\* createClaim.  A claim of the team that stands is answered again; one that expired
\* is superseded and its placeholder goes.
Earlier(t) == {p \in Domains : claim[p].team = t /\ claim[p].status \notin Over}

\* The rest of a claim that is over, and was not through, is never read again.
Ended(t, status) == [NoClaim EXCEPT !.status = status, !.team = t]

CreateClaim(c, t) ==
    /\ New(c)
    /\ \A p \in Earlier(t) : Expired(p)
    /\ \E o \in Active :
         /\ Active = {o}
         /\ row[o].team # t
         /\ row[o].proven \/ row[o].status = "verified"
         /\ claim' = [p \in Domains |->
               IF p = c THEN [NoClaim EXCEPT !.status = "pending", !.team = t, !.from = o]
               ELSE IF p \in Earlier(t) THEN Ended(t, "superseded")
               ELSE claim[p]]
    /\ row' = [p \in Domains |->
          IF p = c THEN [NoRow EXCEPT !.state = "live", !.team = t, !.placeholder = TRUE, !.claimed = TRUE]
          ELSE IF p \in Earlier(t) THEN Gone
          ELSE row[p]]
    /\ proved' = proved \ Earlier(t)
    /\ UNCHANGED <<mail, work, check, lookup, moves, overlapped, unread>>

\* Seven days.
LapseClaim(c) ==
    /\ Move
    /\ claim[c].status \in Open
    /\ ~claim[c].lapsed
    /\ claim' = [claim EXCEPT ![c].lapsed = TRUE]
    /\ UNCHANGED <<row, mail, work, check, lookup, history>>

\* expire, and verifyClaim of one that expired.
Expire(c) ==
    /\ claim[c].status \in Open
    /\ Expired(c)
    /\ claim' = [claim EXCEPT ![c].status = "expired", ![c].checking = 0]
    /\ UNCHANGED <<row, mail, work, check, lookup, moves, history>>

\* verifyClaim: ask DNS, a minute after the last time at the earliest.
AskProof(c) ==
    /\ Move
    /\ Standing(c)
    /\ Live(c)
    /\ \E i \in 1..MaxLookups :
         /\ lookup[c][i] = "none"
         /\ claim' = [claim EXCEPT ![c].checking = i]
         /\ lookup' = [lookup EXCEPT ![c][i] = "asked"]
    /\ proved' = proved \ {c}
    /\ UNCHANGED <<row, mail, work, check, overlapped, unread>>

\* The domain a verified claim waits for.
Target(c) == IF Live(claim[c].from) THEN claim[c].from ELSE c

\* verifyClaim, of a transfer that failed: the same operation again.
RetryTransfer(c) ==
    /\ claim[c].status = "verified"
    /\ row[Target(c)].phase = "failed"
    /\ Start(Target(c), row[Target(c)], row[Target(c)].op)
    /\ UNCHANGED <<claim, mail, check, lookup, moves, proved, unread>>

\* The check that a lookup's claim is the one that asked for it (dnsTarget, acceptProof).
AskedEver(c, i) == Standing(c)
Asked(c, i) == claim[c].checking = i /\ Standing(c)

\* ses.claimDns.verify: dnsTarget, then DNS has the record or not.
LookUp(c, i) ==
    /\ lookup[c][i] = "asked"
    /\ \E answer \in IF Asked(c, i) THEN {"found", "missed"} ELSE {"none"} :
         /\ lookup' = [lookup EXCEPT ![c][i] = answer]
         /\ proved' = IF answer = "found" THEN proved \cup {c} ELSE proved
    /\ UNCHANGED <<row, claim, mail, work, check, moves, overlapped, unread>>

\* ses.claimDns.verify dies.
LoseLookup(c, i) ==
    /\ lookup[c][i] # "none"
    /\ lookup' = [lookup EXCEPT ![c][i] = "none"]
    /\ UNCHANGED <<row, claim, mail, work, check, moves, history>>

\* acceptProof: what keeps the old owner's domain where it is.
BlockedByWork(o) ==
    \/ Active # {o}
    \/ row[o].phase = "running"
    \/ row[o].op = "remove"
    \/ row[o].transfer # NoDomain
    \/ row[o].adoption = "approved"
Blocked(o) ==
    \/ Active # {o}
    \/ row[o].phase = "running"
    \/ row[o].op = "remove"
    \/ row[o].transfer # NoDomain
    \/ row[o].adoption = "approved"
    \/ o \in mail

Answered(c, i) == lookup' = [lookup EXCEPT ![c][i] = "none"]

ProofStale(c, i) ==
    /\ lookup[c][i] \in {"found", "missed"}
    /\ ~Asked(c, i)
    /\ Answered(c, i)
    /\ UNCHANGED <<row, claim, mail, work, check, moves, history>>

ProofRefused(c, i) ==
    /\ lookup[c][i] \in {"found", "missed"}
    /\ Asked(c, i)
    /\ \/ lookup[c][i] = "missed" /\ claim' = [claim EXCEPT ![c].checking = 0]
       \/ /\ lookup[c][i] = "found"
          /\ Blocked(claim[c].from)
          /\ claim' = [claim EXCEPT ![c].checking = 0, ![c].status = "blocked"]
    /\ Answered(c, i)
    /\ UNCHANGED <<row, mail, work, check, moves, history>>

AcceptProof(c, i) ==
    LET o == claim[c].from
    IN  /\ lookup[c][i] = "found"
        /\ Asked(c, i)
        /\ ~Blocked(o)
        /\ claim' = [claim EXCEPT ![c].checking = 0, ![c].status = "verified"]
        /\ Start(o, [row[o] EXCEPT !.transfer = c, !.sending = FALSE], "remove")
        /\ Answered(c, i)
        /\ UNCHANGED <<mail, check, moves, proved, unread>>

\* start of a placeholder's removal: cancel.  Once verified it has to go on.
CancelableAlways(c) == Live(c) /\ row[c].placeholder
Cancelable(c) == Live(c) /\ row[c].placeholder /\ claim[c].status # "verified"

CancelClaim(c) ==
    /\ Cancelable(c)
    /\ claim' = [claim EXCEPT ![c] = Ended(@.team, "canceled")]
    /\ row' = [row EXCEPT ![c] = Gone]
    /\ proved' = proved \ {c}
    /\ UNCHANGED <<mail, work, check, lookup, moves, overlapped, unread>>
-----------------------------------------------------------------------------
(***************************************************************************)
(* Mail of the domain, as sendContext lets it in.                          *)
(***************************************************************************)
Sendable(r) == r.state = "live" /\ r.sending /\ Provisioned(r) /\ r.status = "verified"

CreateMail(d) ==
    /\ Move
    /\ Sendable(row[d])
    /\ mail' = mail \cup {d}
    /\ UNCHANGED <<row, claim, work, check, lookup, history>>

SettleMail(d) ==
    /\ d \in mail
    /\ mail' = mail \ {d}
    /\ UNCHANGED <<row, claim, work, check, lookup, moves, history>>
-----------------------------------------------------------------------------
Next ==
    \E d \in Domains :
        \/ \E t \in Teams : CreateDomain(d, t) \/ CreateClaim(d, t)
        \/ Refresh(d)
        \/ UpdateSending(d)
        \/ UpdateDomain(d)
        \/ RemoveDomain(d)
        \/ SavePreview(d)
        \/ ApproveAdoption(d)
        \/ Operate(d)
        \/ DispatchDue(d)
        \/ VerifyDomain(d)
        \/ \E i \in 1..MaxChecks :
             ReadCheck(d, i) \/ LoseCheck(d, i) \/ SaveStale(d, i) \/ SaveCheck(d, i)
        \/ LapseClaim(d)
        \/ Expire(d)
        \/ AskProof(d)
        \/ RetryTransfer(d)
        \/ \E i \in 1..MaxLookups :
             \/ LookUp(d, i)
             \/ LoseLookup(d, i)
             \/ ProofStale(d, i)
             \/ ProofRefused(d, i)
             \/ AcceptProof(d, i)
        \/ CancelClaim(d)
        \/ CreateMail(d)
        \/ SettleMail(d)

Spec == Init /\ [][Next]_vars
-----------------------------------------------------------------------------
Verified(c) == claim[c].status = "verified"

\* "Domain names are reserved across the installation" (docs/ses-tenancy.md): one
\* domain has the name, whatever is created, removed, claimed and finished late; in a
\* transfer it is always the old owner's or the new one's, never free, and there is one
\* transfer at a time (createDomain, acceptProof, domainClaims.finish).
OneOwner ==
    /\ Cardinality(Active) <= 1
    /\ \A c \in Domains : Verified(c) => Active = {Target(c)} /\ Target(c) \in {c, claim[c].from}
    /\ \A c, b \in Domains : Verified(c) /\ Verified(b) => c = b

\* A name changes hands only on a proof DNS gave to the lookup asked for last, of a
\* claim that stood, and takes neither queued or scheduled mail nor an imported identity
\* with it: "new mail cannot cross that boundary" (docs/ses-tenancy.md; acceptProof).
TransferIsProved ==
    \A c \in Domains :
        claim[c].status \in {"verified", "completed"} =>
            /\ c \in proved
            /\ claim[c].from \notin mail
            /\ row[claim[c].from].adoption # "approved"

\* No lock without its holder: a domain is locked, or a placeholder, only for a claim
\* that can still be gone on with, and a verified claim has an operation at work or one that
\* failed and can be retried ("verify again retries the failed step without releasing its
\* lock", docs/rest-api.md).  Where two operations of a domain overlapped, the one that
\* ends last may say "ready" over the other's failure, and nothing can be retried.
LocksAreHeld ==
    \A d \in Domains : Live(d) =>
        /\ row[d].placeholder => row[d].claimed
        /\ row[d].claimed => IF row[d].placeholder
                             THEN claim[d].status \in Open \cup {"expired", "verified"}
                             ELSE Verified(d)
        /\ row[d].transfer # NoDomain =>
             Verified(row[d].transfer) /\ claim[row[d].transfer].from = d
        /\ Verified(d) => \/ row[Target(d)].phase \in {"running", "failed"}
                          \/ Target(d) \in overlapped
        /\ row[d].phase = "running" => AtWork(d)

\* A domain that stands and is not verified is checked again until its 72 hours are
\* over, an operation that ends begins them anew, and no other domain waits for a
\* check, whatever operations and checks write over each other: the answer of a check
\* that began before an operation ended changes nothing (start, finish, dispatchCheck,
\* saveCheck).
ChecksGoOn ==
    \A d \in Domains : Live(d) =>
        /\ Provisioned(row[d]) /\ row[d].status # "verified" /\ row[d].attempt <= LastCheck
             => row[d].due
        /\ d \in unread => row[d].attempt = 0
        /\ row[d].due => Checkable(d)
=============================================================================
