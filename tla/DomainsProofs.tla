----------------------------- MODULE DomainsProofs -----------------------------
(***************************************************************************)
(* Proofs about domains and the claims on them, for any teams, number of   *)
(* domains, operations, checks and lookups.                                *)
(***************************************************************************)
EXTENDS Domains, FiniteSetTheorems, TLAPS

Held == Open \cup {"expired", "verified"}

\* What a row says is consistent in itself.
Sound(r) ==
    /\ r.placeholder => r.claimed /\ ~r.proven /\ r.phase = "pending"
    /\ r.transfer # NoDomain => r.op = "remove" /\ ~r.sending /\ ~r.placeholder
    /\ r.status = "verified" => r.proven
    /\ r.due => Provisioned(r) /\ r.attempt <= LastCheck
    /\ Provisioned(r) /\ r.status # "verified" /\ r.attempt <= LastCheck => r.due

\* A check does not pass for one of before an operation ended.
SoundChecks ==
    /\ \A d \in Domains, i \in 1..MaxChecks :
         /\ check[d][i].attempt <= LastCheck
         /\ check[d][i].current => d \notin unread
    /\ \A d \in unread : row[d].attempt = 0

SoundRows == \A d \in Domains : Sound(row[d])

LocalInv == TypeOK /\ SoundRows /\ SoundChecks

\* A claim that is not over has its placeholder and, while it is there, a domain of
\* another owner that was proven once.
ClaimsStand ==
    \A c \in Domains :
        /\ row[c].state = "none" => claim[c].status = "none"
        /\ claim[c].status = "none" => claim[c].team = NoTeam
        /\ claim[c].status \in Held =>
             /\ Live(c)
             /\ row[c].claimed
             /\ claim[c].from \in Domains \ {c}
             /\ row[claim[c].from].state # "none"
             /\ Live(claim[c].from) => row[claim[c].from].proven /\ ~row[claim[c].from].placeholder
        /\ claim[c].status \in Open \cup {"expired"} => row[c].placeholder

\* A verified claim waits for the old owner's removal, and then for its own provision.
Transfers(c) ==
    IF Live(claim[c].from)
    THEN row[c].placeholder /\ row[claim[c].from].transfer = c
    ELSE ~row[c].placeholder /\ ~row[c].proven /\ row[c].op = "provision" /\ row[c].phase \in {"running", "failed"}

LocksHold ==
    \A d \in Domains :
        /\ row[d].placeholder => claim[d].status \in Held
        /\ row[d].claimed => row[d].placeholder \/ Verified(d)
        /\ row[d].transfer # NoDomain =>
             Verified(row[d].transfer) /\ claim[row[d].transfer].from = d
        /\ Verified(d) => Transfers(d)

OwnerInv ==
    /\ \A d, e \in Active : d = e
    /\ ClaimsStand
    /\ LocksHold

\* Operations do what their row asks for, where it matters.
WorkInv ==
    \A d \in Domains :
        /\ row[d].placeholder \/ row[d].state = "none" =>
             \A i \in 1..MaxWork : work[d][i].phase = "none"
        /\ Verified(d) =>
             \A i \in 1..MaxWork : work[d][i].phase = "acting" => work[d][i].op = "provision"
        /\ row[d].transfer # NoDomain /\ d \notin overlapped =>
             /\ row[d].phase \in {"running", "failed"}
             /\ \A i \in 1..MaxWork : work[d][i].phase = "acting" => work[d][i].op = "remove"
        /\ row[d].phase = "running" => AtWork(d)

\* The lookup asked for last is the one whose answer counts.
ProofInv ==
    /\ \A c \in Domains, i \in 1..MaxLookups :
         lookup[c][i] = "found" /\ claim[c].checking = i => c \in proved
    /\ \A c \in Domains : claim[c].status = "completed" =>
         claim[c].from \in Domains /\ row[claim[c].from].state = "gone"
    /\ TransferIsProved

DomainsInv == LocalInv /\ OwnerInv /\ WorkInv /\ ProofInv
-----------------------------------------------------------------------------
(***************************************************************************)
(* What the operators on rows do.                                          *)
(***************************************************************************)
LEMMA Constants ==
    /\ LastCheck \in Nat /\ MaxDomains \in Nat /\ MaxMoves \in Nat
    /\ MaxWork \in Nat /\ MaxChecks \in Nat /\ MaxLookups \in Nat
    /\ NoTeam \notin Teams
    /\ Domains \subseteq Nat /\ NoDomain \notin Domains
  BY DomainsAssumption DEF Domains, NoDomain

LEMMA NoRowSound == NoRow \in Row /\ Gone \in Row /\ Sound(NoRow) /\ Sound(Gone)
  <1>1. NoRow \in Row
    BY Constants DEF NoRow, Row, Operation, DomainStatus, NoDomain
  <1>2. Gone \in Row
    BY <1>1 DEF Gone, Row
  <1>3. Sound(NoRow)
    BY DEF NoRow, Sound, Provisioned, NoDomain
  <1>4. Sound(Gone)
    BY DEF Gone, NoRow, Sound, Provisioned, NoDomain
  <1> QED
    BY <1>1, <1>2, <1>3, <1>4

\* start: a row that starts an operation keeps what it was otherwise.
LEMMA StartedFields ==
    ASSUME NEW r \in Row, NEW op \in Operation
    PROVE  LET s == Started(r, op)
           IN  /\ s \in Row
               /\ s.phase = "running" /\ s.op = op /\ s.due = FALSE
               /\ s.sending => r.sending /\ op # "remove"
               /\ s.state = r.state /\ s.placeholder = r.placeholder /\ s.claimed = r.claimed
               /\ s.transfer = r.transfer /\ s.status = r.status /\ s.proven = r.proven
               /\ s.adoption = r.adoption /\ s.attempt = r.attempt
  <1> DEFINE on == r.sending /\ op # "remove"
  <1>1. on \in BOOLEAN
    OBVIOUS
  <1>2. Started(r, op) = [r EXCEPT !.phase = "running", !.op = op, !.due = FALSE, !.sending = on]
    BY DEF Started
  <1> HIDE DEF on
  <1>3. /\ Started(r, op) \in Row
        /\ Started(r, op).sending = on
    BY ZenonT(30), <1>1, <1>2 DEF Row
  <1>4. LET s == Started(r, op)
        IN  /\ s.phase = "running" /\ s.op = op /\ s.due = FALSE
            /\ s.state = r.state /\ s.placeholder = r.placeholder /\ s.claimed = r.claimed
            /\ s.transfer = r.transfer /\ s.status = r.status /\ s.proven = r.proven
            /\ s.adoption = r.adoption /\ s.attempt = r.attempt
    BY <1>2 DEF Row
  <1> QED
    BY <1>3, <1>4 DEF on

LEMMA StartedRow ==
    ASSUME NEW r \in Row, Sound(r), ~r.placeholder, NEW op \in Operation,
           r.transfer # NoDomain => op = "remove"
    PROVE  LET s == Started(r, op)
           IN  /\ s \in Row /\ Sound(s)
               /\ s.phase = "running" /\ s.op = op
               /\ s.state = r.state /\ s.placeholder = r.placeholder /\ s.claimed = r.claimed
               /\ s.transfer = r.transfer /\ s.proven = r.proven
               /\ s.adoption = r.adoption /\ s.attempt = r.attempt
  <1> DEFINE s == Started(r, op)
  <1>1. /\ s \in Row
        /\ s.phase = "running" /\ s.op = op /\ s.due = FALSE
        /\ s.sending => r.sending /\ op # "remove"
        /\ s.state = r.state /\ s.placeholder = r.placeholder /\ s.claimed = r.claimed
        /\ s.transfer = r.transfer /\ s.status = r.status /\ s.proven = r.proven
        /\ s.adoption = r.adoption /\ s.attempt = r.attempt
    BY StartedFields
  <1> HIDE DEF s
  <1>2. Sound(s)
    BY <1>1 DEF Sound, Provisioned
  <1> QED
    BY <1>1, <1>2 DEF s

\* acceptProof: the old owner's domain is locked and its removal starts.
LEMMA AcceptedRow ==
    ASSUME NEW r \in Row, Sound(r), ~r.placeholder, NEW c \in Domains
    PROVE  LET s == Started([r EXCEPT !.transfer = c, !.sending = FALSE], "remove")
           IN  /\ s \in Row /\ Sound(s)
               /\ s.phase = "running" /\ s.op = "remove"
               /\ s.state = r.state /\ s.placeholder = r.placeholder /\ s.claimed = r.claimed
               /\ s.transfer = c /\ s.proven = r.proven
               /\ s.adoption = r.adoption /\ s.attempt = r.attempt
  <1> DEFINE q == [r EXCEPT !.transfer = c, !.sending = FALSE]
             op == "remove"
             s == Started(q, op)
  <1>1. /\ q \in Row /\ q.transfer = c /\ q.sending = FALSE
        /\ q.state = r.state /\ q.placeholder = r.placeholder /\ q.claimed = r.claimed
        /\ q.status = r.status /\ q.proven = r.proven
        /\ q.adoption = r.adoption /\ q.attempt = r.attempt
    BY DEF Row
  <1>2. op \in Operation
    BY DEF Operation
  <1> HIDE DEF q, op
  <1>3. /\ s \in Row
        /\ s.phase = "running" /\ s.op = op /\ s.due = FALSE
        /\ s.sending => q.sending /\ op # "remove"
        /\ s.state = q.state /\ s.placeholder = q.placeholder /\ s.claimed = q.claimed
        /\ s.transfer = q.transfer /\ s.status = q.status /\ s.proven = q.proven
        /\ s.adoption = q.adoption /\ s.attempt = q.attempt
    BY <1>1, <1>2, StartedFields
  <1> HIDE DEF s
  <1>4. Sound(s)
    BY <1>1, <1>3 DEF Sound, Provisioned, op
  <1> QED
    BY <1>1, <1>3, <1>4 DEF q, s, op

\* finish: the checks begin anew, and only a provision that fails leaves nothing
\* to be checked.
LEMMA FinishedRow ==
    ASSUME NEW r \in Row, Sound(r), ~r.placeholder, NEW error \in BOOLEAN, NEW status \in DomainStatus,
           status = "verified" => r.proven \/ ~error
    PROVE  /\ Finished(r, error, status) \in Row
           /\ Sound(Finished(r, error, status))
           /\ Finished(r, error, status).phase = IF error THEN "failed" ELSE "ready"
           /\ Finished(r, error, status).op = r.op
           /\ Finished(r, error, status).state = r.state
           /\ Finished(r, error, status).placeholder = r.placeholder
           /\ Finished(r, error, status).claimed = r.claimed
           /\ Finished(r, error, status).transfer = r.transfer
           /\ Finished(r, error, status).adoption = r.adoption
           /\ Finished(r, error, status).sending = r.sending
           /\ Finished(r, error, status).attempt = 0
           /\ r.proven => Finished(r, error, status).proven
           /\ error => Finished(r, error, status).proven = r.proven
  <1> DEFINE f == Finished(r, error, status)
             phase == IF error THEN "failed" ELSE "ready"
             now == IF error /\ r.op = "provision" THEN "failed" ELSE status
             proven == r.proven \/ (~error /\ now = "verified")
             due == now # "verified" /\ Provisioned([r EXCEPT !.phase = phase])
  <1>1. proven \in BOOLEAN /\ due \in BOOLEAN
    OBVIOUS
  <1>2. /\ phase \in {"failed", "ready"}
        /\ now \in DomainStatus
    BY DEF DomainStatus
  <1>3. due = (now # "verified" /\ (phase = "ready" \/ (phase = "failed" /\ r.op \in {"refresh", "settings"})))
    BY DEF Provisioned, Row
  <1>4. f = [r EXCEPT !.phase = phase, !.status = now, !.attempt = 0, !.proven = proven, !.due = due]
    BY DEF Finished
  <1> HIDE DEF proven, due, f
  <1>5. /\ f \in Row
        /\ f.phase = phase /\ f.status = now /\ f.attempt = 0 /\ f.proven = proven /\ f.due = due
        /\ f.op = r.op /\ f.state = r.state /\ f.placeholder = r.placeholder
        /\ f.claimed = r.claimed /\ f.transfer = r.transfer
        /\ f.adoption = r.adoption /\ f.sending = r.sending
    <2>1. 0 \in 0..LastCheck + 1
      BY Constants
    <2> HIDE DEF phase, now
    <2> QED
      BY <1>1, <1>2, <1>4, <2>1 DEF Row
  <1>6. Sound(f)
    <2>1. Provisioned(f) <=> phase = "ready" \/ (phase = "failed" /\ r.op \in {"refresh", "settings"})
      BY <1>5 DEF Provisioned
    <2>2. 0 <= LastCheck
      BY Constants
    <2>3. f.due <=> Provisioned(f) /\ f.status # "verified"
      BY <1>3, <1>5, <2>1
    <2>4. f.status = "verified" => f.proven
      BY <1>5 DEF proven
    <2> QED
      BY <1>5, <2>2, <2>3, <2>4 DEF Sound
  <1>7. (r.proven => f.proven) /\ (error => f.proven = r.proven)
    <2>1. r.proven \in BOOLEAN
      BY DEF Row
    <2>2. (r.proven => proven) /\ (error => proven = r.proven)
      BY <2>1 DEF proven
    <2> QED
      BY <1>5, <2>2
  <1> QED
    BY <1>5, <1>6, <1>7 DEF f

\* saveCheck: the next check is due unless this was the last or found it verified.
LEMMA CheckedRow ==
    ASSUME NEW r \in Row, Sound(r), Provisioned(r),
           NEW attempt \in 0..LastCheck, NEW status \in DomainStatus
    PROVE  /\ Checked(r, attempt, status) \in Row
           /\ Sound(Checked(r, attempt, status))
           /\ Checked(r, attempt, status).phase = r.phase
           /\ Checked(r, attempt, status).op = r.op
           /\ Checked(r, attempt, status).state = r.state
           /\ Checked(r, attempt, status).placeholder = r.placeholder
           /\ Checked(r, attempt, status).claimed = r.claimed
           /\ Checked(r, attempt, status).transfer = r.transfer
           /\ Checked(r, attempt, status).adoption = r.adoption
           /\ Checked(r, attempt, status).sending = r.sending
           /\ r.proven => Checked(r, attempt, status).proven
  <1> DEFINE f == Checked(r, attempt, status)
             proven == r.proven \/ status = "verified"
             due == status # "verified" /\ attempt < LastCheck
  <1>1. proven \in BOOLEAN /\ due \in BOOLEAN
    OBVIOUS
  <1>2. f = [r EXCEPT !.attempt = attempt + 1, !.status = status, !.due = due, !.proven = proven]
    BY DEF Checked
  <1> HIDE DEF proven, due, f
  <1>3. attempt + 1 \in 0..LastCheck + 1
    BY Constants
  <1>4. /\ f \in Row
        /\ f.attempt = attempt + 1 /\ f.status = status /\ f.due = due /\ f.proven = proven
        /\ f.phase = r.phase /\ f.op = r.op /\ f.state = r.state /\ f.placeholder = r.placeholder
        /\ f.claimed = r.claimed /\ f.transfer = r.transfer
        /\ f.adoption = r.adoption /\ f.sending = r.sending
    BY <1>1, <1>2, <1>3 DEF Row
  <1>5. Sound(f)
    <2>1. Provisioned(f)
      BY <1>4 DEF Provisioned
    <2>2. f.due <=> f.status # "verified" /\ f.attempt <= LastCheck
      <3>1. attempt < LastCheck <=> attempt + 1 <= LastCheck
        BY Constants
      <3> QED
        BY <1>4, <3>1 DEF due
    <2>3. f.status = "verified" => f.proven
      BY <1>4 DEF proven
    <2>4. ~f.placeholder
      BY <1>4 DEF Sound, Provisioned
    <2> QED
      BY <1>4, <2>1, <2>2, <2>3, <2>4 DEF Sound
  <1>6. r.proven => f.proven
    BY <1>4 DEF proven
  <1> QED
    BY <1>4, <1>5, <1>6 DEF f

-----------------------------------------------------------------------------
(***************************************************************************)
(* What a step that changes one row, or enqueues one operation, keeps.     *)
(***************************************************************************)
RowsOK ==
    /\ row \in [Domains -> Row]
    /\ \A d \in Domains :
         row[d].state # "live" => row[d] = [NoRow EXCEPT !.state = row[d].state]
    /\ SoundRows

LEMMA RowChange ==
    ASSUME RowsOK, NEW d \in Domains, NEW r \in Row, Sound(r),
           r.state = "live" \/ r = Gone,
           row' = [row EXCEPT ![d] = r]
    PROVE  /\ RowsOK'
           /\ row'[d] = r
           /\ \A e \in Domains : e # d => row'[e] = row[e]
  <1>1. /\ row' \in [Domains -> Row]
        /\ row'[d] = r
        /\ \A e \in Domains : e # d => row'[e] = row[e]
    BY DEF RowsOK
  <1>2. \A e \in Domains : Sound(row'[e])
    BY <1>1 DEF RowsOK, SoundRows
  <1>3. r = Gone => r = [NoRow EXCEPT !.state = r.state]
    BY DEF Gone, NoRow
  <1>4. \A e \in Domains :
          row'[e].state # "live" => row'[e] = [NoRow EXCEPT !.state = row'[e].state]
    BY <1>1, <1>3 DEF RowsOK
  <1> QED
    BY <1>1, <1>2, <1>4 DEF RowsOK, SoundRows, Sound, Provisioned

\* startWorkflow: one operation more waits, and an earlier one at work is remembered.
LEMMA Enqueued ==
    ASSUME NEW d \in Domains, NEW ws \in [Domains -> [1..MaxWork -> Work]],
           overlapped \subseteq Domains, Enqueue(d, ws)
    PROVE  /\ work' \in [Domains -> [1..MaxWork -> Work]]
           /\ overlapped' \subseteq Domains
           /\ overlapped \subseteq overlapped'
           /\ overlapped' \subseteq overlapped \cup {d}
           /\ AtWork(d) => d \in overlapped'
           /\ AtWork(d)'
           /\ \A e \in Domains, j \in 1..MaxWork :
                /\ e # d => work'[e][j] = ws[e][j]
                /\ \/ work'[e][j] = ws[e][j]
                   \/ work'[e][j].phase = "waiting" /\ ws[e][j].phase = "none"
  <1>1. PICK i \in 1..MaxWork :
          /\ ws[d][i].phase = "none"
          /\ work' = [ws EXCEPT ![d][i].phase = "waiting"]
          /\ overlapped' = IF AtWork(d) THEN overlapped \cup {d} ELSE overlapped
    BY DEF Enqueue
  <1>2. /\ work' \in [Domains -> [1..MaxWork -> Work]]
        /\ work'[d][i].phase = "waiting"
        /\ \A e \in Domains, j \in 1..MaxWork : e # d \/ j # i => work'[e][j] = ws[e][j]
    <2> DEFINE w == [ws[d][i] EXCEPT !.phase = "waiting"]
    <2>1. ws[d][i] \in Work
      OBVIOUS
    <2>2. w \in Work /\ w.phase = "waiting"
      BY <2>1 DEF Work
    <2>3. work' = [ws EXCEPT ![d][i] = w]
      BY <1>1
    <2> HIDE DEF w
    <2> QED
      BY <2>2, <2>3
  <1>3. AtWork(d)'
    BY <1>2 DEF AtWork
  <1> QED
    BY <1>1, <1>2, <1>3

\* What holds of the owners as long as no row changes hands.
LEMMA OwnerFrame ==
    ASSUME OwnerInv, UNCHANGED claim,
           \A d \in Domains :
             /\ row'[d].state = row[d].state
             /\ row'[d].placeholder = row[d].placeholder
             /\ row'[d].claimed = row[d].claimed
             /\ row'[d].transfer = row[d].transfer
             /\ row[d].proven => row'[d].proven,
           \A d \in Domains : Verified(d) /\ ~row[d].placeholder =>
             /\ ~row'[d].proven
             /\ row'[d].op = "provision"
             /\ row'[d].phase \in {"running", "failed"}
    PROVE  OwnerInv'
  <1>1. Active' = Active
    BY DEF Active, Live
  <1>2. \A d \in Domains : (Live(d)' <=> Live(d)) /\ (Verified(d)' <=> Verified(d))
    BY DEF Live, Verified
  <1>3. ClaimsStand'
    BY <1>2 DEF OwnerInv, ClaimsStand
  <1>4. \A d \in Domains : Verified(d) => Transfers(d)'
    <2> SUFFICES ASSUME NEW d \in Domains, Verified(d) PROVE Transfers(d)'
      OBVIOUS
    <2>1. claim[d].from \in Domains
      BY DEF OwnerInv, ClaimsStand, Verified, Held
    <2>2. Transfers(d)
      BY DEF OwnerInv, LocksHold
    <2> QED
      BY <1>2, <2>1, <2>2 DEF Transfers
  <1>5. LocksHold'
    <2> SUFFICES ASSUME NEW d \in Domains
                 PROVE  /\ row'[d].placeholder => claim'[d].status \in Held
                        /\ row'[d].claimed => row'[d].placeholder \/ Verified(d)'
                        /\ row'[d].transfer # NoDomain =>
                             Verified(row[d].transfer)' /\ claim'[row'[d].transfer].from = d
                        /\ Verified(d)' => Transfers(d)'
      BY DEF LocksHold
    <2> QED
      BY <1>2, <1>4 DEF OwnerInv, LocksHold, Verified
  <1> QED
    BY <1>1, <1>3, <1>5 DEF OwnerInv

\* What holds of the operations as long as none is enqueued and no row changes hands.
LEMMA WorkFrame ==
    ASSUME WorkInv, UNCHANGED overlapped,
           \A d \in Domains :
             /\ row'[d].state = row[d].state
             /\ row'[d].placeholder = row[d].placeholder
             /\ row'[d].transfer = row[d].transfer
             /\ \/ row'[d].phase \in {row[d].phase, "failed"}
                \/ row[d].transfer = NoDomain
                \/ d \in overlapped
             /\ Verified(d)' => Verified(d),
           \A d \in Domains, i \in 1..MaxWork :
             \/ work'[d][i] = work[d][i]
             \/ work[d][i].phase # "none" /\ work'[d][i].phase \in {"none", "told"},
           \A d \in Domains : row'[d].phase = "running" => AtWork(d)'
    PROVE  WorkInv'
  BY DEF WorkInv, Verified

\* What holds of the proofs as long as no claim changes and no mail comes in.
LEMMA ProofFrame ==
    ASSUME ProofInv, UNCHANGED claim, proved \subseteq proved', mail' \subseteq mail,
           \A c \in Domains, i \in 1..MaxLookups :
             lookup'[c][i] = "found" /\ claim[c].checking = i
               => lookup[c][i] = "found" \/ c \in proved',
           \A d \in Domains :
             /\ row'[d].adoption = "approved" => row[d].adoption = "approved"
             /\ row[d].state = "gone" => row'[d].state = "gone",
           \A c \in Domains : Verified(c) => claim[c].from \in Domains
    PROVE  ProofInv'
  BY DEF ProofInv, TransferIsProved, Verified

\* What holds of rows, checks and types, from what holds of each.
LEMMA LocalFrame ==
    ASSUME RowsOK', SoundChecks',
           claim' \in [Domains -> Claim], mail' \subseteq Domains,
           work' \in [Domains -> [1..MaxWork -> Work]],
           check' \in [Domains -> [1..MaxChecks -> Check]],
           lookup' \in [Domains -> [1..MaxLookups -> {"none", "asked", "found", "missed"}]],
           moves' \in 0..MaxMoves, proved' \cup overlapped' \cup unread' \subseteq Domains
    PROVE  LocalInv'
  BY DEF LocalInv, TypeOK, RowsOK

\* start, of a domain its owner has: `r' is its row after what the handler changed.
LEMMA StartStep ==
    ASSUME DomainsInv, NEW d \in Domains, Live(d), ~row[d].placeholder,
           NEW r \in Row, Sound(r), NEW op \in Operation,
           r.state = "live", r.placeholder = row[d].placeholder, r.claimed = row[d].claimed,
           r.transfer = row[d].transfer, r.proven = row[d].proven, r.attempt = row[d].attempt,
           r.adoption = row[d].adoption \/ row[d].transfer = NoDomain,
           r.transfer # NoDomain => op = "remove",
           Verified(d) => op = "provision",
           Start(d, r, op), moves' \in 0..MaxMoves,
           UNCHANGED <<claim, mail, check, lookup, proved, unread>>
    PROVE  DomainsInv'
  <1> DEFINE s == Started(r, op)
  <1>1. /\ s \in Row /\ Sound(s) /\ s.state = "live"
        /\ s.placeholder = row[d].placeholder /\ s.claimed = row[d].claimed
        /\ s.transfer = row[d].transfer /\ s.proven = row[d].proven /\ s.attempt = row[d].attempt
        /\ s.adoption = row[d].adoption \/ row[d].transfer = NoDomain
        /\ s.phase = "running" /\ s.op = op
    BY StartedRow
  <1>2. row' = [row EXCEPT ![d] = s] /\ Enqueue(d, work)
    BY DEF Start
  <1> HIDE DEF s
  <1>3. RowsOK
    BY DEF DomainsInv, LocalInv, TypeOK, RowsOK
  <1>4. RowsOK' /\ row'[d] = s /\ \A e \in Domains : e # d => row'[e] = row[e]
    BY <1>1, <1>2, <1>3, RowChange
  <1>5. work \in [Domains -> [1..MaxWork -> Work]] /\ overlapped \subseteq Domains
    BY DEF DomainsInv, LocalInv, TypeOK
  <1>6. /\ work' \in [Domains -> [1..MaxWork -> Work]]
        /\ overlapped' \subseteq Domains
        /\ overlapped \subseteq overlapped'
        /\ overlapped' \subseteq overlapped \cup {d}
        /\ AtWork(d) => d \in overlapped'
        /\ AtWork(d)'
        /\ \A e \in Domains, j \in 1..MaxWork :
             /\ e # d => work'[e][j] = work[e][j]
             /\ \/ work'[e][j] = work[e][j]
                \/ work'[e][j].phase = "waiting" /\ work[e][j].phase = "none"
    BY <1>2, <1>5, Enqueued
  <1>7. LocalInv'
    <2>1. SoundChecks'
      BY ZenonT(30), <1>1, <1>4 DEF DomainsInv, LocalInv, SoundChecks, TypeOK
    <2> QED
      BY <1>4, <1>6, <2>1, LocalFrame DEF DomainsInv, LocalInv, TypeOK
  <1>8. OwnerInv'
    <2>1. \A e \in Domains :
            /\ row'[e].state = row[e].state
            /\ row'[e].placeholder = row[e].placeholder
            /\ row'[e].claimed = row[e].claimed
            /\ row'[e].transfer = row[e].transfer
            /\ row[e].proven => row'[e].proven
      BY <1>1, <1>4 DEF Live
    <2>2. ASSUME NEW e \in Domains, Verified(e), ~row[e].placeholder
          PROVE  /\ ~row'[e].proven
                 /\ row'[e].op = "provision"
                 /\ row'[e].phase \in {"running", "failed"}
      <3>1. Transfers(e)
        BY <2>2 DEF DomainsInv, OwnerInv, LocksHold
      <3> QED
        BY <1>1, <1>4, <2>2, <3>1 DEF Transfers
    <2> QED
      BY <2>1, <2>2, OwnerFrame DEF DomainsInv
  <1>9. WorkInv'
    <2> SUFFICES ASSUME NEW e \in Domains
                 PROVE  /\ row'[e].placeholder \/ row'[e].state = "none" =>
                             \A i \in 1..MaxWork : work'[e][i].phase = "none"
                        /\ Verified(e)' =>
                             \A i \in 1..MaxWork : work'[e][i].phase = "acting" => work'[e][i].op = "provision"
                        /\ row'[e].transfer # NoDomain /\ e \notin overlapped' =>
                             /\ row'[e].phase \in {"running", "failed"}
                             /\ \A i \in 1..MaxWork : work'[e][i].phase = "acting" => work'[e][i].op = "remove"
                        /\ row'[e].phase = "running" => AtWork(e)'
      BY DEF WorkInv
    <2> USE DEF DomainsInv, WorkInv
    <2>1. CASE e # d
      <3>1. row'[e] = row[e] /\ (Verified(e)' <=> Verified(e)) /\ (e \in overlapped <=> e \in overlapped')
        BY <1>4, <1>6, <2>1 DEF Verified
      <3>2. \A i \in 1..MaxWork : work'[e][i] = work[e][i]
        BY <1>6, <2>1
      <3>3. AtWork(e)' <=> AtWork(e)
        BY <3>2 DEF AtWork
      <3> QED
        BY <3>1, <3>2, <3>3
    <2>2. CASE e = d
      <3>1. ~row'[d].placeholder /\ row'[d].state = "live" /\ row'[d].phase = "running" /\ row'[d].transfer = row[d].transfer
        BY <1>1, <1>4
      <3>2. Verified(d)' <=> Verified(d)
        BY DEF Verified
      <3>3. \A i \in 1..MaxWork : work'[d][i].phase = "acting" => work'[d][i] = work[d][i]
        BY <1>6
      <3>4. row'[d].transfer # NoDomain /\ d \notin overlapped' =>
              \A i \in 1..MaxWork : work'[d][i].phase = "acting" => work'[d][i].op = "remove"
        BY <1>6, <3>1, <3>3
      <3> QED
        BY <1>6, <2>2, <3>1, <3>2, <3>3, <3>4
    <2> QED
      BY <2>1, <2>2
  <1>10. ProofInv'
    <2>1. ASSUME NEW c \in Domains, Verified(c) \/ claim[c].status = "completed"
          PROVE  claim[c].from \in Domains /\ row'[claim[c].from].adoption # "approved"
                 /\ (claim[c].status = "completed" => row'[claim[c].from].state = "gone")
      <3>1. CASE claim[c].status = "completed"
        BY <1>4, <3>1 DEF DomainsInv, ProofInv, TransferIsProved, Live
      <3>2. CASE Verified(c)
        <4>1. claim[c].from \in Domains /\ row[claim[c].from].adoption # "approved"
          BY <3>2 DEF DomainsInv, ProofInv, TransferIsProved, OwnerInv, ClaimsStand, Verified, Held
        <4>2. Live(claim[c].from) => row[claim[c].from].transfer = c
          BY <3>2 DEF DomainsInv, OwnerInv, LocksHold, Transfers
        <4> QED
          BY <1>1, <1>4, <3>2, <4>1, <4>2, Constants DEF Verified
      <3> QED
        BY <2>1, <3>1, <3>2
    <2> QED
      BY <2>1 DEF DomainsInv, ProofInv, TransferIsProved, Verified
  <1> QED
    BY <1>7, <1>8, <1>9, <1>10 DEF DomainsInv

\* A row is written, by a handler or a check, and stays what it is to its claims and
\* operations.
LEMMA RowStep ==
    ASSUME DomainsInv, NEW d \in Domains, NEW r \in Row, Sound(r),
           r.state = "live", Live(d), r.placeholder = row[d].placeholder, r.claimed = row[d].claimed,
           r.transfer = row[d].transfer, r.phase = row[d].phase, r.op = row[d].op,
           row[d].proven => r.proven,
           Verified(d) => r.proven = row[d].proven,
           r.adoption = "approved" => row[d].adoption = "approved",
           row' = [row EXCEPT ![d] = r],
           check' \in [Domains -> [1..MaxChecks -> Check]], SoundChecks', moves' \in 0..MaxMoves,
           UNCHANGED <<claim, mail, work, lookup, history>>
    PROVE  DomainsInv'
  <1>1. RowsOK' /\ row'[d] = r /\ \A e \in Domains : e # d => row'[e] = row[e]
    BY RowChange DEF DomainsInv, LocalInv, TypeOK, RowsOK
  <1>2. \A e \in Domains :
          /\ row'[e].state = row[e].state
          /\ row'[e].placeholder = row[e].placeholder
          /\ row'[e].claimed = row[e].claimed
          /\ row'[e].transfer = row[e].transfer
          /\ row'[e].phase = row[e].phase
          /\ row'[e].op = row[e].op
          /\ row[e].proven => row'[e].proven
          /\ Verified(e) => row'[e].proven = row[e].proven
          /\ row'[e].adoption = "approved" => row[e].adoption = "approved"
    BY <1>1 DEF Live
  <1>3. LocalInv'
    BY <1>1, LocalFrame DEF DomainsInv, LocalInv, TypeOK, history
  <1>4. OwnerInv'
    <2>1. ASSUME NEW e \in Domains, Verified(e), ~row[e].placeholder
          PROVE  /\ ~row'[e].proven
                 /\ row'[e].op = "provision"
                 /\ row'[e].phase \in {"running", "failed"}
      <3>1. Transfers(e)
        BY <2>1 DEF DomainsInv, OwnerInv, LocksHold
      <3> QED
        BY <1>2, <2>1, <3>1 DEF Transfers
    <2> QED
      BY <1>2, <2>1, OwnerFrame DEF DomainsInv
  <1>5. WorkInv'
    <2>1. \A e \in Domains : Verified(e)' <=> Verified(e)
      BY DEF Verified
    <2>2. \A e \in Domains : row'[e].phase = "running" => AtWork(e)'
      BY <1>2 DEF DomainsInv, WorkInv, AtWork
    <2> QED
      BY <1>2, <2>1, <2>2, WorkFrame DEF DomainsInv, history
  <1>6. ProofInv'
    <2>1. \A c \in Domains : Verified(c) => claim[c].from \in Domains
      BY DEF DomainsInv, OwnerInv, ClaimsStand, Verified, Held
    <2> QED
      BY <1>2, <2>1, ProofFrame DEF DomainsInv, history
  <1> QED
    BY <1>3, <1>4, <1>5, <1>6 DEF DomainsInv

\* An operation of a domain goes on, and leaves the row alone.
LEMMA WorkStep ==
    ASSUME DomainsInv, NEW d \in Domains, NEW i \in 1..MaxWork, NEW w \in Work,
           work[d][i].phase # "none",
           \/ w.phase \in {"none", "told"} /\ row[d].phase # "running"
           \/ w.phase \in {"none", "told"} /\ work[d][i].phase = "told"
           \/ w.phase = "acting" /\ w.op = row[d].op,
           work' = [work EXCEPT ![d][i] = w],
           UNCHANGED <<row, claim, mail, check, lookup, moves, history>>
    PROVE  DomainsInv'
  <1>1. /\ work' \in [Domains -> [1..MaxWork -> Work]]
        /\ work'[d][i] = w
        /\ \A e \in Domains, j \in 1..MaxWork : e # d \/ j # i => work'[e][j] = work[e][j]
    <2>1. work \in [Domains -> [1..MaxWork -> Work]]
      BY DEF DomainsInv, LocalInv, TypeOK
    <2> QED
      BY <2>1
  <1>2. LocalInv'
    BY <1>1 DEF DomainsInv, LocalInv, TypeOK, SoundRows, SoundChecks, history
  <1>3. OwnerInv'
    BY DEF DomainsInv, OwnerInv, Active, Live, ClaimsStand, LocksHold, Verified, Transfers
  <1>4. WorkInv'
    <2> SUFFICES ASSUME NEW e \in Domains
                 PROVE  /\ row[e].placeholder \/ row[e].state = "none" =>
                             \A j \in 1..MaxWork : work'[e][j].phase = "none"
                        /\ Verified(e) =>
                             \A j \in 1..MaxWork : work'[e][j].phase = "acting" => work'[e][j].op = "provision"
                        /\ row[e].transfer # NoDomain /\ e \notin overlapped =>
                             /\ row[e].phase \in {"running", "failed"}
                             /\ \A j \in 1..MaxWork : work'[e][j].phase = "acting" => work'[e][j].op = "remove"
                        /\ row[e].phase = "running" => AtWork(e)'
      BY DEF WorkInv, Verified, history
    <2>1. row[e].phase = "running" => AtWork(e)'
      <3> SUFFICES ASSUME row[e].phase = "running" PROVE AtWork(e)'
        OBVIOUS
      <3>1. PICK j \in 1..MaxWork : work[e][j].phase \in {"waiting", "acting"}
        BY DEF DomainsInv, WorkInv, AtWork
      <3>2. CASE e = d /\ j = i
        <4>1. work'[e][j].phase = "acting"
          BY <1>1, <3>1, <3>2
        <4> QED
          BY <4>1 DEF AtWork
      <3>3. CASE e # d \/ j # i
        <4>1. work'[e][j] = work[e][j]
          BY <1>1, <3>3
        <4> QED
          BY <3>1, <4>1 DEF AtWork
      <3> QED
        BY <3>2, <3>3
    <2>2. Verified(d) /\ ~row[d].placeholder => row[d].op = "provision"
      BY DEF DomainsInv, OwnerInv, LocksHold, Transfers
    <2>3. row[d].transfer # NoDomain => row[d].op = "remove"
      BY DEF DomainsInv, LocalInv, SoundRows, Sound
    <2>4. ~row[d].placeholder /\ row[d].state # "none"
      BY DEF DomainsInv, WorkInv
    <2>5. CASE e # d
      BY <1>1, <2>1, <2>5 DEF DomainsInv, WorkInv
    <2>6. CASE e = d
      <3>1. \A j \in 1..MaxWork : work'[d][j].phase = "acting" =>
              work'[d][j] = work[d][j] \/ work'[d][j].op = row[d].op
        BY <1>1
      <3> QED
        BY <2>1, <2>2, <2>3, <2>4, <2>6, <3>1 DEF DomainsInv, WorkInv
    <2> QED
      BY <2>5, <2>6
  <1>5. ProofInv'
    BY DEF DomainsInv, ProofInv, TransferIsProved, history
  <1> QED
    BY <1>2, <1>3, <1>4, <1>5 DEF DomainsInv

-----------------------------------------------------------------------------
(***************************************************************************)
(* Each action keeps the invariant.                                        *)
(***************************************************************************)
\* A claim's own domain, once it has the name, was never proven and provisions.
LEMMA NewOwner ==
    ASSUME OwnerInv, NEW d \in Domains, Verified(d), ~row[d].placeholder
    PROVE  /\ ~row[d].proven
           /\ row[d].op = "provision"
           /\ row[d].phase \in {"running", "failed"}
           /\ ~Live(claim[d].from)
  BY DEF OwnerInv, LocksHold, Transfers

\* An unlocked domain waits for no claim, and no claim for it.
LEMMA UnlockedFree ==
    ASSUME DomainsInv, NEW d \in Domains, Unlocked(d)
    PROVE  /\ Live(d) /\ row[d].state = "live" /\ row[d] \in Row /\ Sound(row[d])
           /\ ~row[d].placeholder /\ row[d].transfer = NoDomain /\ ~Verified(d)
  BY DEF DomainsInv, LocalInv, TypeOK, SoundRows, OwnerInv, ClaimsStand, Held, Verified, Unlocked, Locked, Live

LEMMA MoveTyped == ASSUME TypeOK, Move PROVE moves' \in 0..MaxMoves
  BY Constants DEF TypeOK, Move

LEMMA RefreshStep ==
    ASSUME DomainsInv, NEW d \in Domains, Refresh(d)
    PROVE  DomainsInv'
  <1>1. PICK op : Start(d, row[d], op) /\ op \in {row[d].op, "refresh"}
    BY DEF Refresh
  <1>2. Unlocked(d) /\ moves' \in 0..MaxMoves
    BY MoveTyped DEF Refresh, DomainsInv, LocalInv
  <1>3. op \in Operation
    BY <1>1, <1>2, UnlockedFree DEF Row, Operation
  <1> QED
    BY <1>1, <1>2, <1>3, UnlockedFree, StartStep DEF Refresh

LEMMA UpdateStep ==
    ASSUME DomainsInv, NEW d \in Domains, UpdateDomain(d) \/ ApproveAdoption(d)
    PROVE  DomainsInv'
  <1>1. Unlocked(d) /\ moves' \in 0..MaxMoves
    BY MoveTyped DEF UpdateDomain, ApproveAdoption, DomainsInv, LocalInv
  <1>2. PICK r, op : /\ \/ \E s \in BOOLEAN : r = [row[d] EXCEPT !.sending = s]
                        \/ r = [row[d] EXCEPT !.adoption = "approved"]
                     /\ op \in Operation
                     /\ Start(d, r, op)
    BY DEF UpdateDomain, ApproveAdoption, Operation
  <1>3. /\ r \in Row
        /\ r.state = row[d].state /\ r.placeholder = row[d].placeholder /\ r.claimed = row[d].claimed
        /\ r.transfer = row[d].transfer /\ r.proven = row[d].proven /\ r.attempt = row[d].attempt
        /\ r.phase = row[d].phase /\ r.op = row[d].op /\ r.status = row[d].status /\ r.due = row[d].due
    BY <1>1, <1>2, UnlockedFree DEF Row
  <1>4. Sound(r)
    BY <1>1, <1>3, UnlockedFree DEF Sound, Provisioned
  <1>5. UNCHANGED <<claim, mail, check, lookup, proved, unread>>
    BY DEF UpdateDomain, ApproveAdoption
  <1> QED
    BY <1>1, <1>2, <1>3, <1>4, <1>5, UnlockedFree, StartStep

LEMMA RemoveStep ==
    ASSUME DomainsInv, NEW d \in Domains, RemoveDomain(d)
    PROVE  DomainsInv'
  <1>1. Unlocked(d) /\ moves' \in 0..MaxMoves
    BY MoveTyped DEF RemoveDomain, DomainsInv, LocalInv
  <1>2. "remove" \in Operation
    BY DEF Operation
  <1> QED
    BY <1>1, <1>2, UnlockedFree, StartStep DEF RemoveDomain

LEMMA RetryStep ==
    ASSUME DomainsInv, NEW c \in Domains, RetryTransfer(c)
    PROVE  DomainsInv'
  <1> DEFINE d == Target(c)
  <1>1. Verified(c) /\ Transfers(c)
    BY DEF RetryTransfer, Verified, DomainsInv, OwnerInv, LocksHold
  <1>2. /\ Live(c) /\ claim[c].from \in Domains
        /\ Live(claim[c].from) => ~row[claim[c].from].placeholder
    BY <1>1 DEF DomainsInv, OwnerInv, ClaimsStand, Verified, Held
  <1>3. d \in Domains /\ Live(d) /\ ~row[d].placeholder
    BY <1>1, <1>2 DEF Target, Transfers
  <1> HIDE DEF d
  <1>4. row[d] \in Row /\ row[d].op \in Operation /\ Sound(row[d]) /\ row[d].state = "live"
    BY <1>3 DEF DomainsInv, LocalInv, TypeOK, SoundRows, Row, Live
  <1>5. Verified(d) => row[d].op = "provision"
    BY <1>3, NewOwner DEF DomainsInv
  <1>6. row[d].transfer # NoDomain => row[d].op = "remove"
    BY <1>4 DEF Sound
  <1>7. /\ Start(d, row[d], row[d].op)
        /\ UNCHANGED <<claim, mail, check, lookup, moves, proved, unread>>
    BY DEF RetryTransfer, d
  <1>8. moves' \in 0..MaxMoves
    BY <1>7 DEF DomainsInv, LocalInv, TypeOK
  <1> QED
    BY <1>3, <1>4, <1>5, <1>6, <1>7, <1>8, StartStep

\* What a settings form or a preview writes, and what a check or its dispatch does.
LEMMA SettingsStep ==
    ASSUME DomainsInv, NEW d \in Domains, UpdateSending(d) \/ SavePreview(d)
    PROVE  DomainsInv'
  <1> DEFINE on == ~row[d].sending
  <1>0. on \in BOOLEAN
    OBVIOUS
  <1>1. Live(d) /\ moves' \in 0..MaxMoves /\ UNCHANGED <<claim, mail, work, check, lookup, history>>
    <2>1. CASE UpdateSending(d)
      BY <2>1, MoveTyped DEF UpdateSending, DomainsInv, LocalInv
    <2>2. CASE SavePreview(d)
      BY <2>2 DEF SavePreview, DomainsInv, LocalInv, TypeOK
    <2> QED
      BY <2>1, <2>2
  <1>2. row[d] \in Row /\ Sound(row[d]) /\ row[d].state = "live" /\ row \in [Domains -> Row]
    BY <1>1 DEF DomainsInv, LocalInv, TypeOK, SoundRows, Live
  <1>3. PICK r : /\ row' = [row EXCEPT ![d] = r]
                 /\ \/ r = [row[d] EXCEPT !.sending = on] /\ row[d].transfer = NoDomain
                    \/ r = [row[d] EXCEPT !.adoption = "previewed"]
    BY DEF UpdateSending, SavePreview, Locked
  <1> HIDE DEF on
  <1>4. /\ r \in Row
        /\ r.state = row[d].state /\ r.placeholder = row[d].placeholder /\ r.claimed = row[d].claimed
        /\ r.transfer = row[d].transfer /\ r.proven = row[d].proven /\ r.attempt = row[d].attempt
        /\ r.phase = row[d].phase /\ r.op = row[d].op /\ r.status = row[d].status /\ r.due = row[d].due
        /\ r.adoption = "approved" => row[d].adoption = "approved"
        /\ r.sending = row[d].sending \/ r.transfer = NoDomain
    BY <1>0, <1>2, <1>3 DEF Row
  <1>5. Sound(r)
    BY <1>2, <1>4 DEF Sound, Provisioned
  <1>6. check' \in [Domains -> [1..MaxChecks -> Check]]
    BY <1>1 DEF DomainsInv, LocalInv, TypeOK
  <1>7. SoundChecks'
    <2>1. \A e \in Domains : row'[e].attempt = row[e].attempt
      BY <1>2, <1>3, <1>4
    <2>2. unread \subseteq Domains
      BY DEF DomainsInv, LocalInv, TypeOK
    <2> QED
      BY <1>1, <2>1, <2>2 DEF DomainsInv, LocalInv, SoundChecks, history
  <1> QED
    BY <1>1, <1>2, <1>3, <1>4, <1>5, <1>6, <1>7, RowStep

LEMMA AfterTyped == NoWork \in Work /\ Told \in Work /\ NoWork.phase = "none" /\ Told.phase = "told"
  BY DEF NoWork, Told, Work, Operation

LEMMA ActStep ==
    ASSUME DomainsInv, NEW d \in Domains, NEW i \in 1..MaxWork, Act(d, i) \/ WorkEnds(d, i)
    PROVE  DomainsInv'
  <1>1. CASE Act(d, i)
    <2> DEFINE w == [phase |-> "acting", op |-> row[d].op]
    <2>1. w \in Work /\ w.phase = "acting" /\ w.op = row[d].op
      BY DEF DomainsInv, LocalInv, TypeOK, Row, Work
    <2>2. /\ work' = [work EXCEPT ![d][i] = w]
          /\ work[d][i].phase # "none"
          /\ UNCHANGED <<row, claim, mail, check, lookup, moves, history>>
      BY <1>1 DEF Act
    <2> HIDE DEF w
    <2> QED
      BY <2>1, <2>2, WorkStep
  <1>2. CASE WorkEnds(d, i)
    BY <1>2, AfterTyped, WorkStep DEF WorkEnds
  <1> QED
    BY <1>1, <1>2

\* finish of an operation on a row that is gone.
LEMMA FinishGoneStep ==
    ASSUME DomainsInv, NEW d \in Domains, NEW i \in 1..MaxWork, NEW w \in {NoWork, Told},
           work[d][i].phase # "none", FinishGone(d, i, w)
    PROVE  DomainsInv'
  <1>1. row[d].phase # "running"
    BY DEF DomainsInv, LocalInv, TypeOK, FinishGone, Live, NoRow
  <1> QED
    BY <1>1, AfterTyped, WorkStep DEF FinishGone

\* Checks outdated by a finish are typed, and none is current.
LEMMA OutdatedChecks ==
    ASSUME NEW d \in Domains, check \in [Domains -> [1..MaxChecks -> Check]]
    PROVE  /\ Outdated(d) \in [Domains -> [1..MaxChecks -> Check]]
           /\ \A e \in Domains, i \in 1..MaxChecks :
                /\ Outdated(d)[e][i].attempt = check[e][i].attempt
                /\ Outdated(d)[e][i].phase = check[e][i].phase
                /\ Outdated(d)[e][i].current => check[e][i].current /\ e # d
  <1> DEFINE c == [i \in 1..MaxChecks |-> [check[d][i] EXCEPT !.current = FALSE]]
  <1>1. ASSUME NEW i \in 1..MaxChecks
        PROVE  /\ c[i] \in Check
               /\ c[i].attempt = check[d][i].attempt
               /\ c[i].phase = check[d][i].phase
               /\ c[i].current = FALSE
    <2>1. check[d][i] \in Check
      OBVIOUS
    <2> QED
      BY <2>1 DEF Check
  <1>2. c \in [1..MaxChecks -> Check]
    BY <1>1
  <1>3. Outdated(d) = [check EXCEPT ![d] = c]
    BY DEF Outdated
  <1> HIDE DEF c
  <1> QED
    BY <1>1, <1>2, <1>3

\* finish of an operation whose row stands: what it does to the row.
LEMMA KeptRow ==
    ASSUME DomainsInv, NEW d \in Domains, NEW i \in 1..MaxWork,
           work[d][i].phase # "none",
           NEW error \in BOOLEAN, NEW status \in DomainStatus,
           error => status = row[d].status, Live(d)
    PROVE  LET r == Finished(row[d], error, status)
           IN  /\ r \in Row /\ Sound(r) /\ r.state = "live" /\ r.attempt = 0
               /\ r.phase = (IF error THEN "failed" ELSE "ready") /\ r.op = row[d].op
               /\ ~r.placeholder /\ ~row[d].placeholder /\ r.claimed = row[d].claimed
               /\ r.transfer = row[d].transfer /\ r.adoption = row[d].adoption
               /\ row[d].proven => r.proven
               /\ error => r.proven = row[d].proven
  <1>1. row[d] \in Row /\ Sound(row[d]) /\ row[d].state = "live"
    BY DEF DomainsInv, LocalInv, TypeOK, SoundRows, Live
  <1>2. ~row[d].placeholder
    BY DEF DomainsInv, WorkInv
  <1>3. error /\ status = "verified" => row[d].proven
    BY <1>1 DEF Sound
  <1> QED
    BY <1>1, <1>2, <1>3, FinishedRow

\* The checks and processes after such a finish.
LEMMA KeptRest ==
    ASSUME DomainsInv, NEW d \in Domains, NEW i \in 1..MaxWork, NEW w \in {NoWork, Told},
           NEW r \in Row, Sound(r), r.state = "live", r.attempt = 0, r.phase # "running",
           row' = [row EXCEPT ![d] = r],
           claim' \in [Domains -> Claim],
           work[d][i].phase # "none", work' = [work EXCEPT ![d][i] = w],
           check' = Outdated(d), unread' = unread \cup {d},
           UNCHANGED <<mail, lookup, moves, proved, overlapped>>
    PROVE  /\ LocalInv'
           /\ row'[d] = r
           /\ \A e \in Domains : e # d => row'[e] = row[e]
           /\ \A e \in Domains, j \in 1..MaxWork :
                \/ work'[e][j] = work[e][j]
                \/ work[e][j].phase # "none" /\ work'[e][j].phase \in {"none", "told"}
           /\ \A e \in Domains : row'[e].phase = "running" => AtWork(e)'
  <1>1. RowsOK' /\ row'[d] = r /\ \A e \in Domains : e # d => row'[e] = row[e]
    BY RowChange DEF DomainsInv, LocalInv, TypeOK, RowsOK
  <1>2. work \in [Domains -> [1..MaxWork -> Work]] /\ w \in Work /\ w.phase \in {"none", "told"}
    BY AfterTyped DEF DomainsInv, LocalInv, TypeOK
  <1>3. /\ work' \in [Domains -> [1..MaxWork -> Work]]
        /\ work'[d][i] = w
        /\ \A e \in Domains, j \in 1..MaxWork : e # d \/ j # i => work'[e][j] = work[e][j]
    <2>1. work' = [work EXCEPT ![d][i] = w]
      OBVIOUS
    <2> QED
      BY ONLY <1>2, <2>1
  <1>4. check' \in [Domains -> [1..MaxChecks -> Check]] /\ SoundChecks'
    <2>1. check \in [Domains -> [1..MaxChecks -> Check]] /\ unread \subseteq Domains
      BY DEF DomainsInv, LocalInv, TypeOK
    <2>2. /\ check' \in [Domains -> [1..MaxChecks -> Check]]
          /\ \A e \in Domains, j \in 1..MaxChecks :
               /\ check'[e][j].attempt = check[e][j].attempt
               /\ check'[e][j].current => check[e][j].current /\ e # d
      BY <2>1, OutdatedChecks
    <2>3. \A e \in Domains, j \in 1..MaxChecks :
            /\ check'[e][j].attempt <= LastCheck
            /\ check'[e][j].current => e \notin unread'
      BY <2>2 DEF DomainsInv, LocalInv, SoundChecks
    <2>4. \A e \in unread' : row'[e].attempt = 0
      BY <1>1, <2>1 DEF DomainsInv, LocalInv, SoundChecks
    <2> QED
      BY <2>2, <2>3, <2>4 DEF SoundChecks
  <1>5. LocalInv'
    <2>1. unread' \subseteq Domains
      BY DEF DomainsInv, LocalInv, TypeOK
    <2> QED
      BY <1>1, <1>3, <1>4, <2>1, LocalFrame DEF DomainsInv, LocalInv, TypeOK
  <1>6. ASSUME NEW e \in Domains, row'[e].phase = "running"
        PROVE  AtWork(e)'
    <2>1. e # d /\ row[e].phase = "running"
      BY <1>1, <1>6
    <2>2. \A j \in 1..MaxWork : work'[e][j] = work[e][j]
      BY <1>3, <2>1
    <2> QED
      BY <2>1, <2>2 DEF DomainsInv, WorkInv, AtWork
  <1> QED
    BY <1>1, <1>2, <1>3, <1>5, <1>6

LEMMA FinishKeptStep ==
    ASSUME DomainsInv, NEW d \in Domains, NEW i \in 1..MaxWork, NEW w \in {NoWork, Told},
           work[d][i].phase # "none",
           NEW error \in BOOLEAN, NEW status \in DomainStatus,
           error => status = row[d].status,
           row[d].transfer # NoDomain /\ d \notin overlapped => error,
           FinishKept(d, i, error, status, w)
    PROVE  DomainsInv'
  <1> DEFINE r == Finished(row[d], error, status)
  <1>1. /\ r \in Row /\ Sound(r) /\ r.state = "live" /\ r.attempt = 0
        /\ r.phase = (IF error THEN "failed" ELSE "ready") /\ r.op = row[d].op
        /\ ~r.placeholder /\ ~row[d].placeholder /\ r.claimed = row[d].claimed
        /\ r.transfer = row[d].transfer /\ r.adoption = row[d].adoption
        /\ row[d].proven => r.proven
        /\ error => r.proven = row[d].proven
    BY KeptRow DEF FinishKept
  <1>2. /\ Live(d) /\ work' = [work EXCEPT ![d][i] = w]
        /\ check' = Outdated(d) /\ unread' = unread \cup {d}
        /\ UNCHANGED <<mail, lookup, moves, proved, overlapped>>
        /\ IF Completes(d, r)
           THEN /\ row' = [row EXCEPT ![d] = [r EXCEPT !.claimed = FALSE]]
                /\ claim' = [claim EXCEPT ![d].status = "completed"]
           ELSE /\ row' = [row EXCEPT ![d] = r]
                /\ UNCHANGED claim
    BY DEF FinishKept
  <1> HIDE DEF r
  <1>3. claim \in [Domains -> Claim]
    BY DEF DomainsInv, LocalInv, TypeOK
  <1>4. Verified(d) /\ ~error => Completes(d, r)
    <2> SUFFICES ASSUME Verified(d), ~error PROVE Completes(d, r)
      OBVIOUS
    <2>1. row[d].op = "provision" /\ row[d].claimed /\ Sound(row[d])
      BY <1>1, NewOwner DEF DomainsInv, LocalInv, SoundRows, OwnerInv, ClaimsStand, Verified, Held
    <2>2. row[d].transfer = NoDomain
      BY <2>1 DEF Sound
    <2> QED
      BY <1>1, <2>1, <2>2 DEF Completes, Verified
  <1>5. CASE ~Completes(d, r)
    <2>1. row' = [row EXCEPT ![d] = r] /\ UNCHANGED claim /\ claim' \in [Domains -> Claim]
      BY <1>2, <1>3, <1>5
    <2>2. /\ LocalInv'
          /\ row'[d] = r
          /\ \A e \in Domains : e # d => row'[e] = row[e]
          /\ \A e \in Domains, j \in 1..MaxWork :
               \/ work'[e][j] = work[e][j]
               \/ work[e][j].phase # "none" /\ work'[e][j].phase \in {"none", "told"}
          /\ \A e \in Domains : row'[e].phase = "running" => AtWork(e)'
      BY <1>1, <1>2, <2>1, KeptRest
    <2>3. \A e \in Domains :
            /\ row'[e].state = row[e].state
            /\ row'[e].placeholder = row[e].placeholder
            /\ row'[e].claimed = row[e].claimed
            /\ row'[e].transfer = row[e].transfer
            /\ row[e].proven => row'[e].proven
            /\ row'[e].adoption = row[e].adoption
            /\ Verified(e)' => Verified(e)
            /\ \/ row'[e].phase \in {row[e].phase, "failed"}
               \/ row[e].transfer = NoDomain
               \/ e \in overlapped
      <3>1. /\ row'[d].state = row[d].state /\ row'[d].placeholder = row[d].placeholder
            /\ row'[d].claimed = row[d].claimed /\ row'[d].transfer = row[d].transfer
            /\ row[d].proven => row'[d].proven
            /\ row'[d].adoption = row[d].adoption
        <4>1. row[d].placeholder \in BOOLEAN /\ r.placeholder \in BOOLEAN
          BY <1>1 DEF DomainsInv, LocalInv, TypeOK, Row
        <4> QED
          BY <1>1, <1>2, <2>2, <4>1 DEF Live
      <3>2. \/ row'[d].phase = "failed"
            \/ row[d].transfer = NoDomain
            \/ d \in overlapped
        BY <1>1, <2>2
      <3>3. \A e \in Domains : Verified(e)' => Verified(e)
        BY <2>1 DEF Verified
      <3> QED
        BY <2>2, <3>1, <3>2, <3>3
    <2>4. OwnerInv'
      <3>1. ASSUME NEW e \in Domains, Verified(e), ~row[e].placeholder
            PROVE  ~row'[e].proven /\ row'[e].op = "provision" /\ row'[e].phase \in {"running", "failed"}
        BY <1>1, <1>4, <1>5, <2>2, <3>1, NewOwner DEF DomainsInv
      <3> QED
        BY <2>1, <2>3, <3>1, OwnerFrame DEF DomainsInv
    <2>5. WorkInv'
      BY <1>2, <2>2, <2>3, WorkFrame DEF DomainsInv
    <2>6. ProofInv'
      <3>1. \A c \in Domains : Verified(c) => claim[c].from \in Domains
        BY DEF DomainsInv, OwnerInv, ClaimsStand, Verified, Held
      <3> QED
        BY <1>2, <2>1, <2>3, <3>1, ProofFrame DEF DomainsInv
    <2> QED
      BY <2>2, <2>4, <2>5, <2>6 DEF DomainsInv
  <1>6. CASE Completes(d, r)
    <2> DEFINE s == [r EXCEPT !.claimed = FALSE]
    <2>1. /\ s \in Row /\ s.state = "live" /\ s.attempt = 0 /\ s.phase = r.phase /\ s.op = r.op
          /\ s.placeholder = r.placeholder /\ s.claimed = FALSE /\ s.transfer = r.transfer
          /\ s.adoption = r.adoption /\ s.proven = r.proven /\ s.due = r.due /\ s.status = r.status
          /\ s.sending = r.sending
      BY <1>1 DEF Row
    <2>2. Sound(s)
      BY <1>1, <2>1 DEF Sound, Provisioned
    <2>3. row' = [row EXCEPT ![d] = s] /\ claim' = [claim EXCEPT ![d].status = "completed"]
      BY <1>2, <1>6
    <2> HIDE DEF s
    <2>4. /\ claim' \in [Domains -> Claim]
          /\ claim'[d].status = "completed" /\ claim'[d].from = claim[d].from
          /\ claim'[d].checking = claim[d].checking /\ claim'[d].team = claim[d].team
          /\ \A e \in Domains : e # d => claim'[e] = claim[e]
      BY <1>3, <2>3 DEF Claim, Over
    <2>5. /\ LocalInv'
          /\ row'[d] = s
          /\ \A e \in Domains : e # d => row'[e] = row[e]
          /\ \A e \in Domains, j \in 1..MaxWork :
               \/ work'[e][j] = work[e][j]
               \/ work[e][j].phase # "none" /\ work'[e][j].phase \in {"none", "told"}
          /\ \A e \in Domains : row'[e].phase = "running" => AtWork(e)'
      BY ZenonT(30), <1>1, <1>2, <2>1, <2>2, <2>3, <2>4, KeptRest
    <2>6. \A e \in Domains :
            /\ row'[e].state = row[e].state
            /\ row'[e].placeholder = row[e].placeholder
            /\ row'[e].transfer = row[e].transfer
            /\ row[e].proven => row'[e].proven
            /\ row'[e].adoption = row[e].adoption
            /\ Verified(e)' <=> Verified(e) /\ e # d
            /\ row'[e].claimed <=> row[e].claimed /\ e # d
      <3>1. /\ row'[d].state = row[d].state /\ row'[d].placeholder = row[d].placeholder
            /\ row'[d].transfer = row[d].transfer
            /\ row[d].proven => row'[d].proven
            /\ row'[d].adoption = row[d].adoption
        <4>1. row[d].placeholder \in BOOLEAN /\ r.placeholder \in BOOLEAN
          BY <1>1 DEF DomainsInv, LocalInv, TypeOK, Row
        <4> QED
          BY <1>1, <1>2, <2>1, <2>5, <4>1 DEF Live
      <3>2. \A e \in Domains : Verified(e)' <=> Verified(e) /\ e # d
        BY <2>4 DEF Verified
      <3>3. \A e \in Domains : row'[e].claimed <=> row[e].claimed /\ e # d
        BY <2>1, <2>5
      <3> QED
        BY <2>5, <3>1, <3>2, <3>3
    <2>7. Verified(d) /\ row[d].transfer = NoDomain
      BY <1>6 DEF Completes, Verified
    <2>8. ~Live(claim[d].from) /\ claim[d].from \in Domains /\ row[claim[d].from].state = "gone"
      <3>1. /\ ~Live(claim[d].from) /\ claim[d].from \in Domains
            /\ row[claim[d].from].state # "none"
        BY <1>1, <2>7, NewOwner DEF DomainsInv, OwnerInv, ClaimsStand, Verified, Held
      <3>2. row[claim[d].from] \in Row
        BY <3>1 DEF DomainsInv, LocalInv, TypeOK
      <3> QED
        BY <3>1, <3>2 DEF Live, Row
    <2>9. OwnerInv'
      <3>1. Active' = Active /\ \A e \in Domains : Live(e)' <=> Live(e)
        BY <2>6 DEF Active, Live
      <3>2. ASSUME NEW c \in Domains
            PROVE  /\ row'[c].state = "none" => claim'[c].status = "none"
                   /\ claim'[c].status = "none" => claim'[c].team = NoTeam
                   /\ claim'[c].status \in Held =>
                        /\ Live(c)'
                        /\ row'[c].claimed
                        /\ claim'[c].from \in Domains \ {c}
                        /\ row'[claim'[c].from].state # "none"
                        /\ Live(claim[c].from)' => row'[claim'[c].from].proven /\ ~row'[claim'[c].from].placeholder
                   /\ claim'[c].status \in Open \cup {"expired"} => row'[c].placeholder
        <4>1. CASE c = d
          BY <1>2, <2>4, <2>6, <4>1 DEF Held, Open, Live
        <4>2. CASE c # d
          <5>1. claim'[c] = claim[c]
            BY <2>4, <4>2
          <5>2. claim[c].status \in Held =>
                  /\ Live(c)
                  /\ row[c].claimed
                  /\ claim[c].from \in Domains \ {c}
                  /\ row[claim[c].from].state # "none"
                  /\ Live(claim[c].from) => row[claim[c].from].proven /\ ~row[claim[c].from].placeholder
            BY DEF DomainsInv, OwnerInv, ClaimsStand
          <5>3. /\ row[c].state = "none" => claim[c].status = "none"
                /\ claim[c].status = "none" => claim[c].team = NoTeam
                /\ claim[c].status \in Open \cup {"expired"} => row[c].placeholder
            BY DEF DomainsInv, OwnerInv, ClaimsStand
          <5>4. claim[c].status \in Held => (Live(claim[c].from)' <=> Live(claim[c].from))
            BY <3>1, <5>1, <5>2
          <5> QED
            BY <2>6, <3>1, <4>2, <5>1, <5>2, <5>3, <5>4
        <4> QED
          BY <4>1, <4>2
      <3>3. ClaimsStand'
        BY <3>2 DEF ClaimsStand
      <3>4. ASSUME NEW e \in Domains
            PROVE  /\ row'[e].placeholder => claim'[e].status \in Held
                   /\ row'[e].claimed => row'[e].placeholder \/ Verified(e)'
                   /\ row'[e].transfer # NoDomain =>
                        Verified(row[e].transfer)' /\ claim'[row'[e].transfer].from = e
                   /\ Verified(e)' => Transfers(e)'
        <4>1. row'[e].placeholder => claim'[e].status \in Held
          BY <1>1, <2>4, <2>6 DEF DomainsInv, OwnerInv, LocksHold
        <4>2. row'[e].claimed => row'[e].placeholder \/ Verified(e)'
          BY <2>6 DEF DomainsInv, OwnerInv, LocksHold
        <4>3. row[e].transfer # NoDomain => row[e].transfer \in Domains \ {d}
          <5> SUFFICES ASSUME row[e].transfer # NoDomain PROVE row[e].transfer \in Domains \ {d}
            OBVIOUS
          <5>1. row[e].transfer \in Domains /\ Live(e)
            BY DEF DomainsInv, LocalInv, TypeOK, Row, NoRow, Live
          <5>2. claim[row[e].transfer].from = e
            BY DEF DomainsInv, OwnerInv, LocksHold
          <5> QED
            BY <2>8, <5>1, <5>2
        <4>4. row'[e].transfer # NoDomain =>
                Verified(row[e].transfer)' /\ claim'[row'[e].transfer].from = e
          BY <2>4, <2>6, <4>3 DEF DomainsInv, OwnerInv, LocksHold, Verified
        <4>5. ASSUME Verified(e)' PROVE Transfers(e)'
          <5>1. Verified(e) /\ e # d /\ claim'[e] = claim[e] /\ row'[e] = row[e] /\ Transfers(e)
            BY <2>4, <2>5, <2>6, <4>5 DEF DomainsInv, OwnerInv, LocksHold
          <5>2. claim[e].from \in Domains
            BY <5>1 DEF DomainsInv, OwnerInv, ClaimsStand, Verified, Held
          <5> QED
            BY <2>6, <3>1, <5>1, <5>2 DEF Transfers
        <4> QED
          BY <4>1, <4>2, <4>4, <4>5
      <3>5. LocksHold'
        BY <2>6, <3>4 DEF LocksHold
      <3> QED
        BY <3>1, <3>3, <3>5 DEF OwnerInv, DomainsInv
    <2>10. WorkInv'
      <3>1. \A e \in Domains : row'[e].phase = row[e].phase \/ row[e].transfer = NoDomain
        BY <2>5, <2>7
      <3> QED
        BY <1>2, <2>5, <2>6, <3>1, WorkFrame DEF DomainsInv
    <2>11. ProofInv'
      <3>1. /\ lookup' = lookup /\ mail' = mail /\ proved' = proved
            /\ \A c \in Domains : claim'[c].checking = claim[c].checking /\ claim'[c].from = claim[c].from
        BY <1>2, <2>4
      <3>2. \A c \in Domains : claim'[c].status = "completed" =>
              claim'[c].from \in Domains /\ row'[claim'[c].from].state = "gone"
        BY <2>4, <2>6, <2>8 DEF DomainsInv, ProofInv
      <3>3. \A c \in Domains : claim'[c].status \in {"verified", "completed"} =>
              claim[c].status \in {"verified", "completed"} /\ claim[c].from \in Domains
        BY <2>4, <2>7, <2>8 DEF DomainsInv, ProofInv, OwnerInv, ClaimsStand, Verified, Held
      <3> QED
        BY <2>6, <3>1, <3>2, <3>3 DEF DomainsInv, ProofInv, TransferIsProved
    <2> QED
      BY <2>5, <2>9, <2>10, <2>11 DEF DomainsInv
  <1> QED
    BY <1>5, <1>6

\* The name goes from the old owner's row to the placeholder.
LEMMA SucceededRow ==
    ASSUME NEW r \in Row, Sound(r), r.placeholder, r.transfer = NoDomain
    PROVE  LET s == Succeeded(r)
           IN  /\ s \in Row /\ Sound(s) /\ s.phase = "running" /\ s.op = "provision"
               /\ s.state = r.state /\ ~s.placeholder /\ s.claimed /\ ~s.proven
               /\ s.transfer = NoDomain /\ s.adoption = r.adoption /\ s.attempt = r.attempt
  <1> DEFINE q == [r EXCEPT !.placeholder = FALSE, !.sending = TRUE]
  <1>1. /\ q \in Row /\ q.placeholder = FALSE /\ q.sending = TRUE
        /\ q.state = r.state /\ q.claimed = r.claimed /\ q.proven = r.proven
        /\ q.transfer = r.transfer /\ q.adoption = r.adoption /\ q.attempt = r.attempt
        /\ q.due = r.due /\ q.phase = r.phase /\ q.op = r.op /\ q.status = r.status
    BY DEF Row
  <1>2. Sound(q)
    BY <1>1 DEF Sound, Provisioned
  <1>3. "provision" \in Operation
    BY DEF Operation
  <1>4. Succeeded(r) = Started(q, "provision")
    BY DEF Succeeded
  <1> HIDE DEF q
  <1>5. r.claimed /\ ~r.proven
    BY DEF Sound
  <1>6. LET s == Started(q, "provision")
        IN  /\ s \in Row /\ Sound(s) /\ s.phase = "running" /\ s.op = "provision"
            /\ s.state = q.state /\ s.placeholder = q.placeholder /\ s.claimed = q.claimed
            /\ s.proven = q.proven /\ s.transfer = q.transfer
            /\ s.adoption = q.adoption /\ s.attempt = q.attempt
    BY <1>1, <1>2, <1>3, StartedRow
  <1> QED
    BY <1>1, <1>4, <1>5, <1>6

\* The old owner's removal ends while its claim waits: the placeholder has the name.
LEMMA FinishTransferStep ==
    ASSUME DomainsInv, NEW d \in Domains, NEW i \in 1..MaxWork,
           work[d][i].phase = "acting", work[d][i].op = "remove",
           Live(d), NEW c, c = row[d].transfer, c # NoDomain,
           row' = [row EXCEPT ![d] = Gone, ![c] = Succeeded(@)],
           Enqueue(c, [work EXCEPT ![d][i] = NoWork]),
           check' = Outdated(d),
           UNCHANGED <<claim, mail, lookup, moves, proved, unread>>
    PROVE  DomainsInv'
  <1> DEFINE s == Succeeded(row[c])
             ws == [work EXCEPT ![d][i] = NoWork]
  <1>1. /\ row[d].state = "live" /\ ~row[d].placeholder /\ ~Verified(d)
        /\ row[d] \in Row /\ c \in Domains
    BY DEF DomainsInv, LocalInv, TypeOK, Row, WorkInv, Live
  <1>2. /\ Verified(c) /\ claim[c].from = d /\ Transfers(c)
    BY <1>1 DEF DomainsInv, OwnerInv, LocksHold
  <1>3. /\ row[c].placeholder /\ c # d /\ row[c].state = "live" /\ row[c] \in Row /\ Sound(row[c])
        /\ row[c].transfer = NoDomain
    <2>1. row[c].placeholder
      BY <1>2 DEF Transfers
    <2>2. Live(c) /\ claim[c].from # c
      BY <1>1, <1>2 DEF DomainsInv, OwnerInv, ClaimsStand, Verified, Held
    <2>3. row[c] \in Row /\ Sound(row[c])
      BY <1>1 DEF DomainsInv, LocalInv, TypeOK, SoundRows
    <2>4. row[c].transfer = NoDomain
      BY <2>1, <2>3 DEF Sound
    <2> QED
      BY <1>2, <2>1, <2>2, <2>3, <2>4 DEF Live
  <1>4. /\ s \in Row /\ Sound(s) /\ s.phase = "running" /\ s.op = "provision"
        /\ s.state = "live" /\ ~s.placeholder /\ s.claimed /\ ~s.proven
        /\ s.transfer = NoDomain /\ s.adoption = row[c].adoption /\ s.attempt = row[c].attempt
    BY <1>3, SucceededRow
  <1> HIDE DEF s
  <1>5. /\ RowsOK' /\ row'[d] = Gone /\ row'[c] = s
        /\ \A e \in Domains : e # d /\ e # c => row'[e] = row[e]
    <2>1. row \in [Domains -> Row]
      BY DEF DomainsInv, LocalInv, TypeOK
    <2>2. /\ row' \in [Domains -> Row]
          /\ row'[d] = Gone /\ row'[c] = s
          /\ \A e \in Domains : e # d /\ e # c => row'[e] = row[e]
      BY <1>1, <1>3, <1>4, <2>1, NoRowSound DEF s
    <2>3. Gone = [NoRow EXCEPT !.state = Gone.state]
      BY DEF Gone, NoRow
    <2>4. \A e \in Domains :
            row'[e].state # "live" => row'[e] = [NoRow EXCEPT !.state = row'[e].state]
      BY <1>4, <2>2, <2>3 DEF DomainsInv, LocalInv, TypeOK
    <2>5. \A e \in Domains : Sound(row'[e])
      BY <1>4, <2>2, NoRowSound DEF DomainsInv, LocalInv, SoundRows
    <2> QED
      BY <2>2, <2>4, <2>5 DEF RowsOK, SoundRows, Sound, Provisioned
  <1>6. /\ Gone.state = "gone" /\ Gone.placeholder = FALSE /\ Gone.claimed = FALSE
        /\ Gone.transfer = NoDomain /\ Gone.phase = "pending" /\ Gone.attempt = 0
        /\ Gone.adoption = "none"
    BY DEF Gone, NoRow
  <1>7. /\ ws \in [Domains -> [1..MaxWork -> Work]]
        /\ ws[d][i] = NoWork
        /\ \A e \in Domains, j \in 1..MaxWork : e # d \/ j # i => ws[e][j] = work[e][j]
    <2>1. work \in [Domains -> [1..MaxWork -> Work]]
      BY DEF DomainsInv, LocalInv, TypeOK
    <2> QED
      BY <2>1, AfterTyped
  <1>8. /\ work' \in [Domains -> [1..MaxWork -> Work]]
        /\ overlapped' \subseteq Domains
        /\ overlapped \subseteq overlapped'
        /\ overlapped' \subseteq overlapped \cup {c}
        /\ AtWork(c)'
        /\ \A e \in Domains, j \in 1..MaxWork :
             /\ e # c => work'[e][j] = ws[e][j]
             /\ \/ work'[e][j] = ws[e][j]
                \/ work'[e][j].phase = "waiting" /\ ws[e][j].phase = "none"
    <2>1. overlapped \subseteq Domains
      BY DEF DomainsInv, LocalInv, TypeOK
    <2> HIDE DEF ws
    <2>2. Enqueue(c, ws)
      BY DEF ws
    <2> QED
      BY <1>1, <1>7, <2>1, <2>2, Enqueued
  <1> HIDE DEF ws
  <1>9. LocalInv'
    <2>1. check \in [Domains -> [1..MaxChecks -> Check]] /\ unread \subseteq Domains
      BY DEF DomainsInv, LocalInv, TypeOK
    <2>2. /\ check' \in [Domains -> [1..MaxChecks -> Check]]
          /\ \A e \in Domains, j \in 1..MaxChecks :
               /\ check'[e][j].attempt = check[e][j].attempt
               /\ check'[e][j].current => check[e][j].current /\ e # d
      BY <2>1, OutdatedChecks
    <2>3. \A e \in unread' : row'[e].attempt = 0
      BY ZenonT(60), <1>4, <1>5, <1>6, <2>1 DEF DomainsInv, LocalInv, SoundChecks
    <2>4. SoundChecks'
      BY <2>2, <2>3 DEF DomainsInv, LocalInv, SoundChecks
    <2> QED
      BY <1>5, <1>8, <2>2, <2>4, LocalFrame DEF DomainsInv, LocalInv, TypeOK
  <1>10. \A e \in Domains : (Verified(e)' <=> Verified(e)) /\ (Live(e)' <=> Live(e) /\ e # d)
    BY ZenonT(30), <1>3, <1>4, <1>5, <1>6 DEF Verified, Live
  <1>11. \A e \in Domains : claim[e].status \in Held => e # d /\ claim[e].from # c
    BY <1>1, <1>3 DEF DomainsInv, OwnerInv, ClaimsStand, Held, Verified, Live
  <1>12. OwnerInv'
    <2>1. \A e, f \in Active' : e = f
      <3>1. \A e \in Active : e = d
        BY <1>1 DEF DomainsInv, OwnerInv, Active, Live
      <3>2. \A e \in Domains : Live(e)' /\ ~row'[e].placeholder => e = c
        BY <1>5, <1>10, <3>1 DEF Active
      <3> QED
        BY <3>2 DEF Active
    <2>2. ASSUME NEW e \in Domains
          PROVE  /\ row'[e].state = "none" => claim'[e].status = "none"
                 /\ claim'[e].status = "none" => claim'[e].team = NoTeam
                 /\ claim'[e].status \in Held =>
                      /\ Live(e)'
                      /\ row'[e].claimed
                      /\ claim'[e].from \in Domains \ {e}
                      /\ row'[claim'[e].from].state # "none"
                      /\ Live(claim[e].from)' => row'[claim'[e].from].proven /\ ~row'[claim'[e].from].placeholder
                 /\ claim'[e].status \in Open \cup {"expired"} => row'[e].placeholder
      <3>1. claim[e].status \in Held =>
              /\ Live(e) /\ e # d
              /\ row[e].claimed
              /\ claim[e].from \in Domains \ {e, c}
              /\ row[claim[e].from].state # "none"
              /\ Live(claim[e].from) => row[claim[e].from].proven /\ ~row[claim[e].from].placeholder
        BY <1>11 DEF DomainsInv, OwnerInv, ClaimsStand
      <3>2. /\ row[e].state = "none" => claim[e].status = "none"
            /\ claim[e].status = "none" => claim[e].team = NoTeam
            /\ claim[e].status \in Open \cup {"expired"} => row[e].placeholder /\ e # c /\ e # d
        BY <1>1, <1>2 DEF DomainsInv, OwnerInv, ClaimsStand, Open, Verified
      <3>3. claim[e].status \in Held => row'[claim[e].from].state # "none"
        BY <1>5, <1>6, <3>1
      <3>4. claim[e].status \in Held /\ Live(claim[e].from)' =>
              row'[claim[e].from].proven /\ ~row'[claim[e].from].placeholder
        BY <1>5, <1>10, <3>1
      <3>5. claim[e].status \in Held => Live(e)' /\ row'[e].claimed
        BY <1>4, <1>5, <1>10, <3>1
      <3>6. row'[e].state = "none" => claim[e].status = "none"
        BY <1>4, <1>5, <1>6, <3>2
      <3> QED
        BY <1>5, <3>1, <3>2, <3>3, <3>4, <3>5, <3>6
    <2>3. ClaimsStand'
      BY <2>2 DEF ClaimsStand
    <2>4. ASSUME NEW e \in Domains
          PROVE  /\ row'[e].placeholder => claim[e].status \in Held
                 /\ row'[e].claimed => row'[e].placeholder \/ Verified(e)'
                 /\ row'[e].transfer # NoDomain =>
                      Verified(row'[e].transfer) /\ claim[row'[e].transfer].from = e
                 /\ Verified(e) => Transfers(e)'
      <3>1. CASE e = d
        BY <1>1, <1>5, <1>6, <3>1
      <3>2. CASE e = c
        <4>1. Transfers(c)'
          BY <1>1, <1>2, <1>4, <1>5, <1>10 DEF Transfers
        <4> QED
          BY <1>2, <1>4, <1>5, <1>10, <3>2, <4>1
      <3>3. CASE e # d /\ e # c
        <4>1. row'[e] = row[e]
          BY <1>5, <3>3
        <4>2. ASSUME Verified(e) PROVE Transfers(e)'
          <5>1. Transfers(e) /\ claim[e].from \in Domains /\ claim[e].from # c
            BY <1>11, <4>2 DEF DomainsInv, OwnerInv, LocksHold, ClaimsStand, Verified, Held
          <5>2. claim[e].from # d
            BY <1>1, <3>3, <5>1 DEF Transfers, Live
          <5> QED
            BY <1>5, <1>10, <4>1, <5>1, <5>2 DEF Transfers
        <4> QED
          BY <1>10, <4>1, <4>2 DEF DomainsInv, OwnerInv, LocksHold
      <3> QED
        BY <3>1, <3>2, <3>3
    <2>5. LocksHold'
      BY <2>4 DEF LocksHold, Verified
    <2> QED
      BY <2>1, <2>3, <2>5 DEF OwnerInv
  <1>13. WorkInv'
    <2> SUFFICES ASSUME NEW e \in Domains
                 PROVE  /\ row'[e].placeholder \/ row'[e].state = "none" =>
                             \A j \in 1..MaxWork : work'[e][j].phase = "none"
                        /\ Verified(e)' =>
                             \A j \in 1..MaxWork : work'[e][j].phase = "acting" => work'[e][j].op = "provision"
                        /\ row'[e].transfer # NoDomain /\ e \notin overlapped' =>
                             /\ row'[e].phase \in {"running", "failed"}
                             /\ \A j \in 1..MaxWork : work'[e][j].phase = "acting" => work'[e][j].op = "remove"
                        /\ row'[e].phase = "running" => AtWork(e)'
      BY DEF WorkInv
    <2>1. CASE e = d
      BY <1>1, <1>5, <1>6, <1>10, <2>1
    <2>2. CASE e = c
      <3>1. \A j \in 1..MaxWork : work[c][j].phase = "none"
        BY <1>1, <1>3 DEF DomainsInv, WorkInv
      <3>2. \A j \in 1..MaxWork : ws[c][j].phase = "none"
        BY <1>1, <1>3, <1>7, <3>1
      <3>3. \A j \in 1..MaxWork : work'[c][j].phase # "acting"
        BY <1>1, <1>8, <3>2
      <3> QED
        BY <1>4, <1>5, <1>8, <2>2, <3>3
    <2>3. CASE e # d /\ e # c
      <3>1. /\ row'[e] = row[e] /\ (e \in overlapped <=> e \in overlapped')
            /\ \A j \in 1..MaxWork : work'[e][j] = work[e][j]
        BY ZenonT(60), <1>5, <1>7, <1>8, <2>3
      <3>2. AtWork(e)' <=> AtWork(e)
        BY <3>1 DEF AtWork
      <3> QED
        BY <1>10, <3>1, <3>2 DEF DomainsInv, WorkInv
    <2> QED
      BY <2>1, <2>2, <2>3
  <1>14. ProofInv'
    <2>1. \A e \in Domains : Verified(e) => claim[e].from \in Domains
      BY DEF DomainsInv, OwnerInv, ClaimsStand, Verified, Held
    <2>2. \A e \in Domains :
            /\ row'[e].adoption = "approved" => row[e].adoption = "approved"
            /\ row[e].state = "gone" => row'[e].state = "gone"
      <3> TAKE e \in Domains
      <3>1. CASE e = d
        BY <1>5, <1>6, <3>1
      <3>2. CASE e = c
        BY <1>3, <1>4, <1>5, <3>2
      <3>3. CASE e # d /\ e # c
        BY <1>5, <3>3
      <3> QED
        BY <3>1, <3>2, <3>3
    <2> QED
      BY <2>1, <2>2, ProofFrame DEF DomainsInv
  <1> QED
    BY <1>9, <1>12, <1>13, <1>14 DEF DomainsInv

\* A domain that waits for no claim is removed: the name is free.
LEMMA FinishFreeStep ==
    ASSUME DomainsInv, NEW d \in Domains, NEW i \in 1..MaxWork,
           work[d][i].phase = "acting", work[d][i].op = "remove",
           Live(d), row[d].transfer = NoDomain,
           row' = [row EXCEPT ![d] = Gone],
           work' = [work EXCEPT ![d][i] = NoWork],
           check' = Outdated(d),
           UNCHANGED <<claim, mail, lookup, moves, proved, overlapped, unread>>
    PROVE  DomainsInv'
  <1>1. row[d].state = "live" /\ ~row[d].placeholder /\ ~Verified(d)
    BY DEF DomainsInv, WorkInv, Live
  <1>2. /\ Gone.state = "gone" /\ Gone.placeholder = FALSE /\ Gone.claimed = FALSE
        /\ Gone.transfer = NoDomain /\ Gone.phase = "pending" /\ Gone.attempt = 0
        /\ Gone.adoption = "none"
    BY DEF Gone, NoRow
  <1>3. RowsOK' /\ row'[d] = Gone /\ \A e \in Domains : e # d => row'[e] = row[e]
    BY RowChange, NoRowSound DEF DomainsInv, LocalInv, TypeOK, RowsOK
  <1>4. /\ work' \in [Domains -> [1..MaxWork -> Work]]
        /\ work'[d][i] = NoWork
        /\ \A e \in Domains, j \in 1..MaxWork : e # d \/ j # i => work'[e][j] = work[e][j]
    <2>1. work \in [Domains -> [1..MaxWork -> Work]]
      BY DEF DomainsInv, LocalInv, TypeOK
    <2> QED
      BY <2>1, AfterTyped
  <1>5. LocalInv'
    <2>1. check \in [Domains -> [1..MaxChecks -> Check]] /\ unread \subseteq Domains
      BY DEF DomainsInv, LocalInv, TypeOK
    <2>2. /\ check' \in [Domains -> [1..MaxChecks -> Check]]
          /\ \A e \in Domains, j \in 1..MaxChecks :
               /\ check'[e][j].attempt = check[e][j].attempt
               /\ check'[e][j].current => check[e][j].current /\ e # d
      BY <2>1, OutdatedChecks
    <2>3. \A e \in unread' : row'[e].attempt = 0
      BY <1>2, <1>3, <2>1 DEF DomainsInv, LocalInv, SoundChecks
    <2>4. SoundChecks'
      BY <2>2, <2>3 DEF DomainsInv, LocalInv, SoundChecks
    <2> QED
      BY <1>3, <1>4, <2>2, <2>4, LocalFrame DEF DomainsInv, LocalInv, TypeOK
  <1>6. \A e \in Domains : (Verified(e)' <=> Verified(e)) /\ (Live(e)' <=> Live(e) /\ e # d)
    BY <1>2, <1>3 DEF Verified, Live
  <1>7. \A e \in Domains : claim[e].status \in Held => e # d
    BY <1>1 DEF DomainsInv, OwnerInv, ClaimsStand, Held, Verified
  <1>8. OwnerInv'
    <2>1. \A e, f \in Active' : e = f
      BY <1>3, <1>6 DEF DomainsInv, OwnerInv, Active
    <2>2. ASSUME NEW e \in Domains
          PROVE  /\ row'[e].state = "none" => claim'[e].status = "none"
                 /\ claim'[e].status = "none" => claim'[e].team = NoTeam
                 /\ claim'[e].status \in Held =>
                      /\ Live(e)'
                      /\ row'[e].claimed
                      /\ claim'[e].from \in Domains \ {e}
                      /\ row'[claim'[e].from].state # "none"
                      /\ Live(claim[e].from)' => row'[claim'[e].from].proven /\ ~row'[claim'[e].from].placeholder
                 /\ claim'[e].status \in Open \cup {"expired"} => row'[e].placeholder
      <3>1. /\ claim[e].status \in Held =>
                 /\ Live(e) /\ e # d
                 /\ row[e].claimed
                 /\ claim[e].from \in Domains \ {e}
                 /\ row[claim[e].from].state # "none"
                 /\ Live(claim[e].from) => row[claim[e].from].proven /\ ~row[claim[e].from].placeholder
            /\ row[e].state = "none" => claim[e].status = "none"
            /\ claim[e].status = "none" => claim[e].team = NoTeam
            /\ claim[e].status \in Open \cup {"expired"} => row[e].placeholder /\ e # d
        BY <1>1, <1>7 DEF DomainsInv, OwnerInv, ClaimsStand
      <3>2. claim[e].status \in Held => row'[claim[e].from].state # "none"
        BY <1>2, <1>3, <3>1
      <3>3. claim[e].status \in Held /\ Live(claim[e].from)' =>
              row'[claim[e].from].proven /\ ~row'[claim[e].from].placeholder
        BY <1>3, <1>6, <3>1
      <3>4. row'[e].state = "none" => claim[e].status = "none"
        BY <1>2, <1>3, <3>1
      <3> QED
        BY <1>3, <1>6, <3>1, <3>2, <3>3, <3>4
    <2>3. ClaimsStand'
      BY <2>2 DEF ClaimsStand
    <2>4. ASSUME NEW e \in Domains
          PROVE  /\ row'[e].placeholder => claim[e].status \in Held
                 /\ row'[e].claimed => row'[e].placeholder \/ Verified(e)'
                 /\ row'[e].transfer # NoDomain =>
                      Verified(row'[e].transfer) /\ claim[row'[e].transfer].from = e
                 /\ Verified(e) => Transfers(e)'
      <3>1. CASE e = d
        BY <1>1, <1>2, <1>3, <3>1
      <3>2. CASE e # d
        <4>1. row'[e] = row[e]
          BY <1>3, <3>2
        <4>2. ASSUME Verified(e) PROVE Transfers(e)'
          <5>1. Transfers(e) /\ claim[e].from \in Domains
            BY <4>2 DEF DomainsInv, OwnerInv, LocksHold, ClaimsStand, Verified, Held
          <5>2. claim[e].from # d
            BY <5>1, Constants DEF Transfers, Live
          <5> QED
            BY <1>3, <1>6, <4>1, <5>1, <5>2 DEF Transfers
        <4> QED
          BY <1>6, <4>1, <4>2 DEF DomainsInv, OwnerInv, LocksHold
      <3> QED
        BY <3>1, <3>2
    <2>5. LocksHold'
      BY <2>4 DEF LocksHold, Verified
    <2> QED
      BY <2>1, <2>3, <2>5 DEF OwnerInv
  <1>9. WorkInv'
    <2> SUFFICES ASSUME NEW e \in Domains
                 PROVE  /\ row'[e].placeholder \/ row'[e].state = "none" =>
                             \A j \in 1..MaxWork : work'[e][j].phase = "none"
                        /\ Verified(e)' =>
                             \A j \in 1..MaxWork : work'[e][j].phase = "acting" => work'[e][j].op = "provision"
                        /\ row'[e].transfer # NoDomain /\ e \notin overlapped' =>
                             /\ row'[e].phase \in {"running", "failed"}
                             /\ \A j \in 1..MaxWork : work'[e][j].phase = "acting" => work'[e][j].op = "remove"
                        /\ row'[e].phase = "running" => AtWork(e)'
      BY DEF WorkInv
    <2>1. CASE e = d
      BY <1>1, <1>2, <1>3, <1>6, <2>1
    <2>2. CASE e # d
      <3>1. row'[e] = row[e] /\ \A j \in 1..MaxWork : work'[e][j] = work[e][j]
        BY <1>3, <1>4, <2>2
      <3>2. AtWork(e)' <=> AtWork(e)
        BY <3>1 DEF AtWork
      <3> QED
        BY <1>6, <3>1, <3>2 DEF DomainsInv, WorkInv
    <2> QED
      BY <2>1, <2>2
  <1>10. ProofInv'
    <2>1. \A e \in Domains : Verified(e) => claim[e].from \in Domains
      BY DEF DomainsInv, OwnerInv, ClaimsStand, Verified, Held
    <2>2. \A e \in Domains :
            /\ row'[e].adoption = "approved" => row[e].adoption = "approved"
            /\ row[e].state = "gone" => row'[e].state = "gone"
      BY <1>2, <1>3
    <2> QED
      BY <2>1, <2>2, ProofFrame DEF DomainsInv
  <1> QED
    BY <1>5, <1>8, <1>9, <1>10 DEF DomainsInv

\* Everything an operation's action and workflow do.
LEMMA OperateStep ==
    ASSUME DomainsInv, NEW d \in Domains, Operate(d)
    PROVE  DomainsInv'
  <1>1. PICK i \in 1..MaxWork :
          Act(d, i) \/ Succeed(d, i) \/ ActionFails(d, i) \/ WorkStops(d, i) \/ WorkEnds(d, i)
    BY DEF Operate
  <1>2. CASE Act(d, i) \/ WorkEnds(d, i)
    BY <1>2, ActStep
  <1>3. CASE ActionFails(d, i) \/ WorkStops(d, i)
    <2>1. PICK w \in {NoWork, Told} : work[d][i].phase # "none" /\ FinishFailed(d, i, w)
      BY <1>3 DEF ActionFails, WorkStops
    <2>2. CASE FinishGone(d, i, w)
      BY <2>1, <2>2, FinishGoneStep
    <2>3. CASE FinishKept(d, i, TRUE, row[d].status, w)
      <3>1. row[d].status \in DomainStatus
        BY DEF DomainsInv, LocalInv, TypeOK, Row
      <3> QED
        BY <2>1, <2>3, <3>1, FinishKeptStep
    <2> QED
      BY <2>1, <2>2, <2>3 DEF FinishFailed
  <1>4. CASE Succeed(d, i)
    <2>1. work[d][i].phase = "acting"
      BY <1>4 DEF Succeed
    <2>2. CASE FinishGone(d, i, Told)
      BY <2>1, <2>2, FinishGoneStep
    <2>3. CASE work[d][i].op # "remove" /\ \E s \in DomainStatus : FinishKept(d, i, FALSE, s, Told)
      <3>1. PICK s \in DomainStatus : FinishKept(d, i, FALSE, s, Told)
        BY <2>3
      <3>2. row[d].transfer # NoDomain => d \in overlapped
        BY <2>1, <2>3 DEF DomainsInv, WorkInv
      <3> QED
        BY <2>1, <3>1, <3>2, FinishKeptStep
    <2>4. CASE work[d][i].op = "remove" /\ FinishRemoved(d, i, NoWork)
      <3>1. Live(d) /\ check' = Outdated(d) /\ UNCHANGED <<claim, mail, lookup, moves, proved, unread>>
        BY <2>4 DEF FinishRemoved
      <3>2. CASE row[d].transfer # NoDomain
        <4>1. Verified(row[d].transfer)
          BY <3>2 DEF DomainsInv, OwnerInv, LocksHold
        <4>2. /\ row' = [row EXCEPT ![d] = Gone, ![row[d].transfer] = Succeeded(@)]
              /\ Enqueue(row[d].transfer, [work EXCEPT ![d][i] = NoWork])
          BY <2>4, <3>2, <4>1 DEF FinishRemoved, Verified
        <4> QED
          BY <2>1, <2>4, <3>1, <3>2, <4>2, FinishTransferStep
      <3>3. CASE row[d].transfer = NoDomain
        <4>1. /\ row' = [row EXCEPT ![d] = Gone]
              /\ work' = [work EXCEPT ![d][i] = NoWork]
              /\ UNCHANGED overlapped
          BY <2>4, <3>3 DEF FinishRemoved
        <4> QED
          BY <2>1, <2>4, <3>1, <3>3, <4>1, FinishFreeStep
      <3> QED
        BY <3>2, <3>3
    <2>5. row[d].status \in DomainStatus /\ {"pending", "verified"} \subseteq DomainStatus
      BY DEF DomainsInv, LocalInv, TypeOK, Row, DomainStatus
    <2> QED
      BY <1>4, <2>2, <2>3, <2>4, <2>5 DEF Succeed
  <1> QED
    BY <1>1, <1>2, <1>3, <1>4

\* A check goes on, and writes no row.
LEMMA CheckOnly ==
    ASSUME DomainsInv, check' \in [Domains -> [1..MaxChecks -> Check]], unread' \subseteq Domains, SoundChecks',
           UNCHANGED <<row, claim, mail, work, lookup, moves, proved, overlapped>>
    PROVE  DomainsInv'
  <1>1. LocalInv'
    BY DEF DomainsInv, LocalInv, TypeOK, SoundRows
  <1>2. OwnerInv'
    BY DEF DomainsInv, OwnerInv, Active, Live, ClaimsStand, LocksHold, Verified, Transfers
  <1>3. WorkInv'
    BY DEF DomainsInv, WorkInv, AtWork, Verified
  <1>4. ProofInv'
    BY DEF DomainsInv, ProofInv, TransferIsProved
  <1> QED
    BY <1>1, <1>2, <1>3, <1>4 DEF DomainsInv

LEMMA ReadStep ==
    ASSUME DomainsInv, NEW d \in Domains, NEW i \in 1..MaxChecks,
           ReadCheck(d, i) \/ LoseCheck(d, i) \/ SaveStale(d, i)
    PROVE  DomainsInv'
  <1>1. check[d][i] \in Check /\ check \in [Domains -> [1..MaxChecks -> Check]] /\ unread \subseteq Domains
    BY DEF DomainsInv, LocalInv, TypeOK
  <1>2. NoCheck \in Check /\ NoCheck.attempt = 0 /\ NoCheck.current = FALSE
    BY Constants DEF NoCheck, Check
  <1>3. PICK c : /\ check' = [check EXCEPT ![d][i] = c]
                 /\ c \in {NoCheck, [check[d][i] EXCEPT !.phase = "reading", !.current = TRUE]}
                 /\ \/ unread' = unread \ {d}
                    \/ c = NoCheck /\ unread' = unread
                 /\ UNCHANGED <<row, claim, mail, work, lookup, moves, proved, overlapped>>
    <2>1. CASE ReadCheck(d, i)
      <3> DEFINE c == IF Checkable(d) THEN [check[d][i] EXCEPT !.phase = "reading", !.current = TRUE] ELSE NoCheck
      <3>1. /\ check' = [check EXCEPT ![d][i] = c]
            /\ unread' = unread \ {d}
            /\ UNCHANGED <<row, claim, mail, work, lookup, moves, proved, overlapped>>
        BY <2>1 DEF ReadCheck
      <3>2. c \in {NoCheck, [check[d][i] EXCEPT !.phase = "reading", !.current = TRUE]}
        OBVIOUS
      <3> HIDE DEF c
      <3> QED
        BY <3>1, <3>2
    <2>2. CASE LoseCheck(d, i) \/ SaveStale(d, i)
      BY <2>2 DEF LoseCheck, SaveStale, history
    <2> QED
      BY <2>1, <2>2
  <1>4. /\ c \in Check /\ c.attempt \in {0, check[d][i].attempt}
        /\ c.current => d \notin unread'
    BY <1>1, <1>2, <1>3 DEF Check
  <1>5. /\ check' \in [Domains -> [1..MaxChecks -> Check]]
        /\ check'[d][i] = c
        /\ \A e \in Domains, j \in 1..MaxChecks : e # d \/ j # i => check'[e][j] = check[e][j]
    <2>1. c \in Check
      BY <1>4
    <2>2. check' = [check EXCEPT ![d][i] = c]
      BY <1>3
    <2> QED
      BY ONLY <1>1, <2>1, <2>2
  <1>6. SoundChecks'
    <2>1. \A e \in Domains, j \in 1..MaxChecks :
            /\ check'[e][j].attempt <= LastCheck
            /\ check'[e][j].current => e \notin unread'
      BY <1>3, <1>4, <1>5, Constants DEF DomainsInv, LocalInv, SoundChecks
    <2>2. \A e \in unread' : row'[e].attempt = 0
      BY <1>3 DEF DomainsInv, LocalInv, SoundChecks
    <2> QED
      BY <2>1, <2>2 DEF SoundChecks
  <1>7. unread' \subseteq Domains
    BY <1>1, <1>3
  <1> QED
    BY <1>3, <1>5, <1>6, <1>7, CheckOnly

\* A check can only be made, and saved, of a domain whose last operation left it standing.
LEMMA CheckableRow ==
    ASSUME DomainsInv, NEW d \in Domains, Live(d), Provisioned(row[d])
    PROVE  /\ row[d] \in Row /\ Sound(row[d]) /\ row[d].state = "live"
           /\ ~row[d].placeholder /\ ~Verified(d)
  <1>1. row[d] \in Row /\ Sound(row[d]) /\ row[d].state = "live"
    BY DEF DomainsInv, LocalInv, TypeOK, SoundRows, Live
  <1>2. ~row[d].placeholder
    BY <1>1 DEF Sound, Provisioned
  <1>3. ~Verified(d)
    BY <1>2, NewOwner DEF DomainsInv, Provisioned
  <1> QED
    BY <1>1, <1>2, <1>3

LEMMA DispatchStep ==
    ASSUME DomainsInv, NEW d \in Domains, DispatchDue(d) \/ VerifyDomain(d)
    PROVE  DomainsInv'
  <1>1. PICK attempt : /\ Dispatch(d, attempt)
                       /\ \/ row[d].due /\ attempt = row[d].attempt
                          \/ Checkable(d) /\ attempt = 0
    BY DEF DispatchDue, VerifyDomain
  <1>2. Live(d) /\ Provisioned(row[d])
    <2>1. row[d].due => Provisioned(row[d])
      BY DEF DomainsInv, LocalInv, SoundRows, Sound
    <2>2. row[d].due => Live(d)
      <3>1. NoRow.due = FALSE
        BY DEF NoRow
      <3>2. ~Live(d) => row[d] = [NoRow EXCEPT !.state = row[d].state]
        BY DEF DomainsInv, LocalInv, TypeOK, Live
      <3>3. ~Live(d) => row[d].due = FALSE
        <4> DEFINE state == row[d].state
        <4>1. [NoRow EXCEPT !.state = state].due = FALSE
          BY DEF NoRow
        <4> QED
          BY <3>2, <4>1
      <3> QED
        BY <3>3
    <2> QED
      BY <1>1, <2>1, <2>2 DEF Checkable
  <1>3. /\ row[d] \in Row /\ Sound(row[d]) /\ row[d].state = "live"
        /\ ~row[d].placeholder /\ ~Verified(d)
    BY <1>2, CheckableRow
  <1>4. attempt \in 0..LastCheck
    <2>1. row[d].due => row[d].attempt <= LastCheck
      BY <1>3 DEF Sound
    <2>2. row[d].attempt \in 0..LastCheck + 1
      BY <1>3 DEF Row
    <2> QED
      BY <1>1, <2>1, <2>2, Constants
  <1> DEFINE r == [row[d] EXCEPT !.attempt = attempt, !.due = TRUE]
  <1>5. /\ r \in Row /\ r.attempt = attempt /\ r.due = TRUE
        /\ r.state = row[d].state /\ r.placeholder = row[d].placeholder /\ r.claimed = row[d].claimed
        /\ r.transfer = row[d].transfer /\ r.phase = row[d].phase /\ r.op = row[d].op
        /\ r.proven = row[d].proven /\ r.adoption = row[d].adoption /\ r.status = row[d].status
        /\ r.sending = row[d].sending
    <2>1. attempt \in 0..LastCheck + 1
      BY <1>4, Constants
    <2> QED
      BY <1>3, <2>1 DEF Row
  <1>6. row' = [row EXCEPT ![d] = r]
    BY <1>1 DEF Dispatch
  <1> HIDE DEF r
  <1>7. Sound(r)
    BY <1>2, <1>3, <1>4, <1>5 DEF Sound, Provisioned
  <1>8. check' \in [Domains -> [1..MaxChecks -> Check]] /\ SoundChecks'
    <2> DEFINE c == [NoCheck EXCEPT !.phase = "queued", !.attempt = attempt]
    <2>1. PICK i \in 1..MaxChecks : check' = [check EXCEPT ![d][i] = c]
      BY <1>1 DEF Dispatch
    <2>2. c \in Check /\ c.attempt = attempt /\ c.current = FALSE
      <3>1. attempt \in 0..LastCheck + 1
        BY <1>4, Constants
      <3> QED
        BY <3>1 DEF NoCheck, Check
    <2> HIDE DEF c
    <2>3. check \in [Domains -> [1..MaxChecks -> Check]]
      BY DEF DomainsInv, LocalInv, TypeOK
    <2>4. /\ check' \in [Domains -> [1..MaxChecks -> Check]]
          /\ check'[d][i] = c
          /\ \A e \in Domains, j \in 1..MaxChecks : e # d \/ j # i => check'[e][j] = check[e][j]
      <3>1. c \in Check
        BY <2>2
      <3> QED
        BY ONLY <2>1, <2>3, <3>1
    <2>5. unread' = unread
      BY <1>1 DEF Dispatch, history
    <2>6. \A e \in unread : row'[e].attempt = 0
      BY <1>1, <1>5, <1>6 DEF DomainsInv, LocalInv, TypeOK, SoundChecks
    <2>7. \A e \in Domains, j \in 1..MaxChecks :
            /\ check'[e][j].attempt <= LastCheck
            /\ check'[e][j].current => e \notin unread
      BY SMTT(30), <1>4, <2>2, <2>4, Constants DEF DomainsInv, LocalInv, SoundChecks
    <2> QED
      BY <2>4, <2>5, <2>6, <2>7 DEF SoundChecks
  <1>9. moves' \in 0..MaxMoves /\ UNCHANGED <<claim, mail, work, lookup, history>>
    BY <1>1, MoveTyped DEF Dispatch, DomainsInv, LocalInv
  <1> QED
    BY <1>2, <1>3, <1>5, <1>6, <1>7, <1>8, <1>9, RowStep

LEMMA SaveCheckStep ==
    ASSUME DomainsInv, NEW d \in Domains, NEW i \in 1..MaxChecks, SaveCheck(d, i)
    PROVE  DomainsInv'
  <1>1. Live(d) /\ Provisioned(row[d]) /\ check[d][i].current
    BY DEF SaveCheck, Current, Checkable
  <1>2. /\ row[d] \in Row /\ Sound(row[d]) /\ row[d].state = "live"
        /\ ~row[d].placeholder /\ ~Verified(d)
    BY <1>1, CheckableRow
  <1>3. check \in [Domains -> [1..MaxChecks -> Check]] /\ check[d][i] \in Check /\ unread \subseteq Domains
    BY DEF DomainsInv, LocalInv, TypeOK
  <1>4. check[d][i].attempt \in 0..LastCheck /\ d \notin unread
    BY <1>1, <1>3, Constants DEF DomainsInv, LocalInv, SoundChecks, Check
  <1>5. PICK s \in DomainStatus, f \in {check, Outdated(d)} :
          /\ row' = [row EXCEPT ![d] = Checked(row[d], check[d][i].attempt, s)]
          /\ check' = [f EXCEPT ![d][i] = NoCheck]
    BY <1>2 DEF SaveCheck, Row, DomainStatus
  <1> DEFINE r == Checked(row[d], check[d][i].attempt, s)
  <1>6. /\ r \in Row /\ Sound(r)
        /\ r.phase = row[d].phase /\ r.op = row[d].op /\ r.state = row[d].state
        /\ r.placeholder = row[d].placeholder /\ r.claimed = row[d].claimed
        /\ r.transfer = row[d].transfer /\ r.adoption = row[d].adoption
        /\ row[d].proven => r.proven
    BY <1>1, <1>2, <1>4, CheckedRow
  <1>7. row' = [row EXCEPT ![d] = r]
    BY <1>5
  <1> HIDE DEF r
  <1>8. check' \in [Domains -> [1..MaxChecks -> Check]] /\ SoundChecks'
    <2>1. /\ f \in [Domains -> [1..MaxChecks -> Check]]
          /\ \A e \in Domains, j \in 1..MaxChecks :
               /\ f[e][j].attempt = check[e][j].attempt
               /\ f[e][j].current => check[e][j].current
      BY <1>3, <1>5, OutdatedChecks
    <2>2. NoCheck \in Check /\ NoCheck.attempt = 0 /\ NoCheck.current = FALSE
      BY Constants DEF NoCheck, Check
    <2>3. /\ check' \in [Domains -> [1..MaxChecks -> Check]]
          /\ check'[d][i] = NoCheck
          /\ \A e \in Domains, j \in 1..MaxChecks : e # d \/ j # i => check'[e][j] = f[e][j]
      BY <1>5, <2>1, <2>2
    <2>4. unread' = unread
      BY DEF SaveCheck, history
    <2>5. \A e \in unread : row'[e].attempt = 0
      BY <1>3, <1>4, <1>7 DEF DomainsInv, LocalInv, TypeOK, SoundChecks
    <2>6. \A e \in Domains, j \in 1..MaxChecks :
            /\ check'[e][j].attempt <= LastCheck
            /\ check'[e][j].current => e \notin unread
      <3> TAKE e \in Domains, j \in 1..MaxChecks
      <3>1. check[e][j].attempt <= LastCheck /\ (check[e][j].current => e \notin unread)
        BY DEF DomainsInv, LocalInv, SoundChecks
      <3>2. check'[e][j] \in {NoCheck, f[e][j]}
        BY <2>3
      <3> QED
        BY <2>1, <2>2, <3>1, <3>2, Constants
    <2> QED
      BY <2>3, <2>4, <2>5, <2>6 DEF SoundChecks
  <1>9. moves' \in 0..MaxMoves /\ UNCHANGED <<claim, mail, work, lookup, history>>
    BY DEF SaveCheck, DomainsInv, LocalInv, TypeOK
  <1> QED
    BY <1>1, <1>2, <1>6, <1>7, <1>8, <1>9, RowStep

\* A claim goes on, and stays pending, blocked or expired.
LEMMA ClaimStep ==
    ASSUME DomainsInv, NEW c \in Domains, NEW k \in Claim,
           claim[c].status \in Open, k.status \in Open \cup {"expired"},
           k.team = claim[c].team, k.from = claim[c].from,
           claim' = [claim EXCEPT ![c] = k],
           lookup' \in [Domains -> [1..MaxLookups -> {"none", "asked", "found", "missed"}]],
           proved' \subseteq Domains, proved \ {c} \subseteq proved', moves' \in 0..MaxMoves,
           \A b \in Domains, i \in 1..MaxLookups :
             lookup'[b][i] = "found" /\ claim'[b].checking = i => b \in proved',
           UNCHANGED <<row, mail, work, check, overlapped, unread>>
    PROVE  DomainsInv'
  <1>1. /\ claim' \in [Domains -> Claim] /\ claim'[c] = k
        /\ \A b \in Domains : b # c => claim'[b] = claim[b]
    BY DEF DomainsInv, LocalInv, TypeOK
  <1>2. /\ k.status # "none" /\ k.status # "verified" /\ k.status # "completed"
        /\ claim[c].status # "none" /\ claim[c].status # "verified" /\ claim[c].status # "completed"
        /\ claim[c].status \in Held /\ k.status \in Held
    BY DEF Open, Held
  <1>3. \A b \in Domains :
          /\ Verified(b)' <=> Verified(b)
          /\ claim'[b].from = claim[b].from
          /\ claim'[b].team = claim[b].team
          /\ claim'[b].status \in Held <=> claim[b].status \in Held
          /\ claim'[b].status = "none" <=> claim[b].status = "none"
          /\ claim'[b].status = "completed" <=> claim[b].status = "completed"
          /\ claim'[b].status \in Open \cup {"expired"} => claim[b].status \in Open \cup {"expired"}
    BY <1>1, <1>2 DEF Verified
  <1>4. LocalInv'
    BY <1>1 DEF DomainsInv, LocalInv, TypeOK, SoundRows, SoundChecks
  <1>5. OwnerInv'
    <2>1. Active' = Active /\ \A d : Live(d)' <=> Live(d)
      BY DEF Active, Live
    <2>2. ClaimsStand'
      BY <1>3, <2>1 DEF DomainsInv, OwnerInv, ClaimsStand
    <2>3. \A b \in Domains : Verified(b) => Transfers(b)'
      BY <1>3, <2>1 DEF DomainsInv, OwnerInv, LocksHold, Transfers
    <2>4. \A d \in Domains : row[d].transfer # NoDomain => row[d].transfer \in Domains
      BY DEF DomainsInv, LocalInv, TypeOK, Row
    <2>5. LocksHold'
      BY <1>3, <2>3, <2>4 DEF DomainsInv, OwnerInv, LocksHold
    <2> QED
      BY <2>1, <2>2, <2>5 DEF DomainsInv, OwnerInv
  <1>6. WorkInv'
    BY <1>3 DEF DomainsInv, WorkInv, AtWork
  <1>7. ProofInv'
    <2>1. \A b \in Domains : claim'[b].status \in {"verified", "completed"} =>
            b # c /\ claim[b].status \in {"verified", "completed"}
      BY <1>1, <1>2
    <2> QED
      BY <1>3, <2>1 DEF DomainsInv, ProofInv, TransferIsProved
  <1> QED
    BY <1>4, <1>5, <1>6, <1>7 DEF DomainsInv

\* Seven days, their end, and the questions to DNS.
LEMMA LapseStep ==
    ASSUME DomainsInv, NEW c \in Domains, LapseClaim(c) \/ Expire(c)
    PROVE  DomainsInv'
  <1>1. /\ claim[c].status \in Open /\ claim[c] \in Claim
        /\ lookup \in [Domains -> [1..MaxLookups -> {"none", "asked", "found", "missed"}]]
        /\ proved \subseteq Domains
    BY DEF LapseClaim, Expire, DomainsInv, LocalInv, TypeOK
  <1>2. moves' \in 0..MaxMoves /\ UNCHANGED <<row, mail, work, check, lookup, proved, overlapped, unread>>
    BY MoveTyped DEF LapseClaim, Expire, DomainsInv, LocalInv, TypeOK, history
  <1>3. PICK k : /\ claim' = [claim EXCEPT ![c] = k]
                 /\ \/ k = [claim[c] EXCEPT !.lapsed = TRUE]
                    \/ k = [claim[c] EXCEPT !.status = "expired", !.checking = 0]
    BY DEF LapseClaim, Expire
  <1>4. /\ k \in Claim /\ k.status \in Open \cup {"expired"}
        /\ k.team = claim[c].team /\ k.from = claim[c].from /\ k.checking \in {0, claim[c].checking}
    <2>1. 0 \in 0..MaxLookups
      BY Constants
    <2> QED
      BY <1>1, <1>3, <2>1 DEF Claim
  <1>5. \A b \in Domains, i \in 1..MaxLookups :
          lookup'[b][i] = "found" /\ claim'[b].checking = i => b \in proved'
    <2>1. \A b \in Domains, i \in 1..MaxLookups : claim'[b].checking = i => claim[b].checking = i
      BY <1>3, <1>4, Constants DEF DomainsInv, LocalInv, TypeOK
    <2> QED
      BY <1>2, <2>1 DEF DomainsInv, ProofInv
  <1>6. /\ lookup' \in [Domains -> [1..MaxLookups -> {"none", "asked", "found", "missed"}]]
        /\ proved' \subseteq Domains /\ proved \ {c} \subseteq proved'
    BY <1>1, <1>2
  <1> QED
    BY <1>1, <1>2, <1>3, <1>4, <1>5, <1>6, ClaimStep

LEMMA AskStep ==
    ASSUME DomainsInv, NEW c \in Domains, AskProof(c)
    PROVE  DomainsInv'
  <1>1. /\ claim[c].status \in Open /\ claim[c] \in Claim
        /\ lookup \in [Domains -> [1..MaxLookups -> {"none", "asked", "found", "missed"}]]
        /\ proved' \subseteq Domains /\ proved' = proved \ {c}
    BY DEF AskProof, Standing, DomainsInv, LocalInv, TypeOK
  <1>2. moves' \in 0..MaxMoves /\ UNCHANGED <<row, mail, work, check, overlapped, unread>>
    BY MoveTyped DEF AskProof, DomainsInv, LocalInv
  <1>3. PICK j \in 1..MaxLookups : /\ claim' = [claim EXCEPT ![c].checking = j]
                                   /\ lookup' = [lookup EXCEPT ![c][j] = "asked"]
    BY DEF AskProof
  <1> DEFINE k == [claim[c] EXCEPT !.checking = j]
  <1>4. /\ k \in Claim /\ k.status = claim[c].status
        /\ k.team = claim[c].team /\ k.from = claim[c].from /\ k.checking = j
    <2>1. j \in 0..MaxLookups
      BY Constants
    <2> QED
      BY <1>1, <2>1 DEF Claim
  <1>5. claim' = [claim EXCEPT ![c] = k]
    BY <1>3
  <1> HIDE DEF k
  <1>6. /\ lookup' \in [Domains -> [1..MaxLookups -> {"none", "asked", "found", "missed"}]]
        /\ lookup'[c][j] = "asked"
        /\ \A b \in Domains, i \in 1..MaxLookups : b # c \/ i # j => lookup'[b][i] = lookup[b][i]
    <2>1. lookup \in [Domains -> [1..MaxLookups -> {"none", "asked", "found", "missed"}]]
      BY <1>1
    <2>2. lookup' = [lookup EXCEPT ![c][j] = "asked"] /\ j \in 1..MaxLookups /\ c \in Domains
      BY <1>3
    <2>3. "asked" \in {"none", "asked", "found", "missed"}
      OBVIOUS
    <2> QED
      BY ONLY <2>1, <2>2, <2>3
  <1>7. claim'[c] = k /\ \A b \in Domains : b # c => claim'[b] = claim[b]
    BY <1>5 DEF DomainsInv, LocalInv, TypeOK
  <1>8. \A b \in Domains, i \in 1..MaxLookups :
          lookup'[b][i] = "found" /\ claim'[b].checking = i => b \in proved'
    BY <1>1, <1>4, <1>6, <1>7 DEF DomainsInv, ProofInv
  <1>9. proved \ {c} \subseteq proved' /\ claim[c].status \in Open \cup {"expired"}
    BY <1>1
  <1> QED
    BY <1>1, <1>2, <1>4, <1>5, <1>6, <1>8, <1>9, ClaimStep

\* The answer of DNS, and those that nobody waits for.
LEMMA LookUpStep ==
    ASSUME DomainsInv, NEW c \in Domains, NEW i \in 1..MaxLookups,
           LookUp(c, i) \/ LoseLookup(c, i) \/ ProofStale(c, i)
    PROVE  DomainsInv'
  <1>1. PICK answer \in {"none", "found", "missed"} :
          /\ lookup' = [lookup EXCEPT ![c][i] = answer]
          /\ proved' = IF answer = "found" THEN proved \cup {c} ELSE proved
          /\ UNCHANGED <<row, claim, mail, work, check, moves, overlapped, unread>>
    BY DEF LookUp, LoseLookup, ProofStale, Answered, history
  <1>2. /\ lookup \in [Domains -> [1..MaxLookups -> {"none", "asked", "found", "missed"}]]
        /\ answer \in {"none", "asked", "found", "missed"}
    BY DEF DomainsInv, LocalInv, TypeOK
  <1>3. /\ lookup' \in [Domains -> [1..MaxLookups -> {"none", "asked", "found", "missed"}]]
        /\ lookup'[c][i] = answer
        /\ \A b \in Domains, j \in 1..MaxLookups : b # c \/ j # i => lookup'[b][j] = lookup[b][j]
    <2>1. lookup' = [lookup EXCEPT ![c][i] = answer]
      BY <1>1
    <2> QED
      BY ONLY <1>2, <2>1
  <1>4. LocalInv'
    BY <1>1, <1>3 DEF DomainsInv, LocalInv, TypeOK, SoundRows, SoundChecks
  <1>5. OwnerInv' /\ WorkInv'
    BY <1>1 DEF DomainsInv, OwnerInv, Active, Live, ClaimsStand, LocksHold, Verified, Transfers,
                WorkInv, AtWork
  <1>6. ProofInv'
    <2>1. \A b \in Domains : Verified(b) => claim[b].from \in Domains
      BY DEF DomainsInv, OwnerInv, ClaimsStand, Verified, Held
    <2>2. \A b \in Domains, j \in 1..MaxLookups :
            lookup'[b][j] = "found" => lookup[b][j] = "found" \/ b \in proved'
      BY <1>1, <1>3
    <2>3. proved \subseteq proved'
      BY <1>1
    <2> QED
      BY <1>1, <2>1, <2>2, <2>3, ProofFrame DEF DomainsInv
  <1> QED
    BY <1>4, <1>5, <1>6 DEF DomainsInv

LEMMA RefuseStep ==
    ASSUME DomainsInv, NEW c \in Domains, NEW i \in 1..MaxLookups, ProofRefused(c, i)
    PROVE  DomainsInv'
  <1>1. /\ claim[c].status \in Open /\ claim[c] \in Claim
        /\ lookup \in [Domains -> [1..MaxLookups -> {"none", "asked", "found", "missed"}]]
        /\ proved \subseteq Domains /\ moves \in 0..MaxMoves
    BY DEF ProofRefused, Asked, Standing, DomainsInv, LocalInv, TypeOK
  <1>2. PICK k : /\ claim' = [claim EXCEPT ![c] = k]
                 /\ \/ k = [claim[c] EXCEPT !.checking = 0]
                    \/ k = [claim[c] EXCEPT !.checking = 0, !.status = "blocked"]
    BY DEF ProofRefused
  <1>3. /\ k \in Claim /\ k.status \in Open
        /\ k.team = claim[c].team /\ k.from = claim[c].from /\ k.checking = 0
    <2>1. 0 \in 0..MaxLookups
      BY Constants
    <2> QED
      BY <1>1, <1>2, <2>1 DEF Claim, Open
  <1>4. /\ lookup' \in [Domains -> [1..MaxLookups -> {"none", "asked", "found", "missed"}]]
        /\ lookup'[c][i] = "none"
        /\ \A b \in Domains, j \in 1..MaxLookups : b # c \/ j # i => lookup'[b][j] = lookup[b][j]
    <2>1. "none" \in {"none", "asked", "found", "missed"}
      OBVIOUS
    <2>2. lookup' = [lookup EXCEPT ![c][i] = "none"]
      BY DEF ProofRefused, Answered
    <2>3. lookup \in [Domains -> [1..MaxLookups -> {"none", "asked", "found", "missed"}]]
      BY <1>1
    <2> QED
      BY ONLY <2>1, <2>2, <2>3
  <1>5. claim'[c] = k /\ \A b \in Domains : b # c => claim'[b] = claim[b]
    BY <1>2 DEF DomainsInv, LocalInv, TypeOK
  <1>6. \A b \in Domains, j \in 1..MaxLookups :
          lookup'[b][j] = "found" /\ claim'[b].checking = j => b \in proved
    BY <1>3, <1>4, <1>5, Constants DEF DomainsInv, ProofInv
  <1>7. UNCHANGED <<row, mail, work, check, moves, proved, overlapped, unread>>
    BY DEF ProofRefused, history
  <1>8. /\ proved' \subseteq Domains /\ proved \ {c} \subseteq proved' /\ moves' \in 0..MaxMoves
        /\ k.status \in Open \cup {"expired"}
        /\ \A b \in Domains, j \in 1..MaxLookups :
             lookup'[b][j] = "found" /\ claim'[b].checking = j => b \in proved'
    BY <1>1, <1>3, <1>6, <1>7
  <1> QED
    BY <1>1, <1>2, <1>3, <1>4, <1>7, <1>8, ClaimStep

\* A proof that is accepted: no other claim is verified, the old owner's domain is
\* locked for this one, and its removal starts.
LEMMA AcceptStep ==
    ASSUME DomainsInv, NEW c \in Domains, NEW i \in 1..MaxLookups, AcceptProof(c, i)
    PROVE  DomainsInv'
  <1>0. PICK o \in Domains : o = claim[c].from
    BY DEF AcceptProof, Asked, Standing, Held, DomainsInv, OwnerInv, ClaimsStand
  <1> DEFINE k == [claim[c] EXCEPT !.checking = 0, !.status = "verified"]
             s == Started([row[o] EXCEPT !.transfer = c, !.sending = FALSE], "remove")
  <1>1. /\ lookup[c][i] = "found" /\ claim[c].checking = i /\ claim[c].status \in Open
        /\ Active = {o} /\ row[o].transfer = NoDomain /\ row[o].adoption # "approved" /\ o \notin mail
        /\ claim' = [claim EXCEPT ![c] = k]
        /\ row' = [row EXCEPT ![o] = s] /\ Enqueue(o, work)
        /\ lookup' = [lookup EXCEPT ![c][i] = "none"]
        /\ UNCHANGED <<mail, check, moves, proved, unread>>
    BY <1>0 DEF AcceptProof, Asked, Standing, Blocked, Start, Answered
  <1>2. /\ row[c].placeholder /\ Live(c) /\ o # c
        /\ Live(o) /\ ~row[o].placeholder /\ row[o].proven /\ c \in proved
    <2>1. claim[c].status \in Held
      BY <1>1 DEF Held
    <2>2. Live(o) /\ ~row[o].placeholder
      BY <1>1 DEF Active
    <2>3. c \in proved
      BY <1>1 DEF DomainsInv, ProofInv
    <2> QED
      BY <1>1, <1>0, <2>1, <2>2, <2>3 DEF DomainsInv, OwnerInv, ClaimsStand
  <1>3. \A b \in Domains : ~Verified(b)
    <2> SUFFICES ASSUME NEW b \in Domains, Verified(b) PROVE FALSE
      OBVIOUS
    <2>1. Transfers(b) /\ Live(b) /\ claim[b].from \in Domains
          /\ (Live(claim[b].from) => ~row[claim[b].from].placeholder)
      BY DEF DomainsInv, OwnerInv, LocksHold, ClaimsStand, Verified, Held
    <2>2. CASE Live(claim[b].from)
      <3>1. claim[b].from \in Active
        BY <2>1, <2>2 DEF Active
      <3>2. row[o].transfer = b
        BY <1>1, <2>1, <2>2, <3>1 DEF Transfers
      <3> QED
        BY <1>1, <3>2, Constants
    <2>3. CASE ~Live(claim[b].from)
      <3>1. b \in Active /\ ~row[b].proven
        BY <2>1, <2>3 DEF Active, Transfers
      <3> QED
        BY <1>1, <1>2, <3>1
    <2> QED
      BY <2>2, <2>3
  <1>4. /\ s \in Row /\ Sound(s)
        /\ s.phase = "running" /\ s.op = "remove"
        /\ s.state = "live" /\ s.placeholder = row[o].placeholder /\ s.claimed = row[o].claimed
        /\ s.transfer = c /\ s.proven = row[o].proven
        /\ s.adoption = row[o].adoption /\ s.attempt = row[o].attempt
    <2>1. row[o] \in Row /\ Sound(row[o]) /\ row[o].state = "live"
      BY <1>2 DEF DomainsInv, LocalInv, TypeOK, SoundRows, Live
    <2> QED
      BY ZenonT(60), <1>2, <2>1, AcceptedRow
  <1>5. claim \in [Domains -> Claim] /\ claim[c] \in Claim
    BY DEF DomainsInv, LocalInv, TypeOK
  <1>6. k \in Claim /\ k.status = "verified" /\ k.from = o /\ k.team = claim[c].team /\ k.checking = 0
    <2>1. 0 \in 0..MaxLookups
      BY Constants
    <2> QED
      BY <1>0, <1>5, <2>1 DEF Claim
  <1> HIDE DEF s, k
  <1>7. claim' \in [Domains -> Claim] /\ claim'[c] = k /\ \A b \in Domains : b # c => claim'[b] = claim[b]
    BY <1>1, <1>5, <1>6
  <1>8. RowsOK' /\ row'[o] = s /\ \A e \in Domains : e # o => row'[e] = row[e]
    <2>1. RowsOK
      BY DEF DomainsInv, LocalInv, TypeOK, RowsOK
    <2> QED
      BY <1>1, <1>2, <1>4, <2>1, RowChange
  <1>9. /\ work' \in [Domains -> [1..MaxWork -> Work]]
        /\ overlapped' \subseteq Domains
        /\ overlapped \subseteq overlapped'
        /\ overlapped' \subseteq overlapped \cup {o}
        /\ AtWork(o) => o \in overlapped'
        /\ AtWork(o)'
        /\ \A e \in Domains, j \in 1..MaxWork :
             /\ e # o => work'[e][j] = work[e][j]
             /\ \/ work'[e][j] = work[e][j]
                \/ work'[e][j].phase = "waiting" /\ work[e][j].phase = "none"
    <2>1. work \in [Domains -> [1..MaxWork -> Work]] /\ overlapped \subseteq Domains
      BY DEF DomainsInv, LocalInv, TypeOK
    <2>2. o \in Domains /\ Enqueue(o, work)
      BY <1>1, <1>2
    <2> QED
      BY ONLY <2>1, <2>2, Enqueued
  <1>10. /\ lookup' \in [Domains -> [1..MaxLookups -> {"none", "asked", "found", "missed"}]]
         /\ lookup'[c][i] = "none"
         /\ \A b \in Domains, j \in 1..MaxLookups : b # c \/ j # i => lookup'[b][j] = lookup[b][j]
    <2>1. "none" \in {"none", "asked", "found", "missed"}
      OBVIOUS
    <2>2. lookup' = [lookup EXCEPT ![c][i] = "none"]
      BY <1>1
    <2>3. lookup \in [Domains -> [1..MaxLookups -> {"none", "asked", "found", "missed"}]]
      BY DEF DomainsInv, LocalInv, TypeOK
    <2> QED
      BY ONLY <2>1, <2>2, <2>3
  <1>11. LocalInv'
    <2>1. SoundChecks'
      BY <1>1, <1>4, <1>8 DEF DomainsInv, LocalInv, SoundChecks, TypeOK
    <2> QED
      BY <1>1, <1>7, <1>8, <1>9, <1>10, <2>1, LocalFrame DEF DomainsInv, LocalInv, TypeOK
  <1>12. \A e \in Domains :
           /\ row'[e].state = row[e].state
           /\ row'[e].placeholder = row[e].placeholder
           /\ row'[e].claimed = row[e].claimed
           /\ row'[e].proven = row[e].proven
           /\ row'[e].adoption = row[e].adoption
           /\ row'[e].transfer = IF e = o THEN c ELSE row[e].transfer
           /\ Live(e)' <=> Live(e)
           /\ Verified(e)' <=> e = c
           /\ claim'[e].from = claim[e].from
           /\ claim'[e].team = claim[e].team
    <2> TAKE e \in Domains
    <2>1. /\ row'[e].state = row[e].state
          /\ row'[e].placeholder = row[e].placeholder
          /\ row'[e].claimed = row[e].claimed
          /\ row'[e].proven = row[e].proven
          /\ row'[e].adoption = row[e].adoption
          /\ row'[e].transfer = IF e = o THEN c ELSE row[e].transfer
      BY ZenonT(30), <1>2, <1>4, <1>8 DEF Live
    <2>2. /\ Verified(e)' <=> e = c
          /\ claim'[e].from = claim[e].from
          /\ claim'[e].team = claim[e].team
      BY <1>0, <1>3, <1>6, <1>7 DEF Verified
    <2> QED
      BY <2>1, <2>2 DEF Live
  <1>13. OwnerInv'
    <2>1. Active' = Active
      BY <1>12 DEF Active
    <2>2. ClaimsStand'
      <3>1. /\ \A e \in Domains : e # c => claim'[e].status = claim[e].status
            /\ claim'[c].status = "verified" /\ "verified" \in Held
        BY <1>6, <1>7 DEF Held
      <3>2. /\ claim[c].status \in Held /\ claim[c].status # "none"
            /\ "verified" \notin Open \cup {"expired", "none"}
        BY <1>1 DEF Held, Open
      <3>3. ASSUME NEW e \in Domains
            PROVE  /\ row'[e].state = "none" => claim'[e].status = "none"
                   /\ claim'[e].status = "none" => claim'[e].team = NoTeam
                   /\ claim'[e].status \in Held =>
                        /\ Live(e)'
                        /\ row'[e].claimed
                        /\ claim'[e].from \in Domains \ {e}
                        /\ row'[claim'[e].from].state # "none"
                        /\ Live(claim[e].from)' => row'[claim'[e].from].proven /\ ~row'[claim'[e].from].placeholder
                   /\ claim'[e].status \in Open \cup {"expired"} => row'[e].placeholder
        <4>1. /\ claim'[e].status \in Held => claim[e].status \in Held
              /\ claim'[e].status = "none" => claim[e].status = "none"
              /\ claim'[e].status \in Open \cup {"expired"} => claim[e].status \in Open \cup {"expired"}
              /\ claim[e].status = "none" => claim'[e].status = "none"
          <5>1. CASE e = c
            BY <3>1, <3>2, <5>1
          <5>2. CASE e # c
            BY <3>1, <5>2
          <5> QED
            BY <5>1, <5>2
        <4>2. /\ claim[e].status \in Held =>
                   /\ Live(e)
                   /\ row[e].claimed
                   /\ claim[e].from \in Domains \ {e}
                   /\ row[claim[e].from].state # "none"
                   /\ Live(claim[e].from) => row[claim[e].from].proven /\ ~row[claim[e].from].placeholder
              /\ row[e].state = "none" => claim[e].status = "none"
              /\ claim[e].status = "none" => claim[e].team = NoTeam
              /\ claim[e].status \in Open \cup {"expired"} => row[e].placeholder
          BY DEF DomainsInv, OwnerInv, ClaimsStand
        <4>3. claim[e].status \in Held => (Live(claim[e].from)' <=> Live(claim[e].from))
          BY <1>12, <4>2 DEF Live
        <4> QED
          BY <1>12, <4>1, <4>2, <4>3
      <3> QED
        BY <3>3 DEF ClaimsStand
    <2>3. Transfers(c)'
      <3>1. claim'[c].from = o
        BY <1>6, <1>7
      <3> QED
        BY <1>2, <1>12, <3>1 DEF Transfers
    <2>4. \A e \in Domains : row[e].transfer = NoDomain
      BY <1>3 DEF DomainsInv, LocalInv, TypeOK, Row, OwnerInv, LocksHold
    <2>5. ASSUME NEW e \in Domains
          PROVE  /\ row'[e].placeholder => claim'[e].status \in Held
                 /\ row'[e].claimed => row'[e].placeholder \/ Verified(e)'
                 /\ row'[e].transfer # NoDomain =>
                      Verified(row[e].transfer)' /\ claim'[row'[e].transfer].from = e
                 /\ Verified(e)' => Transfers(e)'
      <3>1. row'[e].placeholder => claim'[e].status \in Held
        BY <1>1, <1>6, <1>7, <1>12 DEF DomainsInv, OwnerInv, LocksHold, Held
      <3>2. row'[e].claimed => row'[e].placeholder
        BY <1>3, <1>12 DEF DomainsInv, OwnerInv, LocksHold
      <3>3. row'[e].transfer # NoDomain => e = o /\ row'[e].transfer = c
        BY <1>12, <2>4
      <3>4. Verified(c)' /\ claim'[c].from = o
        BY <1>6, <1>7, <1>12
      <3>5. row'[e].transfer # NoDomain => Verified(row[e].transfer)' /\ claim'[row'[e].transfer].from = e
        BY <3>3, <3>4 DEF Verified
      <3>6. Verified(e)' => Transfers(e)'
        BY <1>12, <2>3
      <3> QED
        BY <3>1, <3>2, <3>5, <3>6
    <2>6. LocksHold'
      BY <2>5 DEF LocksHold
    <2> QED
      BY <2>1, <2>2, <2>6 DEF DomainsInv, OwnerInv
  <1>14. WorkInv'
    <2> SUFFICES ASSUME NEW e \in Domains
                 PROVE  /\ row'[e].placeholder \/ row'[e].state = "none" =>
                             \A j \in 1..MaxWork : work'[e][j].phase = "none"
                        /\ Verified(e)' =>
                             \A j \in 1..MaxWork : work'[e][j].phase = "acting" => work'[e][j].op = "provision"
                        /\ row'[e].transfer # NoDomain /\ e \notin overlapped' =>
                             /\ row'[e].phase \in {"running", "failed"}
                             /\ \A j \in 1..MaxWork : work'[e][j].phase = "acting" => work'[e][j].op = "remove"
                        /\ row'[e].phase = "running" => AtWork(e)'
      BY DEF WorkInv
    <2>1. CASE e # o
      <3>1. /\ row'[e] = row[e] /\ (e \in overlapped <=> e \in overlapped')
            /\ \A j \in 1..MaxWork : work'[e][j] = work[e][j]
        BY <1>8, <1>9, <2>1
      <3>2. AtWork(e)' <=> AtWork(e)
        BY <3>1 DEF AtWork
      <3>3. Verified(e)' => \A j \in 1..MaxWork : work'[e][j].phase = "none"
        BY <1>2, <1>12, <3>1 DEF DomainsInv, WorkInv
      <3> QED
        BY <3>1, <3>2, <3>3 DEF DomainsInv, WorkInv
    <2>2. CASE e = o
      <3>1. ~row'[o].placeholder /\ row'[o].state = "live" /\ row'[o].phase = "running" /\ ~Verified(o)'
        BY <1>2, <1>4, <1>8, <1>12 DEF Live
      <3>2. o \notin overlapped' => \A j \in 1..MaxWork : work'[o][j].phase # "acting"
        <4> SUFFICES ASSUME o \notin overlapped', NEW j \in 1..MaxWork PROVE work'[o][j].phase # "acting"
          OBVIOUS
        <4>1. work[o][j].phase # "acting"
          BY <1>9 DEF AtWork
        <4> QED
          BY <1>2, <1>9, <4>1
      <3>3. AtWork(e)' /\ ~Verified(e)'
        BY <1>9, <2>2, <3>1
      <3> QED
        BY <2>2, <3>1, <3>2, <3>3
    <2> QED
      BY <2>1, <2>2
  <1>15. ProofInv'
    <2>1. \A b \in Domains, j \in 1..MaxLookups :
            lookup'[b][j] = "found" /\ claim'[b].checking = j => b \in proved'
      BY <1>1, <1>2, <1>7, <1>10 DEF DomainsInv, ProofInv
    <2>2. \A b \in Domains : claim'[b].status = "completed" => b # c /\ claim[b].status = "completed"
      BY <1>6, <1>7
    <2>3. \A b \in Domains : claim'[b].status = "completed" =>
             claim'[b].from \in Domains /\ row'[claim'[b].from].state = "gone"
      BY <1>12, <2>2 DEF DomainsInv, ProofInv
    <2>4. ASSUME NEW b \in Domains, claim'[b].status \in {"verified", "completed"}
          PROVE  b \in proved' /\ claim'[b].from \notin mail' /\ row'[claim'[b].from].adoption # "approved"
      <3>1. CASE b = c
        <4>1. claim'[c].from = o /\ row'[o].adoption = row[o].adoption
          BY <1>2, <1>6, <1>7, <1>12
        <4> QED
          BY <1>1, <1>2, <3>1, <4>1
      <3>2. CASE b # c
        <4>1. claim[b].status = "completed"
          BY <1>12, <2>2, <2>4, <3>2 DEF Verified
        <4> QED
          BY <1>1, <1>12, <4>1 DEF DomainsInv, ProofInv, TransferIsProved
      <3> QED
        BY <3>1, <3>2
    <2> QED
      BY <2>1, <2>3, <2>4 DEF ProofInv, TransferIsProved
  <1> QED
    BY <1>11, <1>13, <1>14, <1>15 DEF DomainsInv

\* Claims K of placeholders end, and at most one, N, begins, on the one owner's domain.
ClaimsTurn(K, N, o, new, fresh) ==
    /\ K \in SUBSET Domains /\ N \in SUBSET Domains
    /\ \A p \in K : claim[p].status \in Open \cup {"expired"}
    /\ \A p \in N : row[p].state = "none"
    /\ N # {} => o \in Active /\ row[o].proven
    /\ new.state = "live" /\ new.placeholder = TRUE /\ new.claimed = TRUE
    /\ new.transfer = NoDomain /\ new.phase = "pending" /\ new.attempt = 0
    /\ new.adoption = "none" /\ new.proven = FALSE /\ new.due = FALSE /\ new.status = "pending"
    /\ fresh.status = "pending" /\ fresh.from = o /\ fresh.checking = 0
    /\ row' \in [Domains -> Row] /\ claim' \in [Domains -> Claim]
    /\ \A p \in N : row'[p] = new /\ claim'[p] = fresh
    /\ \A p \in K : /\ row'[p] = Gone
                    /\ claim'[p].status \in {"canceled", "superseded"} /\ claim'[p].checking = 0
    /\ \A p \in Domains : p \notin K /\ p \notin N => row'[p] = row[p] /\ claim'[p] = claim[p]
    /\ proved' = proved \ K
    /\ UNCHANGED <<mail, work, check, lookup, moves, overlapped, unread>>

LEMMA ClaimsStep ==
    ASSUME DomainsInv, NEW K, NEW N, NEW o, NEW new, NEW fresh, ClaimsTurn(K, N, o, new, fresh)
    PROVE  DomainsInv'
  <1> USE DEF ClaimsTurn
  <1>1. /\ Gone.state = "gone" /\ Gone.placeholder = FALSE /\ Gone.claimed = FALSE
        /\ Gone.transfer = NoDomain /\ Gone.phase = "pending" /\ Gone.attempt = 0
        /\ Gone.adoption = "none" /\ Gone.proven = FALSE
    BY DEF Gone, NoRow
  <1>2. /\ new.state = "live" /\ new.placeholder = TRUE /\ new.claimed = TRUE
        /\ new.transfer = NoDomain /\ new.phase = "pending" /\ new.attempt = 0
        /\ new.adoption = "none" /\ new.proven = FALSE /\ new.due = FALSE /\ new.status = "pending"
    OBVIOUS
  <1>3. fresh.status = "pending" /\ fresh.from = o /\ fresh.checking = 0
    OBVIOUS
  <1>4. \A p \in N : row'[p] = new /\ claim'[p] = fresh
    OBVIOUS
  <1>5. \A p \in K : row[p].placeholder /\ Live(p) /\ row[p].state = "live" /\ ~Verified(p) /\ p \notin N
    BY DEF DomainsInv, OwnerInv, ClaimsStand, Held, Verified, Live, Open
  <1>6. \A p \in N : claim[p].status = "none" /\ ~Verified(p) /\ ~Live(p) /\ p \notin K
    BY <1>5 DEF DomainsInv, OwnerInv, ClaimsStand, Verified, Live
  <1>7. \A p \in Domains : Verified(p)' <=> Verified(p)
    <2> TAKE p \in Domains
    <2>1. CASE p \in K
      BY <1>5, <2>1 DEF Verified
    <2>2. CASE p \in N
      BY <1>3, <1>4, <1>6, <2>2 DEF Verified
    <2>3. CASE p \notin K /\ p \notin N
      BY <2>3 DEF Verified
    <2> QED
      BY <2>1, <2>2, <2>3
  <1>8. \A p \in Domains : Live(p)' <=> (Live(p) /\ p \notin K) \/ p \in N
    BY <1>1, <1>2, <1>4, <1>5 DEF Live
  <1>9. \A p \in Domains : Live(p) /\ ~row[p].placeholder => row'[p] = row[p] /\ claim'[p] = claim[p]
    BY <1>5, <1>6
  <1>10. RowsOK'
    <2>1. Sound(new) /\ Sound(Gone)
      BY <1>2, NoRowSound DEF Sound, Provisioned
    <2>2. \A p \in Domains : Sound(row'[p])
      BY <1>4, <2>1 DEF DomainsInv, LocalInv, SoundRows
    <2>3. Gone = [NoRow EXCEPT !.state = Gone.state]
      BY DEF Gone, NoRow
    <2>4. \A p \in Domains : row'[p].state # "live" => row'[p] = [NoRow EXCEPT !.state = row'[p].state]
      BY <1>2, <1>4, <2>3 DEF DomainsInv, LocalInv, TypeOK
    <2> QED
      BY <2>2, <2>4 DEF RowsOK, SoundRows, Sound, Provisioned
  <1>11. LocalInv'
    <2>1. ASSUME NEW e \in unread PROVE row'[e].attempt = 0
      <3>1. e \in Domains /\ row[e].attempt = 0
        BY DEF DomainsInv, LocalInv, SoundChecks, TypeOK
      <3>2. e \in K => row'[e].attempt = 0
        BY <1>1
      <3>3. e \in N => row'[e].attempt = 0
        BY <1>2, <1>4
      <3> QED
        BY <3>1, <3>2, <3>3
    <2>2. SoundChecks'
      BY <2>1 DEF DomainsInv, LocalInv, SoundChecks
    <2> QED
      BY <1>10, <2>2, LocalFrame DEF DomainsInv, LocalInv, TypeOK
  <1>12. OwnerInv'
    <2>1. Active' = Active
      BY <1>1, <1>2, <1>4, <1>5, <1>6, <1>8, <1>9 DEF Active
    <2>2. ASSUME NEW e \in Domains
          PROVE  /\ row'[e].state = "none" => claim'[e].status = "none"
                 /\ claim'[e].status = "none" => claim'[e].team = NoTeam
                 /\ claim'[e].status \in Held =>
                      /\ Live(e)'
                      /\ row'[e].claimed
                      /\ claim'[e].from \in Domains \ {e}
                      /\ row'[claim'[e].from].state # "none"
                      /\ Live(claim[e].from)' => row'[claim'[e].from].proven /\ ~row'[claim'[e].from].placeholder
                 /\ claim'[e].status \in Open \cup {"expired"} => row'[e].placeholder
      <3>1. CASE e \in K
        <4>1. claim'[e].status \notin Held /\ claim'[e].status # "none" /\ row'[e].state = "gone"
          BY <1>1, <3>1 DEF Held, Open
        <4> QED
          BY <4>1 DEF Held
      <3>2. CASE e \in N
        <4>1. o \in Domains /\ Live(o) /\ ~row[o].placeholder /\ row[o].proven /\ o # e
          BY <1>6, <3>2 DEF Active
        <4>2. row'[o] = row[o] /\ Live(o)'
          BY <1>8, <1>9, <4>1, <1>5
        <4>3. claim'[e].from = o /\ claim'[e].status = "pending" /\ row'[e] = new
          BY <1>3, <1>4, <3>2
        <4> QED
          BY <1>2, <1>8, <3>2, <4>1, <4>2, <4>3 DEF Live
      <3>3. CASE e \notin K /\ e \notin N
        <4>1. row'[e] = row[e] /\ claim'[e] = claim[e]
          BY <3>3
        <4>2. /\ claim[e].status \in Held =>
                   /\ Live(e)
                   /\ row[e].claimed
                   /\ claim[e].from \in Domains \ {e}
                   /\ row[claim[e].from].state # "none"
                   /\ Live(claim[e].from) => row[claim[e].from].proven /\ ~row[claim[e].from].placeholder
              /\ row[e].state = "none" => claim[e].status = "none"
              /\ claim[e].status = "none" => claim[e].team = NoTeam
              /\ claim[e].status \in Open \cup {"expired"} => row[e].placeholder
          BY DEF DomainsInv, OwnerInv, ClaimsStand
        <4>3. claim[e].status \in Held => claim[e].from \notin N /\ claim[e].from \notin K
          BY <1>5, <4>2
        <4> QED
          BY <1>8, <3>3, <4>1, <4>2, <4>3
      <3> QED
        BY <3>1, <3>2, <3>3
    <2>3. ClaimsStand'
      BY <2>2 DEF ClaimsStand
    <2>4. ASSUME NEW e \in Domains
          PROVE  /\ row'[e].placeholder => claim'[e].status \in Held
                 /\ row'[e].claimed => row'[e].placeholder \/ Verified(e)'
                 /\ row'[e].transfer # NoDomain =>
                      Verified(row[e].transfer)' /\ claim'[row'[e].transfer].from = e
                 /\ Verified(e)' => Transfers(e)'
      <3>1. CASE e \in K
        BY <1>1, <1>5, <1>7, <3>1
      <3>2. CASE e \in N
        <4>1. claim'[e].status \in Held /\ row'[e] = new
          BY <1>3, <1>4, <3>2 DEF Held, Open
        <4> QED
          BY <1>2, <1>6, <1>7, <3>2, <4>1
      <3>3. CASE e \notin K /\ e \notin N
        <4>1. row'[e] = row[e] /\ claim'[e] = claim[e]
          BY <3>3
        <4>2. row[e].transfer # NoDomain =>
                /\ row[e].transfer \in Domains /\ Verified(row[e].transfer)
                /\ claim[row[e].transfer].from = e
          BY DEF DomainsInv, OwnerInv, LocksHold, LocalInv, TypeOK, Row
        <4>3. row[e].transfer # NoDomain => claim'[row[e].transfer] = claim[row[e].transfer]
          BY <1>5, <1>6, <4>2
        <4>4. row'[e].transfer # NoDomain =>
                Verified(row[e].transfer)' /\ claim'[row'[e].transfer].from = e
          BY <4>1, <4>2, <4>3 DEF Verified
        <4>5. ASSUME Verified(e) PROVE Transfers(e)'
          <5>1. /\ Transfers(e) /\ claim[e].from \in Domains /\ row[claim[e].from].state # "none"
                /\ Live(claim[e].from) => ~row[claim[e].from].placeholder
            BY <4>5 DEF DomainsInv, OwnerInv, LocksHold, ClaimsStand, Verified, Held
          <5>2. claim[e].from \notin K /\ claim[e].from \notin N
            BY <1>5, <5>1
          <5> QED
            BY <1>8, <4>1, <5>1, <5>2 DEF Transfers
        <4> QED
          BY <1>7, <4>1, <4>4, <4>5 DEF DomainsInv, OwnerInv, LocksHold
      <3> QED
        BY <3>1, <3>2, <3>3
    <2>5. LocksHold'
      BY <2>4 DEF LocksHold
    <2> QED
      BY <2>1, <2>3, <2>5 DEF DomainsInv, OwnerInv
  <1>13. WorkInv'
    <2> SUFFICES ASSUME NEW e \in Domains
                 PROVE  /\ row'[e].placeholder \/ row'[e].state = "none" =>
                             \A j \in 1..MaxWork : work[e][j].phase = "none"
                        /\ Verified(e) =>
                             \A j \in 1..MaxWork : work[e][j].phase = "acting" => work[e][j].op = "provision"
                        /\ row'[e].transfer # NoDomain /\ e \notin overlapped =>
                             /\ row'[e].phase \in {"running", "failed"}
                             /\ \A j \in 1..MaxWork : work[e][j].phase = "acting" => work[e][j].op = "remove"
                        /\ row'[e].phase = "running" => AtWork(e)
      BY <1>7 DEF WorkInv, AtWork
    <2>1. CASE e \in K \cup N
      BY <1>1, <1>2, <1>4, <1>5, <2>1 DEF DomainsInv, WorkInv
    <2>2. CASE e \notin K /\ e \notin N
      BY <2>2 DEF DomainsInv, WorkInv
    <2> QED
      BY <2>1, <2>2
  <1>14. ProofInv'
    <2>1. \A b \in Domains, j \in 1..MaxLookups :
            claim'[b].checking = j => b \notin K /\ claim'[b] = claim[b]
      BY <1>3, <1>4, Constants
    <2>2. \A b \in Domains : claim'[b].status \in {"verified", "completed"} =>
            b \notin K /\ b \notin N /\ claim'[b] = claim[b]
      BY <1>3, <1>4
    <2>3. \A b \in Domains, j \in 1..MaxLookups :
            lookup'[b][j] = "found" /\ claim'[b].checking = j => b \in proved'
      BY <2>1 DEF DomainsInv, ProofInv
    <2>4. ASSUME NEW b \in Domains, claim'[b].status = "completed"
          PROVE  claim'[b].from \in Domains /\ row'[claim'[b].from].state = "gone"
      <3>1. claim[b].from \in Domains /\ row[claim[b].from].state = "gone" /\ claim'[b] = claim[b]
        BY <2>2, <2>4 DEF DomainsInv, ProofInv
      <3> QED
        BY <1>1, <3>1
    <2>5. ASSUME NEW b \in Domains, claim'[b].status \in {"verified", "completed"}
          PROVE  b \in proved' /\ claim'[b].from \notin mail' /\ row'[claim'[b].from].adoption # "approved"
      <3>1. /\ claim'[b] = claim[b] /\ b \in proved' /\ claim[b].from \notin mail
            /\ row[claim[b].from].adoption # "approved"
        BY <2>2, <2>5 DEF DomainsInv, ProofInv, TransferIsProved
      <3>2. claim[b].from \in Domains
        BY <2>5, <3>1 DEF DomainsInv, ProofInv, OwnerInv, ClaimsStand, Held
      <3> QED
        BY <1>1, <1>2, <1>4, <3>1, <3>2
    <2> QED
      BY <2>3, <2>4, <2>5 DEF ProofInv, TransferIsProved
  <1> QED
    BY <1>11, <1>12, <1>13, <1>14 DEF DomainsInv

LEMMA EndedClaim ==
    /\ NoClaim \in Claim
    /\ \A t \in Teams \cup {NoTeam}, s \in Over :
         LET k == Ended(t, s) IN k \in Claim /\ k.status = s /\ k.checking = 0
  <1>1. 0 \in 0..MaxLookups
    BY Constants
  <1>2. NoClaim \in Claim
    BY <1>1 DEF NoClaim, Claim
  <1> QED
    BY <1>2 DEF Ended, Claim, NoClaim

LEMMA CreateClaimStep ==
    ASSUME DomainsInv, NEW c \in Domains, NEW t \in Teams, CreateClaim(c, t)
    PROVE  DomainsInv'
  <1> DEFINE r == [NoRow EXCEPT !.state = "live", !.team = t, !.placeholder = TRUE, !.claimed = TRUE]
             k == Ended(t, "superseded")
             N == {c}
  <1>1. PICK K : K = Earlier(t)
    OBVIOUS
  <1>2. PICK o \in Active :
          /\ row[o].proven \/ row[o].status = "verified"
          /\ claim' = [p \in Domains |->
               IF p = c THEN [NoClaim EXCEPT !.status = "pending", !.team = t, !.from = o]
               ELSE IF p \in K THEN k
               ELSE claim[p]]
    BY <1>1 DEF CreateClaim
  <1> DEFINE f == [NoClaim EXCEPT !.status = "pending", !.team = t, !.from = o]
  <1>3. /\ claim' = [p \in Domains |-> IF p = c THEN f ELSE IF p \in K THEN k ELSE claim[p]]
        /\ row' = [p \in Domains |-> IF p = c THEN r ELSE IF p \in K THEN Gone ELSE row[p]]
        /\ row[c].state = "none" /\ \A p \in K : Expired(p)
        /\ proved' = proved \ K
        /\ UNCHANGED <<mail, work, check, lookup, moves, overlapped, unread>>
    BY <1>1, <1>2 DEF CreateClaim, New
  <1>4. o \in Domains /\ row[o].proven
    BY <1>2 DEF Active, DomainsInv, LocalInv, SoundRows, Sound
  <1>5. \A p \in K : p \in Domains /\ claim[p].status \in Open \cup {"expired"}
    BY <1>1, <1>3 DEF Earlier, Expired
  <1>6. c \notin K
    BY <1>3, <1>5 DEF DomainsInv, OwnerInv, ClaimsStand, Open
  <1>7. k \in Claim /\ k.status = "superseded" /\ k.checking = 0
    BY EndedClaim DEF Over
  <1>8. f \in Claim /\ f.status = "pending" /\ f.from = o /\ f.checking = 0
    <2>1. f \in Claim
      BY <1>4, EndedClaim DEF Claim, Open
    <2> QED
      BY <2>1 DEF NoClaim
  <1>9. /\ r \in Row
        /\ r.state = "live" /\ r.placeholder = TRUE /\ r.claimed = TRUE
        /\ r.transfer = NoDomain /\ r.phase = "pending" /\ r.attempt = 0
        /\ r.adoption = "none" /\ r.proven = FALSE /\ r.due = FALSE /\ r.status = "pending"
    <2>1. r \in Row
      BY NoRowSound DEF Row
    <2> QED
      BY <2>1 DEF NoRow
  <1> HIDE DEF k, f, r
  <1>10. row' \in [Domains -> Row] /\ claim' \in [Domains -> Claim]
    <2>1. \A p \in Domains : row'[p] \in Row /\ claim'[p] \in Claim
      BY <1>3, <1>7, <1>8, <1>9, NoRowSound DEF DomainsInv, LocalInv, TypeOK
    <2> QED
      BY <1>3, <2>1
  <1>11. \A p \in N : row'[p] = r /\ claim'[p] = f
    BY <1>3
  <1>12. \A p \in K : /\ row'[p] = Gone
                      /\ claim'[p].status \in {"canceled", "superseded"} /\ claim'[p].checking = 0
    BY <1>3, <1>5, <1>6, <1>7
  <1>13. \A p \in Domains : p \notin K /\ p \notin N => row'[p] = row[p] /\ claim'[p] = claim[p]
    BY <1>3
  <1>14. /\ K \in SUBSET Domains /\ N \in SUBSET Domains
         /\ \A p \in N : row[p].state = "none"
         /\ \A p \in K : claim[p].status \in Open \cup {"expired"}
         /\ N # {} => o \in Active /\ row[o].proven
    BY <1>2, <1>3, <1>4, <1>5
  <1>15. proved' = proved \ K /\ UNCHANGED <<mail, work, check, lookup, moves, overlapped, unread>>
    BY <1>3
  <1> HIDE DEF N
  <1> QED
    <2>1. ClaimsTurn(K, N, o, r, f)
      BY <1>8, <1>9, <1>10, <1>11, <1>12, <1>13, <1>14, <1>15 DEF ClaimsTurn
    <2> QED
      BY ONLY <2>1, DomainsInv, ClaimsStep

LEMMA CancelStep ==
    ASSUME DomainsInv, NEW c \in Domains, CancelClaim(c)
    PROVE  DomainsInv'
  <1> DEFINE k == Ended(claim[c].team, "canceled")
             r == [NoRow EXCEPT !.state = "live", !.placeholder = TRUE, !.claimed = TRUE]
             f == [NoClaim EXCEPT !.status = "pending"]
             K == {c}
             N == {}
  <1>1. /\ Live(c) /\ row[c].placeholder /\ claim[c].status # "verified"
        /\ claim' = [claim EXCEPT ![c] = k]
        /\ row' = [row EXCEPT ![c] = Gone]
        /\ proved' = proved \ {c}
        /\ UNCHANGED <<mail, work, check, lookup, moves, overlapped, unread>>
    BY DEF CancelClaim, Cancelable
  <1>2. claim[c].status \in Open \cup {"expired"}
    BY <1>1 DEF DomainsInv, OwnerInv, LocksHold, Held
  <1>3. k \in Claim /\ k.status = "canceled" /\ k.checking = 0
    <2>1. claim[c].team \in Teams \cup {NoTeam}
      BY DEF DomainsInv, LocalInv, TypeOK, Claim
    <2> QED
      BY <2>1, EndedClaim DEF Over
  <1> HIDE DEF k
  <1>4. /\ row' \in [Domains -> Row] /\ claim' \in [Domains -> Claim]
        /\ row'[c] = Gone /\ claim'[c] = k
        /\ \A p \in Domains : p # c => row'[p] = row[p] /\ claim'[p] = claim[p]
    BY <1>1, <1>3, NoRowSound DEF DomainsInv, LocalInv, TypeOK
  <1>5. /\ r.state = "live" /\ r.placeholder = TRUE /\ r.claimed = TRUE
        /\ r.transfer = NoDomain /\ r.phase = "pending" /\ r.attempt = 0
        /\ r.adoption = "none" /\ r.proven = FALSE /\ r.due = FALSE /\ r.status = "pending"
    BY DEF NoRow
  <1>6. f.status = "pending" /\ f.from = NoDomain /\ f.checking = 0
    BY DEF NoClaim
  <1> HIDE DEF r, f
  <1>7. /\ K \in SUBSET Domains /\ N \in SUBSET Domains
        /\ \A p \in K : claim[p].status \in Open \cup {"expired"}
        /\ \A p \in N : row[p].state = "none"
        /\ N # {} => NoDomain \in Active /\ row[NoDomain].proven
    BY <1>2
  <1>8. /\ \A p \in N : row'[p] = r /\ claim'[p] = f
        /\ \A p \in K : /\ row'[p] = Gone
                        /\ claim'[p].status \in {"canceled", "superseded"} /\ claim'[p].checking = 0
        /\ \A p \in Domains : p \notin K /\ p \notin N => row'[p] = row[p] /\ claim'[p] = claim[p]
        /\ proved' = proved \ K
    BY <1>1, <1>3, <1>4
  <1>9. UNCHANGED <<mail, work, check, lookup, moves, overlapped, unread>>
    BY <1>1
  <1> HIDE DEF K, N
  <1> QED
    <2>1. ClaimsTurn(K, N, NoDomain, r, f)
      BY <1>4, <1>5, <1>6, <1>7, <1>8, <1>9 DEF ClaimsTurn
    <2> QED
      BY ONLY <2>1, DomainsInv, ClaimsStep

LEMMA CreateStep ==
    ASSUME DomainsInv, NEW d \in Domains, NEW t \in Teams, CreateDomain(d, t)
    PROVE  DomainsInv'
  <1> DEFINE r == [NoRow EXCEPT !.state = "live", !.team = t, !.sending = TRUE]
             s == Started(r, "provision")
  <1>1. /\ row[d].state = "none" /\ Active = {}
        /\ row' = [row EXCEPT ![d] = s] /\ Enqueue(d, work)
        /\ UNCHANGED <<claim, mail, check, lookup, moves, proved, unread>>
    BY DEF CreateDomain, New, Taken, Start
  <1>2. /\ r \in Row /\ r.state = "live" /\ r.placeholder = FALSE /\ r.claimed = FALSE
        /\ r.transfer = NoDomain /\ r.phase = "pending" /\ r.attempt = 0
        /\ r.adoption = "none" /\ r.proven = FALSE /\ r.due = FALSE /\ r.status = "pending"
    BY NoRowSound DEF NoRow, Row
  <1>3. Sound(r) /\ "provision" \in Operation
    BY <1>2 DEF Sound, Provisioned, Operation
  <1> HIDE DEF r
  <1>4. /\ s \in Row /\ Sound(s)
        /\ s.phase = "running" /\ s.op = "provision"
        /\ s.state = "live" /\ s.placeholder = FALSE /\ s.claimed = FALSE
        /\ s.transfer = NoDomain /\ s.proven = FALSE
        /\ s.adoption = "none" /\ s.attempt = 0
    BY <1>2, <1>3, StartedRow
  <1> HIDE DEF s
  <1>5. RowsOK' /\ row'[d] = s /\ \A e \in Domains : e # d => row'[e] = row[e]
    <2>1. RowsOK
      BY DEF DomainsInv, LocalInv, TypeOK, RowsOK
    <2> QED
      BY <1>1, <1>4, <2>1, RowChange
  <1>6. /\ work' \in [Domains -> [1..MaxWork -> Work]]
        /\ overlapped' \subseteq Domains
        /\ overlapped \subseteq overlapped'
        /\ overlapped' \subseteq overlapped \cup {d}
        /\ AtWork(d) => d \in overlapped'
        /\ AtWork(d)'
        /\ \A e \in Domains, j \in 1..MaxWork :
             /\ e # d => work'[e][j] = work[e][j]
             /\ \/ work'[e][j] = work[e][j]
                \/ work'[e][j].phase = "waiting" /\ work[e][j].phase = "none"
    <2>1. work \in [Domains -> [1..MaxWork -> Work]] /\ overlapped \subseteq Domains
      BY DEF DomainsInv, LocalInv, TypeOK
    <2> QED
      BY <1>1, <2>1, Enqueued
  <1>7. LocalInv'
    <2>1. SoundChecks'
      BY <1>1, <1>4, <1>5 DEF DomainsInv, LocalInv, SoundChecks, TypeOK
    <2> QED
      BY <1>1, <1>5, <1>6, <2>1, LocalFrame DEF DomainsInv, LocalInv, TypeOK
  <1>8. \A b \in Domains : ~Verified(b) /\ ~Verified(b)'
    <2> SUFFICES ASSUME NEW b \in Domains, Verified(b) PROVE FALSE
      BY <1>1 DEF Verified
    <2>1. Transfers(b) /\ Live(b) /\ claim[b].from \in Domains
          /\ (Live(claim[b].from) => ~row[claim[b].from].placeholder)
      BY DEF DomainsInv, OwnerInv, LocksHold, ClaimsStand, Verified, Held
    <2>2. claim[b].from \in Active \/ b \in Active
      BY <2>1 DEF Active, Transfers
    <2> QED
      BY <1>1, <2>2
  <1>9. \A e \in Domains : Live(e)' <=> Live(e) \/ e = d
    BY <1>1, <1>4, <1>5 DEF Live
  <1>10. OwnerInv'
    <2>1. \A e, f \in Active' : e = f
      BY <1>1, <1>5, <1>9 DEF Active
    <2>2. claim[d].status = "none" /\ "none" \notin Held
      BY <1>1 DEF DomainsInv, OwnerInv, ClaimsStand, Held, Open
    <2>3. ASSUME NEW e \in Domains
          PROVE  /\ row'[e].state = "none" => claim'[e].status = "none"
                 /\ claim'[e].status = "none" => claim'[e].team = NoTeam
                 /\ claim'[e].status \in Held =>
                      /\ Live(e)'
                      /\ row'[e].claimed
                      /\ claim'[e].from \in Domains \ {e}
                      /\ row'[claim'[e].from].state # "none"
                      /\ Live(claim[e].from)' => row'[claim'[e].from].proven /\ ~row'[claim'[e].from].placeholder
                 /\ claim'[e].status \in Open \cup {"expired"} => row'[e].placeholder
      <3>1. /\ claim[e].status \in Held =>
                 /\ Live(e) /\ e # d
                 /\ row[e].claimed
                 /\ claim[e].from \in Domains \ {e, d}
                 /\ row[claim[e].from].state # "none"
                 /\ Live(claim[e].from) => row[claim[e].from].proven /\ ~row[claim[e].from].placeholder
            /\ row[e].state = "none" => claim[e].status = "none"
            /\ claim[e].status = "none" => claim[e].team = NoTeam
            /\ claim[e].status \in Open \cup {"expired"} => row[e].placeholder /\ e # d
        BY <1>1, <2>2 DEF DomainsInv, OwnerInv, ClaimsStand, Held, Open
      <3> QED
        BY <1>1, <1>4, <1>5, <1>9, <3>1
    <2>4. ClaimsStand'
      BY <2>3 DEF ClaimsStand
    <2>5. LocksHold'
      BY <1>1, <1>4, <1>5, <1>8 DEF DomainsInv, OwnerInv, LocksHold, LocalInv, TypeOK, Row
    <2> QED
      BY <2>1, <2>4, <2>5 DEF OwnerInv
  <1>11. WorkInv'
    <2> SUFFICES ASSUME NEW e \in Domains
                 PROVE  /\ row'[e].placeholder \/ row'[e].state = "none" =>
                             \A j \in 1..MaxWork : work'[e][j].phase = "none"
                        /\ row'[e].transfer # NoDomain /\ e \notin overlapped' =>
                             /\ row'[e].phase \in {"running", "failed"}
                             /\ \A j \in 1..MaxWork : work'[e][j].phase = "acting" => work'[e][j].op = "remove"
                        /\ row'[e].phase = "running" => AtWork(e)'
      BY <1>8 DEF WorkInv
    <2>1. CASE e = d
      BY <1>4, <1>5, <1>6, <2>1
    <2>2. CASE e # d
      <3>1. /\ row'[e] = row[e] /\ (e \in overlapped <=> e \in overlapped')
            /\ \A j \in 1..MaxWork : work'[e][j] = work[e][j]
        BY <1>5, <1>6, <2>2
      <3>2. AtWork(e)' <=> AtWork(e)
        BY <3>1 DEF AtWork
      <3> QED
        BY <3>1, <3>2 DEF DomainsInv, WorkInv
    <2> QED
      BY <2>1, <2>2
  <1>12. ProofInv'
    <2>1. \A e \in Domains :
            /\ row'[e].adoption = "approved" => row[e].adoption = "approved"
            /\ row[e].state = "gone" => row'[e].state = "gone"
      BY <1>1, <1>4, <1>5
    <2> QED
      BY <1>1, <1>8, <2>1, ProofFrame DEF DomainsInv
  <1> QED
    BY <1>7, <1>10, <1>11, <1>12 DEF DomainsInv

\* Mail: a domain a verified claim waits for does not send.
LEMMA MailStep ==
    ASSUME DomainsInv, NEW d \in Domains, CreateMail(d) \/ SettleMail(d)
    PROVE  DomainsInv'
  <1>1. /\ UNCHANGED <<row, claim, work, check, lookup, history>>
        /\ mail' \subseteq mail \cup {d}
        /\ Sendable(row[d]) \/ mail' \subseteq mail
        /\ moves' \in 0..MaxMoves
    BY MoveTyped DEF CreateMail, SettleMail, DomainsInv, LocalInv, TypeOK
  <1>2. LocalInv'
    BY <1>1 DEF DomainsInv, LocalInv, TypeOK, SoundRows, SoundChecks, history
  <1>3. OwnerInv' /\ WorkInv'
    BY <1>1 DEF DomainsInv, OwnerInv, Active, Live, ClaimsStand, LocksHold, Verified, Transfers,
                WorkInv, AtWork, history
  <1>4. ProofInv'
    <2>1. ASSUME NEW c \in Domains, claim[c].status \in {"verified", "completed"}, Sendable(row[d])
          PROVE  claim[c].from # d
      <3>1. Live(d) /\ row[d].sending /\ row[d].state # "gone"
        BY <2>1 DEF Sendable, Live
      <3>2. CASE claim[c].status = "completed"
        BY <3>1, <3>2 DEF DomainsInv, ProofInv
      <3>3. CASE Verified(c)
        <4>1. Transfers(c) /\ Sound(row[d])
          BY <3>3 DEF DomainsInv, LocalInv, SoundRows, OwnerInv, LocksHold
        <4> QED
          BY <3>1, <4>1, Constants DEF Transfers, Sound
      <3> QED
        BY <2>1, <3>2, <3>3 DEF Verified
    <2> QED
      BY <1>1, <2>1 DEF DomainsInv, ProofInv, TransferIsProved, history
  <1> QED
    BY <1>2, <1>3, <1>4 DEF DomainsInv

-----------------------------------------------------------------------------
(***************************************************************************)
(* The invariant, and what follows from it.                                *)
(***************************************************************************)
LEMMA InitInv == Init => DomainsInv
  <1> SUFFICES ASSUME Init PROVE DomainsInv
    OBVIOUS
  <1> USE DEF Init
  <1>1. /\ \A d \in Domains : row[d] = NoRow /\ claim[d] = NoClaim
        /\ \A d \in Domains, i \in 1..MaxWork : work[d][i] = NoWork
        /\ \A d \in Domains, i \in 1..MaxChecks : check[d][i] = NoCheck
        /\ \A d \in Domains, i \in 1..MaxLookups : lookup[d][i] = "none"
    OBVIOUS
  <1>2. /\ NoRow.state = "none" /\ NoRow.placeholder = FALSE /\ NoRow.claimed = FALSE
        /\ NoRow.transfer = NoDomain /\ NoRow.phase = "pending"
        /\ NoRow = [NoRow EXCEPT !.state = NoRow.state]
    BY DEF NoRow
  <1>3. NoClaim.status = "none" /\ NoClaim.team = NoTeam /\ NoClaim \in Claim
    BY EndedClaim DEF NoClaim
  <1>4. /\ NoCheck \in Check /\ NoCheck.attempt <= LastCheck /\ NoCheck.current = FALSE
        /\ NoWork \in Work /\ NoWork.phase = "none"
    BY Constants, AfterTyped DEF NoCheck, Check
  <1>5. TypeOK
    <2>1. moves \in 0..MaxMoves
      BY Constants
    <2> QED
      BY <1>1, <1>2, <1>3, <1>4, <2>1, NoRowSound DEF TypeOK
  <1>6. SoundRows /\ SoundChecks
    BY <1>1, <1>4, NoRowSound DEF SoundRows, SoundChecks
  <1>7. OwnerInv
    BY <1>1, <1>2, <1>3 DEF OwnerInv, Active, Live, ClaimsStand, LocksHold, Verified, Held, Open
  <1>8. WorkInv
    BY <1>1, <1>2, <1>3, <1>4 DEF WorkInv, Verified
  <1>9. ProofInv
    BY <1>1, <1>3 DEF ProofInv, TransferIsProved
  <1> QED
    BY <1>5, <1>6, <1>7, <1>8, <1>9 DEF DomainsInv, LocalInv

LEMMA StepInv == DomainsInv /\ [Next]_vars => DomainsInv'
  <1> SUFFICES ASSUME DomainsInv, [Next]_vars PROVE DomainsInv'
    OBVIOUS
  <1>1. ASSUME NEW d \in Domains, NEW t \in Teams, CreateDomain(d, t) \/ CreateClaim(d, t)
        PROVE  DomainsInv'
    BY <1>1, CreateStep, CreateClaimStep
  <1>2. ASSUME NEW d \in Domains,
               \/ Refresh(d) \/ UpdateDomain(d) \/ ApproveAdoption(d) \/ RemoveDomain(d)
               \/ UpdateSending(d) \/ SavePreview(d) \/ Operate(d)
        PROVE  DomainsInv'
    BY <1>2, RefreshStep, UpdateStep, RemoveStep, SettingsStep, OperateStep
  <1>3. ASSUME NEW d \in Domains, DispatchDue(d) \/ VerifyDomain(d)
        PROVE  DomainsInv'
    BY <1>3, DispatchStep
  <1>4. ASSUME NEW d \in Domains, NEW i \in 1..MaxChecks,
               ReadCheck(d, i) \/ LoseCheck(d, i) \/ SaveStale(d, i) \/ SaveCheck(d, i)
        PROVE  DomainsInv'
    BY <1>4, ReadStep, SaveCheckStep
  <1>5. ASSUME NEW c \in Domains,
               LapseClaim(c) \/ Expire(c) \/ AskProof(c) \/ RetryTransfer(c) \/ CancelClaim(c)
        PROVE  DomainsInv'
    BY <1>5, LapseStep, AskStep, RetryStep, CancelStep
  <1>6. ASSUME NEW c \in Domains, NEW i \in 1..MaxLookups,
               \/ LookUp(c, i) \/ LoseLookup(c, i) \/ ProofStale(c, i)
               \/ ProofRefused(c, i) \/ AcceptProof(c, i)
        PROVE  DomainsInv'
    BY <1>6, LookUpStep, RefuseStep, AcceptStep
  <1>7. ASSUME NEW d \in Domains, CreateMail(d) \/ SettleMail(d)
        PROVE  DomainsInv'
    BY <1>7, MailStep
  <1>8. CASE Next
    BY <1>1, <1>2, <1>3, <1>4, <1>5, <1>6, <1>7, <1>8 DEF Next
  <1>9. CASE UNCHANGED vars
    BY <1>9 DEF DomainsInv, LocalInv, TypeOK, SoundRows, SoundChecks,
                OwnerInv, Active, Live, ClaimsStand, LocksHold, Verified, Transfers,
                WorkInv, AtWork, ProofInv, TransferIsProved, vars, history
  <1> QED
    BY <1>8, <1>9

\* Every reachable state of a name, its domains, operations, checks and claims.
THEOREM InvariantAlways == Spec => []DomainsInv
  BY InitInv, StepInv, PTL DEF Spec

\* The rows, operations, checks and lookups keep their types, a row that is gone or not
\* made is blank, and no counter passes its bound.
THEOREM TypeCorrect == Spec => []TypeOK
  <1>1. DomainsInv => TypeOK
    BY DEF DomainsInv, LocalInv
  <1> QED
    BY <1>1, InvariantAlways, PTL

\* A verified claim is served by the one owner of the name.
LEMMA TargetOwns ==
    ASSUME DomainsInv, NEW c \in Domains, Verified(c)
    PROVE  Target(c) \in Active /\ Target(c) \in {c, claim[c].from}
  <1>1. /\ Transfers(c) /\ Live(c) /\ claim[c].from \in Domains
        /\ (Live(claim[c].from) => ~row[claim[c].from].placeholder)
    BY DEF DomainsInv, OwnerInv, LocksHold, ClaimsStand, Verified, Held
  <1> QED
    BY <1>1 DEF Transfers, Target, Active

\* Two claims cannot both be verified: the old owner's removal is of one claim, and a
\* placeholder that took the name over has not been proven yet, as an old owner has.
LEMMA OneVerified ==
    ASSUME DomainsInv, NEW c \in Domains, NEW b \in Domains, Verified(c), Verified(b)
    PROVE  c = b
  <1>1. Target(c) = Target(b)
    BY TargetOwns DEF DomainsInv, OwnerInv
  <1>2. \A e \in {b, c} : /\ Transfers(e)
                          /\ Live(claim[e].from) => row[claim[e].from].proven
    BY DEF DomainsInv, OwnerInv, LocksHold, ClaimsStand, Verified, Held
  <1> QED
    BY <1>1, <1>2 DEF Transfers, Target

\* One domain has the name, in a transfer the old owner's or the new one's, and there is
\* one transfer at a time (createDomain, acceptProof, domainClaims.finish).
THEOREM OneOwnerAlways == Spec => []OneOwner
  <1>1. ASSUME DomainsInv PROVE OneOwner
    <2>1. Cardinality(Active) <= 1
      <3>1. CASE Active = {}
        BY <3>1, FS_EmptySet
      <3>2. CASE Active # {}
        <4>1. PICK d : Active = {d}
          BY <1>1, <3>2 DEF DomainsInv, OwnerInv
        <4>2. Cardinality({d}) = 1
          BY FS_Singleton
        <4> QED
          BY <4>1, <4>2
      <3> QED
        BY <3>1, <3>2
    <2>2. ASSUME NEW c \in Domains, Verified(c)
          PROVE  Active = {Target(c)} /\ Target(c) \in {c, claim[c].from}
      <3>1. Target(c) \in Active /\ Target(c) \in {c, claim[c].from}
        BY <1>1, <2>2, TargetOwns
      <3>2. \A d, e \in Active : d = e
        BY <1>1 DEF DomainsInv, OwnerInv
      <3> QED
        BY <3>1, <3>2
    <2>3. \A c, b \in Domains : Verified(c) /\ Verified(b) => c = b
      BY <1>1, OneVerified
    <2> QED
      BY <2>1, <2>2, <2>3 DEF OneOwner
  <1> QED
    BY <1>1, InvariantAlways, PTL

\* A name changes hands only on the proof asked for last, and takes neither mail nor an
\* imported identity with it (acceptProof).
THEOREM TransferIsProvedAlways == Spec => []TransferIsProved
  <1>1. DomainsInv => TransferIsProved
    BY DEF DomainsInv, ProofInv
  <1> QED
    BY <1>1, InvariantAlways, PTL

\* No lock without its holder, and a verified claim can be gone on with (cancel, finish,
\* verifyClaim).
THEOREM LocksAreHeldAlways == Spec => []LocksAreHeld
  <1>1. ASSUME DomainsInv PROVE LocksAreHeld
    <2> SUFFICES ASSUME NEW d \in Domains, Live(d)
                 PROVE  /\ row[d].placeholder => row[d].claimed
                        /\ row[d].claimed => IF row[d].placeholder
                                             THEN claim[d].status \in Open \cup {"expired", "verified"}
                                             ELSE Verified(d)
                        /\ row[d].transfer # NoDomain =>
                             Verified(row[d].transfer) /\ claim[row[d].transfer].from = d
                        /\ Verified(d) => \/ row[Target(d)].phase \in {"running", "failed"}
                                          \/ Target(d) \in overlapped
                        /\ row[d].phase = "running" => AtWork(d)
      BY DEF LocksAreHeld
    <2>1. Sound(row[d])
      BY <1>1 DEF DomainsInv, LocalInv, SoundRows
    <2>2. row[d].placeholder => claim[d].status \in Open \cup {"expired", "verified"}
      BY <1>1 DEF DomainsInv, OwnerInv, LocksHold, Held
    <2>3. ASSUME Verified(d), Target(d) \notin overlapped
          PROVE  row[Target(d)].phase \in {"running", "failed"}
      <3>1. Transfers(d) /\ claim[d].from \in Domains
        BY <1>1, <2>3 DEF DomainsInv, OwnerInv, LocksHold, ClaimsStand, Verified, Held
      <3>2. CASE Live(claim[d].from)
        <4>1. row[claim[d].from].transfer # NoDomain /\ claim[d].from \notin overlapped
          BY <2>3, <3>1, <3>2, Constants DEF Transfers, Target
        <4>2. row[claim[d].from].phase \in {"running", "failed"}
          BY <1>1, <3>1, <4>1 DEF DomainsInv, WorkInv
        <4> QED
          BY <3>2, <4>2 DEF Target
      <3>3. CASE ~Live(claim[d].from)
        BY <3>1, <3>3 DEF Transfers, Target
      <3> QED
        BY <3>2, <3>3
    <2>4. row[d].phase = "running" => AtWork(d)
      BY <1>1 DEF DomainsInv, WorkInv
    <2> QED
      BY <1>1, <2>1, <2>2, <2>3, <2>4 DEF Sound, DomainsInv, OwnerInv, LocksHold
  <1> QED
    BY <1>1, InvariantAlways, PTL

\* A domain that stands unverified is checked again until its 72 hours are over, and no
\* other waits for a check (start, finish, dispatchCheck, saveCheck).
THEOREM ChecksGoOnAlways == Spec => []ChecksGoOn
  <1>1. ASSUME DomainsInv PROVE ChecksGoOn
    <2>1. \A d \in Domains : Sound(row[d])
      BY <1>1 DEF DomainsInv, LocalInv, SoundRows
    <2>2. \A d \in unread : row[d].attempt = 0
      BY <1>1 DEF DomainsInv, LocalInv, SoundChecks
    <2>3. \A d \in Domains : Provisioned(row[d]) => row[d].phase # "running"
      BY DEF Provisioned
    <2> QED
      BY <2>1, <2>2, <2>3 DEF ChecksGoOn, Checkable, Sound
  <1> QED
    BY <1>1, InvariantAlways, PTL

=============================================================================
