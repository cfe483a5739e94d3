----------------------------- MODULE WebhooksProofs -----------------------------
(***************************************************************************)
(* Theorems about the outbox and its webhooks, for any endpoints, events,  *)
(* page size, schedule of attempts, number of edits, replays and deaths.   *)
(*                                                                         *)
(* The invariant has two halves that meet in the number of deliveries      *)
(* made: the fan-out, where a page is compared with places that edits give *)
(* out anew, and the attempts, where runs that die, are late or are        *)
(* counted already meet at the row of a delivery.                          *)
(***************************************************************************)
EXTENDS Webhooks, FiniteSetTheorems, WellFoundedInduction, TLAPS

(***************************************************************************)
(* The inductive invariant.                                                *)
(***************************************************************************)
\* The fan-out: places are given out upwards, nothing of an event precedes its
\* emission or of an endpoint its creation, and an endpoint that stayed where it was
\* is behind the cursor exactly if it has its delivery.
FanFits ==
    /\ IsFiniteSet(bornHooks)
    /\ \A h \in Hooks : place[h] <= places
    /\ \A h \in Hooks \ bornHooks : \A m \in Events : Fanned(m, h) = 0
    /\ \A m \in Events : \A h \in Hooks : Fanned(m, h) >= 0
    /\ \A j \in fanJobs : j.event \in emitted
    /\ \A m \in Events : cursor[m] <= places
    /\ \A m \in Events \ emitted : cursor[m] = 0 /\ \A h \in Hooks : Fanned(m, h) = 0
    /\ \A m \in Events \ done : \A h \in Hooks \ moved[m] :
         Fanned(m, h) <= 0 \/ place[h] <= cursor[m]
    /\ retired \/ \A m \in emitted \ done : \A h \in owed[m] :
         Listens(h) /\ (Fanned(m, h) >= 1 \/ place[h] > cursor[m])

InHand == {"claimed", "accepted", "refused"}

\* Ids are given out once.
IdsGiven ==
    /\ \A d \in rows : d.copy <= copies[d.event][d.hook]
    /\ \A r \in runs : r.id.copy <= copies[r.id.event][r.id.hook]

\* A run is for an attempt its row has come to, and one run for each; whoever has
\* that attempt in hand has started it.
RunsFit ==
    /\ \A r, s \in runs : r.id = s.id /\ r.attempt = s.attempt => r = s
    /\ \A r \in runs :
         /\ r.attempt < AttemptLimit
         /\ r.id \in rows =>
              /\ r.attempt <= deliveries[r.id].attempts
              /\ r.phase \in InHand /\ r.attempt = deliveries[r.id].attempts
                   => deliveries[r.id].started
              /\ r.phase = "accepted" => r.id \in taken

\* What was posted was started, and is counted or still to be.
PostedFits ==
    \A p \in posted :
        /\ p.id \in rows
        /\ p.attempt <= deliveries[p.id].attempts
        /\ p.attempt = deliveries[p.id].attempts => deliveries[p.id].started

\* A delivery whose endpoint is off was interrupted.
OffIsKnown ==
    retired \/ \A d \in rows : ~Enabled(d.hook) => d \in interrupted

DeliveriesFit ==
    /\ IdsGiven
    /\ RunsFit
    /\ PostedFits
    /\ OffIsKnown
    /\ EachAttemptOnce
    /\ VerdictIsEarned

WebhooksInv ==
    /\ TypeOK
    /\ FanFits
    /\ EachListenerOnce
    /\ DeliveriesFit
    /\ ClockIsCurrent

(***************************************************************************)
(* Numbers.                                                                *)
(***************************************************************************)
LEMMA Smallest ==
    ASSUME NEW S \in SUBSET Nat, S # {}
    PROVE  \E x \in S : \A y \in S : x <= y
  <1> DEFINE R == OpToRel(<, Nat)
  <1>1. IsWellFoundedOn(R, Nat)
    BY NatLessThanWellFounded
  <1>2. \A x, y \in Nat : x < y => <<x, y>> \in R
    BY DEF OpToRel
  <1> HIDE DEF R
  <1>3. PICK x \in S : \A y \in S : ~ (<<y, x>> \in R)
    BY <1>1, WFMin
  <1>4. ASSUME NEW y \in S
        PROVE  x <= y
    <2>1. x \in Nat /\ y \in Nat /\ ~(y < x)
      BY <1>2, <1>3
    <2> QED
      BY <2>1
  <1> QED
    BY <1>4

LEMMA Greatest ==
    ASSUME NEW S \in SUBSET Nat, S # {}, NEW n \in Nat, \A x \in S : x <= n
    PROVE  \E x \in S : \A y \in S : y <= x
  <1> DEFINE T == {n - x : x \in S}
  <1>1. T \in SUBSET Nat /\ T # {}
    <2>1. \A x \in S : n - x \in Nat
      OBVIOUS
    <2>2. T \subseteq Nat
      BY <2>1
    <2> QED
      BY <2>2
  <1>2. PICK z \in T : \A y \in T : z <= y
    BY <1>1, Smallest
  <1>3. PICK x \in S : z = n - x
    OBVIOUS
  <1>4. ASSUME NEW y \in S
        PROVE  y <= x
    <2>1. n - y \in T
      OBVIOUS
    <2> QED
      BY <1>2, <1>3, <2>1
  <1> QED
    BY <1>4

(***************************************************************************)
(* Pages.                                                                  *)
(***************************************************************************)
Before(from, h) == {g \in Behind(from) : place[g] < place[h]}

LEMMA BehindIsFinite ==
    ASSUME TypeOK, FanFits, NEW from \in Nat
    PROVE  /\ IsFiniteSet(Behind(from))
           /\ \A S \in SUBSET Behind(from) : IsFiniteSet(S) /\ Cardinality(S) \in Nat
           /\ \A S \in SUBSET Behind(from) : \A T \in SUBSET S : Cardinality(T) <= Cardinality(S)
           /\ \A h \in Behind(from) : place[h] \in Nat /\ place[h] > from /\ place[h] <= places
  <1>1. IsFiniteSet(Behind(from))
    <2>1. Behind(from) \in SUBSET bornHooks
      BY DEF Behind, Listens, Enabled, TypeOK
    <2> QED
      BY <2>1, FS_Subset DEF FanFits
  <1>2. \A S \in SUBSET Behind(from) : IsFiniteSet(S)
    BY <1>1, FS_Subset
  <1>3. \A S \in SUBSET Behind(from) : Cardinality(S) \in Nat
    BY <1>2, FS_CardinalityType
  <1>4. \A S \in SUBSET Behind(from) : \A T \in SUBSET S : Cardinality(T) <= Cardinality(S)
    BY <1>2, FS_Subset
  <1> QED
    BY <1>1, <1>2, <1>3, <1>4 DEF Behind, TypeOK, FanFits

\* A page is the first listeners behind the cursor; one that is not full is all of them.
LEMMA PageIsPrefix ==
    ASSUME TypeOK, FanFits, NEW from \in Nat
    PROVE  /\ Page(from) \subseteq Behind(from)
           /\ \A g \in Page(from), h \in Behind(from) \ Page(from) : place[g] < place[h]
           /\ Cardinality(Page(from)) < PageSize => Page(from) = Behind(from)
  <1> DEFINE page == Page(from)
             behind == Behind(from)
  <1>0. PageSize \in Nat
    BY WebhooksAssumption
  <1>1. page \subseteq behind
    BY DEF Page
  <1>2. \A h \in behind : h \in page <=> Cardinality(Before(from, h)) < PageSize
    BY DEF Page, Before
  <1>3. \A h \in behind : Before(from, h) \in SUBSET behind
    BY DEF Before
  <1>4. ASSUME NEW g \in page, NEW h \in behind, h \notin page
        PROVE  place[g] < place[h]
    <2>1. SUFFICES ASSUME ~(place[g] < place[h])
                   PROVE  FALSE
      OBVIOUS
    <2>2. place[g] \in Nat /\ place[h] \in Nat
      BY <1>1, BehindIsFinite
    <2>3. Before(from, h) \subseteq Before(from, g)
      BY <2>1, <2>2, BehindIsFinite DEF Before
    <2>4. Cardinality(Before(from, h)) <= Cardinality(Before(from, g))
      BY <1>1, <1>3, <2>3, BehindIsFinite
    <2>5. Cardinality(Before(from, h)) \in Nat /\ Cardinality(Before(from, g)) \in Nat
      BY <1>1, <1>3, BehindIsFinite
    <2> QED
      BY <1>0, <1>1, <1>2, <1>4, <2>4, <2>5
  <1>5. ASSUME Cardinality(page) < PageSize, page # behind
        PROVE  FALSE
    <2> DEFINE left == {place[h] : h \in behind \ page}
    <2>1. left \in SUBSET Nat /\ left # {}
      BY <1>1, <1>5, BehindIsFinite
    <2>2. PICK p \in left : \A q \in left : p <= q
      BY <2>1, Smallest
    <2>3. PICK h \in behind \ page : p = place[h]
      OBVIOUS
    <2>4. Before(from, h) \subseteq page
      <3> SUFFICES ASSUME NEW g \in behind, place[g] < place[h], g \notin page
                   PROVE  FALSE
        BY DEF Before
      <3>1. place[g] \in left
        OBVIOUS
      <3>2. place[h] <= place[g]
        BY <2>2, <2>3, <3>1
      <3> QED
        BY <3>2, BehindIsFinite
    <2>5. Cardinality(Before(from, h)) <= Cardinality(page)
      BY <1>1, <2>4, BehindIsFinite
    <2>6. Cardinality(Before(from, h)) \in Nat /\ Cardinality(page) \in Nat
      BY <1>1, <1>3, <2>3, BehindIsFinite
    <2> QED
      BY <1>0, <1>2, <1>5, <2>3, <2>5, <2>6
  <1> QED
    BY <1>1, <1>4, <1>5

\* The cursor after a full page: whoever was on it is at or before, whoever was not
\* is after.
LEMMA LastOfPage ==
    ASSUME TypeOK, FanFits, NEW from \in Nat, ~(Cardinality(Page(from)) < PageSize)
    PROVE  /\ LastOf(Page(from)) \in Nat
           /\ from < LastOf(Page(from)) /\ LastOf(Page(from)) <= places
           /\ \A h \in Page(from) : place[h] <= LastOf(Page(from))
           /\ \A h \in Behind(from) \ Page(from) : LastOf(Page(from)) < place[h]
  <1> DEFINE page == Page(from)
             held == {place[h] : h \in page}
  <1>1. page \subseteq Behind(from)
    BY PageIsPrefix
  <1>2. page # {}
    BY FS_EmptySet, WebhooksAssumption
  <1>3. held \in SUBSET Nat /\ held # {} /\ places \in Nat /\ \A p \in held : p <= places
    BY <1>1, <1>2, BehindIsFinite DEF TypeOK
  <1>4. \E p \in held : \A q \in held : q <= p
    BY <1>3, Greatest
  <1>5. LastOf(page) \in held /\ \A h \in page : place[h] <= LastOf(page)
    BY <1>4 DEF LastOf
  <1>6. PICK h \in page : LastOf(page) = place[h]
    BY <1>5
  <1>7. \A g \in Behind(from) \ page : LastOf(page) < place[g]
    BY <1>6, PageIsPrefix
  <1> QED
    BY <1>1, <1>3, <1>5, <1>6, <1>7, BehindIsFinite

(***************************************************************************)
(* One run moves, one row is written.                                      *)
(***************************************************************************)
LEMMA BecomeRun ==
    ASSUME TypeOK, NEW r \in runs, NEW phase \in Phase
    PROVE  \E r2 \in Run :
              /\ r2.id = r.id /\ r2.attempt = r.attempt /\ r2.phase = phase
              /\ Become(r, phase) = (runs \ {r}) \cup {r2}
  <1> DEFINE r2 == [r EXCEPT !.phase = phase]
  <1>1. r2 \in Run /\ r2.id = r.id /\ r2.attempt = r.attempt /\ r2.phase = phase
    BY DEF TypeOK, Run
  <1>2. Become(r, phase) = (runs \ {r}) \cup {r2}
    BY DEF Become
  <1> HIDE DEF r2
  <1> QED
    BY <1>1, <1>2

DeliveryMoves(d, x) ==
    /\ rows' = rows
    /\ deliveries' \in [rows -> Delivery]
    /\ deliveries'[d] = x
    /\ \A c \in rows \ {d} : deliveries'[c] = deliveries[c]

LEMMA MoveDelivery ==
    ASSUME TypeOK, NEW d \in rows, NEW x \in Delivery,
           deliveries' = [deliveries EXCEPT ![d] = x]
    PROVE  DeliveryMoves(d, x)
  BY DEF TypeOK, DeliveryMoves, rows

Own(d) == {r \in runs : r.id = d /\ r.attempt = deliveries[d].attempts}

\* What OneCarrier says of one delivery.
Carried(d) ==
    IF deliveries[d].next
    THEN \E r \in Own(d) :
           /\ Own(d) = {r}
           /\ r.phase # "returning"
           /\ deliveries[d].started => r.phase # "pending"
           /\ ~deliveries[d].started => r.phase \in {"pending", "crashed"}
    ELSE \A r \in Own(d) : r.phase \in {"returning", "crashed"}

LEMMA CarrierIsCarried == OneCarrier <=> (retired \/ \A d \in rows : Carried(d))
  BY DEF OneCarrier, Carried, Own

Judged(d) ==
    /\ ~deliveries[d].failed => d \in taken
    /\ ~retired /\ deliveries[d].failed /\ ~deliveries[d].next
       => \/ deliveries[d].replay
          \/ d \in interrupted
          \/ deliveries[d].attempts = AttemptLimit

LEMMA VerdictIsJudged == VerdictIsEarned <=> \A d \in rows : Judged(d)
  BY DEF VerdictIsEarned, Judged

LEMMA Parts ==
    ASSUME DeliveriesFit
    PROVE  /\ IdsGiven /\ RunsFit /\ PostedFits /\ OffIsKnown /\ AttemptPostedOnce
           /\ retired \/ \A d \in rows : Carried(d)
           /\ \A d \in rows : Judged(d)
  BY CarrierIsCarried, VerdictIsJudged DEF DeliveriesFit, EachAttemptOnce

LEMMA PartsNext ==
    ASSUME IdsGiven', RunsFit', PostedFits', OffIsKnown', AttemptPostedOnce',
           retired' \/ \A d \in rows' : Carried(d)',
           \A d \in rows' : Judged(d)'
    PROVE  DeliveriesFit'
  <1>1. OneCarrier'
    BY DEF OneCarrier, Carried, Own, rows
  <1>2. VerdictIsEarned'
    BY DEF VerdictIsEarned, Judged, rows
  <1> QED
    BY <1>1, <1>2 DEF DeliveriesFit, EachAttemptOnce

\* Who is carried by whom stays as it is for a delivery whose row and runs do.
LEMMA CarriedStays ==
    ASSUME NEW d, Carried(d), deliveries'[d] = deliveries[d],
           \A r : r.id = d => (r \in runs' <=> r \in runs)
    PROVE  Carried(d)'
  <1>1. Own(d)' = Own(d)
    BY DEF Own
  <1> QED
    BY <1>1 DEF Carried

\* A run that is done, dies or is gone.
RunLeft(r, r2) ==
    /\ r \in runs /\ r2 \in Run
    /\ r2.id = r.id /\ r2.attempt = r.attempt /\ r2.phase \in {"returning", "crashed"}
    /\ runs' \in {runs \ {r}, (runs \ {r}) \cup {r2}}
    /\ UNCHANGED <<hooks, hook, deliveries, copies, retired, posted, taken, interrupted>>
    /\ ~retired /\ r.id \in rows /\ r.attempt = deliveries[r.id].attempts
         /\ deliveries[r.id].next => r2 \in runs' /\ r2.phase = "crashed"

LEMMA RunLeaves ==
    ASSUME TypeOK, DeliveriesFit, NEW r, NEW r2, RunLeft(r, r2)
    PROVE  DeliveriesFit'
  <1>0. /\ IdsGiven /\ RunsFit /\ PostedFits /\ OffIsKnown /\ AttemptPostedOnce
        /\ retired \/ \A d \in rows : Carried(d)
        /\ \A d \in rows : Judged(d)
    BY Parts
  <1>1. /\ r \in runs /\ r2 \in Run
        /\ r2.id = r.id /\ r2.attempt = r.attempt /\ r2.phase \in {"returning", "crashed"}
        /\ \A s \in runs' : s \in runs \/ s = r2
        /\ \A s \in runs' : s # r \/ s = r2
        /\ UNCHANGED <<hooks, hook, deliveries, copies, retired, posted, taken, interrupted>>
        /\ rows' = rows
    BY DEF RunLeft, rows
  <1>2. IdsGiven' /\ PostedFits' /\ OffIsKnown'
    BY <1>0, <1>1 DEF IdsGiven, PostedFits, OffIsKnown, Enabled
  <1>3. RunsFit'
    BY <1>0, <1>1 DEF RunsFit, InHand
  <1>4. AttemptPostedOnce'
    BY <1>0, <1>1 DEF AttemptPostedOnce
  <1>5. ASSUME NEW d \in rows, ~retired
        PROVE  Carried(d)'
    <2>1. CASE r.id = d /\ r.attempt = deliveries[d].attempts
      <3>1. CASE deliveries[d].next
        <4>1. r2 \in runs' /\ r2.phase = "crashed"
          BY <1>5, <2>1, <3>1 DEF RunLeft
        <4>2. Own(d) = {r}
          BY <1>0, <1>1, <1>5, <2>1, <3>1 DEF Carried, Own
        <4>3. Own(d)' = {r2}
          BY <1>1, <2>1, <4>1, <4>2 DEF Own
        <4> QED
          BY <1>1, <3>1, <4>1, <4>3 DEF Carried
      <3>2. CASE ~deliveries[d].next
        BY <1>0, <1>1, <1>5, <3>2 DEF Carried, Own
      <3> QED
        BY <3>1, <3>2
    <2>2. CASE ~(r.id = d /\ r.attempt = deliveries[d].attempts)
      <3>1. Own(d)' = Own(d)
        BY <1>1, <2>2 DEF Own, RunLeft
      <3> QED
        BY <1>0, <1>1, <1>5, <3>1 DEF Carried
    <2> QED
      BY <2>1, <2>2
  <1>6. \A d \in rows : Judged(d)'
    BY <1>0, <1>1 DEF Judged
  <1> QED
    BY <1>1, <1>2, <1>3, <1>4, <1>5, <1>6, PartsNext

\* Endpoints change, and the team may go: what is interrupted is known.
LEMMA DeliveriesStay ==
    ASSUME DeliveriesFit,
           UNCHANGED <<deliveries, runs, copies, posted, taken>>,
           retired => retired', interrupted \subseteq interrupted',
           retired' \/ \A d \in rows : ~Enabled(d.hook)' => d \in interrupted'
    PROVE  DeliveriesFit'
  <1>0. /\ IdsGiven /\ RunsFit /\ PostedFits /\ OffIsKnown /\ AttemptPostedOnce
        /\ retired \/ \A d \in rows : Carried(d)
        /\ \A d \in rows : Judged(d)
        /\ rows' = rows
    BY Parts DEF rows
  <1>1. IdsGiven' /\ RunsFit' /\ PostedFits' /\ AttemptPostedOnce'
    BY <1>0 DEF IdsGiven, RunsFit, PostedFits, AttemptPostedOnce
  <1>2. OffIsKnown'
    BY <1>0 DEF OffIsKnown
  <1>3. ASSUME ~retired', NEW d \in rows
        PROVE  Carried(d)'
    BY <1>0, <1>3 DEF Carried, Own
  <1>4. \A d \in rows : Judged(d)'
    BY <1>0 DEF Judged
  <1> QED
    BY <1>0, <1>1, <1>2, <1>3, <1>4, PartsNext

(***************************************************************************)
(* An attempt, up to its answer.                                           *)
(***************************************************************************)
LEMMA ClaimStoppedFits ==
    ASSUME TypeOK, DeliveriesFit, NEW r \in runs, ClaimStopped(r)
    PROVE  DeliveriesFit' /\ TypeOK'
  <1> DEFINE d == r.id
             x == [deliveries[d] EXCEPT !.next = FALSE]
  <1>0. /\ IdsGiven /\ RunsFit /\ PostedFits /\ OffIsKnown /\ AttemptPostedOnce
        /\ retired \/ \A c \in rows : Carried(c)
        /\ \A c \in rows : Judged(c)
    BY Parts
  <1>1. /\ d \in rows /\ r.attempt = deliveries[d].attempts /\ r.phase = "pending"
        /\ ~retired /\ ~Enabled(d.hook) /\ d \in interrupted
        /\ UNCHANGED <<hooks, hook, copies, retired, posted, taken, interrupted>>
    BY <1>0 DEF ClaimStopped, Claimable, Advance, endpoints, team, seen, history, OffIsKnown
  <1>2. PICK r2 \in Run :
           /\ r2.id = d /\ r2.attempt = r.attempt /\ r2.phase = "returning"
           /\ runs' = (runs \ {r}) \cup {r2}
    BY BecomeRun DEF ClaimStopped, Advance, Phase
  <1>3. /\ x \in Delivery /\ ~x.next /\ x.attempts = deliveries[d].attempts
        /\ x.started = deliveries[d].started /\ x.failed = deliveries[d].failed
        /\ deliveries' = [deliveries EXCEPT ![d] = x]
    <2>1. deliveries[d] \in Delivery
      BY <1>1 DEF TypeOK, rows
    <2>2. deliveries' = [deliveries EXCEPT ![d] = x]
      BY DEF ClaimStopped
    <2> QED
      BY <2>1, <2>2 DEF Delivery
  <1> HIDE DEF x
  <1>4. DeliveryMoves(d, x)
    BY <1>1, <1>3, MoveDelivery
  <1>5. /\ rows' = rows
        /\ \A c \in rows : /\ deliveries'[c].attempts = deliveries[c].attempts
                           /\ deliveries'[c].started = deliveries[c].started
                           /\ deliveries'[c].failed = deliveries[c].failed
    BY <1>3, <1>4 DEF DeliveryMoves
  <1>6. IdsGiven' /\ PostedFits' /\ OffIsKnown' /\ AttemptPostedOnce'
    BY <1>0, <1>1, <1>2, <1>5
       DEF IdsGiven, PostedFits, OffIsKnown, AttemptPostedOnce, Enabled
  <1>7. RunsFit'
    BY <1>0, <1>1, <1>2, <1>5 DEF RunsFit, InHand
  <1>8. ASSUME NEW c \in rows
        PROVE  Carried(c)'
    <2>1. CASE c = d
      <3>1. Own(d) = {r}
        BY <1>0, <1>1 DEF Carried, Own
      <3>2. Own(d)' = {r2}
        BY <1>1, <1>2, <1>5, <3>1 DEF Own
      <3> QED
        BY <1>2, <1>3, <1>4, <2>1, <3>2 DEF Carried, DeliveryMoves
    <2>2. CASE c # d
      BY <1>0, <1>1, <1>2, <1>4, <2>2, CarriedStays DEF DeliveryMoves
    <2> QED
      BY <2>1, <2>2
  <1>9. \A c \in rows : Judged(c)'
    BY <1>0, <1>1, <1>4, <1>5 DEF Judged, DeliveryMoves
  <1>10. TypeOK'
    BY <1>1, <1>2, <1>3, <1>4
       DEF TypeOK, DeliveryMoves, rows, ClaimStopped, endpoints, outbox, team, seen, history
  <1> QED
    BY <1>5, <1>6, <1>7, <1>8, <1>9, <1>10, PartsNext

LEMMA ClaimTakenFits ==
    ASSUME TypeOK, DeliveriesFit, NEW r \in runs, ClaimTaken(r)
    PROVE  DeliveriesFit' /\ TypeOK'
  <1> DEFINE d == r.id
             x == [deliveries[d] EXCEPT !.started = TRUE]
  <1>0. /\ IdsGiven /\ RunsFit /\ PostedFits /\ OffIsKnown /\ AttemptPostedOnce
        /\ retired \/ \A c \in rows : Carried(c)
        /\ \A c \in rows : Judged(c)
    BY Parts
  <1>1. /\ d \in rows /\ r.attempt = deliveries[d].attempts /\ r.phase = "pending"
        /\ ~retired /\ ~deliveries[d].started
        /\ UNCHANGED <<hooks, hook, copies, retired, posted, taken, interrupted>>
    BY DEF ClaimTaken, Claimable, Advance, endpoints, team, seen, history
  <1>2. PICK r2 \in Run :
           /\ r2.id = d /\ r2.attempt = r.attempt /\ r2.phase = "claimed"
           /\ runs' = (runs \ {r}) \cup {r2}
    BY BecomeRun DEF ClaimTaken, Advance, Phase
  <1>3. /\ x \in Delivery /\ x.started /\ x.attempts = deliveries[d].attempts
        /\ x.next = deliveries[d].next /\ x.failed = deliveries[d].failed
        /\ x.replay = deliveries[d].replay
        /\ deliveries' = [deliveries EXCEPT ![d] = x]
    <2>1. deliveries[d] \in Delivery
      BY <1>1 DEF TypeOK, rows
    <2>2. deliveries' = [deliveries EXCEPT ![d] = x]
      BY DEF ClaimTaken
    <2> QED
      BY <2>1, <2>2 DEF Delivery
  <1> HIDE DEF x
  <1>4. DeliveryMoves(d, x)
    BY <1>1, <1>3, MoveDelivery
  <1>5. /\ rows' = rows
        /\ \A c \in rows : /\ deliveries'[c].attempts = deliveries[c].attempts
                           /\ deliveries[c].started => deliveries'[c].started
                           /\ deliveries'[c].failed = deliveries[c].failed
                           /\ deliveries'[c].next = deliveries[c].next
                           /\ deliveries'[c].replay = deliveries[c].replay
        /\ deliveries'[d].started
    BY <1>3, <1>4 DEF DeliveryMoves
  <1>6. IdsGiven' /\ PostedFits' /\ OffIsKnown'
    BY <1>0, <1>1, <1>2, <1>5 DEF IdsGiven, PostedFits, OffIsKnown, Enabled
  <1>7. RunsFit'
    BY <1>0, <1>1, <1>2, <1>5 DEF RunsFit, InHand
  <1>8. AttemptPostedOnce'
    <2>1. [id |-> r2.id, attempt |-> r2.attempt] \notin posted
      BY <1>0, <1>1, <1>2 DEF PostedFits
    <2> QED
      BY <1>0, <1>1, <1>2, <2>1 DEF AttemptPostedOnce
  <1>9. ASSUME NEW c \in rows
        PROVE  Carried(c)'
    <2>1. CASE c = d
      <3>1. Own(d) = {r} /\ deliveries[d].next
        BY <1>0, <1>1 DEF Carried, Own
      <3>2. Own(d)' = {r2}
        BY <1>1, <1>2, <1>5, <3>1 DEF Own
      <3> QED
        BY <1>2, <1>5, <2>1, <3>1, <3>2 DEF Carried
    <2>2. CASE c # d
      BY <1>0, <1>1, <1>2, <1>4, <2>2, CarriedStays DEF DeliveryMoves
    <2> QED
      BY <2>1, <2>2
  <1>10. \A c \in rows : Judged(c)'
    BY <1>0, <1>1, <1>5 DEF Judged
  <1>11. TypeOK'
    BY <1>1, <1>2, <1>3, <1>4
       DEF TypeOK, DeliveryMoves, rows, ClaimTaken, endpoints, outbox, team, seen, history
  <1> QED
    BY <1>5, <1>6, <1>7, <1>8, <1>9, <1>10, <1>11, PartsNext

LEMMA PostFits ==
    ASSUME TypeOK, DeliveriesFit, NEW r \in runs, NEW answer \in {"accepted", "refused"},
           Post(r, answer)
    PROVE  DeliveriesFit' /\ TypeOK'
  <1> DEFINE d == r.id
             p == [id |-> r.id, attempt |-> r.attempt]
  <1>0. /\ IdsGiven /\ RunsFit /\ PostedFits /\ OffIsKnown /\ AttemptPostedOnce
        /\ retired \/ \A c \in rows : Carried(c)
        /\ \A c \in rows : Judged(c)
    BY Parts
  <1>1. /\ r.phase = "claimed"
        /\ UNCHANGED <<hooks, hook, deliveries, copies, retired, interrupted>>
        /\ taken \subseteq taken' /\ taken' \subseteq taken \cup ({d} \cap rows)
        /\ answer = "accepted" /\ d \in rows => d \in taken'
        /\ rows' = rows
    BY DEF Post, Advance, endpoints, team, history, rows
  <1>2. PICK r2 \in Run :
           /\ r2.id = d /\ r2.attempt = r.attempt /\ r2.phase = answer
           /\ runs' = (runs \ {r}) \cup {r2}
    BY BecomeRun DEF Post, Advance, Phase
  <1>3. /\ posted' \subseteq posted \cup {p}
        /\ p \in posted' => p \in posted \/ d \in rows
        /\ p.id = d /\ p.attempt = r.attempt
        /\ d \in rows => p \in [id : Id, attempt : Nat]
    BY DEF Post, TypeOK, Run
  <1> HIDE DEF p
  <1>4. IdsGiven' /\ OffIsKnown'
    BY <1>0, <1>1, <1>2 DEF IdsGiven, OffIsKnown, Enabled
  <1>5. PostedFits'
    BY <1>0, <1>1, <1>3 DEF PostedFits, RunsFit, InHand
  <1>6. RunsFit'
    BY <1>0, <1>1, <1>2 DEF RunsFit, InHand
  <1>7. AttemptPostedOnce'
    <2> SUFFICES ASSUME NEW s \in runs', s.phase = "claimed",
                        [id |-> s.id, attempt |-> s.attempt] \in posted'
                 PROVE  FALSE
      BY DEF AttemptPostedOnce
    <2>1. s \in runs /\ s # r
      BY <1>2
    <2>2. [id |-> s.id, attempt |-> s.attempt] \notin posted
      BY <1>0, <2>1 DEF AttemptPostedOnce
    <2>3. p = [id |-> s.id, attempt |-> s.attempt]
      BY <1>3, <2>2
    <2>4. s.id = r.id /\ s.attempt = r.attempt
      BY <1>3, <2>3
    <2> QED
      BY <1>0, <2>1, <2>4 DEF RunsFit
  <1>8. ASSUME ~retired, NEW c \in rows
        PROVE  Carried(c)'
    <2>1. CASE r \in Own(c)
      <3>1. Own(c) = {r} /\ deliveries[c].next /\ deliveries[c].started
        BY <1>0, <1>1, <1>8, <2>1 DEF Carried
      <3>2. Own(c)' = {r2}
        BY <1>1, <1>2, <3>1 DEF Own
      <3> QED
        BY <1>1, <1>2, <3>1, <3>2 DEF Carried
    <2>2. CASE r \notin Own(c)
      <3>1. Own(c)' = Own(c)
        BY <1>1, <1>2, <2>2 DEF Own
      <3> QED
        BY <1>0, <1>1, <1>8, <3>1 DEF Carried
    <2> QED
      BY <2>1, <2>2
  <1>9. \A c \in rows : Judged(c)'
    BY <1>0, <1>1 DEF Judged
  <1>10. TypeOK'
    <2>1. posted' \subseteq [id : Id, attempt : Nat]
      BY <1>3 DEF TypeOK
    <2>2. taken' \subseteq rows
      BY <1>1 DEF TypeOK, rows
    <2> QED
      BY <1>1, <1>2, <2>1, <2>2
         DEF TypeOK, rows, Post, endpoints, outbox, team, history
  <1> QED
    BY <1>1, <1>4, <1>5, <1>6, <1>7, <1>8, <1>9, <1>10, PartsNext

(***************************************************************************)
(* An attempt that ends.                                                   *)
(***************************************************************************)
\* Attempts that move no row: what they leave in the pool changes nothing.
LEMMA LeavingFits ==
    ASSUME TypeOK, DeliveriesFit, NEW r \in runs,
           \/ ClaimStale(r)
           \/ Return(r)
           \/ Crash(r)
    PROVE  DeliveriesFit' /\ TypeOK'
  <1>0. retired \/ \A d \in rows : Carried(d)
    BY Parts
  <1>1. PICK phase \in {"returning", "crashed"} :
           /\ runs' \in {runs \ {r}, Become(r, phase)}
           /\ Crash(r) => phase = "crashed" /\ runs' = Become(r, phase)
    BY DEF ClaimStale, Return, Crash, Advance
  <1>2. PICK r2 \in Run :
           /\ r2.id = r.id /\ r2.attempt = r.attempt /\ r2.phase = phase
           /\ Become(r, phase) = (runs \ {r}) \cup {r2}
    BY BecomeRun DEF Phase
  <1>3. /\ UNCHANGED <<hooks, hook, deliveries, copies, retired, posted, taken, interrupted>>
        /\ UNCHANGED <<endpoints, outbox, purgeJobs, seen, history>>
        /\ crashes' \in {crashes, crashes + 1}
    BY DEF ClaimStale, Return, Crash, Advance, endpoints, team, seen, history
  <1>4. ASSUME ~retired, r.id \in rows, r.attempt = deliveries[r.id].attempts,
               deliveries[r.id].next
        PROVE  r2 \in runs' /\ r2.phase = "crashed"
    <2>1. /\ Own(r.id) = {r} /\ r.phase # "returning"
          /\ deliveries[r.id].started => r.phase # "pending"
      BY <1>0, <1>4 DEF Carried, Own
    <2>2. Crash(r)
      BY <1>4, <2>1 DEF ClaimStale, Claimable, Return
    <2> QED
      BY <1>1, <1>2, <2>2
  <1>5. RunLeft(r, r2)
    BY <1>1, <1>2, <1>3, <1>4 DEF RunLeft
  <1>6. TypeOK'
    BY <1>1, <1>2, <1>3 DEF TypeOK, endpoints, outbox, seen, history
  <1> QED
    BY <1>5, <1>6, RunLeaves

LEMMA NewRunIsRun ==
    ASSUME NEW d \in Id, NEW n \in Nat
    PROVE  /\ NewRun(d, n) \in Run
           /\ NewRun(d, n).id = d /\ NewRun(d, n).attempt = n /\ NewRun(d, n).phase = "pending"
  BY DEF NewRun, Run, Phase

\* subscribe, and what the history notes of it.
LEMMA SubscribeTypes ==
    ASSUME TypeOK, NEW h \in Hooks, NEW enabled \in BOOLEAN, NEW listens \in BOOLEAN,
           Subscribe(h, listens), NoteSubscribed(h, enabled, listens)
    PROVE  /\ place' \in [Hooks -> Nat] /\ places' \in Nat
           /\ \A g \in Hooks \ {h} : place'[g] = place[g]
           /\ place'[h] = IF listens THEN places + 1 ELSE 0
           /\ owed' \in [Events -> SUBSET Hooks] /\ moved' \in [Events -> SUBSET Hooks]
  <1>1. place \in [Hooks -> Nat] /\ places \in Nat
    BY DEF TypeOK
  <1>2. PICK n \in Nat : n = IF listens THEN places + 1 ELSE 0
    BY <1>1
  <1>3. place' = [place EXCEPT ![h] = n] /\ places' = places + 1
    BY <1>2 DEF Subscribe
  <1>4. owed' \in [Events -> SUBSET Hooks] /\ moved' \in [Events -> SUBSET Hooks]
    BY DEF NoteSubscribed, TypeOK
  <1> QED
    BY <1>1, <1>2, <1>3, <1>4

\* What record does to its endpoint.
LEMMA HealthMoves ==
    ASSUME TypeOK, NEW h \in Hooks, NEW failed \in BOOLEAN, RecordHealth(h, failed)
    PROVE  /\ hook' \in [Hooks -> Hook]
           /\ \A g \in Hooks \ {h} : hook'[g] = hook[g]
           /\ Disables(h, failed) => /\ hook'[h].enabled = FALSE /\ hook'[h].failing = "no"
                                     /\ \A d \in rows : d.hook = h => d \in interrupted'
           /\ ~Disables(h, failed) => /\ hook'[h].enabled = hook[h].enabled
                                      /\ ~failed /\ h \in hooks => hook'[h].failing = "no"
                                      /\ h \notin hooks => hook' = hook
           /\ interrupted \subseteq interrupted' /\ interrupted' \subseteq interrupted \cup rows
           /\ blamed' \subseteq Hooks
           /\ blamed \ {h} \subseteq blamed'
           /\ failed /\ Enabled(h) /\ ~Disables(h, failed) => h \in blamed'
  <1>0. hook[h] \in Hook
    BY DEF TypeOK
  <1>1. CASE Disables(h, failed)
    <2> DEFINE x == [enabled |-> FALSE, failing |-> "no"]
    <2>1. x \in Hook /\ x.enabled = FALSE /\ x.failing = "no"
      BY DEF Hook
    <2>2. hook' = [hook EXCEPT ![h] = x]
      BY <1>1 DEF RecordHealth
    <2> HIDE DEF x
    <2>3. /\ interrupted' = interrupted \cup {d \in rows : d.hook = h}
          /\ blamed' = blamed \ {h}
      BY <1>1 DEF RecordHealth, NoteSubscribed
    <2> QED
      BY <1>1, <2>1, <2>2, <2>3 DEF TypeOK
  <1>2. CASE ~Disables(h, failed)
    <2>1. /\ interrupted' = interrupted
          /\ blamed' = IF failed /\ Enabled(h) THEN blamed \cup {h} ELSE blamed \ {h}
      BY <1>2 DEF RecordHealth
    <2>2. CASE h \notin hooks
      <3>1. hook' = hook
        BY <1>2, <2>2 DEF RecordHealth
      <3> QED
        BY <1>0, <1>2, <2>1, <2>2, <3>1 DEF TypeOK
    <2>3. CASE h \in hooks
      <3> DEFINE f == IF ~failed THEN "no"
                      ELSE IF hook[h].failing = "no" THEN "recent" ELSE hook[h].failing
                 x == [hook[h] EXCEPT !.failing = f]
      <3>1. hook' = [hook EXCEPT ![h] = x]
        BY <1>2, <2>3 DEF RecordHealth
      <3>2. f \in {"no", "recent", "long"} /\ (~failed => f = "no")
        BY <1>0 DEF Hook
      <3> HIDE DEF f
      <3>3. x \in Hook /\ x.enabled = hook[h].enabled /\ x.failing = f
        BY <1>0, <3>2 DEF Hook
      <3> HIDE DEF x
      <3> QED
        BY <1>2, <2>1, <2>3, <3>1, <3>2, <3>3 DEF TypeOK
    <2> QED
      BY <2>2, <2>3
  <1> QED
    BY <1>1, <1>2

\* The row of a delivery whose attempt was counted.
LEMMA CountedRow ==
    ASSUME TypeOK, NEW r \in runs, r.id \in rows, NEW failed \in BOOLEAN,
           RecordDelivery(r, failed)
    PROVE  \E x \in Delivery :
              /\ DeliveryMoves(r.id, x)
              /\ x.attempts = r.attempt + 1 /\ ~x.started
              /\ x.failed <=> failed
              /\ x.next <=> Retries(r, failed)
              /\ x.replay = deliveries[r.id].replay
  <1> DEFINE d == r.id
  <1>1. PICK n \in BOOLEAN : n = Retries(r, failed)
    BY DEF Retries, TypeOK, Delivery, rows, Disables
  <1> DEFINE x == [deliveries[d] EXCEPT !.started = FALSE, !.failed = failed,
                                        !.attempts = r.attempt + 1, !.next = n]
  <1>2. deliveries[d] \in Delivery /\ r.attempt + 1 \in Nat
    BY DEF TypeOK, rows, Run
  <1>3. /\ x \in Delivery /\ x.attempts = r.attempt + 1 /\ x.started = FALSE
        /\ x.failed = failed /\ x.next = n /\ x.replay = deliveries[d].replay
    BY <1>2 DEF Delivery
  <1>4. deliveries' = [deliveries EXCEPT ![d] = x]
    <2>1. deliveries' = [deliveries EXCEPT ![d].started = FALSE, ![d].failed = failed,
                                           ![d].attempts = r.attempt + 1, ![d].next = n]
      BY <1>1 DEF RecordDelivery
    <2> QED
      BY <2>1
  <1> HIDE DEF x
  <1>5. DeliveryMoves(d, x)
    BY <1>3, <1>4, MoveDelivery
  <1> QED
    BY <1>1, <1>3, <1>5

\* An attempt is counted once, by whoever comes first to a row that still waits for
\* it; the next one, if there is one, is enqueued with the same write.
LEMMA RecordFits ==
    ASSUME TypeOK, DeliveriesFit, NEW r \in runs, NEW failed \in BOOLEAN,
           NEW others, others \in {runs \ {r}, Become(r, "returning")},
           ~failed => r.phase = "accepted",
           RecordResult(r, failed, others)
    PROVE  DeliveriesFit' /\ TypeOK'
  <1> DEFINE d == r.id
             h == r.id.hook
  <1>0. /\ IdsGiven /\ RunsFit /\ PostedFits /\ OffIsKnown /\ AttemptPostedOnce
        /\ retired \/ \A c \in rows : Carried(c)
        /\ \A c \in rows : Judged(c)
    BY Parts
  <1>1. PICK r2 \in Run :
           /\ r2.id = d /\ r2.attempt = r.attempt /\ r2.phase = "returning"
           /\ others \in {runs \ {r}, (runs \ {r}) \cup {r2}}
    BY BecomeRun DEF Phase
  <1>2. r \in Run /\ d \in Id /\ h \in Hooks /\ r.attempt \in Nat
    BY DEF TypeOK, Run, Id
  <1>3. CASE ~Recordable(r)
    <2>1. /\ runs' = others
          /\ UNCHANGED <<deliveries, hook, place, places, owed, moved, interrupted, blamed>>
          /\ UNCHANGED <<bornHooks, hooks, outbox, copies, purgeJobs, team, seen, replays>>
      BY <1>3 DEF RecordResult
    <2>2. RunLeft(r, r2)
      BY <1>1, <1>3, <2>1 DEF RunLeft, Recordable, team, seen
    <2>3. TypeOK'
      BY <1>1, <2>1 DEF TypeOK, outbox, team, seen
    <2> QED
      BY <2>2, <2>3, RunLeaves
  <1>4. CASE Recordable(r)
    <2>1. /\ d \in rows /\ r.attempt = deliveries[d].attempts /\ ~retired
          /\ RecordDelivery(r, failed) /\ RecordHealth(h, failed)
          /\ runs' = others \cup
               (IF Retries(r, failed) THEN {NewRun(d, r.attempt + 1)} ELSE {})
          /\ UNCHANGED <<bornHooks, hooks, outbox, copies, purgeJobs, team, seen, replays>>
          /\ UNCHANGED <<copies, retired, posted, taken>>
      BY <1>4 DEF Recordable, RecordResult, team, seen
    <2>2. PICK x \in Delivery :
            /\ DeliveryMoves(d, x)
            /\ x.attempts = r.attempt + 1 /\ ~x.started
            /\ x.failed <=> failed
            /\ x.next <=> Retries(r, failed)
            /\ x.replay = deliveries[d].replay
      BY <2>1, CountedRow
    <2>3. PICK again \in Run :
            /\ again.id = d /\ again.attempt = r.attempt + 1 /\ again.phase = "pending"
            /\ again = NewRun(d, r.attempt + 1)
      <3>1. r.attempt + 1 \in Nat
        BY <1>2
      <3> QED
        BY <1>2, <3>1, NewRunIsRun
    <2>4. /\ runs' = others \cup (IF x.next THEN {again} ELSE {})
          /\ \A s \in runs' : s \in runs \/ s = r2 \/ (s = again /\ x.next)
          /\ \A s \in runs : s.id = d => s.attempt <= r.attempt
      <3>1. runs' = others \cup (IF x.next THEN {again} ELSE {})
        BY <2>1, <2>2, <2>3
      <3> QED
        BY <1>0, <1>1, <2>1, <3>1 DEF RunsFit
    <2>5. /\ rows' = rows /\ deliveries'[d] = x
          /\ \A c \in rows \ {d} : deliveries'[c] = deliveries[c]
          /\ \A c \in rows : deliveries[c].attempts <= deliveries'[c].attempts
          /\ \A s \in runs : s.attempt \in Nat
          /\ \A p \in posted : p.attempt \in Nat
      <3>1. /\ rows' = rows /\ deliveries'[d] = x
            /\ \A c \in rows \ {d} : deliveries'[c] = deliveries[c]
        BY <2>2 DEF DeliveryMoves
      <3>2. /\ \A c \in rows : deliveries[c].attempts \in Nat
            /\ \A s \in runs : s.attempt \in Nat
            /\ \A p \in posted : p.attempt \in Nat
        BY DEF TypeOK, Delivery, rows, Run
      <3>3. \A c \in rows : deliveries[c].attempts <= deliveries'[c].attempts
        BY <1>2, <2>1, <2>2, <3>1, <3>2
      <3> QED
        BY <3>1, <3>2, <3>3
    <2>6. /\ hook' \in [Hooks -> Hook]
          /\ \A g \in Hooks \ {h} : hook'[g] = hook[g]
          /\ Disables(h, failed) => \A c \in rows : c.hook = h => c \in interrupted'
          /\ ~Disables(h, failed) => hook'[h].enabled = hook[h].enabled
          /\ interrupted \subseteq interrupted' /\ interrupted' \subseteq interrupted \cup rows
          /\ blamed' \subseteq Hooks
      BY <1>2, <2>1, HealthMoves
    <2>7. IdsGiven'
      BY <1>0, <1>1, <2>1, <2>3, <2>4, <2>5 DEF IdsGiven
    <2>8. RunsFit'
      <3>1. ASSUME NEW s \in runs', NEW u \in runs', s.id = u.id, s.attempt = u.attempt
            PROVE  s = u
        <4>1. CASE s = again
          BY <1>1, <1>2, <2>3, <2>4, <3>1, <4>1
        <4>2. CASE u = again
          BY <1>1, <1>2, <2>3, <2>4, <3>1, <4>2
        <4>3. CASE s # again /\ u # again
          <5>1. s \in others /\ u \in others
            BY <2>4, <4>3
          <5> QED
            BY <1>0, <1>1, <3>1, <5>1 DEF RunsFit
        <4> QED
          BY <4>1, <4>2, <4>3
      <3>2. ASSUME NEW s \in runs'
            PROVE  s.attempt < AttemptLimit
        <4>1. x.next => r.attempt + 1 < AttemptLimit
          BY <2>2 DEF Retries
        <4> QED
          BY <1>0, <1>1, <2>3, <2>4, <4>1 DEF RunsFit
      <3>3. ASSUME NEW s \in runs', s.id \in rows
            PROVE  /\ s.attempt <= deliveries'[s.id].attempts
                   /\ s.phase \in InHand /\ s.attempt = deliveries'[s.id].attempts
                        => deliveries'[s.id].started
                   /\ s.phase = "accepted" => s.id \in taken
        <4>1. CASE s = again
          BY <2>2, <2>3, <2>5, <1>2, <4>1 DEF InHand
        <4>2. CASE s = r2
          BY <1>1, <1>2, <2>2, <2>5, <4>2 DEF InHand
        <4>3. CASE s \in runs
          <5>1. s.id = d => s.attempt < x.attempts
            BY <1>2, <2>2, <2>4, <2>5, <4>3
          <5>2. s.id = d => s.attempt <= x.attempts /\ s.attempt # x.attempts
            BY <1>2, <2>2, <2>4, <2>5, <4>3
          <5> QED
            BY <1>0, <2>5, <3>3, <4>3, <5>2 DEF RunsFit
        <4> QED
          BY <2>4, <4>1, <4>2, <4>3
      <3> QED
        BY <2>1, <2>5, <3>1, <3>2, <3>3 DEF RunsFit
    <2>9. PostedFits'
      <3>1. ASSUME NEW p \in posted, p.id = d
            PROVE  p.attempt <= x.attempts /\ p.attempt # x.attempts
        BY <1>0, <1>2, <2>1, <2>2, <2>5, <3>1 DEF PostedFits
      <3> QED
        BY <1>0, <2>1, <2>5, <3>1 DEF PostedFits
    <2>10. OffIsKnown'
      <3> SUFFICES ASSUME NEW c \in rows, ~Enabled(c.hook)'
                   PROVE  c \in interrupted'
        BY <2>5 DEF OffIsKnown
      <3>1. c.hook \in Hooks
        BY DEF TypeOK, rows, Id
      <3> QED
        BY <1>0, <2>1, <2>6, <3>1 DEF OffIsKnown, Enabled
    <2>11. AttemptPostedOnce'
      BY <1>0, <1>1, <2>1, <2>3, <2>4 DEF AttemptPostedOnce
    <2>12. ASSUME NEW c \in rows
           PROVE  Carried(c)'
      <3>1. CASE c = d
        <4>1. \A s \in runs' : s.id = d /\ s.attempt = x.attempts <=> x.next /\ s = again
          BY <1>1, <1>2, <2>2, <2>3, <2>4, <2>5
        <4>2. Own(d)' = IF x.next THEN {again} ELSE {}
          BY <2>4, <2>5, <4>1 DEF Own
        <4> QED
          BY <2>2, <2>3, <2>5, <3>1, <4>2 DEF Carried
      <3>2. CASE c # d
        <4>1. \A s : s.id = c => (s \in runs' <=> s \in runs)
          BY <1>1, <2>3, <2>4, <3>2
        <4> QED
          BY <1>0, <2>1, <2>5, <3>2, <4>1, CarriedStays
      <3> QED
        BY <3>1, <3>2
    <2>13. ASSUME NEW c \in rows
           PROVE  Judged(c)'
      <3>1. CASE c = d
        <4>1. ~x.failed => d \in taken
          BY <1>0, <2>1, <2>2 DEF RunsFit
        <4>2. x.failed /\ ~x.next =>
                x.replay \/ d \in interrupted' \/ x.attempts = AttemptLimit
          <5>1. r.attempt < AttemptLimit /\ AttemptLimit \in Nat
            BY <1>0, WebhooksAssumption DEF RunsFit
          <5>2. ~(r.attempt + 1 < AttemptLimit) => x.attempts = AttemptLimit
            BY <1>2, <2>2, <5>1
          <5>3. ~Enabled(h) => d \in interrupted'
            BY <1>0, <2>1, <2>6 DEF OffIsKnown
          <5>4. Disables(h, failed) => d \in interrupted'
            BY <2>1, <2>6
          <5> QED
            BY <2>2, <5>2, <5>3, <5>4 DEF Retries
        <4> QED
          BY <2>1, <2>5, <3>1, <4>1, <4>2 DEF Judged
      <3>2. CASE c # d
        BY <1>0, <2>1, <2>5, <2>6, <3>2 DEF Judged
      <3> QED
        BY <3>1, <3>2
    <2>14. TypeOK'
      <3>1. /\ runs' \subseteq Run
            /\ rows' = rows /\ deliveries' \in [rows -> Delivery]
        BY <1>1, <2>2, <2>4 DEF TypeOK, DeliveryMoves
      <3>2. /\ place' \in [Hooks -> Nat] /\ places' \in Nat
            /\ \A g \in Hooks \ hooks : place'[g] = 0
            /\ owed' \in [Events -> SUBSET Hooks] /\ moved' \in [Events -> SUBSET Hooks]
        <4>1. CASE Disables(h, failed)
          <5>1. Subscribe(h, place[h] # 0) /\ NoteSubscribed(h, FALSE, place[h] # 0)
            BY <2>1, <4>1 DEF RecordHealth
          <5>2. PICK listens \in BOOLEAN : listens = (place[h] # 0)
            OBVIOUS
          <5>3. Subscribe(h, listens) /\ NoteSubscribed(h, FALSE, listens)
            BY <5>1, <5>2
          <5>4. h \in hooks
            BY <4>1 DEF Disables, Enabled
          <5> QED
            BY <1>2, <5>3, <5>4, SubscribeTypes DEF TypeOK
        <4>2. CASE ~Disables(h, failed)
          BY <2>1, <4>2 DEF RecordHealth, TypeOK
        <4> QED
          BY <4>1, <4>2
      <3>3. interrupted' \subseteq rows
        BY <2>6 DEF TypeOK, rows
      <3> QED
        BY <2>1, <2>6, <3>1, <3>2, <3>3 DEF TypeOK, rows, outbox, team, seen
    <2> QED
      BY <2>5, <2>7, <2>8, <2>9, <2>10, <2>11, <2>12, <2>13, <2>14, PartsNext
  <1> QED
    BY <1>3, <1>4

(***************************************************************************)
(* Deliveries that begin and that are forgotten.                           *)
(***************************************************************************)
NewIds(m, to) == {NextId(m, h) : h \in to}

\* What send leaves behind.
Sent(m, to, new) ==
    /\ new \subseteq Id
    /\ rows' = rows \cup new
    /\ deliveries' \in [rows' -> Delivery]
    /\ runs' = runs \cup {NewRun(d, 0) : d \in new}
    /\ copies' \in [Events -> [Hooks -> Nat]]
    /\ \A h \in to : copies'[m][h] = copies[m][h] + 1
    /\ \A n \in Events, h \in Hooks : n # m \/ h \notin to => copies'[n][h] = copies[n][h]
    /\ \A d \in new :
         /\ d \notin rows /\ d.event = m /\ d.hook \in to
         /\ d.copy = copies'[m][d.hook]
         /\ \A r \in runs : r.id # d
         /\ deliveries'[d].attempts = 0 /\ ~deliveries'[d].started
         /\ deliveries'[d].failed /\ deliveries'[d].next
    /\ \A d \in rows : deliveries'[d] = deliveries[d]

LEMMA SendMoves ==
    ASSUME TypeOK, DeliveriesFit, NEW m \in Events, NEW to \in SUBSET Hooks,
           NEW replay \in BOOLEAN, Send(m, to, replay)
    PROVE  Sent(m, to, NewIds(m, to))
  <1> DEFINE new == NewIds(m, to)
  <1>0. IdsGiven /\ copies \in [Events -> [Hooks -> Nat]] /\ rows \subseteq Id
    BY Parts DEF TypeOK, rows
  <1>1. /\ copies' \in [Events -> [Hooks -> Nat]]
        /\ \A h \in to : copies'[m][h] = copies[m][h] + 1
        /\ \A n \in Events, h \in Hooks : n # m \/ h \notin to => copies'[n][h] = copies[n][h]
    <2> DEFINE c == [h \in Hooks |-> IF h \in to THEN copies[m][h] + 1 ELSE copies[m][h]]
    <2>1. copies' = [copies EXCEPT ![m] = c]
      BY DEF Send
    <2>2. c \in [Hooks -> Nat]
      BY <1>0
    <2>3. /\ \A h \in to : c[h] = copies[m][h] + 1
          /\ \A h \in Hooks \ to : c[h] = copies[m][h]
      OBVIOUS
    <2> HIDE DEF c
    <2> QED
      BY <1>0, <2>1, <2>2, <2>3
  <1>2. ASSUME NEW d \in new
        PROVE  /\ d \in Id /\ d.event = m /\ d.hook \in to
               /\ d.copy = copies[m][d.hook] + 1
    <2>1. PICK h \in to : d = NextId(m, h)
      BY DEF NewIds
    <2>2. copies[m][h] + 1 \in Nat
      BY <1>0
    <2> QED
      BY <2>1, <2>2 DEF NextId, Id
  <1>3. ASSUME NEW d \in new
        PROVE  d \notin rows /\ \A r \in runs : r.id # d
    <2>1. copies[m][d.hook] \in Nat /\ d.copy = copies[m][d.hook] + 1 /\ d.event = m
      BY <1>0, <1>2
    <2> QED
      BY <1>0, <2>1 DEF IdsGiven
  <1>4. /\ deliveries' = [d \in rows \cup new |->
                            IF d \in new THEN NewDelivery(replay) ELSE deliveries[d]]
        /\ runs' = runs \cup {NewRun(d, 0) : d \in new}
    BY DEF Send, NewIds
  <1>5. /\ NewDelivery(replay) \in Delivery
        /\ NewDelivery(replay).attempts = 0 /\ ~NewDelivery(replay).started
        /\ NewDelivery(replay).failed /\ NewDelivery(replay).next
    BY DEF NewDelivery, Delivery
  <1>6. \A d \in rows : deliveries[d] \in Delivery
    BY DEF TypeOK, rows
  <1> HIDE DEF new
  <1>7. rows' = rows \cup new
    BY <1>4 DEF rows
  <1>8. /\ deliveries' \in [rows' -> Delivery]
        /\ \A d \in new : deliveries'[d] = NewDelivery(replay)
        /\ \A d \in rows : deliveries'[d] = deliveries[d]
    BY <1>3, <1>4, <1>5, <1>6, <1>7
  <1> QED
    BY <1>1, <1>2, <1>3, <1>4, <1>5, <1>7, <1>8 DEF Sent, new

LEMMA SendFits ==
    ASSUME TypeOK, DeliveriesFit, NEW m \in Events, NEW to \in SUBSET Hooks,
           NEW replay \in BOOLEAN, Send(m, to, replay), \A h \in to : Enabled(h),
           UNCHANGED <<hooks, hook, retired, posted, taken, interrupted>>
    PROVE  DeliveriesFit' /\ runs' \subseteq Run
  <1> PICK new : Sent(m, to, new)
    BY SendMoves
  <1>0. /\ IdsGiven /\ RunsFit /\ PostedFits /\ OffIsKnown /\ AttemptPostedOnce
        /\ retired \/ \A c \in rows : Carried(c)
        /\ \A c \in rows : Judged(c)
    BY Parts
  <1>1. /\ new \subseteq Id /\ rows \subseteq Id
        /\ rows' = rows \cup new
        /\ deliveries' \in [rows' -> Delivery]
        /\ runs' = runs \cup {NewRun(d, 0) : d \in new}
        /\ copies' \in [Events -> [Hooks -> Nat]] /\ copies \in [Events -> [Hooks -> Nat]]
        /\ \A h \in to : copies'[m][h] = copies[m][h] + 1
        /\ \A n \in Events, h \in Hooks : n # m \/ h \notin to => copies'[n][h] = copies[n][h]
        /\ \A d \in new :
             /\ d \notin rows /\ d.event = m /\ d.hook \in to
             /\ d.copy = copies'[m][d.hook]
             /\ \A r \in runs : r.id # d
             /\ deliveries'[d].attempts = 0 /\ ~deliveries'[d].started
             /\ deliveries'[d].failed /\ deliveries'[d].next
        /\ \A d \in rows : deliveries'[d] = deliveries[d]
    BY DEF Sent, TypeOK, rows
  <1>2. \A d \in new :
           /\ NewRun(d, 0) \in Run
           /\ NewRun(d, 0).id = d /\ NewRun(d, 0).attempt = 0 /\ NewRun(d, 0).phase = "pending"
    BY <1>1, NewRunIsRun
  <1>3. /\ \A r \in runs' : r \in runs \/ (r.id \in new /\ r = NewRun(r.id, 0))
        /\ runs \subseteq runs'
        /\ \A d \in new : NewRun(d, 0) \in runs'
    BY <1>1, <1>2
  <1>4. runs' \subseteq Run
    BY <1>2, <1>3 DEF TypeOK
  <1>5. IdsGiven'
    <2>1. \A n \in Events, h \in Hooks : copies[n][h] <= copies'[n][h]
      BY <1>1
    <2>2. \A d \in Id : d.event \in Events /\ d.hook \in Hooks /\ d.copy \in Nat
      BY DEF Id
    <2>3. ASSUME NEW d \in Id, d \in new \/ d.copy <= copies[d.event][d.hook]
          PROVE  d.copy <= copies'[d.event][d.hook]
      BY <1>1, <2>1, <2>2, <2>3
    <2>4. \A r \in runs : r.id \in Id
      BY DEF TypeOK, Run
    <2>5. \A r \in runs' : r.id \in Id /\ (r.id \in new \/ r.id.copy <= copies[r.id.event][r.id.hook])
      BY <1>0, <1>1, <1>3, <2>4 DEF IdsGiven
    <2> QED
      BY <1>0, <1>1, <2>3, <2>5 DEF IdsGiven
  <1>6. RunsFit'
    <2>1. \A r, s \in runs' : r.id = s.id /\ r.attempt = s.attempt => r = s
      BY <1>0, <1>1, <1>3 DEF RunsFit
    <2>2. ASSUME NEW r \in runs', r \in runs
          PROVE  /\ r.attempt < AttemptLimit
                 /\ r.id \in rows' =>
                      /\ r.attempt <= deliveries'[r.id].attempts
                      /\ r.phase \in InHand /\ r.attempt = deliveries'[r.id].attempts
                           => deliveries'[r.id].started
                      /\ r.phase = "accepted" => r.id \in taken
      BY <1>0, <1>1, <2>2 DEF RunsFit
    <2>3. ASSUME NEW r \in runs', r.id \in new, r = NewRun(r.id, 0)
          PROVE  /\ r.attempt < AttemptLimit
                 /\ r.attempt <= deliveries'[r.id].attempts
                 /\ r.phase \notin InHand
      BY <1>1, <1>2, <2>3, WebhooksAssumption DEF InHand
    <2> QED
      BY <1>1, <1>3, <2>1, <2>2, <2>3 DEF RunsFit, InHand
  <1>7. PostedFits' /\ OffIsKnown'
    BY <1>0, <1>1 DEF PostedFits, OffIsKnown, Enabled
  <1>8. AttemptPostedOnce'
    BY <1>0, <1>2, <1>3 DEF AttemptPostedOnce
  <1>9. ASSUME NEW c \in rows', ~retired
        PROVE  Carried(c)'
    <2>1. CASE c \in rows
      <3>1. \A r : r.id = c => (r \in runs' <=> r \in runs)
        BY <1>1, <1>3, <2>1
      <3> QED
        BY <1>0, <1>1, <1>9, <2>1, <3>1, CarriedStays
    <2>2. CASE c \in new
      <3>1. Own(c)' = {NewRun(c, 0)}
        BY <1>1, <1>2, <1>3, <2>2 DEF Own
      <3> QED
        BY <1>1, <1>2, <2>2, <3>1 DEF Carried
    <2> QED
      BY <1>1, <2>1, <2>2
  <1>10. \A c \in rows' : Judged(c)'
    BY <1>0, <1>1 DEF Judged
  <1> QED
    BY <1>4, <1>5, <1>6, <1>7, <1>8, <1>9, <1>10, PartsNext

LEMMA ForgetFits ==
    ASSUME TypeOK, DeliveriesFit, NEW gone \in rows, Forget(gone),
           UNCHANGED <<hooks, hook, copies, runs, retired>>
    PROVE  /\ DeliveriesFit'
           /\ rows' \subseteq rows /\ deliveries' \in [rows' -> Delivery]
           /\ posted' \subseteq posted /\ taken' \subseteq rows' /\ interrupted' \subseteq rows'
  <1>0. /\ IdsGiven /\ RunsFit /\ PostedFits /\ OffIsKnown /\ AttemptPostedOnce
        /\ retired \/ \A c \in rows : Carried(c)
        /\ \A c \in rows : Judged(c)
    BY Parts
  <1>1. /\ rows' = rows \ {gone}
        /\ deliveries' \in [rows' -> Delivery]
        /\ \A d \in rows' : deliveries'[d] = deliveries[d]
        /\ posted' = {p \in posted : p.id # gone}
        /\ taken' = taken \ {gone}
        /\ interrupted' = interrupted \ {gone}
    BY DEF Forget, TypeOK, rows
  <1>2. IdsGiven' /\ RunsFit' /\ PostedFits' /\ OffIsKnown' /\ AttemptPostedOnce'
    BY <1>0, <1>1 DEF IdsGiven, RunsFit, PostedFits, OffIsKnown, AttemptPostedOnce, Enabled
  <1>3. ASSUME NEW c \in rows', ~retired
        PROVE  Carried(c)'
    BY <1>0, <1>1, <1>3, CarriedStays
  <1>4. \A c \in rows' : Judged(c)'
    BY <1>0, <1>1 DEF Judged
  <1>5. DeliveriesFit'
    BY <1>2, <1>3, <1>4, PartsNext
  <1> QED
    BY <1>1, <1>5 DEF TypeOK, rows

(***************************************************************************)
(* Endpoints come, move and go.                                            *)
(***************************************************************************)
\* What leaves the fan-out as it was, or only lets an endpoint move that is noted:
\* none comes up again behind a cursor, none that is owed an event drops out.
FanKept ==
    /\ bornHooks \subseteq bornHooks' /\ IsFiniteSet(bornHooks')
    /\ UNCHANGED outbox
    /\ places <= places' /\ \A h \in Hooks : place'[h] <= places'
    /\ \A m \in Events : \A h \in Hooks : Fanned(m, h)' = Fanned(m, h)
    /\ retired => retired'
    /\ \A m \in Events : moved[m] \subseteq moved'[m] /\ owed'[m] \subseteq owed[m]
    /\ \A h \in Hooks : place'[h] # place[h] /\ place'[h] # 0 =>
         \A m \in emitted \ done : h \in moved'[m] \/ Fanned(m, h) = 0
    /\ retired' \/ \A m \in emitted \ done : \A h \in owed'[m] :
                     Listens(h)' /\ place[h] <= place'[h]

LEMMA FanIsKept ==
    ASSUME TypeOK, TypeOK', FanFits, EachListenerOnce, FanKept
    PROVE  FanFits' /\ EachListenerOnce'
  <1>1. /\ UNCHANGED <<emitted, cursor, done, fanJobs>>
        /\ done \subseteq emitted /\ emitted \subseteq Events
        /\ \A m \in Events : moved[m] \subseteq moved'[m] /\ owed'[m] \subseteq owed[m]
        /\ \A m \in Events : owed'[m] \subseteq Hooks
    BY DEF FanKept, TypeOK, outbox
  <1>2. /\ place \in [Hooks -> Nat] /\ place' \in [Hooks -> Nat]
        /\ places \in Nat /\ places' \in Nat /\ cursor \in [Events -> Nat]
        /\ \A m \in Events : \A h \in Hooks : Fanned(m, h) \in Int
    BY DEF TypeOK, Fanned
  <1>3. /\ \A m \in Events : \A h \in Hooks : Fanned(m, h)' = Fanned(m, h)
        /\ retired => retired'
    BY DEF FanKept
  <1>4. /\ IsFiniteSet(bornHooks') /\ \A h \in Hooks : place'[h] <= places'
        /\ \A h \in Hooks \ bornHooks' : \A m \in Events : Fanned(m, h)' = 0
        /\ \A m \in Events : \A h \in Hooks : Fanned(m, h)' >= 0
    BY <1>3 DEF FanKept, FanFits
  <1>5. /\ \A j \in fanJobs' : j.event \in emitted'
        /\ \A m \in Events : cursor'[m] <= places'
        /\ \A m \in Events \ emitted' : cursor'[m] = 0 /\ \A h \in Hooks : Fanned(m, h)' = 0
    BY <1>1, <1>2, <1>3 DEF FanKept, FanFits
  <1>6. ASSUME NEW m \in Events \ done', NEW h \in Hooks \ moved'[m]
        PROVE  Fanned(m, h)' <= 0 \/ place'[h] <= cursor'[m]
    <2>1. Fanned(m, h) <= 0 \/ place[h] <= cursor[m]
      BY <1>1, <1>6 DEF FanFits
    <2>2. CASE m \notin emitted
      <3>1. Fanned(m, h) = 0
        BY <1>6, <2>2 DEF FanFits
      <3> QED
        BY <1>3, <3>1
    <2>3. CASE m \in emitted
      <3>1. place'[h] = place[h] \/ place'[h] = 0 \/ Fanned(m, h) = 0
        BY <1>1, <1>6, <2>3 DEF FanKept
      <3> QED
        BY <1>1, <1>2, <1>3, <1>6, <2>1, <3>1
    <2> QED
      BY <2>2, <2>3
  <1>7. ASSUME ~retired', NEW m \in emitted' \ done', NEW h \in owed'[m]
        PROVE  Listens(h)' /\ (Fanned(m, h)' >= 1 \/ place'[h] > cursor'[m])
    <2>1. m \in Events /\ h \in Hooks /\ h \in owed[m]
      BY <1>1, <1>7
    <2>2. Fanned(m, h) >= 1 \/ place[h] > cursor[m]
      BY <1>1, <1>3, <1>7, <2>1 DEF FanFits
    <2>3. Listens(h)' /\ place[h] <= place'[h]
      BY <1>1, <1>7 DEF FanKept
    <2> QED
      BY <1>1, <1>2, <1>3, <2>1, <2>2, <2>3
  <1>8. FanFits'
    BY <1>4, <1>5, <1>6, <1>7 DEF FanFits
  <1>9. OneDeliveryUnlessMoved'
    BY <1>1, <1>3 DEF EachListenerOnce, OneDeliveryUnlessMoved
  <1>10. NobodySkipped'
    BY <1>1, <1>3 DEF EachListenerOnce, NobodySkipped
  <1> QED
    BY <1>8, <1>9, <1>10 DEF EachListenerOnce

\* Nothing moves.
LEMMA FanStays ==
    ASSUME TypeOK, TypeOK', FanFits, EachListenerOnce,
           UNCHANGED <<bornHooks, place, places, outbox, moved, owed>>,
           \A m \in Events : \A h \in Hooks : Fanned(m, h)' = Fanned(m, h),
           retired => retired',
           retired' \/ \A h \in Hooks : Listens(h) => Listens(h)'
    PROVE  FanFits' /\ EachListenerOnce'
  <1>1. /\ place \in [Hooks -> Nat] /\ places \in Nat /\ emitted \subseteq Events
        /\ \A m \in Events : owed[m] \subseteq Hooks
    BY DEF TypeOK
  <1>2. FanKept
    BY <1>1 DEF FanKept, FanFits
  <1> QED
    BY <1>2, FanIsKept

LEMMA AttemptFits ==
    ASSUME WebhooksInv, NEW r \in runs,
           \/ ClaimStale(r) \/ ClaimStopped(r) \/ ClaimTaken(r) \/ Return(r) \/ Crash(r)
           \/ \E answer \in {"accepted", "refused"} : Post(r, answer)
    PROVE  WebhooksInv'
  <1>0. TypeOK /\ FanFits /\ EachListenerOnce /\ DeliveriesFit /\ ClockIsCurrent
    BY DEF WebhooksInv
  <1>1. DeliveriesFit' /\ TypeOK'
    BY <1>0, ClaimStoppedFits, ClaimTakenFits, PostFits, LeavingFits
  <1>2. UNCHANGED <<bornHooks, hooks, hook, place, places, outbox, moved, owed, copies,
                    replays, retired, blamed>>
    BY DEF ClaimStale, ClaimStopped, ClaimTaken, Return, Crash, Post, Advance,
           endpoints, history, team
  <1>3. FanFits' /\ EachListenerOnce'
    BY <1>0, <1>1, <1>2, FanStays DEF Fanned, Listens, Enabled
  <1>4. ClockIsCurrent'
    BY <1>0, <1>2 DEF ClockIsCurrent
  <1> QED
    BY <1>1, <1>3, <1>4 DEF WebhooksInv

\* What deletes deliveries, or only ends the team.
LEMMA ForgettingFits ==
    ASSUME WebhooksInv,
           \/ \E h \in Hooks : PurgeDeliveries(h)
           \/ \E d \in rows : CleanUp(d) \/ PurgeDelivery(d)
           \/ RetireTeam
    PROVE  WebhooksInv'
  <1>0. TypeOK /\ FanFits /\ EachListenerOnce /\ DeliveriesFit /\ ClockIsCurrent
    BY DEF WebhooksInv
  <1>1. /\ UNCHANGED <<endpoints, outbox, copies, runs, crashes, replays, owed, moved, blamed>>
        /\ retired' \in BOOLEAN /\ (retired => retired')
        /\ purgeJobs' \subseteq purgeJobs
    BY <1>0 DEF PurgeDeliveries, CleanUp, PurgeDelivery, RetireTeam, Forget, history, queue,
           team, TypeOK
  <1>2. UNCHANGED <<bornHooks, hooks, hook, place, places, emitted, cursor, done, fanJobs>>
    BY <1>1 DEF endpoints, outbox
  <1>3. /\ DeliveriesFit'
        /\ rows' \subseteq rows /\ deliveries' \in [rows' -> Delivery]
        /\ posted' \subseteq posted /\ taken' \subseteq rows' /\ interrupted' \subseteq rows'
    <2>1. CASE \E gone \in rows : Forget(gone) /\ UNCHANGED retired
      BY <1>0, <1>1, <1>2, <2>1, ForgetFits
    <2>2. CASE UNCHANGED <<deliveries, posted, taken, interrupted>>
      <3>0. OffIsKnown /\ \A d \in rows : Enabled(d.hook)' = Enabled(d.hook)
        BY <1>0, <1>2, Parts DEF Enabled
      <3>1. retired' \/ \A d \in rows : ~Enabled(d.hook)' => d \in interrupted'
        BY <1>1, <2>2, <3>0 DEF OffIsKnown
      <3>2. /\ UNCHANGED <<deliveries, runs, copies, posted, taken>>
            /\ interrupted \subseteq interrupted'
        BY <1>1, <2>2
      <3>3. DeliveriesFit'
        BY <1>0, <1>1, <3>1, <3>2, DeliveriesStay
      <3> QED
        BY <1>0, <2>2, <3>3 DEF TypeOK, rows
    <2> QED
      BY <2>1, <2>2 DEF PurgeDeliveries, CleanUp, PurgeDelivery, RetireTeam, team, seen,
                        history, queue
  <1>4. TypeOK'
    <2>1. /\ rows' \subseteq Id /\ posted' \subseteq [id : Id, attempt : Nat]
          /\ purgeJobs' \subseteq Hooks
      BY <1>0, <1>1, <1>3 DEF TypeOK, rows
    <2> QED
      BY <1>0, <1>1, <1>2, <1>3, <2>1 DEF TypeOK, rows
  <1>5. FanFits' /\ EachListenerOnce'
    <2>1. UNCHANGED <<bornHooks, place, places, outbox, moved, owed>>
      BY <1>1, <1>2
    <2>2. \A h \in Hooks : Listens(h)' = Listens(h)
      BY <1>2 DEF Listens, Enabled
    <2>3. \A m \in Events : \A h \in Hooks : Fanned(m, h)' = Fanned(m, h)
      BY <1>1 DEF Fanned
    <2> QED
      BY <1>0, <1>1, <1>4, <2>1, <2>2, <2>3, FanStays
  <1>6. ClockIsCurrent'
    BY <1>0, <1>1, <1>2 DEF ClockIsCurrent
  <1> QED
    BY <1>3, <1>4, <1>5, <1>6 DEF WebhooksInv

LEMMA AgeFits ==
    ASSUME WebhooksInv, NEW h \in Hooks, Age(h)
    PROVE  WebhooksInv'
  <1>0. TypeOK /\ FanFits /\ EachListenerOnce /\ DeliveriesFit /\ ClockIsCurrent
    BY DEF WebhooksInv
  <1> DEFINE x == [hook[h] EXCEPT !.failing = "long"]
  <1>1. x \in Hook /\ x.enabled = hook[h].enabled
    BY SMTT(30), <1>0 DEF TypeOK, Hook
  <1>2. hook' = [hook EXCEPT ![h] = x] /\ hook[h].failing = "recent"
    BY DEF Age
  <1> HIDE DEF x
  <1>3. /\ hook' \in [Hooks -> Hook]
        /\ \A g \in Hooks : hook'[g].enabled = hook[g].enabled
        /\ \A g \in Hooks : hook'[g].failing # "no" => hook[g].failing # "no"
    BY <1>0, <1>1, <1>2 DEF TypeOK
  <1>4. /\ UNCHANGED <<bornHooks, hooks, place, places, outbox, queue, purgeJobs, team, seen,
                       history>>
        /\ hooks \subseteq Hooks /\ \A d \in rows : d.hook \in Hooks
    BY <1>0 DEF Age, TypeOK, rows, Id
  <1>5. TypeOK'
    BY <1>0, <1>3, <1>4 DEF TypeOK, outbox, queue, team, seen, history
  <1>6. UNCHANGED <<retired, copies, replays, moved, owed, interrupted, deliveries, runs,
                    posted, taken, blamed>>
    BY <1>4 DEF queue, team, seen, history
  <1>7. \A g \in Hooks : Enabled(g)' = Enabled(g) /\ Listens(g)' = Listens(g)
    BY <1>3, <1>4 DEF Enabled, Listens
  <1>8. FanFits' /\ EachListenerOnce'
    BY <1>0, <1>4, <1>5, <1>6, <1>7, FanStays DEF Fanned
  <1>9. DeliveriesFit'
    <2>1. retired' \/ \A d \in rows : ~Enabled(d.hook)' => d \in interrupted'
      BY <1>0, <1>4, <1>6, <1>7, Parts DEF OffIsKnown
    <2> QED
      BY <1>0, <1>6, <2>1, DeliveriesStay
  <1>10. ClockIsCurrent'
    BY <1>0, <1>3, <1>4, <1>6 DEF ClockIsCurrent
  <1> QED
    BY <1>5, <1>8, <1>9, <1>10 DEF WebhooksInv

LEMMA NewHookIsHook == NewHook \in Hook /\ NewHook.enabled /\ NewHook.failing = "no"
  BY DEF NewHook, Hook

LEMMA SubscribeMoves ==
    ASSUME TypeOK, FanFits, NEW h \in Hooks, NEW listens \in BOOLEAN, Subscribe(h, listens)
    PROVE  /\ place' \in [Hooks -> Nat] /\ places' \in Nat
           /\ \A g \in Hooks \ {h} : place'[g] = place[g]
           /\ place'[h] = (IF listens THEN places + 1 ELSE 0)
           /\ places <= places' /\ \A g \in Hooks : place'[g] <= places'
           /\ listens => place[h] <= place'[h]
  <1>1. /\ place \in [Hooks -> Nat] /\ places \in Nat
        /\ \A g \in Hooks : place[g] <= places
    BY DEF TypeOK, FanFits
  <1>2. PICK n \in Nat : n = IF listens THEN places + 1 ELSE 0
    BY <1>1
  <1>3. place' = [place EXCEPT ![h] = n] /\ places' = places + 1
    BY <1>2 DEF Subscribe
  <1> QED
    BY <1>1, <1>2, <1>3

LEMMA CreateHookFits ==
    ASSUME WebhooksInv, NEW h \in Hooks, NEW listens \in BOOLEAN, CreateHook(h, listens)
    PROVE  WebhooksInv'
  <1>0. TypeOK /\ FanFits /\ EachListenerOnce /\ DeliveriesFit /\ ClockIsCurrent /\ OffIsKnown
    BY Parts DEF WebhooksInv
  <1>1. /\ ~retired /\ h \notin bornHooks /\ h \notin hooks
        /\ bornHooks' = bornHooks \cup {h} /\ hooks' = hooks \cup {h}
        /\ hook' = [hook EXCEPT ![h] = NewHook]
        /\ UNCHANGED <<outbox, queue, purgeJobs, team, seen, history>>
    BY <1>0 DEF CreateHook, TypeOK
  <1>2. /\ place' \in [Hooks -> Nat] /\ places' \in Nat
        /\ \A g \in Hooks \ {h} : place'[g] = place[g]
        /\ place'[h] = (IF listens THEN places + 1 ELSE 0)
        /\ places <= places' /\ \A g \in Hooks : place'[g] <= places'
    BY <1>0, SubscribeMoves DEF CreateHook
  <1>3. /\ hook' \in [Hooks -> Hook] /\ hook'[h].enabled /\ hook'[h].failing = "no"
        /\ \A g \in Hooks \ {h} : hook'[g] = hook[g]
    BY <1>0, <1>1, NewHookIsHook DEF TypeOK
  <1>4. UNCHANGED <<emitted, cursor, done, fanJobs, deliveries, runs, copies, replays, moved,
                    owed, interrupted, blamed, posted, taken, retired>>
    BY <1>1 DEF outbox, queue, history, team, seen
  <1>5. TypeOK'
    BY <1>0, <1>1, <1>2, <1>3 DEF TypeOK, outbox, queue, team, seen, history
  <1>6. \A g \in Hooks \ {h} : Enabled(g)' = Enabled(g) /\ Listens(g)' = Listens(g)
    BY <1>1, <1>2, <1>3 DEF Enabled, Listens
  <1>7. FanFits' /\ EachListenerOnce'
    <2>1. IsFiniteSet(bornHooks')
      BY <1>0, <1>1, FS_AddElement DEF FanFits
    <2>2. ASSUME NEW m \in emitted \ done, NEW g \in owed[m]
          PROVE  Listens(g)' /\ place[g] <= place'[g]
      <3>1. m \in Events /\ g \in Hooks /\ place[g] \in Nat
        BY <1>0 DEF TypeOK
      <3>2. Listens(g)
        BY <1>0, <1>1, <2>2, <3>1 DEF FanFits
      <3>3. g # h
        BY <1>1, <3>2 DEF Listens, Enabled
      <3> QED
        BY <1>2, <1>6, <3>1, <3>2, <3>3
    <2>3. /\ \A m \in Events : \A g \in Hooks : Fanned(m, g)' = Fanned(m, g)
          /\ \A m \in Events : Fanned(m, h) = 0
          /\ emitted \subseteq Events
      BY <1>0, <1>1, <1>4 DEF Fanned, FanFits, TypeOK
    <2>4. FanKept
      BY <1>1, <1>2, <1>4, <2>1, <2>2, <2>3 DEF FanKept
    <2> QED
      BY <1>0, <1>5, <2>4, FanIsKept
  <1>8. DeliveriesFit'
    <2>1. Enabled(h)'
      BY <1>1, <1>3 DEF Enabled
    <2>2. \A d \in rows : d.hook \in Hooks
      BY <1>0 DEF TypeOK, rows, Id
    <2>3. retired' \/ \A d \in rows : ~Enabled(d.hook)' => d \in interrupted'
      BY <1>0, <1>4, <1>6, <2>1, <2>2 DEF OffIsKnown
    <2> QED
      BY <1>0, <1>4, <2>3, DeliveriesStay
  <1>9. ClockIsCurrent'
    BY <1>0, <1>1, <1>3, <1>4 DEF ClockIsCurrent, TypeOK
  <1> QED
    BY <1>5, <1>7, <1>8, <1>9 DEF WebhooksInv

\* An endpoint that is subscribed anew is noted by every fan-out under way.
LEMMA FanSubscribes ==
    ASSUME TypeOK, TypeOK', FanFits, EachListenerOnce, ~retired,
           NEW h \in hooks, NEW enabled \in BOOLEAN, NEW listens \in BOOLEAN,
           Subscribe(h, listens), NoteSubscribed(h, enabled, listens),
           UNCHANGED <<bornHooks, hooks, outbox, copies, replays, retired>>,
           hook'[h].enabled = enabled, \A g \in Hooks \ {h} : hook'[g] = hook[g]
    PROVE  FanFits' /\ EachListenerOnce'
  <1>1. h \in Hooks /\ emitted \subseteq Events
    BY DEF TypeOK
  <1>2. /\ place' \in [Hooks -> Nat] /\ places' \in Nat
        /\ \A g \in Hooks \ {h} : place'[g] = place[g]
        /\ place'[h] = (IF listens THEN places + 1 ELSE 0)
        /\ places <= places' /\ \A g \in Hooks : place'[g] <= places'
        /\ listens => place[h] <= place'[h]
    BY <1>1, SubscribeMoves
  <1>3. /\ \A m \in Events : moved[m] \subseteq moved'[m] /\ owed'[m] \subseteq owed[m]
        /\ \A m \in emitted \ done : h \in moved'[m]
        /\ \A m \in emitted \ done : ~(enabled /\ listens) => h \notin owed'[m]
    BY <1>1 DEF NoteSubscribed, FanningOut, TypeOK
  <1>4. ASSUME NEW m \in emitted \ done, NEW g \in owed'[m]
        PROVE  Listens(g)' /\ place[g] <= place'[g]
    <2>1. m \in Events /\ g \in owed[m] /\ g \in Hooks /\ place[g] \in Nat
      BY <1>1, <1>3, <1>4 DEF TypeOK
    <2>2. Listens(g)
      BY <2>1 DEF FanFits
    <2>3. CASE g # h
      BY <1>2, <2>1, <2>2, <2>3 DEF Listens, Enabled
    <2>4. CASE g = h
      <3>1. enabled /\ listens
        BY <1>3, <1>4, <2>4
      <3>2. place'[h] = places + 1 /\ places \in Nat
        BY <1>2, <3>1 DEF TypeOK
      <3>3. Listens(h)'
        BY <3>1, <3>2 DEF Listens, Enabled
      <3> QED
        BY <1>2, <2>4, <3>1, <3>3
    <2> QED
      BY <2>3, <2>4
  <1>5. \A m \in Events : \A g \in Hooks : Fanned(m, g)' = Fanned(m, g)
    BY DEF Fanned
  <1>6. FanKept
    <2>1. IsFiniteSet(bornHooks')
      BY DEF FanFits
    <2> QED
      BY <1>1, <1>2, <1>3, <1>4, <1>5, <2>1 DEF FanKept
  <1> QED
    BY <1>6, FanIsKept

LEMMA EditHookFits ==
    ASSUME WebhooksInv, NEW h \in Hooks, NEW enabled \in BOOLEAN, NEW listens \in BOOLEAN,
           EditHook(h, enabled, listens)
    PROVE  WebhooksInv'
  <1>0. TypeOK /\ FanFits /\ EachListenerOnce /\ DeliveriesFit /\ ClockIsCurrent /\ OffIsKnown
    BY Parts DEF WebhooksInv
  <1>1. /\ ~retired /\ h \in hooks /\ hooks \subseteq Hooks
        /\ Subscribe(h, listens) /\ NoteSubscribed(h, enabled, listens)
        /\ blamed' = IF enabled /\ ~hook[h].enabled THEN blamed \ {h} ELSE blamed
        /\ UNCHANGED <<bornHooks, hooks, outbox, queue, purgeJobs, team, seen, replays>>
        /\ UNCHANGED <<deliveries, runs, copies, posted, taken, retired>>
    BY <1>0 DEF EditHook, TypeOK, queue, seen, team
  <1> DEFINE f == IF enabled /\ ~hook[h].enabled THEN "no" ELSE hook[h].failing
             x == [hook[h] EXCEPT !.enabled = enabled, !.failing = f]
  <1>2. /\ f \in {"no", "recent", "long"}
        /\ enabled /\ ~hook[h].enabled => f = "no"
        /\ ~(enabled /\ ~hook[h].enabled) => f = hook[h].failing
    BY <1>0 DEF TypeOK, Hook
  <1>3. hook' = [hook EXCEPT ![h] = x]
    BY <1>0 DEF EditHook, TypeOK, Hook
  <1> HIDE DEF f
  <1>4. x \in Hook /\ x.enabled = enabled /\ x.failing = f
    <2>1. hook[h] \in Hook
      BY <1>0 DEF TypeOK
    <2> QED
      BY <1>2, <2>1 DEF Hook
  <1> HIDE DEF x
  <1>5. /\ hook' \in [Hooks -> Hook] /\ hook'[h] = x
        /\ \A g \in Hooks \ {h} : hook'[g] = hook[g]
    BY <1>0, <1>3, <1>4 DEF TypeOK
  <1>6. /\ place' \in [Hooks -> Nat] /\ places' \in Nat
        /\ \A g \in Hooks \ {h} : place'[g] = place[g]
        /\ owed' \in [Events -> SUBSET Hooks] /\ moved' \in [Events -> SUBSET Hooks]
    BY <1>0, <1>1, SubscribeTypes
  <1>7. interrupted' = interrupted \cup (IF enabled THEN {} ELSE {d \in rows : d.hook = h})
    BY <1>1 DEF NoteSubscribed
  <1>8. TypeOK'
    <2>1. \A g \in Hooks \ hooks : place'[g] = 0
      BY <1>0, <1>1, <1>6 DEF TypeOK
    <2>2. interrupted' \subseteq rows /\ blamed' \subseteq Hooks
      BY <1>0, <1>1, <1>7 DEF TypeOK, rows
    <2> QED
      BY <1>0, <1>1, <1>5, <1>6, <2>1, <2>2 DEF TypeOK, rows, outbox, queue, team, seen
  <1>9. FanFits' /\ EachListenerOnce'
    <2>1. hook'[h].enabled = enabled
      BY <1>4, <1>5
    <2> QED
      BY <1>0, <1>1, <1>5, <1>8, <2>1, FanSubscribes
  <1>10. DeliveriesFit'
    <2>1. ASSUME NEW d \in rows, ~Enabled(d.hook)'
          PROVE  d \in interrupted'
      <3>1. d.hook \in Hooks
        BY <1>0 DEF TypeOK, rows, Id
      <3>2. CASE d.hook = h
        BY <1>1, <1>4, <1>5, <1>7, <2>1, <3>2 DEF Enabled
      <3>3. CASE d.hook # h
        BY <1>0, <1>1, <1>5, <1>7, <2>1, <3>1, <3>3 DEF Enabled, OffIsKnown
      <3> QED
        BY <3>2, <3>3
    <2>2. retired' \/ \A d \in rows : ~Enabled(d.hook)' => d \in interrupted'
      BY <2>1
    <2> QED
      BY <1>0, <1>1, <1>7, <2>2, DeliveriesStay
  <1>11. ClockIsCurrent'
    BY <1>0, <1>1, <1>2, <1>4, <1>5 DEF ClockIsCurrent
  <1> QED
    BY <1>8, <1>9, <1>10, <1>11 DEF WebhooksInv

\* An endpoint's row and its subscription go.
LEMMA HookGoes ==
    ASSUME TypeOK, NEW h \in Hooks, DeleteHook(h)
    PROVE  /\ hooks' \subseteq hooks /\ h \notin hooks' /\ hooks' = hooks \ {h}
           /\ hook' \in [Hooks -> Hook] /\ \A g \in Hooks \ {h} : hook'[g] = hook[g]
           /\ place' \in [Hooks -> Nat] /\ place'[h] = 0
           /\ \A g \in Hooks \ {h} : place'[g] = place[g] /\ Enabled(g)' = Enabled(g)
                                     /\ Listens(g)' = Listens(g)
           /\ \A g \in Hooks \ hooks' : place'[g] = 0
           /\ UNCHANGED <<bornHooks, places>>
  <1>1. /\ hooks' = hooks \ {h} /\ hook' = [hook EXCEPT ![h] = NewHook]
        /\ place' = [place EXCEPT ![h] = 0] /\ UNCHANGED <<bornHooks, places>>
    BY DEF DeleteHook
  <1>2. /\ hook' \in [Hooks -> Hook] /\ \A g \in Hooks \ {h} : hook'[g] = hook[g]
        /\ place' \in [Hooks -> Nat] /\ place'[h] = 0
        /\ \A g \in Hooks \ {h} : place'[g] = place[g]
    BY <1>1, NewHookIsHook DEF TypeOK
  <1>3. \A g \in Hooks \ {h} : Enabled(g)' = Enabled(g) /\ Listens(g)' = Listens(g)
    BY <1>1, <1>2 DEF Enabled, Listens
  <1>4. \A g \in Hooks \ hooks' : place'[g] = 0
    BY <1>1, <1>2 DEF TypeOK
  <1> QED
    BY <1>1, <1>2, <1>3, <1>4

LEMMA HookGoneFits ==
    ASSUME WebhooksInv, NEW h \in Hooks, RemoveHook(h) \/ PurgeHook(h)
    PROVE  WebhooksInv'
  <1>0. TypeOK /\ FanFits /\ EachListenerOnce /\ DeliveriesFit /\ ClockIsCurrent /\ OffIsKnown
    BY Parts DEF WebhooksInv
  <1>1. /\ hooks' \subseteq hooks /\ h \notin hooks' /\ hooks' = hooks \ {h}
        /\ hook' \in [Hooks -> Hook] /\ \A g \in Hooks \ {h} : hook'[g] = hook[g]
        /\ place' \in [Hooks -> Nat] /\ place'[h] = 0
        /\ \A g \in Hooks \ {h} : place'[g] = place[g] /\ Enabled(g)' = Enabled(g)
                                  /\ Listens(g)' = Listens(g)
        /\ \A g \in Hooks \ hooks' : place'[g] = 0
        /\ UNCHANGED <<bornHooks, places>>
    BY <1>0, HookGoes DEF RemoveHook, PurgeHook
  <1>2. /\ UNCHANGED <<outbox, queue, team, seen, replays, moved>>
        /\ UNCHANGED <<deliveries, runs, copies, posted, taken, retired>>
        /\ \/ retired /\ UNCHANGED <<purgeJobs, owed, interrupted, blamed>>
           \/ /\ ~retired
              /\ purgeJobs' = purgeJobs \cup {h}
              /\ owed' = [m \in Events |-> IF FanningOut(m) THEN owed[m] \ {h} ELSE owed[m]]
              /\ interrupted' = interrupted \cup {d \in rows : d.hook = h}
              /\ blamed' = blamed \ {h}
    BY DEF RemoveHook, PurgeHook, history, queue, seen, team
  <1>3. /\ purgeJobs' \subseteq Hooks /\ owed' \in [Events -> SUBSET Hooks]
        /\ interrupted \subseteq interrupted' /\ interrupted' \subseteq rows
        /\ blamed' \subseteq Hooks /\ blamed \ {h} \subseteq blamed'
        /\ \A m \in Events : owed'[m] \subseteq owed[m]
        /\ retired \/ \A m \in emitted \ done : h \notin owed'[m]
    <2>1. /\ owed \in [Events -> SUBSET Hooks] /\ emitted \subseteq Events
          /\ purgeJobs \subseteq Hooks /\ interrupted \subseteq rows /\ blamed \subseteq Hooks
      BY <1>0 DEF TypeOK, rows
    <2>2. CASE retired /\ UNCHANGED <<purgeJobs, owed, interrupted, blamed>>
      BY <2>1, <2>2
    <2>3. CASE /\ purgeJobs' = purgeJobs \cup {h}
               /\ owed' = [m \in Events |-> IF FanningOut(m) THEN owed[m] \ {h} ELSE owed[m]]
               /\ interrupted' = interrupted \cup {d \in rows : d.hook = h}
               /\ blamed' = blamed \ {h}
      <3>1. \A m \in Events : (IF FanningOut(m) THEN owed[m] \ {h} ELSE owed[m]) \subseteq Hooks
        BY <2>1
      <3>2. /\ owed' \in [Events -> SUBSET Hooks]
            /\ \A m \in Events : owed'[m] \subseteq owed[m]
            /\ \A m \in emitted \ done : h \notin owed'[m]
        BY <2>1, <2>3, <3>1 DEF FanningOut
      <3> QED
        BY <2>1, <2>3, <3>2
    <2> QED
      BY <1>2, <2>2, <2>3
  <1>4. TypeOK'
    BY <1>0, <1>1, <1>2, <1>3 DEF TypeOK, rows, outbox, queue, team, seen
  <1>5. FanFits' /\ EachListenerOnce'
    <2>1. ASSUME ~retired', NEW m \in emitted \ done, NEW g \in owed'[m]
          PROVE  Listens(g)' /\ place[g] <= place'[g]
      <3>1. /\ m \in Events /\ g \in owed[m] /\ g \in Hooks /\ g # h /\ place[g] \in Nat
            /\ ~retired
        BY <1>0, <1>2, <1>3, <2>1 DEF TypeOK
      <3>2. Listens(g)
        BY <1>0, <2>1, <3>1 DEF FanFits
      <3> QED
        BY <1>1, <3>1, <3>2
    <2>2. /\ IsFiniteSet(bornHooks')
          /\ places <= places' /\ \A g \in Hooks : place'[g] <= places'
          /\ \A m \in Events : \A g \in Hooks : Fanned(m, g)' = Fanned(m, g)
      BY <1>0, <1>1, <1>2 DEF FanFits, Fanned, TypeOK
    <2>3. FanKept
      BY <1>1, <1>2, <1>3, <2>1, <2>2 DEF FanKept
    <2> QED
      BY <1>0, <1>4, <2>3, FanIsKept
  <1>6. DeliveriesFit'
    <2>1. ASSUME ~retired', NEW d \in rows, ~Enabled(d.hook)'
          PROVE  d \in interrupted'
      <3>1. d.hook \in Hooks /\ ~retired
        BY <1>0, <1>2, <2>1 DEF TypeOK, rows, Id
      <3> QED
        BY <1>0, <1>1, <1>2, <1>3, <2>1, <3>1 DEF OffIsKnown
    <2>2. retired' \/ \A d \in rows : ~Enabled(d.hook)' => d \in interrupted'
      BY <2>1
    <2> QED
      BY <1>0, <1>2, <1>3, <2>2, DeliveriesStay
  <1>7. ClockIsCurrent'
    BY <1>0, <1>1, <1>3 DEF ClockIsCurrent, TypeOK
  <1> QED
    BY <1>4, <1>5, <1>6, <1>7 DEF WebhooksInv

LEMMA RecordingFits ==
    ASSUME WebhooksInv, NEW r \in runs, NEW failed \in BOOLEAN,
           NEW others, others \in {runs \ {r}, Become(r, "returning")},
           ~failed => r.phase = "accepted",
           RecordResult(r, failed, others)
    PROVE  WebhooksInv'
  <1> DEFINE h == r.id.hook
  <1>0. TypeOK /\ FanFits /\ EachListenerOnce /\ DeliveriesFit /\ ClockIsCurrent
    BY DEF WebhooksInv
  <1>1. DeliveriesFit' /\ TypeOK'
    BY <1>0, RecordFits
  <1>2. /\ UNCHANGED <<bornHooks, hooks, outbox, copies, replays, retired>>
        /\ hooks \subseteq Hooks
    BY <1>0 DEF RecordResult, team, TypeOK
  <1>3. CASE ~Recordable(r)
    <2>1. UNCHANGED <<hook, place, places, owed, moved, blamed>>
      BY <1>3 DEF RecordResult
    <2>2. /\ \A g \in Hooks : Listens(g)' = Listens(g)
          /\ \A m \in Events : \A g \in Hooks : Fanned(m, g)' = Fanned(m, g)
      BY <1>2, <2>1 DEF Listens, Enabled, Fanned
    <2>3. FanFits' /\ EachListenerOnce'
      BY <1>0, <1>1, <1>2, <2>1, <2>2, FanStays
    <2>4. ClockIsCurrent'
      BY <1>0, <1>2, <2>1 DEF ClockIsCurrent
    <2> QED
      BY <1>1, <2>3, <2>4 DEF WebhooksInv
  <1>4. CASE Recordable(r)
    <2>1. RecordHealth(h, failed) /\ ~retired /\ h \in Hooks
      BY <1>0, <1>4 DEF RecordResult, Recordable, TypeOK, Run, Id
    <2>2. /\ \A g \in Hooks \ {h} : hook'[g] = hook[g]
          /\ Disables(h, failed) => hook'[h].enabled = FALSE /\ hook'[h].failing = "no"
          /\ ~Disables(h, failed) => /\ hook'[h].enabled = hook[h].enabled
                                     /\ ~failed /\ h \in hooks => hook'[h].failing = "no"
          /\ blamed \ {h} \subseteq blamed'
          /\ failed /\ Enabled(h) /\ ~Disables(h, failed) => h \in blamed'
      BY <1>0, <2>1, HealthMoves
    <2>3. FanFits' /\ EachListenerOnce'
      <3>1. CASE Disables(h, failed)
        <4>1. PICK listens \in BOOLEAN : listens = (place[h] # 0)
          OBVIOUS
        <4>2. Subscribe(h, listens) /\ NoteSubscribed(h, FALSE, listens)
          BY <2>1, <3>1, <4>1 DEF RecordHealth
        <4>3. h \in hooks /\ hook'[h].enabled = FALSE
          BY <2>2, <3>1 DEF Disables, Enabled
        <4> QED
          BY <1>0, <1>1, <1>2, <2>1, <2>2, <4>2, <4>3, FanSubscribes
      <3>2. CASE ~Disables(h, failed)
        <4>1. UNCHANGED <<place, places, owed, moved>>
          BY <2>1, <3>2 DEF RecordHealth
        <4>2. /\ \A g \in Hooks : Listens(g)' = Listens(g)
              /\ \A m \in Events : \A g \in Hooks : Fanned(m, g)' = Fanned(m, g)
          BY <1>2, <2>2, <3>2, <4>1 DEF Listens, Enabled, Fanned
        <4> QED
          BY <1>0, <1>1, <1>2, <4>1, <4>2, FanStays
      <3> QED
        BY <3>1, <3>2
    <2>4. ClockIsCurrent'
      <3> SUFFICES ASSUME NEW g \in hooks, hook'[g].enabled, hook'[g].failing # "no"
                   PROVE  g \in blamed'
        BY <1>2 DEF ClockIsCurrent
      <3>1. CASE g # h
        BY <1>0, <1>2, <2>2, <3>1 DEF ClockIsCurrent
      <3>2. CASE g = h
        BY <2>2, <3>2 DEF Enabled
      <3> QED
        BY <3>1, <3>2
    <2> QED
      BY <1>1, <2>3, <2>4 DEF WebhooksInv
  <1> QED
    BY <1>3, <1>4

LEMMA AnsweredFits ==
    ASSUME WebhooksInv, NEW r \in runs, Record(r) \/ AttemptDone(r)
    PROVE  WebhooksInv'
  <1>1. CASE Record(r)
    <2>1. PICK failed \in BOOLEAN : failed = (r.phase = "refused")
      OBVIOUS
    <2>2. /\ RecordResult(r, failed, Become(r, "returning"))
          /\ ~failed => r.phase = "accepted"
      BY <1>1, <2>1 DEF Record
    <2> QED
      BY <2>2, RecordingFits
  <1>2. CASE AttemptDone(r)
    BY <1>2, RecordingFits DEF AttemptDone
  <1> QED
    BY <1>1, <1>2

(***************************************************************************)
(* An event is emitted and fanned out.                                     *)
(***************************************************************************)
LEMMA EmitFits ==
    ASSUME WebhooksInv, NEW m \in Events, Emit(m)
    PROVE  WebhooksInv'
  <1>0. TypeOK /\ FanFits /\ EachListenerOnce /\ DeliveriesFit /\ ClockIsCurrent /\ OffIsKnown
    BY Parts DEF WebhooksInv
  <1> DEFINE listening == {h \in Hooks : Listens(h)}
  <1>1. /\ ~retired /\ m \notin emitted
        /\ emitted' = emitted \cup {m}
        /\ fanJobs' = fanJobs \cup {[event |-> m, cursor |-> 0]}
        /\ owed' = [owed EXCEPT ![m] = listening]
        /\ UNCHANGED <<endpoints, cursor, done, queue, purgeJobs, team, seen,
                       replays, moved, interrupted, blamed>>
    BY DEF Emit
  <1>2. UNCHANGED <<bornHooks, hooks, hook, place, places, deliveries, copies, runs, retired,
                    posted, taken, interrupted, blamed>>
    BY <1>1 DEF endpoints, queue, team, seen
  <1>3. /\ listening \subseteq Hooks /\ owed \in [Events -> SUBSET Hooks]
        /\ \A h \in listening : Listens(h)
    BY <1>0 DEF TypeOK
  <1> HIDE DEF listening
  <1>4. TypeOK'
    BY <1>0, <1>1, <1>3 DEF TypeOK, endpoints, queue, team, seen
  <1>5. /\ \A h \in Hooks : Listens(h)' = Listens(h)
        /\ \A n \in Events : \A h \in Hooks : Fanned(n, h)' = Fanned(n, h)
        /\ place \in [Hooks -> Nat] /\ done \subseteq emitted
    BY <1>0, <1>1, <1>2 DEF Listens, Enabled, Fanned, TypeOK
  <1>6. FanFits'
    <2>1. \A j \in fanJobs' : j.event \in emitted'
      BY <1>0, <1>1 DEF FanFits
    <2>2. ASSUME NEW n \in emitted' \ done', NEW h \in owed'[n]
          PROVE  Listens(h) /\ (Fanned(n, h) >= 1 \/ place[h] > cursor[n])
      <3>1. n \in Events
        BY <1>0, <1>1, <2>2 DEF TypeOK
      <3>2. CASE n = m
        <4>1. Listens(h) /\ h \in Hooks /\ cursor[m] = 0
          BY <1>0, <1>1, <1>3, <2>2, <3>2 DEF FanFits
        <4>2. place[h] \in Nat /\ place[h] # 0
          BY <1>5, <4>1 DEF Listens
        <4> QED
          BY <3>2, <4>1, <4>2
      <3>3. CASE n # m
        BY <1>0, <1>1, <1>3, <2>2, <3>1, <3>3 DEF FanFits
      <3> QED
        BY <3>2, <3>3
    <2>3. \A n \in Events : owed'[n] \subseteq Hooks
      BY <1>4 DEF TypeOK
    <2>4. retired' \/ \A n \in emitted' \ done' : \A h \in owed'[n] :
                         Listens(h)' /\ (Fanned(n, h)' >= 1 \/ place'[h] > cursor'[n])
      <3> SUFFICES ASSUME NEW n \in emitted' \ done', NEW h \in owed'[n]
                   PROVE  Listens(h)' /\ (Fanned(n, h)' >= 1 \/ place'[h] > cursor'[n])
        OBVIOUS
      <3>1. n \in Events /\ h \in Hooks
        BY <1>4, <2>3 DEF TypeOK
      <3> QED
        BY <1>1, <1>2, <1>5, <2>2, <3>1
    <2> QED
      BY <1>0, <1>1, <1>2, <1>5, <2>1, <2>4 DEF FanFits
  <1>7. EachListenerOnce'
    <2>1. OneDeliveryUnlessMoved'
      BY <1>0, <1>1, <1>5 DEF EachListenerOnce, OneDeliveryUnlessMoved
    <2>2. ASSUME ~retired, NEW n \in done, NEW h \in owed'[n]
          PROVE  Fanned(n, h)' >= 1
      <3>1. n # m /\ n \in Events
        BY <1>0, <1>1, <1>5, <2>2 DEF TypeOK
      <3>2. h \in owed[n] /\ h \in Hooks
        BY <1>1, <1>3, <2>2, <3>1
      <3> QED
        BY <1>0, <1>5, <2>2, <3>1, <3>2 DEF EachListenerOnce, NobodySkipped
    <2>3. NobodySkipped'
      BY <1>1, <1>2, <2>2 DEF NobodySkipped
    <2> QED
      BY <2>1, <2>3 DEF EachListenerOnce
  <1>8. DeliveriesFit'
    <2>1. retired' \/ \A d \in rows : ~Enabled(d.hook)' => d \in interrupted'
      BY <1>0, <1>2 DEF OffIsKnown, Enabled
    <2> QED
      BY <1>0, <1>2, <2>1, DeliveriesStay
  <1>9. ClockIsCurrent'
    BY <1>0, <1>2 DEF ClockIsCurrent
  <1> QED
    BY <1>4, <1>6, <1>7, <1>8, <1>9 DEF WebhooksInv

LEMMA ReplayFits ==
    ASSUME WebhooksInv, NEW d \in rows, Replay(d)
    PROVE  WebhooksInv'
  <1> DEFINE m == d.event
             h == d.hook
  <1>0. TypeOK /\ FanFits /\ EachListenerOnce /\ DeliveriesFit /\ ClockIsCurrent
    BY DEF WebhooksInv
  <1>1. /\ Send(m, {h}, TRUE) /\ Enabled(h) /\ m \in Events /\ h \in Hooks
        /\ replays' = [replays EXCEPT ![m][h] = @ + 1]
        /\ UNCHANGED <<endpoints, outbox, purgeJobs, team, seen, owed, moved, interrupted,
                       blamed>>
    BY <1>0 DEF Replay, TypeOK, rows, Id
  <1>2. UNCHANGED <<bornHooks, hooks, hook, place, places, retired, posted, taken>>
    BY <1>1 DEF endpoints, team, seen
  <1>3. DeliveriesFit' /\ runs' \subseteq Run
    <2>1. /\ {h} \in SUBSET Hooks /\ \A g \in {h} : Enabled(g)
          /\ UNCHANGED <<hooks, hook, retired, posted, taken, interrupted>>
      BY <1>1, <1>2
    <2> QED
      BY <1>0, <1>1, <2>1, SendFits
  <1>4. PICK new : Sent(m, {h}, new)
    BY <1>0, <1>1, SendMoves
  <1>5. /\ rows \subseteq rows' /\ rows' \subseteq Id /\ deliveries' \in [rows' -> Delivery]
        /\ copies' \in [Events -> [Hooks -> Nat]]
        /\ copies'[m][h] = copies[m][h] + 1
        /\ \A n \in Events, g \in Hooks : n # m \/ g # h => copies'[n][g] = copies[n][g]
    BY <1>0, <1>4 DEF Sent, TypeOK, rows
  <1>6. /\ replays' \in [Events -> [Hooks -> Nat]]
        /\ replays'[m][h] = replays[m][h] + 1
        /\ \A n \in Events, g \in Hooks : n # m \/ g # h => replays'[n][g] = replays[n][g]
    <2>1. replays \in [Events -> [Hooks -> Nat]]
      BY <1>0 DEF TypeOK
    <2>2. replays[m][h] + 1 \in Nat
      BY <1>1, <2>1
    <2> QED
      BY <1>1, <2>1, <2>2
  <1>7. TypeOK'
    BY <1>0, <1>1, <1>3, <1>5, <1>6 DEF TypeOK, rows, endpoints, outbox, team, seen
  <1>8. FanFits' /\ EachListenerOnce'
    <2>1. ASSUME NEW n \in Events, NEW g \in Hooks
          PROVE  Fanned(n, g)' = Fanned(n, g)
      <3>1. /\ copies[n][g] \in Nat /\ replays[n][g] \in Nat
            /\ copies'[n][g] \in Nat /\ replays'[n][g] \in Nat
        BY <1>0, <1>5, <1>6 DEF TypeOK
      <3>2. CASE n = m /\ g = h
        <4>1. copies'[n][g] = copies[n][g] + 1 /\ replays'[n][g] = replays[n][g] + 1
          BY <1>5, <1>6, <3>2
        <4> QED
          BY <3>1, <4>1 DEF Fanned
      <3>3. CASE ~(n = m /\ g = h)
        <4>1. copies'[n][g] = copies[n][g] /\ replays'[n][g] = replays[n][g]
          BY <1>5, <1>6, <3>3
        <4> QED
          BY <4>1 DEF Fanned
      <3> QED
        BY <3>2, <3>3
    <2>2. \A g \in Hooks : Listens(g)' = Listens(g)
      BY <1>2 DEF Listens, Enabled
    <2> QED
      BY <1>0, <1>1, <1>2, <1>7, <2>1, <2>2, FanStays
  <1>9. ClockIsCurrent'
    BY <1>0, <1>1, <1>2 DEF ClockIsCurrent
  <1> QED
    BY <1>3, <1>7, <1>8, <1>9 DEF WebhooksInv

\* A page gets its deliveries: whoever is on it is behind the new cursor, or in
\* front of it no more, and the fan-out ends only when nobody is left.
LEMMA PageIsFanned ==
    ASSUME WebhooksInv, NEW j \in fanJobs, Fan(j),
           j.event \notin done, cursor[j.event] = j.cursor, ~retired
    PROVE  WebhooksInv'
  <1> DEFINE m == j.event
             page == Page(j.cursor)
             last == LastOf(page)
             full == ~(Cardinality(page) < PageSize)
  <1>0. TypeOK /\ FanFits /\ EachListenerOnce /\ DeliveriesFit /\ ClockIsCurrent
    BY DEF WebhooksInv
  <1>1. m \in Events /\ m \in emitted /\ j.cursor \in Nat
    BY <1>0 DEF TypeOK, FanFits
  <1>2. /\ Send(m, page, FALSE)
        /\ done' = IF full THEN done ELSE done \cup {m}
        /\ cursor' = [cursor EXCEPT ![m] = IF full THEN last ELSE 0]
        /\ fanJobs' = (fanJobs \ {j}) \cup NextPage(j, page)
        /\ UNCHANGED <<endpoints, emitted, purgeJobs, team, seen, history>>
    BY DEF Fan
  <1>3. UNCHANGED <<bornHooks, hooks, hook, place, places, retired, posted, taken, replays,
                    owed, moved, interrupted, blamed>>
    BY <1>2 DEF endpoints, team, seen, history
  <1>4. /\ page \subseteq Behind(j.cursor)
        /\ ~full => page = Behind(j.cursor)
    BY <1>0, <1>1, PageIsPrefix
  <1>5. full => /\ last \in Nat /\ j.cursor < last /\ last <= places
                /\ \A h \in page : place[h] <= last
                /\ \A h \in Behind(j.cursor) \ page : last < place[h]
    BY <1>0, <1>1, LastOfPage
  <1>6. /\ \A h \in page : /\ h \in Hooks /\ Listens(h) /\ Enabled(h)
                           /\ h \in bornHooks /\ place[h] > j.cursor
        /\ \A h \in Hooks : Listens(h) /\ place[h] > j.cursor <=> h \in Behind(j.cursor)
    BY <1>0, <1>4 DEF Behind, Listens, Enabled, TypeOK
  <1>7. NextPage(j, page) = IF full THEN {[event |-> m, cursor |-> last]} ELSE {}
    BY DEF NextPage
  <1> HIDE DEF page, last, full
  <1>8. DeliveriesFit' /\ runs' \subseteq Run
    BY <1>0, <1>1, <1>2, <1>3, <1>6, SendFits
  <1>9. PICK new : Sent(m, page, new)
    BY <1>0, <1>1, <1>2, <1>6, SendMoves
  <1>10. /\ rows \subseteq rows' /\ rows' \subseteq Id /\ deliveries' \in [rows' -> Delivery]
         /\ copies' \in [Events -> [Hooks -> Nat]]
         /\ \A h \in page : copies'[m][h] = copies[m][h] + 1
         /\ \A n \in Events, h \in Hooks : n # m \/ h \notin page => copies'[n][h] = copies[n][h]
    BY <1>0, <1>9 DEF Sent, TypeOK, rows
  <1>11. /\ \A h \in page : Fanned(m, h)' = Fanned(m, h) + 1
         /\ \A n \in Events, h \in Hooks : n # m \/ h \notin page => Fanned(n, h)' = Fanned(n, h)
         /\ \A n \in Events, h \in Hooks : Fanned(n, h) \in Int /\ Fanned(n, h) >= 0
    <2>1. \A n \in Events, h \in Hooks : copies[n][h] \in Nat /\ replays[n][h] \in Nat
      BY <1>0 DEF TypeOK
    <2>2. ASSUME NEW h \in page
          PROVE  Fanned(m, h)' = Fanned(m, h) + 1
      <3>1. /\ copies'[m][h] = copies[m][h] + 1 /\ replays'[m][h] = replays[m][h]
            /\ copies[m][h] \in Nat /\ replays[m][h] \in Nat
        BY <1>1, <1>3, <1>6, <1>10, <2>1
      <3>2. copies[m][h] + 1 - replays[m][h] = copies[m][h] - replays[m][h] + 1
        BY <3>1
      <3>3. copies'[m][h] - replays'[m][h] = copies[m][h] - replays[m][h] + 1
        BY <3>1, <3>2
      <3> QED
        BY <3>3 DEF Fanned
    <2>3. \A n \in Events, h \in Hooks : n # m \/ h \notin page => Fanned(n, h)' = Fanned(n, h)
      BY <1>3, <1>10 DEF Fanned
    <2>4. \A n \in Events, h \in Hooks : Fanned(n, h) \in Int /\ Fanned(n, h) >= 0
      BY <1>0, <2>1 DEF Fanned, FanFits
    <2> QED
      BY <2>2, <2>3, <2>4
  <1>12. /\ cursor' \in [Events -> Nat]
         /\ cursor'[m] = (IF full THEN last ELSE 0)
         /\ \A n \in Events \ {m} : cursor'[n] = cursor[n]
         /\ fanJobs' \subseteq [event : Events, cursor : Nat]
         /\ \A i \in fanJobs' : i \in fanJobs \/ i.event = m
    <2>1. PICK c \in Nat : c = IF full THEN last ELSE 0
      BY <1>5
    <2>2. cursor' = [cursor EXCEPT ![m] = c]
      BY <1>2, <2>1
    <2>3. NextPage(j, page) \subseteq [event : Events, cursor : Nat]
          /\ \A i \in NextPage(j, page) : i.event = m
      BY <1>1, <1>5, <1>7
    <2> QED
      BY <1>0, <1>1, <1>2, <2>1, <2>2, <2>3 DEF TypeOK
  <1>13. TypeOK'
    <2>1. done' \subseteq emitted
      BY <1>0, <1>1, <1>2 DEF TypeOK
    <2> QED
      BY <1>0, <1>2, <1>8, <1>10, <1>12, <2>1
      DEF TypeOK, rows, endpoints, team, seen, history
  <1>14. FanFits'
    <2>1. /\ IsFiniteSet(bornHooks') /\ \A h \in Hooks : place'[h] <= places'
          /\ \A h \in Hooks \ bornHooks' : \A n \in Events : Fanned(n, h)' = 0
          /\ \A n \in Events : \A h \in Hooks : Fanned(n, h)' >= 0
          /\ \A i \in fanJobs' : i.event \in emitted'
      BY <1>0, <1>1, <1>2, <1>3, <1>6, <1>11, <1>12 DEF FanFits
    <2>2. /\ \A n \in Events : cursor'[n] <= places'
          /\ \A n \in Events \ emitted' : cursor'[n] = 0 /\ \A h \in Hooks : Fanned(n, h)' = 0
      <3>1. places \in Nat
        BY <1>0 DEF TypeOK
      <3> QED
        BY <1>0, <1>1, <1>2, <1>3, <1>5, <1>11, <1>12, <3>1 DEF FanFits
    <2>3. ASSUME NEW n \in Events \ done', NEW h \in Hooks \ moved'[n]
          PROVE  Fanned(n, h)' <= 0 \/ place'[h] <= cursor'[n]
      <3>1. /\ n \notin done /\ (Fanned(n, h) <= 0 \/ place[h] <= cursor[n])
            /\ n = m => full
            /\ place[h] \in Nat
        BY <1>0, <1>2, <1>3, <2>3 DEF FanFits, TypeOK
      <3>2. CASE n # m
        BY <1>3, <1>11, <1>12, <3>1, <3>2
      <3>3. CASE n = m /\ h \in page
        BY <1>3, <1>5, <1>12, <3>1, <3>3
      <3>4. CASE n = m /\ h \notin page
        BY <1>1, <1>3, <1>5, <1>11, <1>12, <3>1, <3>4
      <3> QED
        BY <3>2, <3>3, <3>4
    <2>4. ASSUME NEW n \in emitted' \ done', NEW h \in owed'[n]
          PROVE  Listens(h)' /\ (Fanned(n, h)' >= 1 \/ place'[h] > cursor'[n])
      <3>1. /\ n \in Events /\ h \in Hooks /\ n \in emitted \ done
            /\ n = m => full
        BY <1>0, <1>2, <1>3, <2>4 DEF TypeOK
      <3>2. Listens(h) /\ (Fanned(n, h) >= 1 \/ place[h] > cursor[n])
        BY <1>0, <1>3, <2>4, <3>1 DEF FanFits
      <3>3. Listens(h)'
        BY <1>3, <3>2 DEF Listens, Enabled
      <3>4. CASE n # m
        BY <1>3, <1>11, <1>12, <3>1, <3>2, <3>3, <3>4
      <3>5. CASE n = m /\ h \in page
        BY <1>11, <3>1, <3>3, <3>5
      <3>6. CASE n = m /\ h \notin page
        BY <1>3, <1>5, <1>6, <1>11, <1>12, <3>1, <3>2, <3>3, <3>6
      <3> QED
        BY <3>4, <3>5, <3>6
    <2> QED
      BY <2>1, <2>2, <2>3, <2>4 DEF FanFits
  <1>15. OneDeliveryUnlessMoved'
    <2> SUFFICES ASSUME NEW n \in Events, NEW h \in Hooks, h \notin moved'[n]
                 PROVE  Fanned(n, h)' <= 1
      BY DEF OneDeliveryUnlessMoved
    <2>1. Fanned(n, h) <= 1
      BY <1>0, <1>3 DEF EachListenerOnce, OneDeliveryUnlessMoved
    <2>2. CASE n = m /\ h \in page
      <3>1. Fanned(m, h) <= 0
        BY <1>0, <1>1, <1>3, <1>6, <2>2 DEF FanFits, TypeOK
      <3> QED
        BY <1>11, <2>2, <3>1
    <2>3. CASE ~(n = m /\ h \in page)
      BY <1>11, <2>1, <2>3
    <2> QED
      BY <2>2, <2>3
  <1>16. NobodySkipped'
    <2>1. ASSUME NEW n \in done', NEW h \in owed'[n]
          PROVE  Fanned(n, h)' >= 1
      <3>1. n \in Events /\ h \in Hooks /\ h \in owed[n]
        BY <1>0, <1>2, <1>3, <2>1 DEF TypeOK
      <3>2. CASE n \in done
        BY <1>0, <1>11, <3>1, <3>2 DEF EachListenerOnce, NobodySkipped
      <3>3. CASE n \notin done
        <4>1. n = m /\ ~full
          BY <1>2, <2>1, <3>3
        <4>2. Listens(h) /\ (Fanned(m, h) >= 1 \/ place[h] > j.cursor)
          BY <1>0, <1>1, <3>1, <4>1 DEF FanFits
        <4>3. h \in page \/ Fanned(m, h) >= 1
          BY <1>4, <1>6, <3>1, <4>1, <4>2
        <4> QED
          BY <1>11, <3>1, <4>1, <4>3
      <3> QED
        BY <3>2, <3>3
    <2> QED
      BY <2>1 DEF NobodySkipped
  <1>17. ClockIsCurrent'
    BY <1>0, <1>3 DEF ClockIsCurrent
  <1> QED
    BY <1>8, <1>13, <1>14, <1>15, <1>16, <1>17 DEF WebhooksInv, EachListenerOnce

LEMMA FanStepFits ==
    ASSUME WebhooksInv, NEW j \in fanJobs, Fan(j)
    PROVE  WebhooksInv'
  <1>0. TypeOK /\ FanFits /\ EachListenerOnce /\ DeliveriesFit /\ ClockIsCurrent /\ OffIsKnown
    BY Parts DEF WebhooksInv
  <1>1. CASE j.event \notin done /\ cursor[j.event] = j.cursor /\ ~retired
    BY <1>1, PageIsFanned
  <1>2. CASE ~(j.event \notin done /\ cursor[j.event] = j.cursor /\ ~retired)
    <2>1. /\ fanJobs' \subseteq fanJobs
          /\ UNCHANGED <<endpoints, emitted, cursor, done, queue, purgeJobs, team, seen, history>>
      BY <1>2 DEF Fan
    <2>2. UNCHANGED <<bornHooks, hooks, hook, place, places, deliveries, copies, runs, retired,
                      posted, taken, replays, owed, moved, interrupted, blamed>>
      BY <2>1 DEF endpoints, queue, team, seen, history
    <2>3. TypeOK'
      BY <1>0, <2>1 DEF TypeOK, endpoints, queue, team, seen, history
    <2>4. \A m, h : Fanned(m, h)' = Fanned(m, h) /\ Listens(h)' = Listens(h)
      BY <2>2 DEF Fanned, Listens, Enabled
    <2>5. FanFits'
      BY <1>0, <2>1, <2>2, <2>4 DEF FanFits
    <2>6. EachListenerOnce'
      BY <1>0, <2>1, <2>2, <2>4 DEF EachListenerOnce, OneDeliveryUnlessMoved, NobodySkipped
    <2>7. DeliveriesFit'
      <3>1. retired' \/ \A d \in rows : ~Enabled(d.hook)' => d \in interrupted'
        BY <1>0, <2>2 DEF OffIsKnown, Enabled
      <3> QED
        BY <1>0, <2>2, <3>1, DeliveriesStay
    <2>8. ClockIsCurrent'
      BY <1>0, <2>2 DEF ClockIsCurrent
    <2> QED
      BY <2>3, <2>5, <2>6, <2>7, <2>8 DEF WebhooksInv
  <1> QED
    BY <1>1, <1>2

(***************************************************************************)
(* The invariant holds at first, after every step, and so always.          *)
(***************************************************************************)
LEMMA WebhooksInit ==
    ASSUME Init
    PROVE  WebhooksInv
  <1>1. rows = {} /\ runs = {} /\ posted = {} /\ done = {} /\ emitted = {} /\ hooks = {}
    BY DEF Init, rows
  <1>2. /\ hook \in [Hooks -> Hook] /\ place \in [Hooks -> Nat]
        /\ \A h \in Hooks : place[h] = 0
        /\ copies \in [Events -> [Hooks -> Nat]] /\ replays \in [Events -> [Hooks -> Nat]]
        /\ \A m \in Events : \A h \in Hooks : copies[m][h] = 0 /\ replays[m][h] = 0
    BY NewHookIsHook DEF Init
  <1>3. deliveries \in [rows -> Delivery] /\ rows \subseteq Id
    BY <1>1 DEF Init, rows
  <1>4. TypeOK
    BY <1>1, <1>2, <1>3 DEF Init, TypeOK, rows
  <1>5. \A m \in Events : \A h \in Hooks : Fanned(m, h) = 0
    BY <1>2 DEF Fanned
  <1>6. FanFits
    BY <1>1, <1>2, <1>5, FS_EmptySet DEF Init, FanFits
  <1>7. EachListenerOnce
    BY <1>1, <1>5 DEF EachListenerOnce, OneDeliveryUnlessMoved, NobodySkipped
  <1>8. DeliveriesFit
    BY <1>1 DEF DeliveriesFit, IdsGiven, RunsFit, PostedFits, OffIsKnown, EachAttemptOnce,
                AttemptPostedOnce, OneCarrier, VerdictIsEarned
  <1>9. ClockIsCurrent
    BY <1>1 DEF ClockIsCurrent
  <1> QED
    BY <1>4, <1>6, <1>7, <1>8, <1>9 DEF WebhooksInv

LEMMA WebhooksStep ==
    ASSUME WebhooksInv, [Next]_vars
    PROVE  WebhooksInv'
  <1>1. CASE \E h \in Hooks : UserStep(h)
    BY <1>1, CreateHookFits, EditHookFits, HookGoneFits DEF UserStep
  <1>2. CASE \E h \in Hooks : Age(h)
    BY <1>2, AgeFits
  <1>3. CASE \/ \E h \in Hooks : PurgeDeliveries(h)
             \/ \E d \in rows : CleanUp(d) \/ PurgeDelivery(d)
             \/ RetireTeam
    BY <1>3, ForgettingFits
  <1>4. CASE \E h \in Hooks : PurgeHook(h)
    BY <1>4, HookGoneFits
  <1>5. CASE \E m \in Events : Emit(m)
    BY <1>5, EmitFits
  <1>6. CASE \E j \in fanJobs : Fan(j)
    BY <1>6, FanStepFits
  <1>7. CASE \E r \in runs : RunStep(r) \/ Crash(r)
    BY <1>7, AttemptFits, AnsweredFits DEF RunStep
  <1>8. CASE \E d \in rows : Replay(d)
    BY <1>8, ReplayFits
  <1>9. CASE UNCHANGED vars
    <2>1. UNCHANGED <<bornHooks, hooks, hook, place, places, emitted, cursor, done, fanJobs,
                      deliveries, copies, runs, purgeJobs, retired, crashes, posted, taken,
                      replays, owed, moved, interrupted, blamed>>
      BY <1>9 DEF vars, endpoints, outbox, queue, team, seen, history
    <2>2. TypeOK /\ FanFits /\ EachListenerOnce /\ DeliveriesFit /\ ClockIsCurrent /\ OffIsKnown
      BY Parts DEF WebhooksInv
    <2>3. TypeOK' /\ FanFits' /\ EachListenerOnce' /\ ClockIsCurrent'
      BY <2>1, <2>2 DEF TypeOK, FanFits, EachListenerOnce, OneDeliveryUnlessMoved, NobodySkipped,
                        ClockIsCurrent, Fanned, Listens, Enabled
    <2>4. retired' \/ \A d \in rows : ~Enabled(d.hook)' => d \in interrupted'
      BY <2>1, <2>2 DEF OffIsKnown, Enabled
    <2>5. DeliveriesFit'
      BY <2>1, <2>2, <2>4, DeliveriesStay
    <2> QED
      BY <2>3, <2>5 DEF WebhooksInv
  <1> QED
    BY <1>1, <1>2, <1>3, <1>4, <1>5, <1>6, <1>7, <1>8, <1>9 DEF Next

\* However endpoints are edited while pages are read, and whatever attempts die, the
\* fan-out and the attempts fit together (deliverEvent, claimAttempt, record).
THEOREM WebhooksInvariant == Spec => []WebhooksInv
  <1>1. Init => WebhooksInv
    BY WebhooksInit
  <1>2. WebhooksInv /\ [Next]_vars => WebhooksInv'
    BY WebhooksStep
  <1> QED
    BY <1>1, <1>2, PTL DEF Spec

\* The variables always have their types: endpoints without a row have no place in
\* the index, and only deliveries with a row are taken or interrupted.
THEOREM WebhooksTypeCorrect == Spec => []TypeOK
  <1>1. WebhooksInv => TypeOK
    BY DEF WebhooksInv
  <1> QED
    BY <1>1, WebhooksInvariant, PTL

\* deliverEvent: an endpoint that listens from the event's emission to the end of its
\* fan-out gets it, and only one that was subscribed anew in between can get it twice.
THEOREM EachListenerOnceAlways == Spec => []EachListenerOnce
  <1>1. WebhooksInv => EachListenerOnce
    BY DEF WebhooksInv
  <1> QED
    BY <1>1, WebhooksInvariant, PTL

\* claimAttempt, record, attemptDone: no attempt is posted twice, and a delivery that
\* expects one is carried by exactly one run.
THEOREM EachAttemptOnceAlways == Spec => []EachAttemptOnce
  <1>1. WebhooksInv => EachAttemptOnce
    BY DEF WebhooksInv, DeliveriesFit
  <1> QED
    BY <1>1, WebhooksInvariant, PTL

\* record: a delivery shown as successful was taken by its endpoint, and one that is
\* given up had every attempt of the schedule, or a reason not to.
THEOREM VerdictIsEarnedAlways == Spec => []VerdictIsEarned
  <1>1. WebhooksInv => VerdictIsEarned
    BY DEF WebhooksInv, DeliveriesFit
  <1> QED
    BY <1>1, WebhooksInvariant, PTL

\* record, updateWebhook: the five days of an enabled endpoint count from a failure
\* since it was last enabled or last successful.
THEOREM ClockIsCurrentAlways == Spec => []ClockIsCurrent
  <1>1. WebhooksInv => ClockIsCurrent
    BY DEF WebhooksInv
  <1> QED
    BY <1>1, WebhooksInvariant, PTL

=============================================================================
