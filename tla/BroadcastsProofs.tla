--------------------------- MODULE BroadcastsProofs ---------------------------
(***************************************************************************)
(* Proofs about a broadcast, for any audience, page size, number of pages  *)
(* a workflow runs, number of sends and number of edits of the audience.   *)
(***************************************************************************)
EXTENDS Broadcasts, FiniteSetTheorems, SequenceTheorems, TLAPS

\* A broadcast that did not start has touched nothing, and one that did never goes back.
BegunInv ==
    /\ row.status \in Unsent \cup {"removed"} => ~row.begun
    /\ row.begun => jobs = {}
    /\ ~row.begun =>
         /\ ~row.done /\ row.cursor = 0
         /\ flows = {} /\ late = {} /\ steady = {}
         /\ \A a \in Addresses : made[a] = 0

\* One start job before the start and one workflow after it carry the broadcast.
CarriedInv ==
    /\ jobs \subseteq {row.generation}
    /\ ~retired =>
         (jobs # {} <=> \/ row.status = "scheduled"
                        \/ row.status = "queued" /\ ~row.begun)
    /\ \A f, g \in flows : f = g
    /\ \A f \in flows : f.result = "none" => f.pages < Pages
    /\ row.status = "queued" /\ row.begun /\ ~row.done /\ ~retired =>
         \E f \in flows : Current(f) /\ f.generation = row.generation

\* Until its end a broadcast knows by its copies whom it made an email for.
CopiesInv ==
    \A a \in Addresses :
        /\ made[a] <= 1
        /\ row.status \notin Ended => (copies[a] = "none" <=> made[a] = 0)

\* The index holds contacts, each once, and those after the cutoff come last.
IndexInv ==
    /\ \A i, j \in 1..Len(rows) : rows[i] = rows[j] => i = j
    /\ \A i \in 1..Len(rows) : rows[i] \in contacts
    /\ \E n \in 0..Len(rows) :
         \A i \in 1..Len(rows) : i <= n <=> (row.segment \/ rows[i] \notin late)

\* Whoever stayed in the audience is before the cursor and has a copy, or after it.
ReachedInv ==
    /\ row.status = "queued" /\ row.begun /\ ~row.done =>
         \A a \in steady :
            /\ a \in contacts \ (unsubscribed \cup late)
            /\ \E i \in 1..Len(rows) : rows[i] = a /\ (i <= row.cursor => made[a] >= 1)
    /\ NobodyMissed

BroadcastsInv ==
    /\ TypeOK
    /\ BegunInv
    /\ CarriedInv
    /\ CopiesInv
    /\ IndexInv
    /\ ReachedInv
    /\ VerdictIsTrue

-----------------------------------------------------------------------------
(***************************************************************************)
(* What the operators do.                                                  *)
(***************************************************************************)
LEMMA Constants ==
    /\ Oldest \in Seq(Addresses) /\ ToSet(Oldest) = Addresses /\ IsInjective(Oldest)
    /\ PageSize \in Nat \ {0} /\ Pages \in Nat \ {0}
    /\ MaxSends \in Nat /\ MaxMoves \in Nat
  BY BroadcastsAssumption

LEMMA MinOfTwo ==
    ASSUME NEW i \in Int, NEW j \in Int
    PROVE  Min({i, j}) \in {i, j} /\ Min({i, j}) <= i /\ Min({i, j}) <= j
  <1>1. \E x \in {i, j} : \A y \in {i, j} : x =< y
    OBVIOUS
  <1> QED
    BY <1>1 DEF Min

\* What RemoveAt leaves: the entries behind move up by one.
LEMMA Removed ==
    ASSUME NEW S, NEW s \in Seq(S), NEW k \in 1..Len(s)
    PROVE  /\ RemoveAt(s, k) \in Seq(S)
           /\ Len(RemoveAt(s, k)) = Len(s) - 1
           /\ \A i \in 1..Len(s) - 1 : RemoveAt(s, k)[i] = IF i < k THEN s[i] ELSE s[i + 1]
  <1> DEFINE a == SubSeq(s, 1, k - 1)
             b == SubSeq(s, k + 1, Len(s))
  <1>1. Len(s) \in Nat /\ \A i \in 1..Len(s) : s[i] \in S
    BY LenProperties, ElementOfSeq
  <1>2. /\ a \in Seq(S) /\ Len(a) = k - 1
        /\ \A i \in 1..k - 1 : a[i] = s[i]
    <2>1. \A i \in 1..k - 1 : s[i] \in S
      BY <1>1
    <2>2. /\ a \in Seq(S)
          /\ Len(a) = IF 1 <= k - 1 THEN k - 1 - 1 + 1 ELSE 0
          /\ \A i \in 1..k - 1 - 1 + 1 : a[i] = s[1 + i - 1]
      BY <1>1, <2>1, SubSeqProperties
    <2> QED
      BY <1>1, <2>2
  <1>3. /\ b \in Seq(S) /\ Len(b) = Len(s) - k
        /\ \A i \in 1..Len(s) - k : b[i] = s[k + i]
    <2>1. \A i \in k + 1..Len(s) : s[i] \in S
      BY <1>1
    <2>2. /\ b \in Seq(S)
          /\ Len(b) = IF k + 1 <= Len(s) THEN Len(s) - (k + 1) + 1 ELSE 0
          /\ \A i \in 1..Len(s) - (k + 1) + 1 : b[i] = s[k + 1 + i - 1]
      BY <1>1, <2>1, SubSeqProperties
    <2> QED
      BY <1>1, <2>2
  <1> HIDE DEF a, b
  <1>4. /\ a \o b \in Seq(S) /\ Len(a \o b) = Len(a) + Len(b)
        /\ \A i \in 1..Len(a) + Len(b) : (a \o b)[i] = IF i <= Len(a) THEN a[i] ELSE b[i - Len(a)]
    BY <1>2, <1>3, ConcatProperties
  <1>5. RemoveAt(s, k) = a \o b
    BY DEF RemoveAt, a, b
  <1>6. ASSUME NEW i \in 1..Len(s) - 1
        PROVE  (a \o b)[i] = IF i < k THEN s[i] ELSE s[i + 1]
    <2>1. CASE i < k
      BY <1>1, <1>2, <1>3, <1>4, <2>1
    <2>2. CASE ~(i < k)
      <3>1. (a \o b)[i] = b[i - (k - 1)] /\ i - (k - 1) \in 1..Len(s) - k
        BY <1>1, <1>2, <1>3, <1>4, <2>2
      <3>2. b[i - (k - 1)] = s[k + (i - (k - 1))] /\ k + (i - (k - 1)) = i + 1
        BY <1>1, <1>3, <3>1
      <3> QED
        BY <2>2, <3>1, <3>2
    <2> QED
      BY <2>1, <2>2
  <1> QED
    BY <1>1, <1>2, <1>3, <1>4, <1>5, <1>6

\* The index range of paging, and whom a page holds.
LEMMA RangeEnds ==
    ASSUME IndexInv
    PROVE  /\ InRange \in 0..Len(rows)
           /\ \A i \in 1..Len(rows) : i <= InRange <=> (row.segment \/ rows[i] \notin late)
  BY DEF IndexInv, InRange

LEMMA PageHolds ==
    ASSUME TypeOK, IndexInv
    PROVE  /\ PageEnd \in Nat
           /\ PageEnd \in {row.cursor + PageSize, InRange}
           /\ PageEnd <= InRange
           /\ \A i \in 1..Len(rows) : row.cursor < i /\ i <= PageEnd => rows[i] \in ToSet(Page)
  <1>1. Len(rows) \in Nat /\ InRange \in 0..Len(rows) /\ row.cursor \in Nat /\ PageSize \in Nat
    BY RangeEnds, LenProperties, Constants DEF TypeOK, Row
  <1>2. /\ PageEnd \in Nat /\ PageEnd \in {row.cursor + PageSize, InRange}
        /\ PageEnd <= InRange
    <2>1. row.cursor + PageSize \in Int /\ InRange \in Int
      BY <1>1
    <2>2. PageEnd \in {row.cursor + PageSize, InRange} /\ PageEnd <= InRange
      BY <2>1, MinOfTwo DEF PageEnd
    <2> QED
      BY <1>1, <2>2
  <1>3. ASSUME NEW i \in 1..Len(rows), row.cursor < i, i <= PageEnd
        PROVE  rows[i] \in ToSet(Page)
    <2> DEFINE m == row.cursor + 1
               k == i - row.cursor
    <2>1. \A j \in m..PageEnd : rows[j] \in Addresses
      BY <1>1, <1>2, ElementOfSeq DEF TypeOK
    <2>2. m \in Int /\ PageEnd \in Int
      BY <1>1, <1>2
    <2>3. /\ Page \in Seq(Addresses)
          /\ Len(Page) = IF m <= PageEnd THEN PageEnd - m + 1 ELSE 0
          /\ \A j \in 1..PageEnd - m + 1 : Page[j] = rows[m + j - 1]
      BY SMTT(30), <2>1, <2>2, SubSeqProperties DEF Page
    <2>4. k \in 1..PageEnd - m + 1 /\ m <= PageEnd /\ m + k - 1 = i
      <3>1. PICK c \in Nat, e \in Nat : c = row.cursor /\ e = PageEnd /\ i \in Nat
        BY <1>1, <1>2
      <3>2. i - c \in 1..e - (c + 1) + 1 /\ c + 1 <= e /\ c + 1 + (i - c) - 1 = i
        BY SMTT(30), <1>3, <3>1
      <3> QED
        BY <3>1, <3>2
    <2>5. Page[k] = rows[i] /\ k \in DOMAIN Page
      <3>1. DOMAIN Page = 1..PageEnd - m + 1
        BY <2>3, <2>4, LenProperties
      <3> QED
        BY <2>3, <2>4, <3>1
    <2> QED
      BY <2>5 DEF ToSet
  <1> QED
    BY <1>2, <1>3

\* finishBroadcast changes the status only, and settles a broadcast that is done.
Pending(cs) == \E a \in Addresses : cs[a] = "pending"

LEMMA Finishes ==
    ASSUME NEW r \in Row, NEW cs
    PROVE  LET f == Finish(r, cs)
           IN  /\ f \in Row
               /\ f.generation = r.generation /\ f.begun = r.begun /\ f.cursor = r.cursor
               /\ f.done = r.done /\ f.flow = r.flow /\ f.segment = r.segment
               /\ f.retained = r.retained
               /\ f.status # r.status => r.status = "queued" /\ r.done /\ f.status \in Ended
               /\ r.status # "queued" => f = r
               /\ f.status = "queued" => ~r.done \/ Pending(cs)
               /\ f.status = "sent" /\ r.status # "sent" =>
                    ~Pending(cs) /\ \A a \in Addresses : cs[a] # "failed"
  <1> DEFINE bad == \E a \in Addresses : cs[a] = "failed"
  <1>1. CASE r.status # "queued" \/ ~r.done \/ Pending(cs)
    <2>1. Finish(r, cs) = r
      BY <1>1 DEF Finish, Pending
    <2>2. r.status = "queued" => ~r.done \/ Pending(cs)
      BY <1>1
    <2> QED
      BY <2>1, <2>2
  <1>2. CASE r.status = "queued" /\ r.done /\ ~Pending(cs)
    <2>1. PICK s \in Ended : s = IF bad THEN "failed" ELSE "sent"
      BY DEF Ended
    <2>2. Finish(r, cs) = [r EXCEPT !.status = s]
      BY <1>2, <2>1 DEF Finish, Pending
    <2>3. s \in Status
      BY DEF Status
    <2> HIDE DEF bad
    <2>4. /\ Finish(r, cs) \in Row
          /\ Finish(r, cs).status = s
          /\ Finish(r, cs).generation = r.generation /\ Finish(r, cs).begun = r.begun
          /\ Finish(r, cs).cursor = r.cursor /\ Finish(r, cs).done = r.done
          /\ Finish(r, cs).flow = r.flow /\ Finish(r, cs).segment = r.segment
          /\ Finish(r, cs).retained = r.retained
      BY <2>2, <2>3 DEF Row
    <2>5. s = "sent" => ~bad
      BY <2>1
    <2>6. s # "queued" /\ r.status = "queued" /\ r.status # "sent" /\ r.done
      BY <1>2 DEF Ended
    <2>7. s = "sent" => ~Pending(cs) /\ \A a \in Addresses : cs[a] # "failed"
      BY <1>2, <2>5 DEF bad
    <2> QED
      BY <2>4, <2>6, <2>7
  <1> QED
    BY <1>1, <1>2 DEF Row

-----------------------------------------------------------------------------
(***************************************************************************)
(* The team: sends, cancels, removals and the edits of the audience.       *)
(***************************************************************************)
\* A step that leaves the audience and its copies alone, and a row that starts nothing.
LEMMA RowOnly ==
    ASSUME BroadcastsInv, row' \in Row, jobs' \subseteq Generation, flows' \subseteq Flow,
           UNCHANGED <<audienceVars, copies, made, steady>>,
           row'.segment = row.segment, row'.begun = row.begun,
           row.status \in Ended => row'.status \in Ended,
           row'.status \in Ended => row.begun,
           ~row.begun => row'.cursor = 0 /\ ~row'.done,
           row.begun => \/ row'.status = row.status /\ row'.done = row.done /\ row'.cursor = row.cursor
                        \/ row'.status \in Ended /\ row'.done = row.done,
           row'.status = "sent" => row.status = "sent" /\ row'.done,
           standing' \in BOOLEAN, retired' \in BOOLEAN,
           BegunInv', CarriedInv'
    PROVE  BroadcastsInv'
  <1>1. TypeOK'
    BY DEF BroadcastsInv, TypeOK, audienceVars
  <1>2. CopiesInv'
    BY DEF BroadcastsInv, CopiesInv
  <1>3. IndexInv'
    BY DEF BroadcastsInv, IndexInv, audienceVars
  <1>4. ReachedInv'
    <2>1. CASE row.begun
      BY <2>1 DEF BroadcastsInv, ReachedInv, NobodyMissed, Ended, audienceVars
    <2>2. CASE ~row.begun
      BY <2>2 DEF BroadcastsInv, ReachedInv, NobodyMissed
    <2> QED
      BY <2>1, <2>2
  <1>5. VerdictIsTrue'
    <2>1. CASE row.begun
      BY <2>1 DEF BroadcastsInv, VerdictIsTrue, Ended
    <2>2. CASE ~row.begun
      BY <2>2 DEF BroadcastsInv, VerdictIsTrue, Ended
    <2> QED
      BY <2>1, <2>2
  <1> QED
    BY <1>1, <1>2, <1>3, <1>4, <1>5 DEF BroadcastsInv

\* What is known of a row: each of its fields has its type.
LEMMA RowTyped ==
    ASSUME BroadcastsInv
    PROVE  /\ row \in Row /\ row.generation \in Generation /\ row.status \in Status
           /\ row.cursor \in Nat /\ row.flow \in Nat /\ row.begun \in BOOLEAN
           /\ row.done \in BOOLEAN /\ row.retained \in BOOLEAN /\ row.segment \in BOOLEAN
           /\ jobs \subseteq {row.generation} /\ flows \subseteq Flow /\ standing \in BOOLEAN /\ retired \in BOOLEAN
  BY DEF BroadcastsInv, TypeOK, Row, CarriedInv

LEMMA SendStep == BroadcastsInv /\ SendBroadcast => BroadcastsInv'
  <1> SUFFICES ASSUME BroadcastsInv, SendBroadcast PROVE BroadcastsInv'
    OBVIOUS
  <1>1. PICK status \in {"queued", "scheduled"} :
          row' = [row EXCEPT !.status = status, !.generation = @ + 1,
                             !.retained = FALSE, !.done = FALSE, !.cursor = 0]
    BY DEF SendBroadcast
  <1>2. /\ row.status \in Unsent /\ ~retired /\ row.generation < MaxSends
        /\ jobs' = (jobs \ {row.generation}) \cup {row.generation + 1}
        /\ UNCHANGED <<flows, audienceVars, standing, retired, copies, made, steady>>
    BY DEF SendBroadcast, Unscheduled
  <1>3. row.generation + 1 \in Generation /\ status \in Status
    <2>1. status \in Status
      BY DEF Status, Unsent
    <2>2. row.generation + 1 \in Generation
      BY <1>2, RowTyped, Constants DEF Generation
    <2> QED
      BY <2>1, <2>2
  <1>4. /\ row' \in Row
        /\ row'.status = status /\ row'.generation = row.generation + 1
        /\ row'.done = FALSE /\ row'.cursor = 0
        /\ row'.segment = row.segment /\ row'.begun = row.begun
    BY <1>1, <1>3, RowTyped DEF Row
  <1>5. jobs' = {row'.generation} /\ ~row.begun /\ flows = {}
    BY <1>2, <1>4, RowTyped DEF BroadcastsInv, BegunInv
  <1>6. BegunInv'
    BY <1>2, <1>4, <1>5 DEF BroadcastsInv, BegunInv, Unsent, audienceVars
  <1>7. CarriedInv'
    BY <1>2, <1>4, <1>5 DEF CarriedInv
  <1> QED
    BY <1>2, <1>3, <1>4, <1>5, <1>6, <1>7, RowTyped, RowOnly DEF Unsent, Ended

LEMMA CancelStep == BroadcastsInv /\ CancelBroadcast => BroadcastsInv'
  <1> SUFFICES ASSUME BroadcastsInv, CancelBroadcast PROVE BroadcastsInv'
    OBVIOUS
  <1>1. /\ Cancelable(row) /\ ~retired /\ row.generation < MaxSends
        /\ row' = [row EXCEPT !.status = "canceled", !.generation = @ + 1]
        /\ jobs' = jobs \ {row.generation}
        /\ UNCHANGED <<flows, audienceVars, standing, retired, copies, made, steady>>
    BY DEF CancelBroadcast, Unscheduled
  <1>2. row.generation + 1 \in Generation /\ "canceled" \in Status
    BY <1>1, RowTyped, Constants DEF Generation, Status, Unsent
  <1>3. /\ row' \in Row
        /\ row'.status = "canceled" /\ row'.generation = row.generation + 1
        /\ row'.done = row.done /\ row'.cursor = row.cursor
        /\ row'.segment = row.segment /\ row'.begun = row.begun
    BY <1>1, <1>2, RowTyped DEF Row
  <1>4. jobs' = {} /\ ~row.begun /\ flows = {} /\ row.status \notin Ended
    BY <1>1, RowTyped DEF BroadcastsInv, BegunInv, Cancelable, Unsent, Ended
  <1>5. BegunInv'
    BY <1>1, <1>3, <1>4 DEF BroadcastsInv, BegunInv, audienceVars
  <1>6. CarriedInv'
    BY <1>1, <1>3, <1>4 DEF CarriedInv
  <1> QED
    BY <1>1, <1>2, <1>3, <1>4, <1>5, <1>6, RowTyped, RowOnly DEF BroadcastsInv, BegunInv, Ended

LEMMA RemoveStep == BroadcastsInv /\ RemoveBroadcast => BroadcastsInv'
  <1> SUFFICES ASSUME BroadcastsInv, RemoveBroadcast PROVE BroadcastsInv'
    OBVIOUS
  <1>1. /\ row.status \in Unsent /\ ~retired
        /\ row' = [row EXCEPT !.status = "removed"]
        /\ jobs' = jobs \ {row.generation}
        /\ UNCHANGED <<flows, audienceVars, standing, retired, copies, made, steady>>
    BY DEF RemoveBroadcast, Unscheduled
  <1>2. "removed" \in Status
    BY DEF Status
  <1>3. /\ row' \in Row
        /\ row'.status = "removed" /\ row'.generation = row.generation
        /\ row'.done = row.done /\ row'.cursor = row.cursor
        /\ row'.segment = row.segment /\ row'.begun = row.begun
    BY <1>1, <1>2, RowTyped DEF Row
  <1>4. jobs' = {} /\ ~row.begun /\ flows = {} /\ row.status \notin Ended
    BY <1>1, RowTyped DEF BroadcastsInv, BegunInv, Unsent, Ended
  <1>5. BegunInv'
    BY <1>1, <1>3, <1>4 DEF BroadcastsInv, BegunInv, audienceVars
  <1>6. CarriedInv'
    BY <1>1, <1>3, <1>4 DEF CarriedInv
  <1> QED
    BY <1>1, <1>3, <1>4, <1>5, <1>6, RowTyped, RowOnly DEF BroadcastsInv, BegunInv, Ended

LEMMA RetireStep == BroadcastsInv /\ (Retire \/ RemoveAudience) => BroadcastsInv'
  <1> SUFFICES ASSUME BroadcastsInv, Retire \/ RemoveAudience PROVE BroadcastsInv'
    OBVIOUS
  <1>1. /\ UNCHANGED <<row, jobs, flows, audienceVars, copies, made, steady>>
        /\ standing' \in BOOLEAN /\ retired' \in BOOLEAN /\ (retired => retired')
    <2>1. CASE Retire
      BY <2>1, RowTyped DEF Retire
    <2>2. CASE RemoveAudience
      BY <2>2, RowTyped DEF RemoveAudience
    <2> QED
      BY <2>1, <2>2
  <1>2. TypeOK'
    BY <1>1 DEF BroadcastsInv, TypeOK, audienceVars
  <1>3. BegunInv' /\ CopiesInv' /\ IndexInv' /\ ReachedInv' /\ VerdictIsTrue'
    BY <1>1 DEF BroadcastsInv, BegunInv, CopiesInv, IndexInv, ReachedInv, NobodyMissed,
                VerdictIsTrue, audienceVars
  <1>4. CarriedInv'
    BY <1>1 DEF BroadcastsInv, CarriedInv, Current
  <1> QED
    BY <1>2, <1>3, <1>4 DEF BroadcastsInv

-----------------------------------------------------------------------------
(***************************************************************************)
(* The workflows.                                                          *)
(***************************************************************************)
LEMMA WithFlowRow ==
    ASSUME NEW r \in Row
    PROVE  LET w == WithFlow(r)
           IN  /\ w \in Row /\ w.flow = r.flow + 1
               /\ w.status = r.status /\ w.generation = r.generation /\ w.begun = r.begun
               /\ w.cursor = r.cursor /\ w.done = r.done /\ w.segment = r.segment
               /\ FlowOf(w) \in Flow
               /\ FlowOf(w).id = w.flow /\ FlowOf(w).generation = w.generation
               /\ FlowOf(w).result = "none" /\ FlowOf(w).pages = 0
  <1>1. r.flow \in Nat /\ r.flow + 1 \in Nat \ {0} /\ 0 \in 0..Pages
    BY Constants DEF Row
  <1> DEFINE w == WithFlow(r)
  <1>2. /\ w \in Row /\ w.flow = r.flow + 1
        /\ w.status = r.status /\ w.generation = r.generation /\ w.begun = r.begun
        /\ w.cursor = r.cursor /\ w.done = r.done /\ w.segment = r.segment
    BY <1>1 DEF WithFlow, Row
  <1>3. w.flow \in Nat \ {0} /\ w.generation \in Generation
    BY <1>1, <1>2 DEF Row
  <1> HIDE DEF w
  <1>4. FlowOf(w) \in Flow /\ FlowOf(w).id = w.flow /\ FlowOf(w).generation = w.generation
        /\ FlowOf(w).result = "none" /\ FlowOf(w).pages = 0
    BY <1>1, <1>3 DEF FlowOf, Flow
  <1> QED
    BY <1>2, <1>4 DEF w

LEMMA StartStep ==
    ASSUME BroadcastsInv, NEW g \in jobs, Start(g)
    PROVE  BroadcastsInv'
  <1>1. /\ g = row.generation /\ jobs' = {} /\ ~row.begun /\ flows = {}
        /\ UNCHANGED <<audienceVars, standing, retired, copies, made>>
    BY RowTyped DEF Start, BroadcastsInv, BegunInv
  <1>2. CASE retired
    <2>1. UNCHANGED <<row, flows, steady>>
      BY <1>2 DEF Start
    <2>2. BegunInv' /\ CarriedInv'
      BY <1>1, <1>2, <2>1 DEF BroadcastsInv, BegunInv, CarriedInv, audienceVars
    <2>3. TypeOK' /\ CopiesInv' /\ IndexInv' /\ ReachedInv' /\ VerdictIsTrue'
      BY <1>1, <2>1 DEF BroadcastsInv, TypeOK, CopiesInv, IndexInv, ReachedInv, NobodyMissed,
                        VerdictIsTrue, audienceVars
    <2> QED
      BY <2>2, <2>3 DEF BroadcastsInv
  <1>3. CASE ~retired
    <2> DEFINE r == [row EXCEPT !.status = "queued", !.begun = TRUE]
    <2>1. row.status \in {"scheduled", "queued"}
      BY <1>1, <1>3 DEF BroadcastsInv, CarriedInv
    <2>2. /\ row' = WithFlow(r) /\ flows' = flows \cup {FlowOf(row')}
          /\ steady' = ToSet(rows) \cap (contacts \ unsubscribed)
      BY <1>1, <1>3, <2>1 DEF Start
    <2>3. /\ r \in Row /\ r.status = "queued" /\ r.begun = TRUE
          /\ r.generation = row.generation /\ r.cursor = row.cursor /\ r.done = row.done
          /\ r.segment = row.segment
      <3>1. "queued" \in Status
        BY DEF Status
      <3> QED
        BY <3>1, RowTyped DEF Row
    <2> HIDE DEF r
    <2>4. /\ row' \in Row /\ row'.status = "queued" /\ row'.begun = TRUE
          /\ row'.generation = row.generation /\ row'.cursor = 0 /\ row'.done = FALSE
          /\ row'.segment = row.segment
          /\ FlowOf(row') \in Flow
          /\ FlowOf(row').id = row'.flow /\ FlowOf(row').generation = row'.generation
          /\ FlowOf(row').result = "none" /\ FlowOf(row').pages = 0
      BY <1>1, <2>2, <2>3, WithFlowRow DEF BroadcastsInv, BegunInv
    <2>5. flows' = {FlowOf(row')} /\ late = {}
      BY <1>1, <2>2 DEF BroadcastsInv, BegunInv
    <2>6. TypeOK'
      BY <1>1, <2>2, <2>4, <2>5 DEF BroadcastsInv, TypeOK, audienceVars
    <2>7. BegunInv'
      BY <1>1, <2>4 DEF BegunInv, Unsent
    <2>8. CarriedInv'
      BY <1>1, <2>4, <2>5, Constants DEF CarriedInv, Current
    <2>9. CopiesInv' /\ IndexInv'
      BY <1>1, <2>1, <2>4 DEF BroadcastsInv, CopiesInv, IndexInv, Ended, audienceVars
    <2>10. ReachedInv'
      <3>1. ASSUME NEW a \in steady'
            PROVE  /\ a \in contacts' \ (unsubscribed' \cup late')
                   /\ \E i \in 1..Len(rows') : rows'[i] = a /\ (i <= row'.cursor => made'[a] >= 1)
        <4>1. PICK i \in DOMAIN rows : rows[i] = a
          BY <2>2 DEF ToSet
        <4>2. i \in 1..Len(rows)
          BY <4>1, LenProperties DEF BroadcastsInv, TypeOK
        <4> QED
          BY <1>1, <2>2, <2>4, <2>5, <4>1, <4>2 DEF audienceVars
      <3> QED
        BY <2>4, <3>1 DEF ReachedInv, NobodyMissed
    <2>11. VerdictIsTrue'
      BY <2>4 DEF VerdictIsTrue
    <2> QED
      BY <2>6, <2>7, <2>8, <2>9, <2>10, <2>11 DEF BroadcastsInv
  <1> QED
    BY <1>2, <1>3

\* A workflow that goes on or ends stays the one workflow of its broadcast.
LEMMA FlowStep ==
    ASSUME BroadcastsInv, NEW f \in flows, NEW h \in Flow, flows' = (flows \ {f}) \cup {h},
           h.id = f.id, h.generation = f.generation, h.result = "none" => h.pages < Pages,
           UNCHANGED <<row, jobs, audienceVars, standing, retired, copies, made, steady>>
    PROVE  BroadcastsInv'
  <1>1. flows' = {h} /\ row.begun
    BY DEF BroadcastsInv, CarriedInv, BegunInv
  <1>2. BegunInv'
    BY <1>1 DEF BroadcastsInv, BegunInv
  <1>3. CarriedInv'
    BY <1>1 DEF BroadcastsInv, CarriedInv, Current
  <1>4. row.status = "sent" => row.done
    BY DEF BroadcastsInv, VerdictIsTrue
  <1> QED
    BY <1>1, <1>2, <1>3, <1>4, RowTyped, RowOnly DEF BroadcastsInv, TypeOK

LEMMA FlowStopsStep ==
    ASSUME BroadcastsInv, NEW f \in flows, BatchStops(f) \/ FlowFails(f)
    PROVE  BroadcastsInv'
  <1>1. PICK result \in {"success", "failed"} :
          /\ flows' = (flows \ {f}) \cup {[f EXCEPT !.result = result]}
          /\ UNCHANGED <<row, jobs, audienceVars, standing, retired, copies, made, steady>>
    BY DEF BatchStops, FlowFails, Ends
  <1>2. f \in Flow
    BY RowTyped
  <1>3. PICK h : h = [f EXCEPT !.result = result]
    OBVIOUS
  <1>4. h \in Flow /\ h.id = f.id /\ h.generation = f.generation /\ h.result # "none"
    BY <1>2, <1>3 DEF Flow
  <1> QED
    BY <1>1, <1>3, <1>4, FlowStep

\* completed: another workflow takes over, the broadcast fails, or all is over.
LEMMA CompletedStep ==
    ASSUME BroadcastsInv, NEW f \in flows, Completed(f)
    PROVE  BroadcastsInv'
  <1>1. /\ f.result # "none" /\ f.result \in {"success", "failed"} /\ row.begun /\ flows = {f}
        /\ UNCHANGED <<jobs, audienceVars, standing, retired, copies, made, steady>>
        /\ row.status = "sent" => row.done
    BY RowTyped DEF Completed, BroadcastsInv, CarriedInv, BegunInv, VerdictIsTrue, Flow
  <1>2. CASE Renewed(f)
    <2>1. row' = WithFlow(row) /\ flows' = {FlowOf(row')}
      BY <1>1, <1>2 DEF Completed
    <2>2. /\ row' \in Row /\ row'.status = row.status /\ row'.begun = row.begun
          /\ row'.generation = row.generation /\ row'.cursor = row.cursor /\ row'.done = row.done
          /\ row'.segment = row.segment
          /\ FlowOf(row') \in Flow
          /\ FlowOf(row').id = row'.flow /\ FlowOf(row').generation = row'.generation
          /\ FlowOf(row').result = "none" /\ FlowOf(row').pages = 0
      BY <2>1, RowTyped, WithFlowRow
    <2>3. BegunInv'
      BY <1>1, <2>2 DEF BroadcastsInv, BegunInv
    <2>4. CarriedInv'
      BY <1>1, <2>1, <2>2, Constants DEF BroadcastsInv, CarriedInv, Current
    <2> QED
      BY <1>1, <2>1, <2>2, <2>3, <2>4, RowTyped, RowOnly DEF BroadcastsInv, TypeOK
  <1>3. CASE /\ ~Renewed(f)
             /\ Current(f) /\ f.result = "failed" /\ row.status = "queued"
             /\ row.generation = f.generation
    <2>1. row' = [row EXCEPT !.status = "failed"] /\ flows' = {}
      BY <1>1, <1>3 DEF Completed
    <2>2. /\ row' \in Row /\ row'.status = "failed" /\ row'.begun = row.begun
          /\ row'.generation = row.generation /\ row'.cursor = row.cursor /\ row'.done = row.done
          /\ row'.segment = row.segment
      <3>1. "failed" \in Status
        BY DEF Status, Ended
      <3> QED
        BY <2>1, <3>1, RowTyped DEF Row
    <2>3. BegunInv'
      BY <1>1, <2>2 DEF BroadcastsInv, BegunInv, Unsent
    <2>4. CarriedInv'
      BY <1>1, <2>1, <2>2 DEF BroadcastsInv, CarriedInv, BegunInv
    <2> QED
      BY <1>1, <2>1, <2>2, <2>3, <2>4, RowTyped, RowOnly DEF BroadcastsInv, TypeOK, Ended
  <1>4. CASE /\ ~Renewed(f)
             /\ ~(/\ Current(f) /\ f.result = "failed" /\ row.status = "queued"
                  /\ row.generation = f.generation)
    <2>1. row' = row /\ flows' = {}
      BY <1>1, <1>4 DEF Completed
    <2>2. BegunInv'
      BY <1>1, <2>1 DEF BroadcastsInv, BegunInv
    <2>3. ~(row.status = "queued" /\ row.begun /\ ~row.done /\ ~retired)
      BY <1>1, <1>4 DEF BroadcastsInv, CarriedInv, Renewed
    <2>4. CarriedInv'
      BY <1>1, <2>1, <2>3 DEF BroadcastsInv, CarriedInv
    <2> QED
      BY <1>1, <2>1, <2>2, <2>4, RowTyped, RowOnly DEF BroadcastsInv, TypeOK
  <1> QED
    BY <1>2, <1>3, <1>4

-----------------------------------------------------------------------------
(***************************************************************************)
(* The pages and the copies.                                               *)
(***************************************************************************)
\* A page leaves nobody of the audience behind the cursor without a copy.
LEMMA BatchStep ==
    ASSUME BroadcastsInv, NEW f \in flows, Batch(f)
    PROVE  BroadcastsInv'
  <1>1. /\ f.result = "none" /\ ~Over(f) /\ row.begun /\ flows = {f}
        /\ UNCHANGED <<jobs, audienceVars, standing, retired, steady>>
    BY DEF Batch, BroadcastsInv, CarriedInv, BegunInv
  <1>2. row.status = "queued" /\ ~row.done /\ ~retired /\ row.generation = f.generation
    BY <1>1 DEF Over
  <1>3. /\ PageEnd \in Nat /\ PageEnd \in {row.cursor + PageSize, InRange} /\ PageEnd <= InRange
        /\ \A i \in 1..Len(rows) : row.cursor < i /\ i <= PageEnd => rows[i] \in ToSet(Page)
        /\ InRange \in 0..Len(rows)
        /\ \A i \in 1..Len(rows) : i <= InRange <=> (row.segment \/ rows[i] \notin late)
    BY PageHolds, RangeEnds DEF BroadcastsInv
  <1>4. PICK new : /\ new = Uncopied(Recipients)
                   /\ copies' = [a \in Addresses |-> IF a \in new THEN "pending" ELSE copies[a]]
                   /\ made' = [a \in Addresses |-> IF a \in new THEN made[a] + 1 ELSE made[a]]
    BY DEF Batch
  <1>5. PICK done \in PageIsDone :
          /\ row' = Paged(row, done, copies')
          /\ IF done THEN Ends(f, "success") ELSE PageOn(f)
    BY DEF Batch, BatchDone
  <1>6. done \in BOOLEAN /\ (done => InRange - row.cursor - PageSize <= 0)
    <2>1. InRange - row.cursor - PageSize \in Int
      BY <1>3, RowTyped, Constants
    <2> QED
      BY <1>5, <2>1 DEF PageIsDone
  <1>7. \A a \in Addresses :
          /\ made'[a] \in Nat /\ made[a] \in Nat
          /\ copies'[a] \in Copy
          /\ a \in new => /\ copies[a] = "none" /\ copies'[a] = "pending"
                          /\ made[a] = 0 /\ made'[a] = 1
          /\ a \notin new => copies'[a] = copies[a] /\ made'[a] = made[a]
    BY <1>2, <1>4 DEF Uncopied, BroadcastsInv, TypeOK, CopiesInv, Copy, Ended
  <1>8. /\ copies' \in [Addresses -> Copy] /\ made' \in [Addresses -> Nat]
    BY <1>4, <1>7
  <1>9. \A a \in Addresses : made[a] <= 1 /\ (copies[a] = "none" <=> made[a] = 0)
    BY <1>2 DEF BroadcastsInv, CopiesInv, Ended
  <1>10. \A a \in Addresses : made'[a] <= 1 /\ (copies'[a] = "none" <=> made'[a] = 0)
    BY <1>7, <1>9
  <1>11. /\ row' \in Row
         /\ row'.generation = row.generation /\ row'.begun = row.begun /\ row'.flow = row.flow
         /\ row'.segment = row.segment /\ row'.cursor = PageEnd /\ row'.done = done
         /\ row'.status \in {"queued"} \cup Ended
         /\ ~done => row'.status = "queued"
         /\ done /\ row'.status = "queued" => Pending(copies')
         /\ row'.status = "sent" =>
              done /\ ~Pending(copies') /\ \A a \in Addresses : copies'[a] # "failed"
    <2> DEFINE r == [row EXCEPT !.done = done, !.cursor = PageEnd]
    <2>1. /\ r \in Row /\ r.generation = row.generation /\ r.begun = row.begun
          /\ r.flow = row.flow /\ r.segment = row.segment /\ r.cursor = PageEnd
          /\ r.done = done /\ r.status = "queued"
      BY <1>2, <1>3, <1>6, RowTyped DEF Row
    <2>2. row' = IF done THEN Finish(r, copies') ELSE r
      BY <1>5 DEF Paged
    <2> HIDE DEF r
    <2>3. CASE done
      <3>1. row' = Finish(r, copies')
        BY <2>2, <2>3
      <3> QED
        BY <2>1, <2>3, <3>1, Finishes
    <2>4. CASE ~done
      BY <2>1, <2>2, <2>4
    <2> QED
      BY <2>3, <2>4
  <1>12. PICK h \in Flow : flows' = {h} /\ h.id = f.id /\ h.generation = f.generation
                           /\ (h.result = "none" => h.pages < Pages)
    <2>1. f \in Flow /\ f.pages \in 0..Pages /\ f.pages < Pages
      BY <1>1, RowTyped DEF BroadcastsInv, CarriedInv, Flow
    <2>2. CASE done
      <3> DEFINE h == [f EXCEPT !.result = "success"]
      <3>1. flows' = {h}
        BY <1>1, <1>5, <2>2 DEF Ends
      <3>2. h \in Flow /\ h.id = f.id /\ h.generation = f.generation /\ h.result = "success"
        BY <2>1 DEF Flow
      <3> QED
        BY <3>1, <3>2
    <2>3. CASE ~done
      <3>1. PICK result \in {"success", "none"} :
              result = IF f.pages + 1 = Pages THEN "success" ELSE "none"
        OBVIOUS
      <3> DEFINE h == [f EXCEPT !.pages = @ + 1, !.result = result]
      <3>2. flows' = {h}
        BY <1>1, <1>5, <2>3, <3>1 DEF PageOn
      <3>3. f.pages + 1 \in 0..Pages /\ (result = "none" => f.pages + 1 < Pages)
        BY <2>1, <3>1, Constants
      <3>4. /\ h \in Flow /\ h.id = f.id /\ h.generation = f.generation
            /\ h.result = result /\ h.pages = f.pages + 1
        BY <2>1, <3>3 DEF Flow
      <3> QED
        BY <3>2, <3>3, <3>4
    <2> QED
      BY <2>2, <2>3
  <1>13. TypeOK'
    BY <1>1, <1>8, <1>11, <1>12 DEF BroadcastsInv, TypeOK, audienceVars
  <1>14. BegunInv'
    BY <1>1, <1>11 DEF BroadcastsInv, BegunInv, Unsent, Ended
  <1>15. CarriedInv'
    <2>1. f.id = row.flow
      BY <1>1, <1>2 DEF BroadcastsInv, CarriedInv, Current
    <2>2. jobs = {} /\ row'.status # "scheduled"
      BY <1>1, <1>11 DEF BroadcastsInv, BegunInv, Ended
    <2> QED
      BY <1>1, <1>2, <1>11, <1>12, <2>1, <2>2 DEF CarriedInv, Current
  <1>16. CopiesInv'
    BY <1>10 DEF CopiesInv
  <1>17. IndexInv'
    BY <1>1, <1>11 DEF BroadcastsInv, IndexInv, audienceVars
  <1>18. ASSUME NEW a \in steady'
         PROVE  /\ a \in contacts' \ (unsubscribed' \cup late')
                /\ \E i \in 1..Len(rows') : rows'[i] = a /\ (i <= row'.cursor => made'[a] >= 1)
                /\ done => made'[a] >= 1
    <2>1. /\ a \in steady /\ a \in Addresses /\ Eligible(a) /\ a \notin late
          /\ UNCHANGED <<rows, contacts, unsubscribed, late>>
      BY <1>1, <1>2 DEF BroadcastsInv, ReachedInv, Eligible, TypeOK, audienceVars
    <2>2. PICK i \in 1..Len(rows) : rows[i] = a /\ (i <= row.cursor => made[a] >= 1)
      BY <1>1, <1>2, <2>1 DEF BroadcastsInv, ReachedInv
    <2>3. ASSUME i <= PageEnd PROVE made'[a] >= 1
      <3>1. CASE i <= row.cursor
        BY <1>7, <2>1, <2>2, <3>1
      <3>2. CASE row.cursor < i
        <4>1. a \in Recipients
          BY <1>3, <2>1, <2>2, <2>3, <3>2 DEF Recipients
        <4>2. a \in new \/ copies[a] # "none"
          BY <1>4, <4>1 DEF Uncopied
        <4> QED
          BY <1>7, <1>9, <2>1, <4>2
      <3> QED
        BY <2>2, <3>1, <3>2, RowTyped
    <2>4. done => i <= PageEnd
      BY <1>3, <1>6, <2>1, <2>2, RowTyped, Constants
    <2> QED
      BY <1>11, <2>1, <2>2, <2>3, <2>4 DEF Eligible
  <1>19. ReachedInv'
    BY <1>11, <1>18 DEF ReachedInv, NobodyMissed
  <1>20. VerdictIsTrue'
    BY <1>11 DEF VerdictIsTrue, Pending
  <1> QED
    BY <1>13, <1>14, <1>15, <1>16, <1>17, <1>19, <1>20 DEF BroadcastsInv

LEMMA SettleStep ==
    ASSUME BroadcastsInv, NEW a \in Addresses, Settle(a)
    PROVE  BroadcastsInv'
  <1>1. PICK outcome \in {"settled", "failed"} : copies' = [copies EXCEPT ![a] = outcome]
    BY DEF Settle
  <1>2. /\ copies[a] = "pending" /\ row' = Finish(row, copies')
        /\ UNCHANGED <<jobs, flows, audienceVars, standing, retired, made, steady>>
    BY DEF Settle
  <1>3. /\ copies' \in [Addresses -> Copy] /\ copies'[a] # "none"
        /\ \A b \in Addresses : b # a => copies'[b] = copies[b]
    BY <1>1 DEF BroadcastsInv, TypeOK, Copy
  <1>4. /\ row' \in Row
        /\ row'.generation = row.generation /\ row'.begun = row.begun /\ row'.flow = row.flow
        /\ row'.segment = row.segment /\ row'.cursor = row.cursor /\ row'.done = row.done
        /\ row'.status # row.status => row.status = "queued" /\ row.done /\ row'.status \in Ended
        /\ row'.status = "queued" => ~row.done \/ Pending(copies')
        /\ row'.status = "sent" /\ row.status # "sent" =>
             ~Pending(copies') /\ \A b \in Addresses : copies'[b] # "failed"
    BY <1>2, RowTyped, Finishes
  <1>5. row.done => row.begun
    BY DEF BroadcastsInv, BegunInv
  <1>6. TypeOK'
    BY <1>2, <1>3, <1>4 DEF BroadcastsInv, TypeOK, audienceVars
  <1>7. BegunInv'
    BY <1>2, <1>4, <1>5 DEF BroadcastsInv, BegunInv, Unsent, Ended, audienceVars
  <1>8. CarriedInv'
    <2>1. row'.status # row.status => jobs = {} /\ row'.status \notin {"queued", "scheduled"}
      BY <1>4, <1>5 DEF BroadcastsInv, BegunInv, Ended
    <2> QED
      BY <1>2, <1>4, <1>5, <2>1 DEF BroadcastsInv, CarriedInv, Current
  <1>9. CopiesInv'
    <2>1. row'.status \notin Ended => row.status \notin Ended
      BY <1>4 DEF Ended
    <2> QED
      BY <1>2, <1>3, <2>1 DEF BroadcastsInv, CopiesInv
  <1>10. IndexInv'
    BY <1>2, <1>4 DEF BroadcastsInv, IndexInv, audienceVars
  <1>11. ReachedInv'
    <2>1. row'.status = "queued" => row.status = "queued"
      BY <1>4
    <2> QED
      BY <1>2, <1>4, <2>1 DEF BroadcastsInv, ReachedInv, NobodyMissed, audienceVars
  <1>12. VerdictIsTrue'
    <2>1. row.status # "sent"
      BY <1>2 DEF BroadcastsInv, VerdictIsTrue
    <2>2. row'.status = "sent" => row.done
      BY <1>4, <2>1
    <2> QED
      BY <1>4, <2>1, <2>2 DEF VerdictIsTrue, Pending
  <1> QED
    BY <1>6, <1>7, <1>8, <1>9, <1>10, <1>11, <1>12 DEF BroadcastsInv

LEMMA RetainStep == BroadcastsInv /\ Retain => BroadcastsInv'
  <1> SUFFICES ASSUME BroadcastsInv, Retain PROVE BroadcastsInv'
    OBVIOUS
  <1>1. /\ row.status \in Ended \cup {"canceled"}
        /\ row' = [row EXCEPT !.retained = TRUE]
        /\ copies' = [a \in Addresses |-> "none"]
        /\ UNCHANGED <<jobs, flows, audienceVars, standing, retired, made, steady>>
    BY DEF Retain
  <1>2. /\ row' \in Row /\ row'.status = row.status
        /\ row'.generation = row.generation /\ row'.begun = row.begun /\ row'.flow = row.flow
        /\ row'.segment = row.segment /\ row'.cursor = row.cursor /\ row'.done = row.done
    BY <1>1, RowTyped DEF Row
  <1>3. /\ copies' \in [Addresses -> Copy] /\ \A a \in Addresses : copies'[a] = "none"
        /\ row.status # "queued"
    BY <1>1 DEF Copy, Ended
  <1>4. TypeOK'
    BY <1>1, <1>2, <1>3 DEF BroadcastsInv, TypeOK, audienceVars
  <1>5. BegunInv' /\ IndexInv'
    BY <1>1, <1>2 DEF BroadcastsInv, BegunInv, IndexInv, audienceVars
  <1>6. CarriedInv'
    BY <1>1, <1>2 DEF BroadcastsInv, CarriedInv, Current
  <1>7. CopiesInv'
    <2>1. row.status \notin Ended => \A a \in Addresses : made[a] = 0
      BY <1>1 DEF BroadcastsInv, BegunInv, Unsent
    <2> QED
      BY <1>1, <1>2, <1>3, <2>1 DEF BroadcastsInv, CopiesInv
  <1>8. ReachedInv' /\ VerdictIsTrue'
    BY <1>1, <1>2, <1>3 DEF BroadcastsInv, ReachedInv, NobodyMissed, VerdictIsTrue
  <1> QED
    BY <1>4, <1>5, <1>6, <1>7, <1>8 DEF BroadcastsInv

-----------------------------------------------------------------------------
(***************************************************************************)
(* The edits of the audience while it is read.                             *)
(***************************************************************************)
Reaches(b) == \E i \in 1..Len(rows) : rows[i] = b /\ (i <= row.cursor => made[b] >= 1)

LEMMA EditFrame ==
    ASSUME BroadcastsInv, Edit, row' \in Row,
           row'.status = row.status, row'.generation = row.generation, row'.begun = row.begun,
           row'.done = row.done, row'.flow = row.flow, row'.segment = row.segment,
           rows' \in Seq(Addresses), contacts' \subseteq Addresses,
           unsubscribed' \subseteq contacts', late' \subseteq contacts', steady' \subseteq contacts',
           IndexInv',
           \A b \in steady' : b \notin unsubscribed' \cup late' /\ Reaches(b)'
    PROVE  BroadcastsInv'
  <1>1. /\ row.status = "queued" /\ row.begun /\ ~row.done
        /\ moves' \in 0..MaxMoves
        /\ UNCHANGED <<jobs, flows, standing, retired, copies, made>>
    <2>1. moves \in 0..MaxMoves /\ MaxMoves \in Nat
      BY Constants DEF BroadcastsInv, TypeOK
    <2> QED
      BY <2>1 DEF Edit
  <1>2. TypeOK'
    BY <1>1 DEF BroadcastsInv, TypeOK
  <1>3. BegunInv'
    BY <1>1 DEF BroadcastsInv, BegunInv
  <1>4. CarriedInv'
    BY <1>1 DEF BroadcastsInv, CarriedInv, Current
  <1>5. CopiesInv' /\ VerdictIsTrue'
    BY <1>1 DEF BroadcastsInv, CopiesInv, VerdictIsTrue
  <1>6. ReachedInv'
    BY <1>1 DEF ReachedInv, NobodyMissed, Reaches
  <1> QED
    BY <1>2, <1>3, <1>4, <1>5, <1>6 DEF BroadcastsInv

\* What is known while the audience is edited.
LEMMA Editing ==
    ASSUME BroadcastsInv, Edit
    PROVE  /\ \A b \in steady : b \in contacts \ (unsubscribed \cup late) /\ Reaches(b)
           /\ rows \in Seq(Addresses) /\ Len(rows) \in Nat
           /\ \A i \in 1..Len(rows) : rows[i] \in contacts /\ rows[i] \in Addresses
           /\ \A i, j \in 1..Len(rows) : rows[i] = rows[j] => i = j
           /\ contacts \subseteq Addresses /\ unsubscribed \subseteq contacts
           /\ late \subseteq contacts /\ steady \subseteq contacts
           /\ made' = made
           /\ \A b : b \in ToSet(rows) <=> \E i \in 1..Len(rows) : rows[i] = b
  <1>1. rows \in Seq(Addresses) /\ Len(rows) \in Nat /\ DOMAIN rows = 1..Len(rows)
        /\ \A i \in 1..Len(rows) : rows[i] \in Addresses
    BY LenProperties, ElementOfSeq DEF BroadcastsInv, TypeOK
  <1> QED
    BY <1>1 DEF BroadcastsInv, TypeOK, IndexInv, ReachedInv, Reaches, Edit, ToSet

\* An entry leaves the index: who is before the cursor stays before it.
LEMMA Drops ==
    ASSUME BroadcastsInv, Edit, NEW a \in Addresses, DropRow(a),
           late' \in {late, late \ {a}},
           contacts' \in {contacts, contacts \ {a}},
           contacts' = contacts => late' = late
    PROVE  /\ row' \in Row
           /\ row'.status = row.status /\ row'.generation = row.generation /\ row'.begun = row.begun
           /\ row'.done = row.done /\ row'.flow = row.flow /\ row'.segment = row.segment
           /\ rows' \in Seq(Addresses)
           /\ IndexInv'
           /\ \A b : b # a /\ Reaches(b) => Reaches(b)'
  <1>1. PICK n \in 0..Len(rows) :
          \A i \in 1..Len(rows) : i <= n <=> (row.segment \/ rows[i] \notin late)
    BY DEF BroadcastsInv, IndexInv
  <1>2. CASE a \notin ToSet(rows)
    <2>1. /\ row' = row /\ rows' = rows /\ made' = made
          /\ \A i \in 1..Len(rows) : rows[i] # a /\ rows[i] \in contacts
      BY <1>2, Editing DEF DropRow
    <2>2. \A i \in 1..Len(rows') : i <= n <=> (row'.segment \/ rows'[i] \notin late')
      BY <1>1, <2>1
    <2>3. IndexInv'
      BY <1>1, <2>1, <2>2, Editing DEF IndexInv
    <2> QED
      BY <2>1, <2>3, RowTyped, Editing DEF Reaches
  <1>3. CASE a \in ToSet(rows)
    <2> DEFINE at == CHOOSE i \in DOMAIN rows : rows[i] = a
    <2>1. at \in 1..Len(rows) /\ rows[at] = a
      <3>1. \E i \in DOMAIN rows : rows[i] = a
        BY <1>3 DEF ToSet
      <3>2. DOMAIN rows = 1..Len(rows)
        BY Editing, LenProperties
      <3> QED
        BY <3>1, <3>2
    <2>2. /\ rows' = RemoveAt(rows, at)
          /\ row' = [row EXCEPT !.cursor = IF at <= @ THEN @ - 1 ELSE @]
      BY <1>3 DEF DropRow
    <2>3. PICK k \in 1..Len(rows) : k = at
      BY <2>1
    <2> HIDE DEF at
    <2>4. PICK c \in Nat : c = IF k <= row.cursor THEN row.cursor - 1 ELSE row.cursor
      BY RowTyped
    <2>5. row' = [row EXCEPT !.cursor = c]
      BY <2>2, <2>3, <2>4
    <2>6. /\ row' \in Row /\ row'.cursor = c
          /\ row'.status = row.status /\ row'.generation = row.generation /\ row'.begun = row.begun
          /\ row'.done = row.done /\ row'.flow = row.flow /\ row'.segment = row.segment
      BY <2>5, RowTyped DEF Row
    <2>7. /\ rows' \in Seq(Addresses)
          /\ Len(rows') = Len(rows) - 1 /\ Len(rows) \in Nat
          /\ \A i \in 1..Len(rows) - 1 : rows'[i] = IF i < k THEN rows[i] ELSE rows[i + 1]
      BY <2>2, <2>3, Removed, Editing
    <2> DEFINE old(i) == IF i < k THEN i ELSE i + 1
    <2>8. \A i \in 1..Len(rows') : /\ old(i) \in 1..Len(rows) /\ old(i) # k
                                   /\ rows'[i] = rows[old(i)]
                                   /\ rows'[i] # a /\ rows'[i] \in contacts
      <3> TAKE i \in 1..Len(rows')
      <3>1. old(i) \in 1..Len(rows) /\ old(i) # k /\ rows'[i] = rows[old(i)]
        BY <2>7
      <3> QED
        BY <2>1, <2>3, <3>1, Editing
    <2>9. \A i, j \in 1..Len(rows') : rows'[i] = rows'[j] => i = j
      <3> TAKE i, j \in 1..Len(rows')
      <3>1. rows'[i] = rows'[j] => old(i) = old(j)
        BY SMTT(30), <2>8, Editing
      <3>2. old(i) = old(j) => i = j
        BY <2>7
      <3> QED
        BY <3>1, <3>2
    <2>10. \E m \in 0..Len(rows') :
             \A i \in 1..Len(rows') : i <= m <=> (row'.segment \/ rows'[i] \notin late')
      <3> DEFINE m == IF k <= n THEN n - 1 ELSE n
      <3>1. m \in 0..Len(rows')
        BY <1>1, <2>7
      <3>2. ASSUME NEW i \in 1..Len(rows')
            PROVE  i <= m <=> (row'.segment \/ rows'[i] \notin late')
        <4>1. old(i) <= n <=> (row.segment \/ rows[old(i)] \notin late)
          BY <1>1, <2>8
        <4>2. i <= m <=> old(i) <= n
          BY <1>1, <2>7
        <4>3. rows'[i] \in late' <=> rows[old(i)] \in late
          BY <2>8
        <4> QED
          BY <2>6, <2>8, <4>1, <4>2, <4>3
      <3> QED
        BY <3>1, <3>2
    <2>11. IndexInv'
      <3>1. \A i \in 1..Len(rows') : rows'[i] \in contacts'
        BY <2>8
      <3> QED
        BY <2>9, <2>10, <3>1 DEF IndexInv
    <2>12. ASSUME NEW b, b # a, Reaches(b) PROVE Reaches(b)'
      <3>1. PICK j \in 1..Len(rows) : rows[j] = b /\ (j <= row.cursor => made[b] >= 1)
        BY <2>12 DEF Reaches
      <3>2. j # k
        BY <2>1, <2>3, <2>12, <3>1
      <3> DEFINE i == IF j < k THEN j ELSE j - 1
      <3>3. i \in 1..Len(rows) - 1 /\ old(i) = j /\ (i <= c => j <= row.cursor)
        BY <2>4, <2>7, <3>2, RowTyped
      <3> HIDE DEF i
      <3>4. rows'[i] = b /\ i \in 1..Len(rows')
        BY <2>7, <2>8, <3>1, <3>3
      <3>5. made' = made
        BY Editing
      <3> QED
        BY <2>6, <3>1, <3>3, <3>4, <3>5 DEF Reaches
    <2> QED
      BY <2>6, <2>7, <2>11, <2>12
  <1> QED
    BY <1>2, <1>3

LEMMA RemoveContactStep ==
    ASSUME BroadcastsInv, NEW a \in Addresses, RemoveContact(a)
    PROVE  BroadcastsInv'
  <1>1. /\ Edit /\ DropRow(a)
        /\ contacts' = contacts \ {a} /\ unsubscribed' = unsubscribed \ {a}
        /\ late' = late \ {a} /\ steady' = steady \ {a} /\ a \in contacts
    BY DEF RemoveContact, OptOutsWithout
  <1>2. /\ row' \in Row
        /\ row'.status = row.status /\ row'.generation = row.generation /\ row'.begun = row.begun
        /\ row'.done = row.done /\ row'.flow = row.flow /\ row'.segment = row.segment
        /\ rows' \in Seq(Addresses) /\ IndexInv'
        /\ \A b : b # a /\ Reaches(b) => Reaches(b)'
    BY <1>1, Drops
  <1> QED
    BY <1>1, <1>2, Editing, EditFrame

LEMMA RemoveMemberStep ==
    ASSUME BroadcastsInv, NEW a \in Addresses, RemoveMember(a)
    PROVE  BroadcastsInv'
  <1>1. /\ Edit /\ DropRow(a) /\ steady' = steady \ {a}
        /\ UNCHANGED <<contacts, unsubscribed, late>>
    BY DEF RemoveMember
  <1>2. /\ row' \in Row
        /\ row'.status = row.status /\ row'.generation = row.generation /\ row'.begun = row.begun
        /\ row'.done = row.done /\ row'.flow = row.flow /\ row'.segment = row.segment
        /\ rows' \in Seq(Addresses) /\ IndexInv'
        /\ \A b : b # a /\ Reaches(b) => Reaches(b)'
    BY <1>1, Drops
  <1> QED
    BY <1>1, <1>2, Editing, EditFrame

\* Whoever joins the index joins it at its end.
LEMMA Joins ==
    ASSUME BroadcastsInv, Edit, NEW a \in Addresses, rows' = Append(rows, a), row' = row,
           \A i \in 1..Len(rows) : rows[i] # a,
           a \in contacts', contacts \subseteq contacts',
           late' \in {late, late \cup {a}}, row.segment \/ a \in late'
    PROVE  rows' \in Seq(Addresses) /\ IndexInv' /\ \A b : Reaches(b) => Reaches(b)'
  <1>1. /\ rows' \in Seq(Addresses) /\ Len(rows') = Len(rows) + 1 /\ Len(rows) \in Nat
        /\ rows'[Len(rows) + 1] = a
        /\ \A i \in 1..Len(rows) : rows'[i] = rows[i] /\ rows[i] # a
    BY Editing
  <1>2. PICK n \in 0..Len(rows) :
          \A i \in 1..Len(rows) : i <= n <=> (row.segment \/ rows[i] \notin late)
    BY DEF BroadcastsInv, IndexInv
  <1>3. \A i, j \in 1..Len(rows') : rows'[i] = rows'[j] => i = j
    BY <1>1, Editing
  <1>4. \A i \in 1..Len(rows') : rows'[i] \in contacts'
    BY <1>1, Editing
  <1>5. \E m \in 0..Len(rows') :
          \A i \in 1..Len(rows') : i <= m <=> (row'.segment \/ rows'[i] \notin late')
    <2>1. CASE row.segment
      <3>1. Len(rows') \in 0..Len(rows')
        BY <1>1
      <3>2. \A i \in 1..Len(rows') : i <= Len(rows') <=> (row'.segment \/ rows'[i] \notin late')
        BY <1>1, <2>1
      <3> QED
        BY <3>1, <3>2
    <2>2. CASE ~row.segment
      <3>1. n \in 0..Len(rows')
        BY <1>1
      <3>2. ASSUME NEW i \in 1..Len(rows')
            PROVE  i <= n <=> (row'.segment \/ rows'[i] \notin late')
        BY <1>1, <1>2, <2>2
      <3> QED
        BY <3>1, <3>2
    <2> QED
      BY <2>1, <2>2
  <1>6. ASSUME NEW b, Reaches(b) PROVE Reaches(b)'
    BY <1>1, <1>6, Editing DEF Reaches
  <1> QED
    BY <1>1, <1>3, <1>4, <1>5, <1>6 DEF IndexInv

LEMMA AddContactStep ==
    ASSUME BroadcastsInv, NEW a \in Addresses, AddContact(a)
    PROVE  BroadcastsInv'
  <1>1. /\ Edit /\ a \notin contacts
        /\ contacts' = contacts \cup {a} /\ late' = late \cup {a}
        /\ rows' = IF row.segment THEN rows ELSE Append(rows, a)
        /\ UNCHANGED <<row, unsubscribed, steady>>
    BY DEF AddContact
  <1>2. \A i \in 1..Len(rows) : rows[i] # a
    BY <1>1, Editing
  <1>3. rows' \in Seq(Addresses) /\ IndexInv' /\ \A b : Reaches(b) => Reaches(b)'
    <2>1. CASE row.segment
      BY <1>1, <2>1, Editing DEF BroadcastsInv, IndexInv, Reaches
    <2>2. CASE ~row.segment
      BY <1>1, <1>2, <2>2, Joins
    <2> QED
      BY <2>1, <2>2
  <1> QED
    BY <1>1, <1>3, Editing, EditFrame, RowTyped

LEMMA AddMemberStep ==
    ASSUME BroadcastsInv, NEW a \in Addresses, AddMember(a)
    PROVE  BroadcastsInv'
  <1>1. /\ Edit /\ row.segment /\ a \in contacts \ ToSet(rows)
        /\ rows' = Append(rows, a)
        /\ UNCHANGED <<row, contacts, unsubscribed, late, steady>>
    BY DEF AddMember
  <1>2. rows' \in Seq(Addresses) /\ IndexInv' /\ \A b : Reaches(b) => Reaches(b)'
    BY <1>1, Editing, Joins
  <1> QED
    BY <1>1, <1>2, Editing, EditFrame, RowTyped

LEMMA OptStep ==
    ASSUME BroadcastsInv, NEW a \in Addresses, Unsubscribe(a) \/ Resubscribe(a)
    PROVE  BroadcastsInv'
  <1>1. /\ Edit /\ UNCHANGED <<row, rows, contacts, late>>
        /\ unsubscribed' \subseteq contacts /\ steady' \subseteq steady
        /\ \A b \in steady' : b \notin unsubscribed'
    BY DEF Unsubscribe, Resubscribe, BroadcastsInv, TypeOK, ReachedInv, Edit
  <1>2. IndexInv' /\ \A b : Reaches(b) => Reaches(b)'
    BY <1>1, Editing DEF BroadcastsInv, IndexInv, Reaches
  <1> QED
    BY <1>1, <1>2, Editing, EditFrame, RowTyped

-----------------------------------------------------------------------------
(***************************************************************************)
(* The invariant, and what follows from it.                                *)
(***************************************************************************)
LEMMA InitInv == Init => BroadcastsInv
  <1> SUFFICES ASSUME Init PROVE BroadcastsInv
    OBVIOUS
  <1>1. /\ row \in Row /\ row.status = "draft" /\ row.generation = 0 /\ row.begun = FALSE
        /\ row.cursor = 0 /\ row.done = FALSE
    <2>1. "draft" \in Status /\ 0 \in Generation
      BY Constants DEF Status, Unsent, Generation
    <2>2. PICK s \in BOOLEAN :
            row = [status |-> "draft", generation |-> 0, begun |-> FALSE, cursor |-> 0,
                   done |-> FALSE, flow |-> 0, retained |-> FALSE, segment |-> s]
      BY DEF Init
    <2> QED
      BY <2>1, <2>2 DEF Row
  <1>2. /\ rows = Oldest /\ rows \in Seq(Addresses) /\ Len(rows) \in Nat
        /\ DOMAIN rows = 1..Len(rows)
        /\ \A i \in 1..Len(rows) : rows[i] \in Addresses
    BY Constants, LenProperties, ElementOfSeq DEF Init
  <1>3. TypeOK
    <2>1. 0 \in 0..MaxMoves /\ 0 \in Generation
      BY Constants DEF Generation
    <2> QED
      BY <1>1, <1>2, <2>1 DEF Init, TypeOK, Copy
  <1>4. BegunInv /\ CarriedInv /\ CopiesInv /\ ReachedInv /\ VerdictIsTrue
    BY <1>1 DEF Init, BegunInv, CarriedInv, CopiesInv, ReachedInv, NobodyMissed, VerdictIsTrue, Unsent
  <1>5. IndexInv
    <2>1. \A i, j \in 1..Len(rows) : rows[i] = rows[j] => i = j
      BY <1>2, Constants DEF IsInjective
    <2>2. \A i \in 1..Len(rows) : i <= Len(rows) <=> (row.segment \/ rows[i] \notin late)
      BY <1>2 DEF Init
    <2>3. Len(rows) \in 0..Len(rows) /\ \A i \in 1..Len(rows) : rows[i] \in contacts
      BY <1>2 DEF Init
    <2> QED
      BY <2>1, <2>2, <2>3 DEF IndexInv
  <1> QED
    BY <1>3, <1>4, <1>5 DEF BroadcastsInv

LEMMA StepInv == BroadcastsInv /\ [Next]_vars => BroadcastsInv'
  <1> SUFFICES ASSUME BroadcastsInv, [Next]_vars PROVE BroadcastsInv'
    OBVIOUS
  <1>1. ASSUME SendBroadcast \/ CancelBroadcast \/ RemoveBroadcast \/ RemoveAudience \/ Retire
        PROVE  BroadcastsInv'
    BY <1>1, SendStep, CancelStep, RemoveStep, RetireStep
  <1>2. ASSUME NEW a \in Addresses,
               \/ AddContact(a) \/ RemoveContact(a) \/ AddMember(a)
               \/ RemoveMember(a) \/ Unsubscribe(a) \/ Resubscribe(a)
        PROVE  BroadcastsInv'
    BY <1>2, AddContactStep, RemoveContactStep, AddMemberStep, RemoveMemberStep, OptStep
  <1>3. ASSUME NEW g \in jobs, Start(g) PROVE BroadcastsInv'
    BY <1>3, StartStep
  <1>4. ASSUME NEW f \in flows, BatchStops(f) \/ Batch(f) \/ FlowFails(f) \/ Completed(f)
        PROVE  BroadcastsInv'
    BY <1>4, FlowStopsStep, BatchStep, CompletedStep
  <1>5. ASSUME NEW a \in Addresses, Settle(a) PROVE BroadcastsInv'
    BY <1>5, SettleStep
  <1>6. ASSUME Retain PROVE BroadcastsInv'
    BY <1>6, RetainStep
  <1>7. CASE Next
    BY <1>1, <1>2, <1>3, <1>4, <1>5, <1>6, <1>7 DEF Next, Team, Backend
  <1>8. CASE UNCHANGED vars
    BY <1>8 DEF vars, audienceVars, BroadcastsInv, TypeOK, BegunInv, CarriedInv, Current, CopiesInv,
                IndexInv, ReachedInv, NobodyMissed, VerdictIsTrue
  <1> QED
    BY <1>7, <1>8

\* Every reachable state of a broadcast, its jobs, workflows, audience and copies.
THEOREM InvariantAlways == Spec => []BroadcastsInv
  BY InitInv, StepInv, PTL DEF Spec

\* The row, the jobs, the workflows and the audience keep their types, a workflow never
\* runs past its journal, and only contacts are in the audience.
THEOREM TypeCorrect == Spec => []TypeOK
  <1>1. BroadcastsInv => TypeOK
    BY DEF BroadcastsInv
  <1> QED
    BY <1>1, InvariantAlways, PTL

\* A broadcast that is sent reaches its audience, each of it once, and one that is not
\* reaches nobody, whatever joins, leaves and returns while it is paged (batch,
\* recipientPage, cancelBroadcast).
THEOREM AudienceReachedAlways == Spec => []AudienceReached
  <1>1. ASSUME BroadcastsInv PROVE AudienceReached
    <2>1. OneCopy
      BY <1>1 DEF BroadcastsInv, CopiesInv, OneCopy
    <2>2. NobodyMissed
      BY <1>1 DEF BroadcastsInv, ReachedInv
    <2>3. UnsentReachNobody
      BY <1>1 DEF BroadcastsInv, BegunInv, UnsentReachNobody
    <2> QED
      BY <2>1, <2>2, <2>3 DEF AudienceReached, EachOneCopy
  <1> QED
    BY <1>1, InvariantAlways, PTL

\* A broadcast is "sent" only when all of its audience is settled without a failure, and
\* none is left in its queue by whichever of batch and broadcastMetric comes last.
THEOREM VerdictIsTrueAlways == Spec => []VerdictIsTrue
  <1>1. BroadcastsInv => VerdictIsTrue
    BY DEF BroadcastsInv
  <1> QED
    BY <1>1, InvariantAlways, PTL

\* One start job, then one workflow, carries a broadcast, and nothing else works on it
\* (sendBroadcast, cancelBroadcast, start, completed).
THEOREM CarriedOnceAlways == Spec => []CarriedOnce
  <1>1. ASSUME BroadcastsInv PROVE CarriedOnce
    <2>1. Cardinality(flows) <= 1
      <3>1. CASE flows = {}
        BY <3>1, FS_EmptySet
      <3>2. CASE flows # {}
        <4>1. PICK f : flows = {f}
          <5>1. PICK f : f \in flows
            BY <3>2
          <5>2. \A g \in flows : g = f
            BY <1>1, <5>1 DEF BroadcastsInv, CarriedInv
          <5>3. flows = {f}
            BY <5>1, <5>2
          <5> QED
            BY <5>3
        <4>2. Cardinality({f}) = 1
          BY FS_Singleton
        <4> QED
          BY <4>1, <4>2
      <3> QED
        BY <3>1, <3>2
    <2> QED
      BY <1>1, <2>1 DEF BroadcastsInv, CarriedInv, CarriedOnce
  <1> QED
    BY <1>1, InvariantAlways, PTL

=============================================================================
