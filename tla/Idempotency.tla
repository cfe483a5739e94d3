---------------------------- MODULE Idempotency ----------------------------
(***************************************************************************)
(* POST requests under one Idempotency-Key of one team: begin and finish   *)
(* of src/convex/api/state.ts, the fence and the stored reply of           *)
(* api/idempotency.ts, and dispatch of api/route.ts that calls them.       *)
(*                                                                         *)
(* A request reserves the key in one transaction, writes its resource in a *)
(* second, is logged in a third and answers its client last; it may die    *)
(* between any two, while its client's next request is already there.      *)
(* A request reserves at most once, so a reservation is named by it.       *)
(***************************************************************************)
EXTENDS Integers

CONSTANTS
    Requests,
    Hash,           \* Hash[r] is the hash of method, path and payload of r
    NoRequest,      \* no request
    MaxWindows      \* bound: reservations of the key that expire

ASSUME IdempotencyAssumption ==
    /\ NoRequest \notin Requests
    /\ DOMAIN Hash = Requests
    /\ MaxWindows \in Nat

VARIABLES
    slot,       \* the apiIdempotency row of the key
    phase,      \* what each request did last
    wrote,      \* history: the window in which a request's write committed
    told,       \* history: whose success each client was answered
    window      \* windows of 24 hours so far

vars == <<slot, phase, wrote, told, window>>

Replies == {"none", "success", "refusal"}

\* owner NoRequest stands for no row.  Its age says which of its two times,
\* 60 seconds and 24 hours, have passed; a reply is always the owner's, who is
\* named all the same.
Slot == [owner : Requests \cup {NoRequest}, age : {"fresh", "stale", "expired"},
         reply : Replies, by : Requests \cup {NoRequest}]

Free == [owner |-> NoRequest, age |-> "fresh", reply |-> "none", by |-> NoRequest]

\* working: reserved; written: committed; refused: a status below 500, with
\* nothing committed; broken: 500 and above; finished: answered; dead: never.
Phase == {"new", "working", "written", "refused", "broken", "finished", "dead"}

TypeOK ==
    /\ slot \in Slot
    /\ slot.owner = NoRequest => slot = Free
    /\ phase \in [Requests -> Phase]
    /\ wrote \in [Requests -> 0..MaxWindows + 1]
    /\ told \subseteq [to : Requests, by : Requests, window : 1..MaxWindows + 1]
    /\ window \in 1..MaxWindows + 1

Init ==
    /\ slot = Free
    /\ phase = [r \in Requests |-> "new"]
    /\ wrote = [r \in Requests |-> 0]
    /\ told = {}
    /\ window = 1

Become(r, p) == phase' = [phase EXCEPT ![r] = p]
-----------------------------------------------------------------------------
Reserved == slot.owner # NoRequest

\* begin: the reservation stands, by its reply or by its lease.
Held ==
    /\ Reserved
    /\ slot.age # "expired"
    /\ slot.reply # "none" \/ slot.age = "fresh"

\* begin refuses: another payload, or no reply yet.
BeginConflict(r) ==
    /\ phase[r] = "new"
    /\ Held
    /\ Hash[slot.owner] # Hash[r] \/ slot.reply = "none"
    /\ Become(r, "finished")
    /\ UNCHANGED <<slot, wrote, told, window>>

\* Mutant of Replayable: the hash of the request is not looked at.
ReplayableAny(r) == slot.reply # "none"

Replayable(r) == slot.reply # "none" /\ Hash[slot.owner] = Hash[r]

\* begin replays the stored reply.
BeginReplay(r) ==
    /\ phase[r] = "new"
    /\ Held
    /\ Replayable(r)
    /\ told' = IF slot.reply = "success"
               THEN told \cup {[to |-> r, by |-> slot.by, window |-> window]}
               ELSE told
    /\ Become(r, "finished")
    /\ UNCHANGED <<slot, wrote, window>>

\* begin reserves the key, in place of what is no longer held.
BeginReserve(r) ==
    /\ phase[r] = "new"
    /\ ~Held
    /\ slot' = [Free EXCEPT !.owner = r]
    /\ Become(r, "working")
    /\ UNCHANGED <<wrote, told, window>>
-----------------------------------------------------------------------------
\* Mutant of Fenced: an expired reservation that is still there will do.
FencedUnexpired(r) == slot.owner # r \/ slot.reply # "none"

\* idempotent: the request's reservation is gone, has expired or is answered.
Fenced(r) ==
    \/ slot.owner # r
    \/ slot.age = "expired"
    \/ slot.reply # "none"

\* idempotent: the write and its reply commit together.
Write(r) ==
    /\ phase[r] = "working"
    /\ ~Fenced(r)
    /\ wrote' = [wrote EXCEPT ![r] = window]
    /\ slot' = [slot EXCEPT !.reply = "success", !.by = r]
    /\ Become(r, "written")
    /\ UNCHANGED <<told, window>>

\* A fenced write, and any other refusal the handler throws: nothing commits.
Refuse(r) ==
    /\ phase[r] = "working"
    /\ Become(r, "refused")
    /\ UNCHANGED <<slot, wrote, told, window>>

\* The handler fails with a status of 500 and above, before or after its write.
Break(r) ==
    /\ phase[r] \in {"working", "written"}
    /\ Become(r, "broken")
    /\ UNCHANGED <<slot, wrote, told, window>>

\* Mutant of Unanswered: finish looks the reservation up by its key.
UnansweredAnyones(r) == Reserved /\ slot.reply = "none"

\* Mutant of Unanswered: a reservation that is gone is written all the same.
UnansweredGone(r) == slot.owner \in {r, NoRequest} /\ slot.reply = "none"

\* finish: the request's own reservation, without a reply.
Unanswered(r) == slot.owner = r /\ slot.reply = "none"

\* finish: what becomes of the reservation.
Settled(r) ==
    IF ~Unanswered(r) THEN slot
    ELSE IF phase[r] = "broken" THEN Free
    ELSE [slot EXCEPT !.reply = "refusal", !.by = r]

\* dispatch answers; a finish that fails is logged and ignored.
Finish(r) ==
    /\ phase[r] \in {"written", "refused", "broken"}
    /\ \E logged \in BOOLEAN : slot' = IF logged THEN Settled(r) ELSE slot
    /\ told' = IF phase[r] = "written"
               THEN told \cup {[to |-> r, by |-> r, window |-> wrote[r]]}
               ELSE told
    /\ Become(r, "finished")
    /\ UNCHANGED <<wrote, window>>

\* The HTTP action dies: its client hears nothing.
Die(r) ==
    /\ phase[r] \in {"working", "written", "refused", "broken"}
    /\ Become(r, "dead")
    /\ UNCHANGED <<slot, wrote, told, window>>
-----------------------------------------------------------------------------
\* IDEMPOTENCY_STALE and IDEMPOTENCY_WINDOW pass.
Lapse ==
    /\ Reserved
    /\ slot.age = "fresh"
    /\ slot' = [slot EXCEPT !.age = "stale"]
    /\ UNCHANGED <<phase, wrote, told, window>>

Expire ==
    /\ Reserved
    /\ slot.age = "stale"
    /\ window <= MaxWindows
    /\ slot' = [slot EXCEPT !.age = "expired"]
    /\ window' = window + 1
    /\ UNCHANGED <<phase, wrote, told>>

\* expireIdempotency.
Sweep ==
    /\ Reserved
    /\ slot.age = "expired"
    /\ slot' = Free
    /\ UNCHANGED <<phase, wrote, told, window>>

Next ==
    \/ \E r \in Requests :
         \/ BeginConflict(r)
         \/ BeginReplay(r)
         \/ BeginReserve(r)
         \/ Write(r)
         \/ Refuse(r)
         \/ Break(r)
         \/ Finish(r)
         \/ Die(r)
    \/ Lapse
    \/ Expire
    \/ Sweep

Spec == Init /\ [][Next]_vars
-----------------------------------------------------------------------------
\* The writes, as the promise has them.
Commits == {[by |-> r, window |-> wrote[r]] : r \in {s \in Requests : wrote[s] # 0}}

Promise == INSTANCE IdempotencyPromise WITH commits <- Commits

\* However many requests under one key overlap, die, lose their log line or come
\* back after their lease was taken over, they write once in 24 hours, and every
\* client told of a success is told of that write and asked for it: the key
\* implements its promise (docs/rest-api.md; begin, idempotent, finish).
KeepsPromise == Promise!Spec

\* A reservation carries no reply but its own request's, and one that says
\* success only over a write that committed: a request that was overtaken leaves
\* its successor's reservation alone (finish).
OwnReply ==
    /\ slot.reply # "none" => slot.by = slot.owner
    /\ slot.reply = "success" <=> Reserved /\ wrote[slot.owner] # 0
=============================================================================
