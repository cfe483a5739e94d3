-------------------------- MODULE IdempotencyProofs --------------------------
(***************************************************************************)
(* Proofs about the idempotency keys, for any requests, hashes and number  *)
(* of windows.                                                             *)
(*                                                                         *)
(* The promise rests on one fact about the row: whoever wrote in this      *)
(* window still holds the reservation, unexpired and with its reply on it  *)
(* (WriterHolds), so nobody else passes the fence before the window ends.  *)
(***************************************************************************)
EXTENDS Idempotency, TLAPS

\* A request writes once, after it reserved and before it answers.
PhaseTells ==
    \A r \in Requests :
        /\ phase[r] \in {"new", "working"} => wrote[r] = 0
        /\ phase[r] = "written" => wrote[r] # 0

NoneAhead == \A r \in Requests : wrote[r] <= window

\* The writer of this window holds the key.
WriterHolds ==
    \A r \in Requests :
        wrote[r] = window => slot.owner = r /\ slot.age # "expired"

\* A reply that says success and still stands is of this window.
SuccessIsCurrent ==
    slot.reply = "success" /\ slot.age # "expired" => wrote[slot.owner] = window

IInv ==
    /\ TypeOK
    /\ OwnReply
    /\ PhaseTells
    /\ NoneAhead
    /\ WriterHolds
    /\ SuccessIsCurrent
-----------------------------------------------------------------------------
\* The initial state satisfies the invariant.
LEMMA InvInit == Init => IInv
  BY IdempotencyAssumption
     DEF Init, IInv, TypeOK, OwnReply, PhaseTells, NoneAhead, WriterHolds,
         SuccessIsCurrent, Slot, Free, Replies, Phase, Reserved

\* No step changes the types (every handler).
LEMMA TypeStep == ASSUME TypeOK, OwnReply, PhaseTells, [Next]_vars PROVE TypeOK'
  <1> USE IdempotencyAssumption DEF TypeOK, Slot, Replies, Phase, Become, Free
  <1>1. ASSUME NEW r \in Requests, BeginConflict(r) PROVE TypeOK'
    BY <1>1 DEF BeginConflict
  <1>2. ASSUME NEW r \in Requests, BeginReplay(r) PROVE TypeOK'
    BY <1>2 DEF BeginReplay, Held, Reserved, OwnReply
  <1>3. ASSUME NEW r \in Requests, BeginReserve(r) PROVE TypeOK'
    BY <1>3 DEF BeginReserve
  <1>4. ASSUME NEW r \in Requests, Write(r) PROVE TypeOK'
    <2>1. slot.owner = r /\ slot' \in Slot /\ slot'.owner = r
      BY <1>4 DEF Write, Fenced
    <2>2. wrote' \in [Requests -> 0..MaxWindows + 1]
      BY <1>4 DEF Write
    <2>3. phase' \in [Requests -> Phase]
      BY <1>4 DEF Write
    <2>4. UNCHANGED <<told, window>>
      BY <1>4 DEF Write
    <2> QED BY <2>1, <2>2, <2>3, <2>4
  <1>5. ASSUME NEW r \in Requests, Refuse(r) PROVE TypeOK'
    BY <1>5 DEF Refuse
  <1>6. ASSUME NEW r \in Requests, Break(r) PROVE TypeOK'
    BY <1>6 DEF Break
  <1>7. ASSUME NEW r \in Requests, Finish(r) PROVE TypeOK'
    <2> DEFINE refused == [slot EXCEPT !.reply = "refusal", !.by = r]
    <2>1. told' \subseteq [to : Requests, by : Requests, window : 1..MaxWindows + 1]
      BY <1>7 DEF Finish, PhaseTells
    <2>2. phase' \in [Requests -> Phase] /\ UNCHANGED <<wrote, window>>
      BY <1>7 DEF Finish
    <2>3. slot \in Slot /\ Free \in Slot /\ refused \in Slot
      <3>1. refused \in Slot
        OBVIOUS
      <3>2. slot \in Slot /\ Free \in Slot
        OBVIOUS
      <3> QED BY <3>1, <3>2
    <2>4. slot' \in {slot, Free, refused}
      BY <1>7 DEF Finish, Settled
    <2>5. slot' = refused /\ slot' # slot => slot.owner = r
      BY <1>7 DEF Finish, Settled, Unanswered
    <2>6. slot.owner = r => refused.owner # NoRequest
      OBVIOUS
    <2>7. slot.owner = NoRequest => slot = Free
      OBVIOUS
    <2> HIDE DEF refused, Slot, Free
    <2>8. slot' \in Slot /\ (slot'.owner = NoRequest => slot' = Free)
      BY <2>3, <2>4, <2>5, <2>6, <2>7
    <2> QED BY <2>1, <2>2, <2>8
  <1>8. ASSUME NEW r \in Requests, Die(r) PROVE TypeOK'
    BY <1>8 DEF Die
  <1>9. CASE Lapse BY <1>9 DEF Lapse, Reserved
  <1>10. CASE Expire BY <1>10 DEF Expire, Reserved
  <1>11. CASE Sweep BY <1>11 DEF Sweep
  <1>12. CASE UNCHANGED vars BY <1>12 DEF vars
  <1> QED
    BY <1>1, <1>2, <1>3, <1>4, <1>5, <1>6, <1>7, <1>8, <1>9, <1>10, <1>11, <1>12 DEF Next
-----------------------------------------------------------------------------
\* What the replies, the phases and the writes say of each other outlives every
\* step (begin, idempotent, finish and the sweep).
LEMMA WritesStep ==
    ASSUME IInv, [Next]_vars
    PROVE  (OwnReply /\ PhaseTells /\ NoneAhead /\ WriterHolds /\ SuccessIsCurrent)'
  <1> DEFINE Goal == (OwnReply /\ PhaseTells /\ NoneAhead /\ WriterHolds /\ SuccessIsCurrent)'
  <1> USE IdempotencyAssumption
      DEF IInv, TypeOK, Slot, Replies, Phase, Become, Free, Reserved,
          OwnReply, PhaseTells, NoneAhead, WriterHolds, SuccessIsCurrent
  <1>1. ASSUME NEW r \in Requests, BeginConflict(r) PROVE Goal
    BY <1>1 DEF BeginConflict
  <1>2. ASSUME NEW r \in Requests, BeginReplay(r) PROVE Goal
    BY <1>2 DEF BeginReplay
  <1>3. ASSUME NEW r \in Requests, BeginReserve(r) PROVE Goal
    BY <1>3 DEF BeginReserve, Held
  <1>4. ASSUME NEW r \in Requests, Write(r) PROVE Goal
    BY <1>4 DEF Write, Fenced
  <1>5. ASSUME NEW r \in Requests, Refuse(r) PROVE Goal
    BY <1>5 DEF Refuse
  <1>6. ASSUME NEW r \in Requests, Break(r) PROVE Goal
    BY <1>6 DEF Break
  <1>7. ASSUME NEW r \in Requests, Finish(r) PROVE Goal
    BY <1>7 DEF Finish, Settled, Unanswered
  <1>8. ASSUME NEW r \in Requests, Die(r) PROVE Goal
    BY <1>8 DEF Die
  <1>9. CASE Lapse
    BY <1>9 DEF Lapse
  <1>10. CASE Expire
    BY <1>10 DEF Expire
  <1>11. CASE Sweep
    BY <1>11 DEF Sweep
  <1>12. CASE UNCHANGED vars
    BY <1>12 DEF vars
  <1> HIDE DEF Goal, IInv, TypeOK, OwnReply, PhaseTells, NoneAhead, WriterHolds, SuccessIsCurrent
  <1> QED
    BY <1>1, <1>2, <1>3, <1>4, <1>5, <1>6, <1>7, <1>8, <1>9, <1>10, <1>11, <1>12 DEF Next, Goal
-----------------------------------------------------------------------------
LEMMA InvStep == IInv /\ [Next]_vars => IInv'
  BY TypeStep, WritesStep DEF IInv

LEMMA Invariant == Spec => []IInv
  BY InvInit, InvStep, PTL DEF Spec

\* Every reachable state is well typed (begin, idempotent, finish).
THEOREM TypeCorrect == Spec => []TypeOK
  BY Invariant, PTL DEF IInv

\* A reservation carries its own request's reply and no other, and says success
\* over a committed write only (finish).
THEOREM OwnReplyAlways == Spec => []OwnReply
  BY Invariant, PTL DEF IInv
-----------------------------------------------------------------------------
LEMMA PromiseInit == Init => Promise!Init
  BY DEF Init, Promise!Init, Commits

\* The write of a request is the commit of its window.
LEMMA WriteCommits ==
    ASSUME IInv, NEW r \in Requests, Write(r)
    PROVE  Promise!Commit(r)
  <1> USE IdempotencyAssumption DEF IInv, TypeOK
  <1>1. \A c \in Commits : c.window # window /\ c.by # r
    BY DEF Write, Fenced, Commits, WriterHolds, PhaseTells, OwnReply, Reserved, Slot
  <1>2. \A s \in Requests : wrote'[s] = IF s = r THEN window ELSE wrote[s]
    BY DEF Write
  <1>3. Commits' = Commits \cup {[by |-> r, window |-> window]}
    <2>1. window # 0 /\ wrote[r] = 0
      BY DEF Write, PhaseTells
    <2> QED BY <1>2, <2>1 DEF Commits
  <1> QED BY <1>1, <1>3 DEF Promise!Commit, Write

\* A request that keeps its write leaves the commits alone.
LEMMA SameCommits == UNCHANGED wrote => UNCHANGED Commits
  BY DEF Commits

\* A client's own answer tells of its own commit.
LEMMA FinishTells ==
    ASSUME IInv, NEW r \in Requests, Finish(r)
    PROVE  Promise!Next \/ UNCHANGED <<Commits, told, window>>
  <1>1. CASE phase[r] = "written"
    <2> DEFINE c == [by |-> r, window |-> wrote[r]]
    <2>1. c \in Commits
      BY <1>1 DEF IInv, PhaseTells, Commits
    <2>2. Promise!Tell(r, c)
      BY <1>1, <2>1, SameCommits DEF Finish, Promise!Tell
    <2> QED BY <2>1, <2>2 DEF Promise!Next
  <1>2. CASE phase[r] # "written"
    BY <1>2, SameCommits DEF Finish
  <1> QED BY <1>1, <1>2

\* A replay tells of the commit its reservation holds.
LEMMA ReplayTells ==
    ASSUME IInv, NEW r \in Requests, BeginReplay(r)
    PROVE  Promise!Next \/ UNCHANGED <<Commits, told, window>>
  <1> USE DEF BeginReplay, Held, Reserved, Replayable
  <1>1. CASE slot.reply = "success"
    <2> DEFINE c == [by |-> slot.owner, window |-> window]
    <2>1. slot.owner \in Requests /\ slot.by = slot.owner
      BY DEF IInv, TypeOK, OwnReply, Slot
    <2>2. wrote[slot.owner] = window /\ window # 0
      BY <1>1 DEF IInv, TypeOK, SuccessIsCurrent
    <2>3. c \in Commits
      BY <2>1, <2>2 DEF Commits
    <2>4. Promise!Tell(r, c)
      BY <1>1, <2>1, <2>3, SameCommits DEF Promise!Tell
    <2> QED BY <2>3, <2>4 DEF Promise!Next
  <1>2. CASE slot.reply # "success"
    BY <1>2, SameCommits
  <1> QED BY <1>1, <1>2

LEMMA PromiseStep == IInv /\ [Next]_vars => [Promise!Next]_(Promise!vars)
  <1> SUFFICES ASSUME IInv, [Next]_vars
               PROVE  Promise!Next \/ UNCHANGED <<Commits, told, window>>
    BY DEF Promise!vars
  <1>1. ASSUME NEW r \in Requests, Write(r)
        PROVE  Promise!Next
    BY <1>1, WriteCommits DEF Promise!Next
  <1>2. ASSUME NEW r \in Requests,
               BeginConflict(r) \/ BeginReserve(r) \/ Refuse(r) \/ Break(r) \/ Die(r)
        PROVE  UNCHANGED <<Commits, told, window>>
    BY <1>2, SameCommits DEF BeginConflict, BeginReserve, Refuse, Break, Die
  <1>3. CASE Lapse \/ Sweep
    BY <1>3, SameCommits DEF Lapse, Sweep
  <1>4. CASE Expire
    BY <1>4, SameCommits DEF Expire, Promise!Next, Promise!NextWindow
  <1>5. CASE UNCHANGED vars
    BY <1>5, SameCommits DEF vars
  <1> QED BY <1>1, <1>2, <1>3, <1>4, <1>5, FinishTells, ReplayTells DEF Next

\* The key keeps its promise for any number of requests, payloads and days: one
\* write a window, and no client told of a success but that write.
THEOREM PromiseKept == Spec => KeepsPromise
  BY PromiseInit, PromiseStep, Invariant, PTL DEF Spec, KeepsPromise, Promise!Spec
=============================================================================
