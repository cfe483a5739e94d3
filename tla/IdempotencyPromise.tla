-------------------------- MODULE IdempotencyPromise --------------------------
(***************************************************************************)
(* What the REST API promises of one Idempotency-Key (docs/rest-api.md):   *)
(* "The same key and body within 24 hours replays the first response; a    *)
(* different body is a 409".  One request writes in each window of 24      *)
(* hours, and a client is told of no success but that write, and only if   *)
(* it asked for the very same.  How reservations, leases and stored        *)
(* replies bring that about is no part of the promise.                     *)
(***************************************************************************)
EXTENDS Integers

CONSTANTS
    Requests,
    Hash,           \* Hash[r] is the hash of method, path and payload of r
    MaxWindows      \* bound: windows that end

VARIABLES
    commits,    \* the writes, each with its window
    told,       \* the successes clients were told of
    window

vars == <<commits, told, window>>

Init ==
    /\ commits = {}
    /\ told = {}
    /\ window = 1

\* The write of a window.
Commit(r) ==
    /\ \A c \in commits : c.window # window /\ c.by # r
    /\ commits' = commits \cup {[by |-> r, window |-> window]}
    /\ UNCHANGED <<told, window>>

\* A client is told of a write it asked for, by its own answer or by a replay.
Tell(r, c) ==
    /\ c \in commits
    /\ Hash[r] = Hash[c.by]
    /\ told' = told \cup {[to |-> r, by |-> c.by, window |-> c.window]}
    /\ UNCHANGED <<commits, window>>

\* 24 hours pass.
NextWindow ==
    /\ window <= MaxWindows
    /\ window' = window + 1
    /\ UNCHANGED <<commits, told>>

Next ==
    \/ \E r \in Requests : Commit(r)
    \/ \E r \in Requests : \E c \in commits : Tell(r, c)
    \/ NextWindow

Spec == Init /\ [][Next]_vars
=============================================================================
