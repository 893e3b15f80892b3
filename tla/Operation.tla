------------------------------ MODULE Operation ------------------------------
(* What the panel promises of its operations: one at a time.  The lock is up   *)
(* from the request that was accepted to the outcome that was announced, and   *)
(* an operation that vanishes without an outcome leaves it up until a request  *)
(* clears it.  The promise ends where the lock of an operation at work is      *)
(* taken from it, and holds again after the next start of the panel.           *)

CONSTANT Ops  \* operations, each accepted once

VARIABLES
    working,   \* operations at work
    accepted,  \* operations accepted so far
    locked,    \* the panel refuses operations
    disturbed  \* the lock of an operation at work was taken from it

vars == <<working, accepted, locked, disturbed>>

Init ==
    /\ working = {}
    /\ accepted = {}
    /\ locked = FALSE
    /\ disturbed = FALSE

Accept(op) ==
    /\ op \notin accepted
    /\ ~locked /\ working = {}
    /\ working' = {op}
    /\ accepted' = accepted \cup {op}
    /\ locked' = TRUE

Announce(op) ==
    /\ working = {op} /\ locked
    /\ working' = {}
    /\ locked' = FALSE
    /\ UNCHANGED accepted

Vanish(op) ==
    /\ working = {op} /\ locked
    /\ working' = {}
    /\ UNCHANGED <<accepted, locked>>

Clear ==
    /\ working = {} /\ locked
    /\ locked' = FALSE
    /\ UNCHANGED <<working, accepted>>

Keeps ==
    /\ ~disturbed /\ ~disturbed'
    /\ Clear \/ \E op \in Ops : Accept(op) \/ Announce(op) \/ Vanish(op)

Disturb ==
    /\ disturbed'
    /\ working' \subseteq accepted'
    /\ accepted \subseteq accepted'

Start ==
    /\ working' = {}
    /\ locked' = FALSE
    /\ disturbed' = FALSE
    /\ UNCHANGED accepted

Next == Keeps \/ Disturb \/ Start

Spec == Init /\ [][Next]_vars
=============================================================================
