---------------------------- MODULE RateRegister ----------------------------
(***************************************************************************)
(* What pages may count on of the EUR rate they show, whatever caches it:  *)
(* a rate once shown, or reported as stored by a refresh, is never         *)
(* followed by an older one, and none is shown long after it was replaced. *)
(* Rates are numbered in the order they were stored; 0 is a missing one.   *)
(***************************************************************************)
EXTENDS Integers

CONSTANTS
    Readers,       \* requests that show the rate
    Lag,           \* how long a rate may still be shown after its successor
    MaxRates       \* bound on the rates

VARIABLES
    now,
    rate,          \* the last one stored
    replaced,      \* when each one before it was replaced
    floor,         \* no older one is shown any more
    answer,        \* the last rate each request was given
    reported       \* the last one a refresh reported

vars == <<now, rate, replaced, floor, answer, reported>>

Recent(v) == v = rate \/ now <= replaced[v] + Lag

Init ==
    /\ now = 1
    /\ rate \in 0 .. MaxRates
    /\ replaced = [v \in 0 .. MaxRates |-> 0]
    /\ floor = rate
    /\ answer = [r \in Readers |-> 0]
    /\ reported = 0

Time ==
    /\ now' = now + 1
    /\ floor' \in floor .. rate
    /\ UNCHANGED <<rate, replaced, answer, reported>>

Replace ==
    /\ rate < MaxRates
    /\ rate' = rate + 1
    /\ replaced' = [replaced EXCEPT ![rate] = now]
    /\ floor' \in floor .. rate'
    /\ UNCHANGED <<now, answer, reported>>

Report ==
    /\ reported' = rate
    /\ floor' = rate
    /\ UNCHANGED <<now, rate, replaced, answer>>

Read(r) == \E v \in floor .. rate :
    /\ Recent(v)
    /\ answer' = [answer EXCEPT ![r] = v]
    /\ floor' \in v .. rate
    /\ UNCHANGED <<now, rate, replaced, reported>>

Forget ==
    /\ floor' \in floor .. rate
    /\ UNCHANGED <<now, rate, replaced, answer, reported>>

Next == Time \/ Replace \/ Report \/ Forget \/ \E r \in Readers : Read(r)

Spec == Init /\ [][Next]_vars
=============================================================================
