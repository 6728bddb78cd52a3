---------------------------- MODULE RateLimiter ----------------------------
(***************************************************************************)
(* The in-memory sliding-window rate limiter of routes/rate_limit.go.  A   *)
(* request is subject to several rules, one for each of its keys: the      *)
(* client address, the submitted user name or e-mail address.  allow       *)
(* checks and records all of them under one lock, but its time was read    *)
(* before the lock was taken, so requests may be served out of the order   *)
(* of their times.                                                         *)
(***************************************************************************)
EXTENDS Integers, Sequences, FiniteSetsExt

CONSTANTS
    Keys,               \* rate limit keys
    RuleSets,           \* sets of keys requests are checked against
    Limit, Window,      \* of each key
    MaxWindow,          \* cleanup drops what is older; one hour
    CleanupInterval,
    ResetKeys,          \* keys a successful sign-in clears
    Callers,           \* requests that are served at the same time
    Delay,              \* longest time between reading the clock and allow
    MaxTime             \* the clock stops here

ASSUME RulesAssumption ==
    /\ RuleSets \subseteq SUBSET Keys
    /\ Limit \in [Keys -> Nat \ {0}]
    /\ Window \in [Keys -> 1..MaxWindow]
    /\ ResetKeys \subseteq Keys
ASSUME TimesAssumption ==
    /\ MaxWindow \in Nat \ {0}
    /\ CleanupInterval \in Nat \ {0}
    /\ Delay \in 0..(MaxWindow - 1)
    /\ MaxTime \in Nat

VARIABLES
    clock,
    arrived,       \* requests on their way to allow, with the time they read
    attempts,      \* limiter.attempts, <<>> where there is no entry
    nextCleanup,   \* limiter.nextCleanup
    granted,       \* history: all stamps of a key since it was last reset
    told           \* history: when refused requests were told to come back

limiterVars == <<clock, arrived, attempts, nextCleanup, granted, told>>

Nobody == [stamp |-> -1, keys |-> {}]
Never == -1

-----------------------------------------------------------------------------
(* pruneRateLimitAttempts drops the leading stamps that are not after the  *)
(* cutoff.                                                                 *)

FirstCurrent(s, cutoff) ==
    CHOOSE i \in 1..(Len(s) + 1) :
        /\ \A j \in 1..(i - 1) : s[j] <= cutoff
        /\ i <= Len(s) => s[i] > cutoff

PrunedBefore(s, cutoff) ==   \* a mutant: keeps a stamp at the cutoff
    SelectSeq(s, LAMBDA t : t >= cutoff)

Pruned(s, cutoff) == SubSeq(s, FirstCurrent(s, cutoff), Len(s))

NeverSwept(now) == attempts   \* a mutant: no cleanup

SweptEarly(now) ==   \* a mutant: drops what is older than the interval
    IF now < nextCleanup THEN attempts
    ELSE [k \in Keys |-> Pruned(attempts[k], now - CleanupInterval)]

(* cleanup, when it is due.                                                *)
Swept(now) ==
    IF now < nextCleanup THEN attempts
    ELSE [k \in Keys |-> Pruned(attempts[k], now - MaxWindow)]

(* The attempts once allow has pruned them by its rules, and the keys that *)
(* have used up their limit.                                               *)
Current(now, keys) ==
    [k \in Keys |-> IF k \in keys THEN Pruned(Swept(now)[k], now - Window[k])
                                  ELSE Swept(now)[k]]

FullAbove(now, keys) ==   \* a mutant: > for >=
    {k \in keys : Len(Current(now, keys)[k]) > Limit[k]}

Full(now, keys) == {k \in keys : Len(Current(now, keys)[k]) >= Limit[k]}

RetryAt(now, keys) ==
    Max({Current(now, keys)[k][1] + Window[k] : k \in Full(now, keys)})

-----------------------------------------------------------------------------
(* rateLimitMiddleware reads the time and the form, then calls allow.      *)
Arrive(r, keys) ==
    /\ arrived[r] = Nobody
    /\ arrived' = [arrived EXCEPT ![r] = [stamp |-> clock, keys |-> keys]]
    /\ UNCHANGED <<clock, attempts, nextCleanup, granted, told>>

(* What allow does before it decides.                                      *)
Serve(r) ==
    /\ arrived[r] # Nobody
    /\ arrived' = [arrived EXCEPT ![r] = Nobody]
    /\ nextCleanup' = IF arrived[r].stamp < nextCleanup THEN nextCleanup
                      ELSE arrived[r].stamp + CleanupInterval
    /\ UNCHANGED clock

Allow(r) ==
    LET now  == arrived[r].stamp
        keys == arrived[r].keys
    IN /\ Serve(r)
       /\ Full(now, keys) = {}
       /\ attempts' = [k \in Keys |->
                         IF k \in keys THEN Append(Current(now, keys)[k], now)
                                       ELSE Current(now, keys)[k]]
       /\ granted' = [k \in Keys |->
                        IF k \in keys THEN Append(granted[k], now) ELSE granted[k]]
       /\ told' = [K \in RuleSets |-> IF K \cap keys = {} THEN told[K] ELSE Never]

Refuse(r) ==
    LET now  == arrived[r].stamp
        keys == arrived[r].keys
    IN /\ Serve(r)
       /\ Full(now, keys) # {}
       /\ attempts' = Current(now, keys)
       /\ told' = [told EXCEPT ![keys] =
                     IF @ = Never THEN RetryAt(now, keys)
                     ELSE Min({@, RetryAt(now, keys)})]
       /\ UNCHANGED granted

(* A sign-in that was allowed succeeds.                                    *)
Reset(k) ==
    /\ granted[k] # <<>>
    /\ attempts' = [attempts EXCEPT ![k] = <<>>]
    /\ granted' = [granted EXCEPT ![k] = <<>>]
    /\ UNCHANGED <<clock, arrived, nextCleanup, told>>

Tick ==
    /\ clock < MaxTime
    /\ \A r \in Callers :
          arrived[r] # Nobody => clock < arrived[r].stamp + Delay
    /\ clock' = clock + 1
    /\ UNCHANGED <<arrived, attempts, nextCleanup, granted, told>>

InitLimiter ==
    /\ clock = 0
    /\ arrived = [r \in Callers |-> Nobody]
    /\ attempts = [k \in Keys |-> <<>>]
    /\ nextCleanup = 0
    /\ granted = [k \in Keys |-> <<>>]
    /\ told = [K \in RuleSets |-> Never]

NextLimiter ==
    \/ \E r \in Callers :
          \/ \E keys \in RuleSets : Arrive(r, keys)
          \/ Allow(r)
          \/ Refuse(r)
    \/ \E k \in ResetKeys : Reset(k)
    \/ Tick

SpecLimiter == InitLimiter /\ [][NextLimiter]_limiterVars

-----------------------------------------------------------------------------
(* Types; no key ever has more stamps in the limiter than its limit.       *)
LimiterTypeOK ==
    /\ clock \in 0..MaxTime
    /\ arrived \in [Callers ->
                      {Nobody} \cup [stamp : 0..MaxTime, keys : RuleSets]]
    /\ attempts \in [Keys -> Seq(0..MaxTime)]
    /\ \A k \in Keys : Len(attempts[k]) <= Limit[k]
    /\ granted \in [Keys -> Seq(0..MaxTime)]
    /\ nextCleanup \in Nat
    /\ told \in [RuleSets -> Nat \cup {Never}]

(* README.md: at most Limit requests of a key in any window.  A request    *)
(* and the one Limit before it are a window apart, but for the time        *)
(* requests take to get from the clock to the lock.                        *)
WindowKept ==
    \A k \in Keys : \A j \in DOMAIN granted[k] :
        j > Limit[k] =>
            granted[k][j - Limit[k]] + Window[k] <= granted[k][j] + Delay

(* The limiter forgets only stamps no rule will count again, and nothing   *)
(* it allowed is missing.                                                  *)
Kept(k) ==
    \E n \in 0..Len(granted[k]) :
        /\ Len(attempts[k]) = Len(granted[k]) - n
        /\ \A i \in 1..Len(attempts[k]) : attempts[k][i] = granted[k][i + n]
        /\ \A i \in 1..n : granted[k][i] + Window[k] <= clock

AttemptsKept == \A k \in Keys : Kept(k)

(* Whoever is refused and comes back when told is allowed, unless another  *)
(* request of one of their keys was allowed meanwhile: refused requests,   *)
(* of whomever, use up nothing.                                            *)
RetryHonest ==
    \A K \in RuleSets : told[K] # Never =>
        \A k \in K : Len(Pruned(attempts[k], told[K] - Window[k])) < Limit[k]

(* Keys do not pile up: after every request the limiter holds no entry     *)
(* whose oldest stamp is older than the longest window and the interval of *)
(* the cleanup.                                                            *)
StaleForgotten ==
    [][\A r \in Callers : arrived[r] # Nobody /\ arrived'[r] = Nobody =>
          \A k \in Keys : attempts'[k] # <<>> =>
              arrived[r].stamp < attempts'[k][1] + MaxWindow + CleanupInterval]_limiterVars
=============================================================================
