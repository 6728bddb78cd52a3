---------------------------- MODULE ExchangeRates ----------------------------
(***************************************************************************)
(* The EUR rate (util/rates.go): requests read it through a cache whose    *)
(* mutex they keep while they load it (CurrentEURRate); refreshes, which   *)
(* the daily job and requests that find no rate start, fetch a rate, store *)
(* it and then empty the cache (RefreshExchangeRates).  Rates are numbered *)
(* in the order they are stored; 0 is a missing one.                       *)
(***************************************************************************)
EXTENDS Integers

CONSTANTS
    Readers,       \* requests; each may start one refresh
    DailyJobs,     \* runs of the daily job
    TTL,           \* exchangeRateCacheTTL
    RetryDelay,    \* exchangeRateRetryDelay
    MaxLoad,       \* longest way of a row from the database into the cache
    MaxRates,      \* bound on the rates stored
    MaxTime,       \* bound on the clock
    Nobody         \* nobody

ASSUME TimesAssumption ==
    TTL \in Nat \ {0} /\ RetryDelay \in Nat \ {0} /\ MaxLoad \in Nat
ASSUME BoundsAssumption == MaxRates \in Nat /\ MaxTime \in Nat
ASSUME NobodyAssumption == Nobody \notin Readers

Refreshers == Readers \cup DailyJobs

VARIABLES
    now,
    stored,        \* currencies.rate
    replaced,      \* when each earlier rate was replaced; only properties read it
    cache,         \* eurRateCache: the rate, and loadedAt with 0 for none
    holder,        \* of eurRateCache.mu
    reader,        \* where CurrentEURRate is
    got,           \* the rate it returned last, or has just loaded
    readAt,        \* when the database read the row
    refreshing,    \* exchangeRateRefreshing
    lastAttempt,   \* exchangeRateLastAttempt
    step,          \* where each RefreshExchangeRates is
    began,         \* the time it compared with lastAttempt
    reported       \* the last rate a refresh returned; only properties read it

cacheVars == <<cache, holder, reader, got, readAt>>
refreshingVars == <<refreshing, lastAttempt, step, began, reported>>
ratesVars == <<now, stored, replaced, cacheVars, refreshingVars>>

NotCached == [rate |-> 0, at |-> 0]

Fresh == cache.at # 0 /\ now - cache.at < TTL

-----------------------------------------------------------------------------
(* CurrentEURRate and its caller, CheckCookie.                             *)

CacheHit(r) ==
    /\ reader[r] = "idle"
    /\ holder = Nobody
    /\ Fresh
    /\ got' = [got EXCEPT ![r] = cache.rate]
    /\ UNCHANGED <<now, stored, replaced, cache, holder, reader, readAt, refreshingVars>>

CacheMiss(r) ==
    /\ reader[r] = "idle"
    /\ holder = Nobody
    /\ ~ Fresh
    /\ holder' = r
    /\ reader' = [reader EXCEPT ![r] = "loading"]
    /\ UNCHANGED <<now, stored, replaced, cache, got, readAt, refreshingVars>>

(* The database reads the row; the answer is on its way.                   *)
Load(r) ==
    /\ reader[r] = "loading"
    /\ reader' = [reader EXCEPT ![r] = "loaded"]
    /\ got' = [got EXCEPT ![r] = stored]
    /\ readAt' = now
    /\ UNCHANGED <<now, stored, replaced, cache, holder, refreshingVars>>

LoadFails(r) ==
    /\ reader[r] = "loading"
    /\ reader' = [reader EXCEPT ![r] = "idle"]
    /\ holder' = Nobody
    /\ UNCHANGED <<now, stored, replaced, cache, got, readAt, refreshingVars>>

(* The answer arrives: a rate is cached, a missing one makes the request   *)
(* start a refresh.                                                        *)
Keep(r) ==
    /\ reader[r] = "loaded"
    /\ reader' = [reader EXCEPT ![r] = "idle"]
    /\ holder' = Nobody
    /\ readAt' = 0
    /\ cache' = IF got[r] > 0 THEN [rate |-> got[r], at |-> now] ELSE cache
    /\ step' = IF got[r] = 0 /\ step[r] = "none"
               THEN [step EXCEPT ![r] = "called"] ELSE step
    /\ UNCHANGED <<now, stored, replaced, got, refreshing, lastAttempt, began, reported>>

-----------------------------------------------------------------------------
(* RefreshExchangeRates.                                                   *)

Daily(j) ==
    /\ step[j] = "none"
    /\ step' = [step EXCEPT ![j] = "called"]
    /\ UNCHANGED <<now, stored, replaced, cacheVars, refreshing, lastAttempt, began, reported>>

ClaimedByAll == TRUE   \* a mutant: Store(true) instead of CompareAndSwap
Unclaimed == ~ refreshing

NeverFreed == refreshing   \* a mutant: no deferred Store(false)
Freed == FALSE

Claim(g) ==
    /\ step[g] = "called"
    /\ Unclaimed
    /\ refreshing' = TRUE
    /\ step' = [step EXCEPT ![g] = "claimed"]
    /\ UNCHANGED <<now, stored, replaced, cacheVars, lastAttempt, began, reported>>

Busy(g) ==
    /\ step[g] = "called"
    /\ ~ Unclaimed
    /\ step' = [step EXCEPT ![g] = "none"]
    /\ UNCHANGED <<now, stored, replaced, cacheVars, refreshing, lastAttempt, began, reported>>

TooSoon == lastAttempt # 0 /\ now - lastAttempt < RetryDelay

Return(g) ==
    /\ step' = [step EXCEPT ![g] = "none"]
    /\ refreshing' = Freed

(* Not yet time for another attempt.                                       *)
Decline(g) ==
    /\ step[g] = "claimed"
    /\ TooSoon
    /\ Return(g)
    /\ UNCHANGED <<now, stored, replaced, cacheVars, lastAttempt, began, reported>>

Decide(g) ==
    /\ step[g] = "claimed"
    /\ ~ TooSoon
    /\ step' = [step EXCEPT ![g] = "due"]
    /\ began' = [began EXCEPT ![g] = now]
    /\ UNCHANGED <<now, stored, replaced, cacheVars, refreshing, lastAttempt, reported>>

Attempt(g) ==
    /\ step[g] = "due"
    /\ lastAttempt' = began[g]
    /\ began' = [began EXCEPT ![g] = 0]
    /\ step' = [step EXCEPT ![g] = "fetching"]
    /\ UNCHANGED <<now, stored, replaced, cacheVars, refreshing, reported>>

(* The service does not answer in time, its answer is not valid, or the    *)
(* statement that stores the rate, or records the refresh, fails.          *)
RefreshFails(g) ==
    /\ step[g] \in {"fetching", "invalidated"}
    /\ Return(g)
    /\ UNCHANGED <<now, stored, replaced, cacheVars, lastAttempt, began, reported>>

StoreRate ==
    /\ stored < MaxRates
    /\ stored' = stored + 1
    /\ replaced' = [replaced EXCEPT ![stored] = now]

Store(g) ==
    /\ step[g] = "fetching"
    /\ StoreRate
    /\ step' = [step EXCEPT ![g] = "stored"]
    /\ UNCHANGED <<now, cacheVars, refreshing, lastAttempt, began, reported>>

(* The statement commits, but its answer is lost or too late: an error.    *)
StoreUnanswered(g) ==
    /\ step[g] = "fetching"
    /\ StoreRate
    /\ Return(g)
    /\ UNCHANGED <<now, cacheVars, lastAttempt, began, reported>>

AvailableAnyway == TRUE   \* a mutant: InvalidateEURRateCache without the mutex
Available == holder = Nobody

(* InvalidateEURRateCache.                                                 *)
Invalidate(g) ==
    /\ step[g] = "stored"
    /\ Available
    /\ cache' = NotCached
    /\ step' = [step EXCEPT ![g] = "invalidated"]
    /\ UNCHANGED <<now, stored, replaced, holder, reader, got, readAt, refreshing,
                   lastAttempt, began, reported>>

FinishRefreshing(g) ==
    /\ step[g] = "invalidated"
    /\ reported' = stored
    /\ Return(g)
    /\ UNCHANGED <<now, stored, replaced, cacheVars, lastAttempt, began>>

-----------------------------------------------------------------------------
(* A new process knows the database only.                                  *)
Restart ==
    /\ cache' = NotCached
    /\ holder' = Nobody
    /\ reader' = [r \in Readers |-> "idle"]
    /\ readAt' = 0
    /\ refreshing' = FALSE
    /\ lastAttempt' = 0
    /\ step' = [g \in Refreshers |-> "none"]
    /\ began' = [g \in Refreshers |-> 0]
    /\ UNCHANGED <<now, stored, replaced, got, reported>>

Tick ==
    /\ now < MaxTime
    /\ \A r \in Readers : reader[r] = "loaded" => now < readAt + MaxLoad
    /\ now' = now + 1
    /\ UNCHANGED <<stored, replaced, cacheVars, refreshingVars>>

InitRates ==
    /\ now = 1
    /\ stored \in 0 .. MaxRates
    /\ replaced = [v \in 0 .. MaxRates |-> 0]
    /\ cache = NotCached
    /\ holder = Nobody
    /\ reader = [r \in Readers |-> "idle"]
    /\ got = [r \in Readers |-> 0]
    /\ readAt = 0
    /\ refreshing = FALSE
    /\ lastAttempt = 0
    /\ step = [g \in Refreshers |-> "none"]
    /\ began = [g \in Refreshers |-> 0]
    /\ reported = 0

ReaderStep(r) ==
    CacheHit(r) \/ CacheMiss(r) \/ Load(r) \/ LoadFails(r) \/ Keep(r)

(* What the refresh that made the claim goes on with.                      *)
Work(g) ==
    \/ Decline(g) \/ Decide(g) \/ Attempt(g) \/ RefreshFails(g)
    \/ Store(g) \/ StoreUnanswered(g) \/ Invalidate(g) \/ FinishRefreshing(g)

RefreshStep(g) == Claim(g) \/ Busy(g) \/ Work(g)

NextRates ==
    \/ \E r \in Readers : ReaderStep(r)
    \/ \E g \in Refreshers : RefreshStep(g)
    \/ \E j \in DailyJobs : Daily(j)
    \/ Restart
    \/ Tick

SpecRates == InitRates /\ [][NextRates]_ratesVars

(* A statement and a fetch end, and sync.Mutex starves nobody.  One reader *)
(* loads and one refresh works at a time.                                  *)
LoaderStep == \E r \in Readers : Load(r) \/ LoadFails(r) \/ Keep(r)
WorkerStep == \E g \in Refreshers : Work(g)

FairRates == SpecRates /\ WF_ratesVars(LoaderStep) /\ SF_ratesVars(WorkerStep)

-----------------------------------------------------------------------------
(* Properties.                                                             *)

RatesTypeOK ==
    /\ now \in Nat \ {0}
    /\ stored \in 0 .. MaxRates
    /\ replaced \in [0 .. MaxRates -> Nat]
    /\ cache \in [rate : 0 .. MaxRates, at : Nat]
    /\ holder \in Readers \cup {Nobody}
    /\ reader \in [Readers -> {"idle", "loading", "loaded"}]
    /\ got \in [Readers -> 0 .. MaxRates]
    /\ readAt \in Nat
    /\ refreshing \in BOOLEAN
    /\ lastAttempt \in Nat
    /\ step \in [Refreshers -> {"none", "called", "claimed", "due", "fetching",
                              "stored", "invalidated"}]
    /\ began \in [Refreshers -> Nat]
    /\ reported \in 0 .. MaxRates

(* The oldest rate the next read can return.                               *)
Floor ==
    IF Fresh THEN cache.rate
    ELSE IF holder # Nobody /\ reader[holder] = "loaded" /\ got[holder] > 0
         THEN got[holder] ELSE stored

Register == INSTANCE RateRegister WITH
    rate <- stored, floor <- Floor, answer <- got, Lag <- TTL + MaxLoad

(* The cache keeps the promise of the register: no page shows an older     *)
(* rate than an earlier page did or than a refresh reported, nor one that  *)
(* was replaced more than the TTL and a load ago, even if the refresh that *)
(* replaced it failed afterwards or the process was restarted.             *)
Implements == Register!Spec

(* The service is not asked twice within the retry delay by one process.   *)
AttemptsSpaced ==
    [][lastAttempt' # lastAttempt /\ lastAttempt # 0 /\ lastAttempt' # 0
       => lastAttempt' >= lastAttempt + RetryDelay]_ratesVars

(* A refresh ends, whatever fails, so that another one can start.          *)
RefreshEnds == refreshing ~> ~ refreshing
=============================================================================
