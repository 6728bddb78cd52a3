-------------------------- MODULE OperationsProofs --------------------------
(***************************************************************************)
(* Proofs about what the processes do between requests.                    *)
(*                                                                         *)
(* The cached rate implements the register, and attempts are spaced, for   *)
(* any requests, jobs, times and bounds.  What is cached or on its way     *)
(* into the cache is recent (Young) and, when a refresh is about to        *)
(* report, the rate it stored (Settled): nobody can put an older one back, *)
(* because loading and emptying the cache exclude each other (Locked) and  *)
(* one refresh works at a time (OneWorks).                                 *)
(*                                                                         *)
(* Migrations, for any sessions, binaries and migrations, and what         *)
(* Deployment does to them: whoever is past the lock holds it, so what a   *)
(* session knows of the recorded version is still true when it commits the *)
(* next migration or begins to serve.                                      *)
(***************************************************************************)
EXTENDS ExchangeRates, Deployment, TLAPS

-----------------------------------------------------------------------------
(* The exchange rates.                                                     *)

Working == {"claimed", "due", "fetching", "stored", "invalidated"}

Locked ==
    /\ \A r \in Readers : reader[r] # "idle" <=> holder = r
    /\ holder # Nobody => ~ Fresh

OneWorks == \A g, h \in Refreshers :
    /\ step[g] \in Working => refreshing = TRUE
    /\ step[g] \in Working /\ step[h] \in Working => g = h

YoungCache ==
    /\ cache.rate <= stored
    /\ cache.at <= now
    /\ cache.at # 0 /\ cache.rate < stored
       => cache.at <= replaced[cache.rate] + MaxLoad

YoungLoad == \A r \in Readers : reader[r] = "loaded" =>
    /\ got[r] <= stored
    /\ readAt <= now
    /\ now <= readAt + MaxLoad
    /\ got[r] < stored => readAt <= replaced[got[r]]

Settled == (\E g \in Refreshers : step[g] = "invalidated") =>
    /\ cache.at # 0 => cache.rate = stored
    /\ \A r \in Readers : reader[r] = "loaded" => got[r] = stored

Due == \A g \in Refreshers : step[g] = "due" =>
    began[g] > 0 /\ (lastAttempt # 0 => began[g] >= lastAttempt + RetryDelay)

RatesInv == RatesTypeOK /\ Locked /\ OneWorks /\ YoungCache /\ YoungLoad /\ Settled /\ Due

-----------------------------------------------------------------------------
LEMMA InitRatesInv == InitRates => RatesInv
<1> SUFFICES ASSUME InitRates PROVE RatesInv
  OBVIOUS
<1> USE DEF InitRates, NotCached
<1>1. RatesTypeOK
  <2>1. cache \in [rate : 0 .. MaxRates, at : Nat] /\ 0 \in 0 .. MaxRates
    BY BoundsAssumption
  <2>2. /\ replaced \in [0 .. MaxRates -> Nat]
        /\ reader \in [Readers -> {"idle", "loading", "loaded"}]
        /\ got \in [Readers -> 0 .. MaxRates]
    BY <2>1
  <2>3. /\ began \in [Refreshers -> Nat]
        /\ step \in [Refreshers -> {"none", "called", "claimed", "due", "fetching",
                                   "stored", "invalidated"}]
    OBVIOUS
  <2>4. holder \in Readers \cup {Nobody} /\ refreshing \in BOOLEAN
    OBVIOUS
  <2> QED
    BY <2>1, <2>2, <2>3, <2>4 DEF RatesTypeOK
<1>2. Locked /\ YoungLoad
  BY NobodyAssumption DEF Locked, YoungLoad, Fresh
<1>3. OneWorks /\ Due /\ Settled
  BY DEF OneWorks, Due, Settled, Working
<1>4. YoungCache
  BY BoundsAssumption DEF YoungCache
<1> QED
  BY <1>1, <1>2, <1>3, <1>4 DEF RatesInv

LEMMA HitKeeps ==
    ASSUME RatesInv, NEW r \in Readers, CacheHit(r)
    PROVE  RatesInv'
<1> USE DEF CacheHit, refreshingVars
<1>1. RatesTypeOK'
  BY DEF RatesInv, RatesTypeOK
<1>2. Locked' /\ OneWorks' /\ YoungCache' /\ Due'
  BY DEF RatesInv, Locked, OneWorks, YoungCache, Due, Fresh
<1>3. YoungLoad' /\ Settled'
  BY DEF RatesInv, RatesTypeOK, YoungLoad, Settled
<1> QED
  BY <1>1, <1>2, <1>3 DEF RatesInv

LEMMA MissKeeps ==
    ASSUME RatesInv, NEW r \in Readers, CacheMiss(r) \/ LoadFails(r)
    PROVE  RatesInv'
<1> USE DEF CacheMiss, LoadFails, refreshingVars
<1>1. RatesTypeOK'
  BY DEF RatesInv, RatesTypeOK
<1>2. Locked'
  <2>1. CASE CacheMiss(r)
    BY <2>1, NobodyAssumption DEF RatesInv, RatesTypeOK, Locked, Fresh
  <2>2. CASE LoadFails(r)
    <3>1. \A q \in Readers \ {r} : reader[q] = "idle"
      BY <2>2 DEF RatesInv, RatesTypeOK, Locked
    <3> QED
      BY <2>2, <3>1, NobodyAssumption DEF RatesInv, RatesTypeOK, Locked, Fresh
  <2> QED
    BY <2>1, <2>2
<1>3. OneWorks' /\ YoungCache' /\ Due'
  BY DEF RatesInv, OneWorks, YoungCache, Due
<1>4. YoungLoad' /\ Settled'
  BY DEF RatesInv, RatesTypeOK, YoungLoad, Settled
<1> QED
  BY <1>1, <1>2, <1>3, <1>4 DEF RatesInv

(* The row read now is the latest one.                                     *)
LEMMA LoadKeeps ==
    ASSUME RatesInv, NEW r \in Readers, Load(r)
    PROVE  RatesInv'
<1> USE DEF Load, refreshingVars
<1>1. RatesTypeOK'
  BY DEF RatesInv, RatesTypeOK
<1>2. Locked'
  BY DEF RatesInv, RatesTypeOK, Locked, Fresh
<1>3. OneWorks' /\ YoungCache' /\ Due'
  BY DEF RatesInv, OneWorks, YoungCache, Due
<1>4. \A q \in Readers \ {r} : reader[q] = "idle"
  BY DEF RatesInv, RatesTypeOK, Locked
<1>5. YoungLoad'
  BY <1>4, TimesAssumption DEF RatesInv, RatesTypeOK, YoungLoad
<1>6. Settled'
  BY <1>4 DEF RatesInv, RatesTypeOK, Settled
<1> QED
  BY <1>1, <1>2, <1>3, <1>5, <1>6 DEF RatesInv

LEMMA KeepKeeps ==
    ASSUME RatesInv, NEW r \in Readers, Keep(r)
    PROVE  RatesInv'
<1> USE DEF Keep
<1>1. RatesTypeOK'
  BY DEF RatesInv, RatesTypeOK, Refreshers
<1>2. \A q \in Readers \ {r} : reader[q] = "idle"
  BY DEF RatesInv, RatesTypeOK, Locked
<1>3. Locked'
  BY <1>2, NobodyAssumption DEF RatesInv, RatesTypeOK, Locked, Fresh
<1>4. \A g \in Refreshers : step'[g] # step[g] => step'[g] = "called"
  BY DEF RatesInv, RatesTypeOK
<1>5. OneWorks' /\ Due'
  BY <1>4 DEF RatesInv, OneWorks, Due, Working
<1>6. YoungCache'
  BY TimesAssumption DEF RatesInv, RatesTypeOK, YoungCache, YoungLoad
<1>7. YoungLoad'
  BY <1>2 DEF RatesInv, RatesTypeOK, YoungLoad
<1>8. Settled'
  BY <1>2, <1>4 DEF RatesInv, RatesTypeOK, Settled, YoungLoad
<1> QED
  BY <1>1, <1>3, <1>5, <1>6, <1>7, <1>8 DEF RatesInv

-----------------------------------------------------------------------------
(* A step of the refresh that works, or of one that claims to.             *)
LEMMA MoveKeeps ==
    ASSUME RatesInv, NEW g \in Refreshers, NEW to,
           step' = [step EXCEPT ![g] = to],
           \/ to = "none" /\ refreshing' = FALSE /\ step[g] \in Working
           \/ to \notin Working /\ step[g] \notin Working /\ refreshing' = refreshing
           \/ to \in Working /\ step[g] \in Working /\ refreshing' = refreshing
           \/ to \in Working /\ refreshing = FALSE /\ refreshing' = TRUE
    PROVE  OneWorks'
<1>1. \A h \in Refreshers : step'[h] = IF h = g THEN to ELSE step[h]
  BY DEF RatesInv, RatesTypeOK
<1>2. \A h \in Refreshers : step[h] \in Working => refreshing = TRUE
  BY DEF RatesInv, OneWorks
<1>3. \A h, k \in Refreshers : step[h] \in Working /\ step[k] \in Working => h = k
  BY DEF RatesInv, OneWorks
<1>4. "none" \notin Working
  BY DEF Working
<1> QED
  BY <1>1, <1>2, <1>3, <1>4 DEF OneWorks

(* Claims, declined ones, and ends: nothing becomes due or invalidated.    *)
LEMMA TurnKeeps ==
    ASSUME RatesInv, NEW g \in Refreshers,
           \/ Claim(g) \/ Busy(g) \/ Decline(g) \/ RefreshFails(g) \/ FinishRefreshing(g)
    PROVE  RatesInv'
<1> USE DEF Claim, Busy, Decline, RefreshFails, FinishRefreshing, Return, Freed, Unclaimed, cacheVars
<1>1. RatesTypeOK'
  BY DEF RatesInv, RatesTypeOK
<1>2. Locked' /\ YoungCache' /\ YoungLoad'
  BY DEF RatesInv, Locked, YoungCache, YoungLoad, Fresh
<1>3. OneWorks'
  <2>1. CASE Claim(g)
    BY <2>1, MoveKeeps DEF Working, RatesInv, RatesTypeOK
  <2>2. CASE Busy(g)
    BY <2>2, MoveKeeps DEF Working
  <2>3. CASE Decline(g) \/ RefreshFails(g) \/ FinishRefreshing(g)
    BY <2>3, MoveKeeps DEF Working
  <2> QED
    BY <2>1, <2>2, <2>3
<1>4. Settled' /\ Due'
  BY DEF RatesInv, RatesTypeOK, Settled, Due
<1> QED
  BY <1>1, <1>2, <1>3, <1>4 DEF RatesInv

LEMMA DailyKeeps ==
    ASSUME RatesInv, NEW j \in DailyJobs, Daily(j)
    PROVE  RatesInv'
<1> USE DEF Daily, cacheVars, Refreshers
<1>1. RatesTypeOK'
  BY DEF RatesInv, RatesTypeOK
<1>2. Locked' /\ YoungCache' /\ YoungLoad'
  BY DEF RatesInv, Locked, YoungCache, YoungLoad, Fresh
<1>3. OneWorks'
  BY DEF RatesInv, RatesTypeOK, OneWorks, Working
<1>4. Settled' /\ Due'
  BY DEF RatesInv, RatesTypeOK, Settled, Due
<1> QED
  BY <1>1, <1>2, <1>3, <1>4 DEF RatesInv

(* The refresh that works is the only one that compares with, or sets, the *)
(* time of the last attempt.                                               *)
LEMMA AttemptKeeps ==
    ASSUME RatesInv, NEW g \in Refreshers, Decide(g) \/ Attempt(g)
    PROVE  RatesInv'
<1> USE DEF Decide, Attempt, TooSoon, cacheVars
<1>1. RatesTypeOK'
  <2>1. CASE Decide(g)
    BY <2>1 DEF RatesInv, RatesTypeOK
  <2>2. CASE Attempt(g)
    BY <2>2 DEF RatesInv, RatesTypeOK
  <2> QED
    BY <2>1, <2>2
<1>2. Locked' /\ YoungCache' /\ YoungLoad'
  BY DEF RatesInv, Locked, YoungCache, YoungLoad, Fresh
<1>3. OneWorks'
  BY MoveKeeps DEF Working
<1>4. Settled'
  BY DEF RatesInv, RatesTypeOK, Settled
<1>5. \A h \in Refreshers \ {g} : step[h] \notin Working
  BY DEF RatesInv, OneWorks, Working
<1>6. \A h \in Refreshers \ {g} : step'[h] # "due"
  BY <1>5 DEF RatesInv, RatesTypeOK, Working
<1>7. ASSUME Decide(g) PROVE Due'
  <2>1. began'[g] = now /\ lastAttempt' = lastAttempt
    BY <1>7 DEF RatesInv, RatesTypeOK
  <2>2. lastAttempt # 0 => now >= lastAttempt + RetryDelay
    BY <1>7, TimesAssumption DEF RatesInv, RatesTypeOK
  <2> QED
    BY <1>6, <2>1, <2>2 DEF RatesInv, RatesTypeOK, Due
<1>8. ASSUME Attempt(g) PROVE Due'
  BY <1>6, <1>8 DEF RatesInv, RatesTypeOK, Due
<1> QED
  BY <1>1, <1>2, <1>3, <1>4, <1>7, <1>8 DEF RatesInv

(* What is cached or loaded was the latest rate until now.                 *)
LEMMA StoreKeeps ==
    ASSUME RatesInv, NEW g \in Refreshers, Store(g) \/ StoreUnanswered(g)
    PROVE  RatesInv'
<1> USE DEF Store, StoreUnanswered, StoreRate, Return, Freed, cacheVars
<1>0. /\ stored \in 0 .. MaxRates /\ stored' = stored + 1 /\ stored' \in 0 .. MaxRates
      /\ replaced' = [replaced EXCEPT ![stored] = now] /\ now \in Nat
      /\ UNCHANGED <<now, cache, holder, reader, got, readAt, lastAttempt, began, reported>>
      /\ step' = [step EXCEPT ![g] = "stored"] \/ step' = [step EXCEPT ![g] = "none"]
      /\ refreshing' \in BOOLEAN
  <2>1. /\ stored \in 0 .. MaxRates /\ stored' = stored + 1 /\ stored' \in 0 .. MaxRates
        /\ replaced' = [replaced EXCEPT ![stored] = now] /\ now \in Nat
    <3>1. /\ stored < MaxRates /\ stored' = stored + 1
          /\ replaced' = [replaced EXCEPT ![stored] = now]
      OBVIOUS
    <3>2. stored \in 0 .. MaxRates /\ now \in Nat
      BY DEF RatesInv, RatesTypeOK
    <3> HIDE DEF Store, StoreUnanswered, StoreRate, Return, Freed, cacheVars
    <3> QED
      BY <3>1, <3>2, BoundsAssumption
  <2>2. CASE Store(g)
    BY <2>1, <2>2 DEF RatesInv, RatesTypeOK
  <2>3. CASE StoreUnanswered(g)
    BY <2>1, <2>3 DEF RatesInv, RatesTypeOK
  <2> QED
    BY <2>2, <2>3
<1> HIDE DEF Store, StoreUnanswered, StoreRate, Return
<1>1. RatesTypeOK'
  BY <1>0 DEF RatesInv, RatesTypeOK
<1>2. Locked'
  BY <1>0 DEF RatesInv, Locked, Fresh
<1>3. OneWorks'
  BY MoveKeeps DEF Working, Store, StoreUnanswered, Return
<1>4. Due'
  BY <1>0 DEF RatesInv, RatesTypeOK, Due
<1>5. \A h \in Refreshers : step'[h] # "invalidated"
  <2>1. step[g] = "fetching"
    BY DEF Store, StoreUnanswered
  <2>2. \A h \in Refreshers \ {g} : step[h] \notin Working
    BY <2>1 DEF RatesInv, OneWorks, Working
  <2> QED
    BY <1>0, <2>2 DEF RatesInv, RatesTypeOK, Working
<1>6. Settled'
  BY <1>5 DEF Settled
<1>7. \A v \in 0 .. MaxRates : replaced'[v] = IF v = stored THEN now ELSE replaced[v]
  BY <1>0 DEF RatesInv, RatesTypeOK
<1>8. YoungCache'
  <2>1. cache.rate \in 0 .. MaxRates /\ cache.at \in Nat
    BY DEF RatesInv, RatesTypeOK
  <2> QED
    BY <1>0, <1>7, <2>1, TimesAssumption DEF RatesInv, YoungCache
<1>9. YoungLoad'
  <2>1. \A r \in Readers : got[r] \in 0 .. MaxRates
    BY DEF RatesInv, RatesTypeOK
  <2>2. readAt \in Nat
    BY DEF RatesInv, RatesTypeOK
  <2> QED
    BY <1>0, <1>7, <2>1, <2>2, TimesAssumption DEF RatesInv, YoungLoad
<1> QED
  BY <1>1, <1>2, <1>3, <1>4, <1>6, <1>8, <1>9 DEF RatesInv

(* Nobody holds a loaded rate while the cache is emptied.                  *)
LEMMA InvalidateKeeps ==
    ASSUME RatesInv, NEW g \in Refreshers, Invalidate(g)
    PROVE  RatesInv'
<1> USE DEF Invalidate, Available, NotCached
<1>1. RatesTypeOK'
  BY BoundsAssumption DEF RatesInv, RatesTypeOK
<1>2. \A r \in Readers : reader[r] = "idle"
  BY NobodyAssumption DEF RatesInv, RatesTypeOK, Locked
<1>3. Locked' /\ YoungLoad' /\ Settled'
  BY <1>2 DEF RatesInv, RatesTypeOK, Locked, YoungLoad, Settled
<1>4. OneWorks' /\ Due'
  BY DEF RatesInv, RatesTypeOK, OneWorks, Due, Working
<1>5. YoungCache'
  BY DEF RatesInv, RatesTypeOK, YoungCache
<1> QED
  BY <1>1, <1>3, <1>4, <1>5 DEF RatesInv

LEMMA RestartKeeps ==
    ASSUME RatesInv, Restart
    PROVE  RatesInv'
<1> USE DEF Restart, NotCached
<1>1. RatesTypeOK'
  <2>1. cache' \in [rate : 0 .. MaxRates, at : Nat]
    BY BoundsAssumption
  <2> QED
    BY <2>1 DEF RatesInv, RatesTypeOK
<1>2. Locked' /\ YoungLoad'
  BY NobodyAssumption DEF Locked, YoungLoad, Fresh
<1>3. OneWorks' /\ Due' /\ Settled'
  BY DEF OneWorks, Due, Settled, Working
<1>4. YoungCache'
  BY DEF RatesInv, RatesTypeOK, YoungCache
<1> QED
  BY <1>1, <1>2, <1>3, <1>4 DEF RatesInv

LEMMA TickKeeps ==
    ASSUME RatesInv, Tick
    PROVE  RatesInv'
<1> USE DEF Tick, cacheVars, refreshingVars
<1>1. RatesTypeOK'
  BY DEF RatesInv, RatesTypeOK
<1>2. Locked'
  BY TimesAssumption DEF RatesInv, RatesTypeOK, Locked, Fresh
<1>3. YoungCache' /\ YoungLoad'
  BY TimesAssumption DEF RatesInv, RatesTypeOK, YoungCache, YoungLoad
<1>4. OneWorks' /\ Settled' /\ Due'
  BY DEF RatesInv, OneWorks, Settled, Due
<1> QED
  BY <1>1, <1>2, <1>3, <1>4 DEF RatesInv

LEMMA NextRatesInv == RatesInv /\ [NextRates]_ratesVars => RatesInv'
<1> SUFFICES ASSUME RatesInv, [NextRates]_ratesVars PROVE RatesInv'
  OBVIOUS
<1>1. ASSUME NEW r \in Readers, ReaderStep(r) PROVE RatesInv'
  BY <1>1, HitKeeps, MissKeeps, LoadKeeps, KeepKeeps DEF ReaderStep
<1>2. ASSUME NEW g \in Refreshers, RefreshStep(g) PROVE RatesInv'
  BY <1>2, TurnKeeps, AttemptKeeps, StoreKeeps, InvalidateKeeps DEF RefreshStep, Work
<1>3. CASE UNCHANGED ratesVars
  BY <1>3 DEF ratesVars, cacheVars, refreshingVars, RatesInv, RatesTypeOK, Locked, OneWorks,
              YoungCache, YoungLoad, Settled, Due, Fresh
<1> QED
  BY <1>1, <1>2, <1>3, DailyKeeps, RestartKeeps, TickKeeps DEF NextRates

(* Types, the exclusion of loading and invalidating, and the ages of what  *)
(* is cached hold in every state.                                          *)
THEOREM Invariant == SpecRates => []RatesInv
BY InitRatesInv, NextRatesInv, PTL DEF SpecRates

(* All values keep their types.                                            *)
THEOREM TypeCorrect == SpecRates => []RatesTypeOK
<1>1. RatesInv => RatesTypeOK
  BY DEF RatesInv
<1> QED
  BY <1>1, Invariant, PTL

(* Only the refresh that works sets the time of the last attempt, to the   *)
(* time it compared with the one before.                                   *)
LEMMA StepSpaced ==
    ASSUME RatesInv, [NextRates]_ratesVars, lastAttempt' # lastAttempt,
           lastAttempt # 0, lastAttempt' # 0
    PROVE  lastAttempt' >= lastAttempt + RetryDelay
<1>1. \E g \in Refreshers : Attempt(g)
  BY DEF NextRates, ratesVars, refreshingVars, cacheVars, ReaderStep, RefreshStep, Work, CacheHit,
         CacheMiss, Load, LoadFails, Keep, Daily, Claim, Busy, Decline, Decide,
         RefreshFails, Store, StoreUnanswered, Invalidate, FinishRefreshing, Restart, Tick
<1>2. PICK g \in Refreshers : Attempt(g)
  BY <1>1
<1> QED
  BY <1>2 DEF RatesInv, RatesTypeOK, Due, Attempt

(* The service is not asked twice within the retry delay by one process,   *)
(* however many requests and jobs want a rate at once.                     *)
THEOREM Spaced == SpecRates => AttemptsSpaced
<1>1. RatesInv /\ [NextRates]_ratesVars
      => [lastAttempt' # lastAttempt /\ lastAttempt # 0 /\ lastAttempt' # 0
          => lastAttempt' >= lastAttempt + RetryDelay]_ratesVars
  BY StepSpaced
<1> QED
  BY <1>1, Invariant, PTL DEF SpecRates, AttemptsSpaced

-----------------------------------------------------------------------------
(* The refinement.                                                         *)

RegisterVars == <<now, stored, replaced, Floor, got, reported>>

(* The rate the next read returns was replaced recently, if at all.        *)
LEMMA FloorYoung ==
    ASSUME RatesInv
    PROVE  /\ Floor \in 0 .. MaxRates
           /\ Floor <= stored
           /\ Floor = stored \/ now <= replaced[Floor] + (TTL + MaxLoad)
<1>1. /\ now \in Nat /\ TTL \in Nat /\ MaxLoad \in Nat /\ stored \in 0 .. MaxRates
      /\ \A v \in 0 .. MaxRates : replaced[v] \in Nat
  BY TimesAssumption DEF RatesInv, RatesTypeOK
<1>2. CASE Fresh
  <2>1. cache.rate \in 0 .. MaxRates /\ cache.at \in Nat /\ now - cache.at < TTL
    BY <1>2 DEF RatesInv, RatesTypeOK, Fresh
  <2>2. Floor = cache.rate /\ cache.rate <= stored
    BY <1>2 DEF Floor, RatesInv, YoungCache
  <2>3. cache.rate < stored => cache.at <= replaced[cache.rate] + MaxLoad
    BY <1>2 DEF Fresh, RatesInv, YoungCache
  <2> QED
    BY <1>1, <2>1, <2>2, <2>3
<1>3. CASE ~ Fresh /\ holder \in Readers /\ reader[holder] = "loaded" /\ got[holder] > 0
  <2>1. got[holder] \in 0 .. MaxRates /\ readAt \in Nat
    BY <1>3 DEF RatesInv, RatesTypeOK
  <2>2. Floor = got[holder]
    BY <1>3, NobodyAssumption DEF Floor
  <2>3. /\ got[holder] <= stored /\ now <= readAt + MaxLoad
        /\ got[holder] < stored => readAt <= replaced[got[holder]]
    BY <1>3 DEF RatesInv, YoungLoad
  <2> QED
    BY <1>1, <2>1, <2>2, <2>3
<1>4. CASE ~ Fresh /\ ~ (holder \in Readers /\ reader[holder] = "loaded" /\ got[holder] > 0)
  BY <1>1, <1>4 DEF Floor, RatesInv, RatesTypeOK
<1> QED
  BY <1>2, <1>3, <1>4

LEMMA InitRefines == InitRates => Register!Init
BY NobodyAssumption, BoundsAssumption DEF InitRates, Register!Init, Floor, Fresh, NotCached

LEMMA ReadFloor ==
    ASSUME RatesInv, NEW r \in Readers, got' = [got EXCEPT ![r] = Floor], Floor' = Floor,
           UNCHANGED <<now, stored, replaced, reported>>
    PROVE  Register!Read(r)
<1>1. Floor \in Floor .. stored /\ Floor' \in Floor .. stored
  BY FloorYoung DEF RatesInv, RatesTypeOK
<1> QED
  BY <1>1, FloorYoung DEF Register!Read, Register!Recent

LEMMA ReadLatest ==
    ASSUME RatesInv, NEW r \in Readers, got' = [got EXCEPT ![r] = stored], Floor' = stored,
           UNCHANGED <<now, stored, replaced, reported>>
    PROVE  Register!Read(r)
<1>1. stored \in Floor .. stored /\ Floor' \in stored .. stored
  BY FloorYoung DEF RatesInv, RatesTypeOK
<1> QED
  BY <1>1 DEF Register!Read, Register!Recent

LEMMA HitRefines ==
    ASSUME RatesInv, NEW r \in Readers, CacheHit(r)
    PROVE  Register!Read(r)
<1>1. Floor = cache.rate /\ Floor' = cache.rate
  BY DEF CacheHit, Floor, Fresh, refreshingVars
<1> QED
  BY <1>1, FloorYoung, ReadFloor DEF CacheHit, refreshingVars

LEMMA LoadRefines ==
    ASSUME RatesInv, NEW r \in Readers, Load(r)
    PROVE  Register!Read(r)
<1>1. holder = r /\ ~ Fresh /\ ~ Fresh' /\ r # Nobody
  BY NobodyAssumption DEF Load, RatesInv, Locked, Fresh, refreshingVars
<1>2. got'[r] = stored /\ stored \in Nat
  BY DEF Load, RatesInv, RatesTypeOK
<1>3. Floor' = stored
  BY <1>1, <1>2 DEF Load, Floor, refreshingVars, RatesInv, RatesTypeOK
<1> QED
  BY <1>2, <1>3, ReadLatest DEF Load, refreshingVars

(* Caching the rate read makes no difference to the next read.             *)
LEMMA KeepRefines ==
    ASSUME RatesInv, NEW r \in Readers, Keep(r)
    PROVE  UNCHANGED RegisterVars
<1>1. holder = r /\ ~ Fresh /\ r # Nobody
  BY NobodyAssumption DEF Keep, RatesInv, Locked
<1>2. now \in Nat \ {0} /\ got[r] \in Nat
  BY DEF RatesInv, RatesTypeOK
<1>3. CASE got[r] > 0
  <2>1. Floor = got[r]
    BY <1>1, <1>3 DEF Keep, Floor
  <2>2. cache'.at = now /\ cache'.rate = got[r] /\ now' = now
    BY <1>3 DEF Keep
  <2>3. Fresh'
    BY <2>2, <1>2, TimesAssumption DEF Fresh
  <2> QED
    BY <2>1, <2>2, <2>3 DEF Keep, Floor, RegisterVars
<1>4. CASE got[r] = 0
  <2>1. Floor = stored
    BY <1>1, <1>4 DEF Keep, Floor
  <2>2. ~ Fresh'
    BY <1>1, <1>4 DEF Keep, Fresh
  <2> QED
    BY <2>1, <2>2, <1>4 DEF Keep, Floor, RegisterVars
<1> QED
  BY <1>2, <1>3, <1>4

(* Whatever makes the cache or a load unknown leaves the next read to the  *)
(* database.                                                               *)
LEMMA ForgetRefines ==
    ASSUME RatesInv,
           \/ \E r \in Readers : CacheMiss(r) \/ LoadFails(r)
           \/ \E g \in Refreshers : Invalidate(g)
           \/ Restart
    PROVE  Register!Forget
<1>1. UNCHANGED <<now, stored, replaced, got, reported>>
  BY DEF CacheMiss, LoadFails, Invalidate, Restart, refreshingVars
<1>2. stored \in Nat
  BY DEF RatesInv, RatesTypeOK
<1>3. Floor' = stored
  <2>1. CASE \E r \in Readers : CacheMiss(r)
    <3>1. PICK r \in Readers : CacheMiss(r)
      BY <2>1
    <3>2. reader'[r] = "loading" /\ holder' = r /\ ~ Fresh'
      BY <3>1 DEF CacheMiss, Fresh, RatesInv, RatesTypeOK
    <3> QED
      BY <3>1, <3>2 DEF CacheMiss, Floor
  <2>2. CASE \E r \in Readers : LoadFails(r)
    <3>1. PICK r \in Readers : LoadFails(r)
      BY <2>2
    <3>2. holder = r /\ r # Nobody
      BY <3>1, NobodyAssumption DEF LoadFails, RatesInv, Locked
    <3>3. ~ Fresh'
      BY <3>1, <3>2 DEF LoadFails, RatesInv, Locked, Fresh
    <3> QED
      BY <3>1, <3>3 DEF LoadFails, Floor
  <2>3. CASE \E g \in Refreshers : Invalidate(g)
    BY <2>3 DEF Invalidate, Available, NotCached, Floor, Fresh
  <2>4. CASE Restart
    BY <2>4 DEF Restart, NotCached, Floor, Fresh
  <2> QED
    BY <2>1, <2>2, <2>3, <2>4
<1> QED
  BY <1>1, <1>2, <1>3, FloorYoung DEF Register!Forget

LEMMA StoreRefines ==
    ASSUME RatesInv, NEW g \in Refreshers, Store(g) \/ StoreUnanswered(g)
    PROVE  Register!Replace
<1>1. /\ stored < MaxRates /\ stored' = stored + 1
      /\ replaced' = [replaced EXCEPT ![stored] = now]
      /\ UNCHANGED <<now, got, reported, cache, holder, reader>>
  BY DEF Store, StoreUnanswered, StoreRate, cacheVars
<1>2. stored \in Nat
  BY DEF RatesInv, RatesTypeOK
<1>3. Floor' = Floor \/ Floor' = stored'
  BY <1>1 DEF Floor, Fresh
<1> QED
  BY <1>1, <1>2, <1>3, FloorYoung DEF Register!Replace

(* A refresh reports what it stored, and nothing older is left.            *)
LEMMA FinishRefines ==
    ASSUME RatesInv, NEW g \in Refreshers, FinishRefreshing(g)
    PROVE  Register!Report
<1>1. Floor = stored /\ Floor' = stored
  <2>1. /\ cache.at # 0 => cache.rate = stored
        /\ \A r \in Readers : reader[r] = "loaded" => got[r] = stored
    BY DEF FinishRefreshing, RatesInv, Settled
  <2>2. holder \in Readers \cup {Nobody}
    BY DEF RatesInv, RatesTypeOK
  <2>3. Floor = stored
    BY <2>1, <2>2 DEF Floor, Fresh
  <2> QED
    BY <2>3 DEF Floor, Fresh, FinishRefreshing, cacheVars
<1> QED
  BY <1>1 DEF FinishRefreshing, Register!Report, cacheVars

LEMMA OtherRefines ==
    ASSUME RatesInv, NEW g \in Refreshers,
           \/ Claim(g) \/ Busy(g) \/ Decline(g) \/ Decide(g) \/ Attempt(g)
           \/ RefreshFails(g) \/ (g \in DailyJobs /\ Daily(g))
    PROVE  UNCHANGED RegisterVars
BY DEF Claim, Busy, Decline, Decide, Attempt, RefreshFails, Daily, cacheVars,
       RegisterVars, Floor, Fresh

LEMMA TickRefines ==
    ASSUME RatesInv, Tick
    PROVE  Register!Time
<1>1. UNCHANGED <<stored, replaced, got, reported>> /\ now' = now + 1
  BY DEF Tick, cacheVars, refreshingVars
<1>2. Floor' = Floor \/ Floor' = stored
  <2>1. (holder # Nobody => ~ Fresh) /\ (~ Fresh => ~ Fresh')
    BY TimesAssumption DEF RatesInv, RatesTypeOK, Locked, Fresh, Tick, cacheVars
  <2> QED
    BY <2>1 DEF Floor, Tick, cacheVars
<1>3. stored \in Nat
  BY DEF RatesInv, RatesTypeOK
<1> QED
  BY <1>1, <1>2, <1>3, FloorYoung DEF Register!Time

LEMMA NextRefines == RatesInv /\ [NextRates]_ratesVars => [Register!Next]_RegisterVars
<1> SUFFICES ASSUME RatesInv, [NextRates]_ratesVars PROVE [Register!Next]_RegisterVars
  OBVIOUS
<1>1. ASSUME NEW r \in Readers, ReaderStep(r) PROVE [Register!Next]_RegisterVars
  BY <1>1, HitRefines, LoadRefines, KeepRefines, ForgetRefines
     DEF ReaderStep, Register!Next
<1>2. ASSUME NEW g \in Refreshers, RefreshStep(g) PROVE [Register!Next]_RegisterVars
  BY <1>2, StoreRefines, FinishRefines, OtherRefines, ForgetRefines
     DEF RefreshStep, Work, Register!Next
<1>3. ASSUME NEW j \in DailyJobs, Daily(j) PROVE [Register!Next]_RegisterVars
  BY <1>3, OtherRefines DEF Refreshers
<1>4. CASE UNCHANGED ratesVars
  BY <1>4 DEF ratesVars, cacheVars, refreshingVars, RegisterVars, Floor, Fresh
<1> QED
  BY <1>1, <1>2, <1>3, <1>4, ForgetRefines, TickRefines DEF NextRates, Register!Next

(* The cache keeps the promise of the register.                            *)
THEOREM CacheImplements == SpecRates => Implements
<1>1. RegisterVars = Register!vars
  BY DEF RegisterVars, Register!vars
<1>2. RatesInv /\ [NextRates]_ratesVars => [Register!Next]_(Register!vars)
  BY <1>1, NextRefines DEF RegisterVars, Register!vars
<1> QED
  BY <1>2, InitRefines, Invariant, PTL DEF SpecRates, Implements, Register!Spec

-----------------------------------------------------------------------------
(* Migrations and deployment.                                              *)

Holding == {"locked", "creating", "migrating", "committing"}
Places == Holding \cup {"none", "waiting", "timedOut", "refused", "failed",
                        "serving", "gone"}

Typed ==
    /\ version \in [Binaries -> Numbers]
    /\ schema \in [exists : BOOLEAN, build : Nat \cup {Unrecorded}]
    /\ baseline \in Nat \cup {Unrecorded}
    /\ applied \in Seq(Numbers)
    /\ lock \in Sessions \cup {None}
    /\ at \in [Sessions -> Places]
    /\ current \in [Sessions -> Nat]
    /\ binary \in [Sessions -> Binaries \cup {None}]
    /\ killed \in [Sessions -> BOOLEAN]

(* Who is past the lock has it, and runs a binary.                         *)
Alone ==
    \A s \in Sessions : at[s] \in Holding => lock = s /\ binary[s] \in Binaries

Bound == \A s \in Sessions : at[s] = "waiting" => binary[s] \in Binaries

(* What a session knows of the schema while it holds the lock.             *)
Known ==
    \A s \in Sessions :
        /\ at[s] = "creating" => ~ schema.exists
        /\ at[s] \in {"migrating", "committing"} =>
              current[s] = schema.build /\ schema.build <= Target(s)

Baselined ==
    /\ ~ schema.exists => schema.build = Unrecorded
    /\ schema.build = Unrecorded => applied = <<>>
    /\ baseline <= schema.build

SchemaInv == Typed /\ Alone /\ Bound /\ Known /\ Baselined /\ AppliedOnce

-----------------------------------------------------------------------------
LEMMA UnrecordedApart == Unrecorded \in Int /\ Unrecorded \notin Nat
BY DEF Unrecorded

LEMMA InitSchemaInv == InitMigrations => SchemaInv
<1> SUFFICES ASSUME InitMigrations PROVE SchemaInv
  OBVIOUS
<1>a. PICK n \in Numbers \cup {Unrecorded}, e \in BOOLEAN :
         /\ schema = [exists |-> e, build |-> n]
         /\ e \/ n = Unrecorded
  <2>1. CASE schema \in [exists : {TRUE}, build : Numbers]
    <3>1. PICK m \in Numbers : schema = [exists |-> TRUE, build |-> m]
      BY <2>1
    <3> QED
      BY <3>1
  <2>2. CASE schema \in {[exists |-> FALSE, build |-> Unrecorded],
                         [exists |-> TRUE, build |-> Unrecorded]}
    BY <2>2
  <2> QED
    BY <2>1, <2>2 DEF InitMigrations
<1>1. Typed
  <2>1. schema \in [exists : BOOLEAN, build : Nat \cup {Unrecorded}]
    <3>1. n \in Nat \cup {Unrecorded}
      BY NumbersAssumption
    <3> QED
      BY <1>a, <3>1
  <2>2. baseline \in Nat \cup {Unrecorded}
    BY <2>1 DEF InitMigrations
  <2>3. applied \in Seq(Numbers) /\ version \in [Binaries -> Numbers]
    BY DEF InitMigrations
  <2>4. at \in [Sessions -> Places] /\ lock \in Sessions \cup {None}
    BY DEF InitMigrations, Places
  <2>5. /\ current \in [Sessions -> Nat]
        /\ binary \in [Sessions -> Binaries \cup {None}]
        /\ killed \in [Sessions -> BOOLEAN]
    BY DEF InitMigrations
  <2> QED
    BY <2>1, <2>2, <2>3, <2>4, <2>5 DEF Typed
<1>2. Alone /\ Bound /\ Known
  BY DEF InitMigrations, Alone, Bound, Known, Holding
<1>3. Baselined
  <2>1. applied = <<>>
    BY DEF InitMigrations
  <2>2. schema.exists \/ schema.build = Unrecorded
    BY <1>a
  <2>3. baseline <= schema.build
    BY <1>a, NumbersAssumption, UnrecordedApart DEF InitMigrations
  <2> QED
    BY <2>1, <2>2, <2>3 DEF Baselined
<1>4. AppliedOnce
  BY NumbersAssumption DEF InitMigrations, AppliedOnce, Unrecorded
<1> QED
  BY <1>1, <1>2, <1>3, <1>4 DEF SchemaInv

(* A step of one session that leaves the rows alone.                       *)
LEMMA Moves ==
    ASSUME SchemaInv, NEW s \in Sessions, NEW to \in Places,
           at' = [at EXCEPT ![s] = to],
           UNCHANGED <<version, dbVars>>,
           lock' \in Sessions \cup {None},
           current' \in [Sessions -> Nat],
           binary' \in [Sessions -> Binaries \cup {None}],
           killed' \in [Sessions -> BOOLEAN],
           \A r \in Sessions \ {s} :
              /\ current'[r] = current[r] /\ binary'[r] = binary[r]
              /\ at[r] \in Holding => lock' = r,
           to \in Holding => lock' = s,
           to \in Holding \cup {"waiting"} => binary'[s] \in Binaries,
           to = "creating" => ~ schema.exists,
           to \in {"migrating", "committing"} =>
              current'[s] = schema.build /\ schema.build <= version[binary'[s]]
    PROVE  SchemaInv'
<1>1. Typed'
  BY DEF SchemaInv, Typed, dbVars
<1>2. Alone' /\ Bound'
  BY DEF SchemaInv, Typed, Alone, Bound, Holding
<1>3. Known'
  BY DEF SchemaInv, Typed, Known, Target, dbVars
<1>4. Baselined' /\ AppliedOnce'
  BY DEF SchemaInv, Baselined, AppliedOnce, dbVars
<1> QED
  BY <1>1, <1>2, <1>3, <1>4 DEF SchemaInv

LEMMA OnlyHolder ==
    ASSUME SchemaInv, NEW s \in Sessions, at[s] \in Holding,
           NEW r \in Sessions \ {s}
    PROVE  at[r] \notin Holding
BY DEF SchemaInv, Alone

LEMMA StartInv ==
    ASSUME SchemaInv, NEW s \in Sessions, NEW b \in Binaries, Start(s, b)
    PROVE  SchemaInv'
<1>1. /\ at' = [at EXCEPT ![s] = "waiting"]
      /\ UNCHANGED <<version, dbVars>>
  BY DEF Start, Go
<1>2. /\ lock' \in Sessions \cup {None}
      /\ current' \in [Sessions -> Nat]
      /\ killed' \in [Sessions -> BOOLEAN]
      /\ binary' \in [Sessions -> Binaries \cup {None}]
      /\ binary'[s] \in Binaries
  BY DEF Start, SchemaInv, Typed
<1>3. \A r \in Sessions \ {s} :
         /\ current'[r] = current[r] /\ binary'[r] = binary[r]
         /\ at[r] \in Holding => lock' = r
  BY DEF Start, SchemaInv, Typed, Alone
<1>4. "waiting" \in Places /\ "waiting" \notin Holding
  BY DEF Places, Holding
<1> QED
  BY <1>1, <1>2, <1>3, <1>4, Moves

(* Another place under the lock.                                           *)
LEMMA Holds ==
    ASSUME SchemaInv, NEW s \in Sessions, NEW to \in Holding, Go(s, to),
           UNCHANGED <<version, dbVars, binary, killed>>,
           current' \in [Sessions -> Nat],
           \A r \in Sessions \ {s} : current'[r] = current[r],
           \/ at[s] \in Holding /\ lock' = lock
           \/ at[s] = "waiting" /\ lock = None /\ lock' = s,
           to = "creating" => ~ schema.exists,
           to \in {"migrating", "committing"} =>
              current'[s] = schema.build /\ schema.build <= Target(s)
    PROVE  SchemaInv'
<1>1. at' = [at EXCEPT ![s] = to] /\ to \in Places
  BY DEF Go, Places
<1>2. /\ binary' \in [Sessions -> Binaries \cup {None}]
      /\ killed' \in [Sessions -> BOOLEAN]
  BY DEF SchemaInv, Typed
<1>3. lock' = s /\ binary'[s] \in Binaries
  BY DEF SchemaInv, Alone, Bound
<1>4. \A r \in Sessions \ {s} : at[r] \in Holding => lock' = r
  BY NoneAssumption DEF SchemaInv, Alone
<1>5. to \in {"migrating", "committing"} =>
         current'[s] = schema.build /\ schema.build <= version[binary'[s]]
  BY DEF Target
<1> QED
  BY <1>1, <1>2, <1>3, <1>4, <1>5, Moves

(* Apply returns without a change of the rows.                             *)
LEMMA Leaves ==
    ASSUME SchemaInv, NEW s \in Sessions, NEW to \in Places \ (Holding \cup {"waiting"}),
           at[s] \in Holding, Leave(s, to),
           UNCHANGED <<version, dbVars, binary, killed>>
    PROVE  SchemaInv'
<1>1. /\ at' = [at EXCEPT ![s] = to] /\ to \in Places
      /\ lock' = None
      /\ current' = [current EXCEPT ![s] = 0]
  BY DEF Leave, Go
<1>2. /\ current' \in [Sessions -> Nat]
      /\ binary' \in [Sessions -> Binaries \cup {None}]
      /\ killed' \in [Sessions -> BOOLEAN]
      /\ lock' \in Sessions \cup {None}
  BY <1>1 DEF SchemaInv, Typed
<1>3. \A r \in Sessions \ {s} :
         /\ current'[r] = current[r] /\ binary'[r] = binary[r]
         /\ at[r] \in Holding => lock' = r
  BY <1>1, OnlyHolder DEF SchemaInv, Typed
<1>4. to \notin Holding \cup {"waiting"} /\ to \notin {"creating", "migrating", "committing"}
  BY DEF Holding
<1> QED
  BY <1>1, <1>2, <1>3, <1>4, Moves

LEMMA TimeOutInv ==
    ASSUME SchemaInv, NEW s \in Sessions, TimeOut(s)
    PROVE  SchemaInv'
<1>1. /\ at' = [at EXCEPT ![s] = "timedOut"] /\ at[s] = "waiting"
      /\ UNCHANGED <<version, dbVars, lock, current, binary, killed>>
  BY DEF TimeOut, Go
<1>2. /\ lock' \in Sessions \cup {None}
      /\ current' \in [Sessions -> Nat]
      /\ binary' \in [Sessions -> Binaries \cup {None}]
      /\ killed' \in [Sessions -> BOOLEAN]
  BY <1>1 DEF SchemaInv, Typed
<1>3. \A r \in Sessions \ {s} :
         /\ current'[r] = current[r] /\ binary'[r] = binary[r]
         /\ at[r] \in Holding => lock' = r
  BY <1>1 DEF SchemaInv, Alone
<1>4. "timedOut" \in Places /\ "timedOut" \notin Holding
  BY DEF Places, Holding
<1> QED
  BY <1>1, <1>2, <1>3, <1>4, Moves

LEMMA KillInv ==
    ASSUME SchemaInv, NEW s \in Sessions, Kill(s)
    PROVE  SchemaInv'
<1> DEFINE to == IF at[s] \in InApply THEN at[s] ELSE "gone"
<1>1. /\ at' = [at EXCEPT ![s] = to] /\ to \in Places
      /\ UNCHANGED <<version, dbVars, lock, current, binary>>
      /\ killed' = [killed EXCEPT ![s] = TRUE]
  BY DEF Kill, SchemaInv, Typed, Places
<1>2. /\ lock' \in Sessions \cup {None}
      /\ current' \in [Sessions -> Nat]
      /\ binary' \in [Sessions -> Binaries \cup {None}]
      /\ killed' \in [Sessions -> BOOLEAN]
  BY <1>1 DEF SchemaInv, Typed
<1>3. \A r \in Sessions \ {s} :
         /\ current'[r] = current[r] /\ binary'[r] = binary[r]
         /\ at[r] \in Holding => lock' = r
  BY <1>1 DEF SchemaInv, Alone
<1>4. to \in Holding \cup {"waiting"} => to = at[s]
  BY DEF Holding, InApply
<1>5. /\ to \in Holding => lock' = s
      /\ to \in Holding \cup {"waiting"} => binary'[s] \in Binaries
  BY <1>1, <1>4 DEF SchemaInv, Alone, Bound
<1>6. /\ to = "creating" => ~ schema.exists
      /\ to \in {"migrating", "committing"} =>
            current'[s] = schema.build /\ schema.build <= version[binary'[s]]
  BY <1>1, <1>4 DEF SchemaInv, Known, Target, Holding
<1> HIDE DEF to
<1> QED
  BY <1>1, <1>2, <1>3, <1>5, <1>6, Moves

LEMMA VanishInv ==
    ASSUME SchemaInv, NEW s \in Sessions, Vanish(s)
    PROVE  SchemaInv'
<1>1. /\ at' = [at EXCEPT ![s] = "gone"]
      /\ UNCHANGED <<version, dbVars, binary, killed>>
      /\ current' = [current EXCEPT ![s] = 0]
      /\ lock' = IF lock = s THEN None ELSE lock
  BY DEF Vanish, Go
<1>2. /\ lock' \in Sessions \cup {None}
      /\ current' \in [Sessions -> Nat]
      /\ binary' \in [Sessions -> Binaries \cup {None}]
      /\ killed' \in [Sessions -> BOOLEAN]
  BY <1>1 DEF SchemaInv, Typed
<1>3. \A r \in Sessions \ {s} :
         /\ current'[r] = current[r] /\ binary'[r] = binary[r]
         /\ at[r] \in Holding => lock' = r
  BY <1>1 DEF SchemaInv, Typed, Alone
<1>4. "gone" \in Places /\ "gone" \notin Holding
  BY DEF Places, Holding
<1> QED
  BY <1>1, <1>2, <1>3, <1>4, Moves

-----------------------------------------------------------------------------
(* Steps that change the rows: the lock keeps the others out.              *)
LEMMA Changes ==
    ASSUME SchemaInv, NEW s \in Sessions, NEW to \in {"migrating", "failed"},
           at[s] \in Holding, Go(s, to),
           UNCHANGED <<version, binary, killed>>,
           schema' \in [exists : {TRUE}, build : Nat],
           baseline' \in Nat \cup {Unrecorded}, applied' \in Seq(Numbers),
           baseline' <= schema'.build,
           lock' = IF to = "failed" THEN None ELSE lock,
           current' \in [Sessions -> Nat],
           to = "migrating" =>
              current'[s] = schema'.build /\ schema'.build <= Target(s),
           AppliedOnce'
    PROVE  SchemaInv'
<1>1. at' = [at EXCEPT ![s] = to] /\ to \in Places
  BY DEF Go, Places, Holding
<1>2. \A r \in Sessions : at'[r] \in Holding => r = s /\ to = "migrating"
  BY <1>1, OnlyHolder DEF SchemaInv, Typed, Holding
<1>3. Typed'
  BY <1>1 DEF SchemaInv, Typed
<1>4. Alone' /\ Bound'
  BY <1>1, <1>2 DEF SchemaInv, Typed, Alone, Bound
<1>5. Known'
  BY <1>1, <1>2 DEF SchemaInv, Typed, Known, Target, Holding
<1>6. Baselined'
  BY UnrecordedApart DEF Baselined
<1> QED
  BY <1>3, <1>4, <1>5, <1>6 DEF SchemaInv

(* A schema begins, with nothing applied to it yet.                        *)
LEMMA Begins ==
    ASSUME SchemaInv, NEW s \in Sessions, NEW to \in {"migrating", "failed"},
           at[s] \in Holding, Go(s, to),
           UNCHANGED <<version, applied, binary, killed>>,
           NEW v \in Nat, v <= Target(s), Begun(v),
           ~ schema.exists \/ schema.build = Unrecorded,
           lock' = IF to = "failed" THEN None ELSE lock,
           current' \in [Sessions -> Nat],
           to = "migrating" => current'[s] = v
    PROVE  SchemaInv'
<1>1. schema' \in [exists : {TRUE}, build : Nat] /\ schema'.build = v /\ baseline' = v
  BY DEF Begun
<1>2. applied' = <<>>
  BY DEF SchemaInv, Baselined
<1>3. applied' \in Seq(Numbers)
  BY DEF SchemaInv, Typed
<1>4. AppliedOnce'
  BY <1>1, <1>2, NumbersAssumption DEF AppliedOnce
<1>5. baseline' <= schema'.build /\ baseline' \in Nat \cup {Unrecorded}
  BY <1>1
<1>6. to = "migrating" =>
         current'[s] = schema'.build /\ schema'.build <= Target(s)
  BY <1>1
<1> QED
  BY <1>1, <1>3, <1>4, <1>5, <1>6, Changes

LEMMA TargetNat ==
    ASSUME SchemaInv, NEW s \in Sessions, at[s] \in Holding
    PROVE  Target(s) \in Numbers /\ Target(s) \in Nat
BY NumbersAssumption DEF SchemaInv, Typed, Alone, Target

LEMMA CreateSchemaInv ==
    ASSUME SchemaInv, NEW s \in Sessions, CreateSchema(s)
    PROVE  SchemaInv'
<1>1. at[s] = "creating" /\ at[s] \in Holding /\ ~ schema.exists
  BY DEF CreateSchema, Holding, SchemaInv, Known
<1>2. Target(s) \in Nat
  BY <1>1, TargetNat
<1>3. /\ current' \in [Sessions -> Nat] /\ current'[s] = Target(s)
      /\ Begun(Target(s)) /\ Go(s, "migrating")
      /\ UNCHANGED <<version, applied, lock, binary, killed>>
  BY <1>2 DEF CreateSchema, SchemaInv, Typed
<1> QED
  BY <1>1, <1>2, <1>3, Begins

LEMMA FindUnrecordedInv ==
    ASSUME SchemaInv, NEW s \in Sessions, FindUnrecorded(s)
    PROVE  SchemaInv'
<1>1. at[s] \in Holding /\ schema.build = Unrecorded
  BY DEF FindUnrecorded, Unnumbered, Holding
<1>2. 0 <= Target(s)
  BY <1>1, TargetNat
<1>3. /\ current' \in [Sessions -> Nat] /\ current'[s] = 0
      /\ Begun(0) /\ Go(s, "migrating")
      /\ UNCHANGED <<version, applied, lock, binary, killed>>
  BY DEF FindUnrecorded, SchemaInv, Typed
<1> QED
  BY <1>1, <1>2, <1>3, Begins

LEMMA BeginUnansweredInv ==
    ASSUME SchemaInv, NEW s \in Sessions, BeginUnanswered(s)
    PROVE  SchemaInv'
<1>1. /\ current' \in [Sessions -> Nat] /\ lock' = None
      /\ Go(s, "failed")
      /\ UNCHANGED <<version, applied, binary, killed>>
  BY DEF BeginUnanswered, Leave, SchemaInv, Typed
<1>2. CASE at[s] = "creating" /\ ~ killed[s] /\ Begun(Target(s))
  <2>1. at[s] \in Holding /\ ~ schema.exists
    BY <1>2 DEF Holding, SchemaInv, Known
  <2>2. Target(s) \in Nat
    BY <2>1, TargetNat
  <2> QED
    BY <1>1, <1>2, <2>1, <2>2, Begins
<1>3. CASE Unnumbered(s) /\ Begun(0)
  <2>1. at[s] \in Holding /\ schema.build = Unrecorded
    BY <1>3 DEF Holding, Unnumbered
  <2>2. 0 <= Target(s)
    BY <2>1, TargetNat
  <2> QED
    BY <1>1, <1>3, <2>1, <2>2, Begins
<1> QED
  BY <1>2, <1>3 DEF BeginUnanswered

(* The lowest pending migration is newer than everything applied, and none *)
(* lies between the two.                                                   *)
LEMMA CommitKeeps ==
    ASSUME SchemaInv, NEW s \in Sessions, NEW m \in Numbers,
           at[s] = "committing", CommitOf(s, m), baseline' = baseline
    PROVE  /\ AppliedOnce'
           /\ applied' \in Seq(Numbers)
           /\ schema' \in [exists : {TRUE}, build : Nat]
           /\ schema'.build = m
           /\ m <= Target(s)
           /\ baseline <= m
<1>1. /\ current[s] = schema.build /\ schema.build \in Nat
      /\ Target(s) \in Nat /\ schema.exists
  BY TargetNat, UnrecordedApart DEF SchemaInv, Known, Typed, Holding, Baselined
<1>2. /\ m \in Nat /\ schema.build < m /\ m <= Target(s)
      /\ \A n \in Numbers : schema.build < n /\ n < m => FALSE
  BY <1>1, NumbersAssumption DEF CommitOf, InOrder, Pending
<1>3. schema' \in [exists : {TRUE}, build : Nat] /\ schema'.build = m
  BY <1>1, <1>2 DEF CommitOf, Recorded, SchemaInv, Typed
<1>4. /\ applied \in Seq(Numbers) /\ applied' \in Seq(Numbers)
      /\ Len(applied) \in Nat
      /\ Len(applied') = Len(applied) + 1
      /\ \A i \in 1 .. Len(applied) : applied'[i] = applied[i] /\ applied[i] \in Numbers
      /\ applied'[Len(applied) + 1] = m
  BY DEF CommitOf, SchemaInv, Typed
<1>5. baseline \in Int /\ baseline <= schema.build /\ baseline <= m
  BY <1>1, <1>2, UnrecordedApart DEF SchemaInv, Typed, Baselined
<1>6. \A i \in 1 .. Len(applied) : applied[i] < m
  <2> TAKE i \in 1 .. Len(applied)
  <2>1. applied[i] \in Numbers
    BY <1>4
  <2>2. applied[i] \in Nat
    BY <2>1, NumbersAssumption
  <2>3. applied[i] <= schema.build
    BY <2>1 DEF SchemaInv, AppliedOnce
  <2>4. schema.build \in Nat /\ m \in Nat /\ schema.build < m
    BY <1>1, <1>2
  <2> QED
    BY <2>2, <2>3, <2>4
<1>7. \A i, j \in 1 .. Len(applied') : i < j => applied'[i] < applied'[j]
  <2> SUFFICES ASSUME NEW i \in 1 .. Len(applied'), NEW j \in 1 .. Len(applied'), i < j
               PROVE  applied'[i] < applied'[j]
    OBVIOUS
  <2>1. CASE j = Len(applied) + 1
    BY <2>1, <1>4, <1>6
  <2>2. CASE j # Len(applied) + 1
    <3>1. i \in 1 .. Len(applied) /\ j \in 1 .. Len(applied)
      BY <2>2, <1>4
    <3> QED
      BY <3>1, <1>4 DEF SchemaInv, AppliedOnce
  <2> QED
    BY <2>1, <2>2
<1>8. \A n \in Numbers :
         (\E i \in 1 .. Len(applied') : applied'[i] = n)
         <=> (baseline < n /\ n <= m)
  <2> SUFFICES ASSUME NEW n \in Numbers
               PROVE  (\E i \in 1 .. Len(applied') : applied'[i] = n)
                      <=> (baseline < n /\ n <= m)
    OBVIOUS
  <2>1. (\E i \in 1 .. Len(applied') : applied'[i] = n)
        <=> (\E i \in 1 .. Len(applied) : applied[i] = n) \/ n = m
    BY <1>4
  <2>2. (\E i \in 1 .. Len(applied) : applied[i] = n)
        <=> (baseline < n /\ n <= schema.build)
    BY DEF SchemaInv, AppliedOnce
  <2>3. (baseline < n /\ n <= schema.build) \/ n = m <=> (baseline < n /\ n <= m)
    BY <1>1, <1>2, <1>5, NumbersAssumption
  <2> QED
    BY <2>1, <2>2, <2>3
<1>9. AppliedOnce'
  BY <1>3, <1>7, <1>8 DEF AppliedOnce
<1> QED
  BY <1>2, <1>3, <1>4, <1>5, <1>9

LEMMA CommitInv ==
    ASSUME SchemaInv, NEW s \in Sessions, Commit(s)
    PROVE  SchemaInv'
<1> PICK m \in Numbers :
      /\ at[s] = "committing" /\ CommitOf(s, m)
      /\ current' = [current EXCEPT ![s] = m]
      /\ Go(s, "migrating")
      /\ UNCHANGED <<version, baseline, lock, binary, killed>>
  BY DEF Commit
<1>1. current' \in [Sessions -> Nat] /\ current'[s] = m /\ at[s] \in Holding
  BY NumbersAssumption DEF SchemaInv, Typed, Holding
<1>2. /\ AppliedOnce' /\ applied' \in Seq(Numbers)
      /\ schema' \in [exists : {TRUE}, build : Nat]
      /\ schema'.build = m /\ m <= Target(s) /\ baseline <= m
  BY CommitKeeps
<1>3. baseline' \in Nat \cup {Unrecorded}
  BY DEF SchemaInv, Typed
<1> QED
  BY <1>1, <1>2, <1>3, Changes

LEMMA CommitUnansweredInv ==
    ASSUME SchemaInv, NEW s \in Sessions, CommitUnanswered(s)
    PROVE  SchemaInv'
<1> PICK m \in Numbers :
      /\ at[s] = "committing" /\ CommitOf(s, m)
      /\ Leave(s, "failed")
      /\ UNCHANGED <<version, baseline, binary, killed>>
  BY DEF CommitUnanswered
<1>1. /\ current' \in [Sessions -> Nat] /\ at[s] \in Holding
      /\ lock' = None /\ Go(s, "failed")
  BY DEF SchemaInv, Typed, Holding, Leave
<1>2. /\ AppliedOnce' /\ applied' \in Seq(Numbers)
      /\ schema' \in [exists : {TRUE}, build : Nat]
      /\ schema'.build = m /\ m <= Target(s) /\ baseline <= m
  BY CommitKeeps
<1>3. baseline' \in Nat \cup {Unrecorded}
  BY DEF SchemaInv, Typed
<1> QED
  BY <1>1, <1>2, <1>3, Changes

-----------------------------------------------------------------------------
LEMMA ProgressInv ==
    ASSUME SchemaInv, NEW s \in Sessions, Progress(s)
    PROVE  SchemaInv'
<1>1. CASE GetLock(s)
  <2>1. current' \in [Sessions -> Nat] /\ "locked" \in Holding
    BY <1>1 DEF GetLock, SchemaInv, Typed, Holding
  <2> QED
    BY <1>1, <2>1, Holds DEF GetLock, Unlocked
<1>2. CASE FindNothing(s)
  <2>1. current' \in [Sessions -> Nat] /\ "creating" \in Holding /\ at[s] \in Holding
    BY <1>2 DEF FindNothing, SchemaInv, Typed, Holding
  <2> QED
    BY <1>2, <2>1, Holds DEF FindNothing
<1>3. CASE Refuse(s)
  <2>1. "refused" \in Places \ (Holding \cup {"waiting"}) /\ at[s] \in Holding
    BY <1>3 DEF Refuse, Places, Holding
  <2> QED
    BY <1>3, <2>1, Leaves DEF Refuse
<1>4. CASE FindVersion(s)
  <2>1. at[s] \in Holding /\ "migrating" \in Holding
    BY <1>4 DEF FindVersion, Holding
  <2>2. schema.build \in Nat /\ Target(s) \in Nat
    BY <1>4, <2>1, TargetNat DEF FindVersion, SchemaInv, Typed
  <2>3. current' \in [Sessions -> Nat] /\ current'[s] = schema.build
    BY <1>4, <2>2 DEF FindVersion, SchemaInv, Typed
  <2>4. schema.build <= Target(s)
    BY <1>4, <2>2 DEF FindVersion, Newer
  <2>5. \A r \in Sessions \ {s} : current'[r] = current[r]
    BY <1>4 DEF FindVersion, SchemaInv, Typed
  <2> QED
    BY <1>4, <2>1, <2>3, <2>4, <2>5, Holds DEF FindVersion
<1>5. CASE RunScript(s)
  <2>1. /\ current' \in [Sessions -> Nat] /\ "committing" \in Holding
        /\ at[s] \in Holding
    BY <1>5 DEF RunScript, SchemaInv, Typed, Holding
  <2>2. current'[s] = schema.build /\ schema.build <= Target(s)
    BY <1>5 DEF RunScript, SchemaInv, Known
  <2> QED
    BY <1>5, <2>1, <2>2, Holds DEF RunScript
<1>6. CASE Finish(s)
  <2>1. "serving" \in Places \ (Holding \cup {"waiting"}) /\ at[s] \in Holding
    BY <1>6 DEF Finish, Places, Holding
  <2> QED
    BY <1>6, <2>1, Leaves DEF Finish
<1> QED
  BY <1>1, <1>2, <1>3, <1>4, <1>5, <1>6, CreateSchemaInv, FindUnrecordedInv,
     CommitInv, VanishInv DEF Progress

LEMMA FailureInv ==
    ASSUME SchemaInv, NEW s \in Sessions, Failure(s)
    PROVE  SchemaInv'
<1>1. CASE MigrationFails(s)
  <2>1. "failed" \in Places \ (Holding \cup {"waiting"}) /\ at[s] \in Holding
    BY <1>1 DEF MigrationFails, Places, Holding
  <2> QED
    BY <1>1, <2>1, Leaves DEF MigrationFails
<1> QED
  BY <1>1, TimeOutInv, BeginUnansweredInv, CommitUnansweredInv DEF Failure

LEMMA NextSchemaInv == SchemaInv /\ [NextMigrations]_migrationVars => SchemaInv'
<1> SUFFICES ASSUME SchemaInv, [NextMigrations]_migrationVars PROVE SchemaInv'
  OBVIOUS
<1>1. CASE NextMigrations
  BY <1>1, StartInv, ProgressInv, FailureInv, KillInv DEF NextMigrations
<1>2. CASE UNCHANGED migrationVars
  BY <1>2 DEF migrationVars, dbVars, sessionVars, SchemaInv, Typed, Alone, Bound,
              Known, Target, Baselined, AppliedOnce
<1> QED
  BY <1>1, <1>2

(* What every start of a process relies on holds, whatever the others did. *)
THEOREM Invariance == SpecMigrations => []SchemaInv
BY InitSchemaInv, NextSchemaInv, PTL DEF SpecMigrations

(* Overlapping starts, crashes and lost answers apply each migration once  *)
(* and in order, and the recorded version says which (Apply).              *)
THEOREM MigrationsOnce == SpecMigrations => []AppliedOnce
<1>1. SchemaInv => AppliedOnce
  BY DEF SchemaInv
<1> QED
  BY <1>1, Invariance, PTL

(* The step that ends Apply sees the schema at the version of its binary.  *)
LEMMA ServesStep ==
    ASSUME SchemaInv, [NextMigrations]_migrationVars, NEW s \in Sessions,
           at[s] # "serving", at'[s] = "serving"
    PROVE  schema.build = Target(s)
<1>1. NextMigrations
  BY DEF migrationVars, sessionVars
<1>2. PICK r \in Sessions :
         \/ \E b \in Binaries : Start(r, b)
         \/ Progress(r) \/ Failure(r) \/ Kill(r)
  BY <1>1 DEF NextMigrations
<1>3. Finish(r) /\ r = s
  BY <1>2 DEF SchemaInv, Typed, Start, Progress, Failure, Kill, GetLock, FindNothing,
              CreateSchema, FindUnrecorded, Refuse, FindVersion, RunScript, Commit,
              Vanish, TimeOut, BeginUnanswered, MigrationFails, CommitUnanswered,
              Finish, Leave, Go
<1>4. at[s] \in Holding /\ at[s] = "migrating" /\ Pending(s) = {}
  BY <1>3 DEF Finish, Holding
<1>5. /\ current[s] = schema.build /\ schema.build <= Target(s)
      /\ schema.build \in Nat
  BY <1>4, UnrecordedApart DEF SchemaInv, Known, Typed
<1>6. Target(s) \in Numbers /\ Target(s) \in Nat
  BY <1>4, TargetNat
<1> QED
  BY <1>4, <1>5, <1>6 DEF Pending

(* No process serves a schema older or newer than the one it was built for *)
(* (Apply: refuse the newer, apply what is pending).                       *)
THEOREM ServesOwn == SpecMigrations => ServesOwnSchema
<1> DEFINE Serves == \A s \in Sessions : at[s] # "serving" /\ at'[s] = "serving"
                        => schema.build = Target(s)
<1>1. SchemaInv /\ [NextMigrations]_migrationVars => [Serves]_migrationVars
  BY ServesStep
<1> QED
  BY <1>1, Invariance, PTL DEF SpecMigrations, ServesOwnSchema

-----------------------------------------------------------------------------
(* Deployment only decides which sessions start and which are killed.      *)
Names ==
    /\ unit \in Sessions \cup {None}
    /\ installed \in Binaries
    /\ backup \in Binaries

LEMMA StartUnitStarts ==
    ASSUME StartUnit, Names
    PROVE  NextMigrations /\ Names'
<1>1. PICK s \in Sessions : at[s] = "none"
  BY DEF StartUnit
<1>2. NewSession \in Sessions
  BY <1>1 DEF NewSession
<1>3. Start(NewSession, installed) /\ unit' = NewSession
      /\ UNCHANGED <<installed, backup>>
  BY DEF StartUnit
<1> QED
  BY <1>2, <1>3 DEF Names, NextMigrations

LEMMA DeploymentStep ==
    Names /\ [NextDeployment]_allVars => [NextMigrations]_migrationVars /\ Names'
<1> SUFFICES ASSUME Names, [NextDeployment]_allVars
             PROVE  [NextMigrations]_migrationVars /\ Names'
  OBVIOUS
<1>1. CASE \E s \in Sessions : (Progress(s) \/ Failure(s)) /\ UNCHANGED deployVars
  BY <1>1 DEF NextMigrations, Names, deployVars
<1>2. CASE \E b \in Binaries : Install(b)
  BY <1>2 DEF Install, Names
<1>3. CASE Stop
  BY <1>3 DEF Stop, Running, Names, NextMigrations, deployVars
<1>4. CASE StartUnit
  BY <1>4, StartUnitStarts
<1>5. CASE StartFails \/ HealthPassed \/ HealthTimedOut \/ ScriptDies \/ Again
  BY <1>5 DEF StartFails, HealthPassed, HealthTimedOut, ScriptDies, Again, Names
<1>6. CASE Restore
  BY <1>6 DEF Restore, PutBack, Names
<1>7. CASE UNCHANGED allVars
  BY <1>7 DEF allVars, deployVars, Names
<1> QED
  BY <1>1, <1>2, <1>3, <1>4, <1>5, <1>6, <1>7 DEF NextDeployment, ScriptStep

(* A deployment, whatever it does with binaries and restarts, is a run of  *)
(* overlapping starts: the script adds no way to change a schema.          *)
THEOREM DeploymentMigrates == SpecDeployment => SpecMigrations
<1>1. InitDeployment => InitMigrations /\ Names
  BY OldAssumption DEF InitDeployment, Names
<1> QED
  BY <1>1, DeploymentStep, PTL DEF SpecDeployment, SpecMigrations

(* So a release and its rollback apply each migration once, too.           *)
THEOREM DeploymentOnce == SpecDeployment => []AppliedOnce
BY DeploymentMigrates, MigrationsOnce, PTL

(* And no release or rollback ends with a process that serves another      *)
(* schema than its own.                                                    *)
THEOREM DeploymentServesOwn == SpecDeployment => ServesOwnSchema
BY DeploymentMigrates, ServesOwn, PTL
=============================================================================
