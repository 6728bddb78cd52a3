------------------------- MODULE RateLimiterProofs -------------------------
(***************************************************************************)
(* Proofs about the rate limiter, for any keys, limits, windows and        *)
(* delays.  The limiter always holds the end of the history of a key, and  *)
(* what it has dropped is outside the window.  So a request it allows,     *)
(* having found fewer than Limit stamps, is a window later than the        *)
(* request Limit before it.                                                *)
(***************************************************************************)
EXTENDS RateLimiter, SequenceTheorems, WellFoundedInduction, TLAPS

Stamps == 0..MaxTime

(* a is the end of g, and the rest of g is not after b.                    *)
Suffix(a, g, b) ==
    \E n \in 0..Len(g) :
        /\ Len(a) = Len(g) - n
        /\ \A i \in 1..Len(a) : a[i] = g[i + n]
        /\ \A i \in 1..n : g[i] <= b

(* Callers wait for at most Delay.                                        *)
ArrivedLately ==
    \A r \in Callers : arrived[r] # Nobody =>
        /\ arrived[r].stamp <= clock
        /\ clock <= arrived[r].stamp + Delay

(* The next cleanup comes before the oldest stamp of a key is older than   *)
(* the longest window and the interval.                                    *)
HeadsFresh ==
    /\ nextCleanup <= clock + CleanupInterval
    /\ \A k \in Keys : attempts[k] # <<>> =>
          nextCleanup <= attempts[k][1] + MaxWindow + CleanupInterval

IInv ==
    /\ LimiterTypeOK
    /\ ArrivedLately
    /\ AttemptsKept
    /\ HeadsFresh

-----------------------------------------------------------------------------
(* Least and greatest elements.                                            *)

LEMMA LeastExists ==
  ASSUME NEW S \in SUBSET Nat, S # {}
  PROVE  \E n \in S : \A m \in S : n <= m
<1>1. PICK n \in S : \A m \in S : ~ (<<m, n>> \in OpToRel(<, Nat))
  BY NatLessThanWellFounded, WFMin
<1>2. \A m \in S : ~ (m < n)
  BY <1>1 DEF OpToRel
<1> QED
  BY <1>2

LEMMA MaxIs ==
  ASSUME NEW S \in SUBSET Nat, S # {}, NEW b \in Nat, \A x \in S : x <= b
  PROVE  Max(S) \in S /\ \A x \in S : x <= Max(S)
<1> DEFINE Bounds == {m \in Nat : \A x \in S : x <= m}
<1>1. PICK n \in Bounds : \A m \in Bounds : n <= m
  <2>1. b \in Bounds
    OBVIOUS
  <2> QED
    BY <2>1, LeastExists
<1>2. n \in S
  <2> SUFFICES ASSUME n \notin S PROVE FALSE
    OBVIOUS
  <2>1. n \in Nat /\ \A x \in S : x \in Nat /\ x < n
    BY <1>1
  <2>2. n - 1 \in Nat /\ \A x \in S : x <= n - 1
    <3>1. PICK x \in S : TRUE
      OBVIOUS
    <3> HIDE DEF Bounds
    <3> QED
      BY <2>1, <3>1
  <2>3. n - 1 \in Bounds
    BY <2>2
  <2> QED
    BY <1>1, <2>3
<1>3. \E x \in S : \A y \in S : x >= y
  BY <1>1, <1>2
<1> QED
  BY <1>3 DEF Max

-----------------------------------------------------------------------------
(* What pruneRateLimitAttempts returns.                                    *)

LEMMA StampIsNat ==
  ASSUME NEW s \in Seq(Stamps)
  PROVE  Len(s) \in Nat /\ \A i \in 1..Len(s) : s[i] \in Nat
<1>1. Stamps \subseteq Nat
  BY DEF Stamps
<1> QED
  BY <1>1, ElementOfSeq, LenProperties

LEMMA FirstCurrentIs ==
  ASSUME NEW s \in Seq(Stamps), NEW c \in Int
  PROVE  /\ FirstCurrent(s, c) \in 1..(Len(s) + 1)
         /\ \A j \in 1..(FirstCurrent(s, c) - 1) : s[j] <= c
         /\ FirstCurrent(s, c) <= Len(s) => s[FirstCurrent(s, c)] > c
<1> DEFINE Current1 == {i \in 1..(Len(s) + 1) : i <= Len(s) => s[i] > c}
<1>1. Len(s) \in Nat /\ \A i \in 1..Len(s) : s[i] \in Nat
  BY StampIsNat
<1>2. PICK n \in Current1 : \A m \in Current1 : n <= m
  <2>1. Len(s) + 1 \in Current1
    BY <1>1
  <2> HIDE DEF Current1
  <2>2. Current1 \in SUBSET Nat
    BY <1>1 DEF Current1
  <2> QED
    BY <2>1, <2>2, LeastExists
<1>3. \A j \in 1..(n - 1) : s[j] <= c
  <2> TAKE j \in 1..(n - 1)
  <2>1. j \notin Current1
    BY <1>1, <1>2
  <2> QED
    BY <1>1, <1>2, <2>1
<1> DEFINE First(i) == /\ \A j \in 1..(i - 1) : s[j] <= c
                       /\ i <= Len(s) => s[i] > c
<1>4. n \in 1..(Len(s) + 1) /\ First(n)
  BY <1>2, <1>3
<1>5. FirstCurrent(s, c) = CHOOSE i \in 1..(Len(s) + 1) : First(i)
  BY DEF FirstCurrent
<1> HIDE DEF First
<1>6. FirstCurrent(s, c) \in 1..(Len(s) + 1) /\ First(FirstCurrent(s, c))
  BY <1>4, <1>5
<1> QED
  BY <1>6 DEF First

LEMMA PrunedIs ==
  ASSUME NEW s \in Seq(Stamps), NEW c \in Int
  PROVE  /\ Pruned(s, c) \in Seq(Stamps)
         /\ Len(Pruned(s, c)) = Len(s) + 1 - FirstCurrent(s, c)
         /\ \A i \in 1..Len(Pruned(s, c)) :
               Pruned(s, c)[i] = s[i + FirstCurrent(s, c) - 1]
<1> DEFINE f == FirstCurrent(s, c)
<1>1. f \in 1..(Len(s) + 1) /\ Len(s) \in Nat
  BY FirstCurrentIs
<1> HIDE DEF f
<1>2. \A i \in f..Len(s) : s[i] \in Stamps
  BY <1>1
<1>3. /\ SubSeq(s, f, Len(s)) \in Seq(Stamps)
      /\ Len(SubSeq(s, f, Len(s))) = IF f <= Len(s) THEN Len(s) - f + 1 ELSE 0
      /\ \A i \in 1..(Len(s) - f + 1) : SubSeq(s, f, Len(s))[i] = s[f + i - 1]
  BY <1>1, <1>2, SubSeqProperties
<1>4. Len(SubSeq(s, f, Len(s))) = Len(s) + 1 - f
  BY <1>1, <1>3
<1>5. \A i \in 1..Len(SubSeq(s, f, Len(s))) :
          SubSeq(s, f, Len(s))[i] = s[i + f - 1]
  BY <1>1, <1>3, <1>4
<1> QED
  BY <1>3, <1>4, <1>5 DEF Pruned, f

(* What is left after the cutoff; none of it is dropped.                   *)
LEMMA PrunedHead ==
  ASSUME NEW s \in Seq(Stamps), NEW c \in Int, Pruned(s, c) # <<>>
  PROVE  Pruned(s, c)[1] > c
<1> DEFINE f == FirstCurrent(s, c)
           p == Pruned(s, c)
<1>1. /\ p \in Seq(Stamps)
      /\ Len(p) = Len(s) + 1 - f
      /\ \A i \in 1..Len(p) : p[i] = s[i + f - 1]
  BY PrunedIs
<1>2. /\ f \in 1..(Len(s) + 1)
      /\ f <= Len(s) => s[f] > c
  BY FirstCurrentIs
<1> HIDE DEF f, p
<1>3. Len(p) \in Nat \ {0}
  BY <1>1, EmptySeq DEF p
<1>4. 1 \in 1..Len(p) /\ f <= Len(s) /\ 1 + f - 1 = f
  BY <1>1, <1>2, <1>3, StampIsNat
<1>5. p[1] = s[f]
  BY <1>1, <1>4
<1> QED
  BY <1>2, <1>4, <1>5 DEF p

LEMMA PrunedSuffix ==
  ASSUME NEW s \in Seq(Stamps), NEW g \in Seq(Stamps), NEW b \in Int,
         NEW c \in Int, c <= b, Suffix(s, g, b)
  PROVE  Suffix(Pruned(s, c), g, b)
<1> DEFINE f == FirstCurrent(s, c)
           p == Pruned(s, c)
<1>1. PICK n \in 0..Len(g) : /\ Len(s) = Len(g) - n
                             /\ \A i \in 1..Len(s) : s[i] = g[i + n]
                             /\ \A i \in 1..n : g[i] <= b
  BY DEF Suffix
<1>2. /\ f \in 1..(Len(s) + 1)
      /\ \A j \in 1..(f - 1) : s[j] <= c
  BY FirstCurrentIs
<1>3. /\ Len(p) = Len(s) + 1 - f
      /\ \A i \in 1..Len(p) : p[i] = s[i + f - 1]
  BY PrunedIs
<1> HIDE DEF f, p
<1>4. n + f - 1 \in 0..Len(g) /\ Len(g) \in Nat
  BY <1>1, <1>2
<1>5. Len(p) = Len(g) - (n + f - 1)
  BY <1>1, <1>2, <1>3, <1>4
<1>6. \A i \in 1..Len(p) : p[i] = g[i + (n + f - 1)]
  <2> TAKE i \in 1..Len(p)
  <2>1. i + f - 1 \in 1..Len(s)
    BY <1>1, <1>2, <1>3, <1>4
  <2>2. s[i + f - 1] = g[(i + f - 1) + n]
    BY <1>1, <2>1
  <2>3. (i + f - 1) + n = i + (n + f - 1)
    BY <1>1, <1>2, <1>3, <1>4
  <2> QED
    BY <1>3, <2>2, <2>3
<1>7. \A i \in 1..(n + f - 1) : g[i] <= b
  <2> TAKE i \in 1..(n + f - 1)
  <2>1. CASE i <= n
    BY <1>1, <2>1
  <2>2. CASE i > n
    <3>1. i - n \in 1..(f - 1) /\ i - n \in 1..Len(s)
      BY <1>1, <1>2, <1>4, <2>2
    <3>2. s[i - n] <= c /\ s[i - n] = g[(i - n) + n]
      BY <1>1, <1>2, <3>1
    <3>3. s[i - n] \in Int /\ (i - n) + n = i
      BY <3>1, <1>1, <1>4, StampIsNat
    <3> QED
      BY <3>2, <3>3
  <2> QED
    BY <1>1, <1>2, <1>4, <2>1, <2>2
<1> QED
  BY <1>4, <1>5, <1>6, <1>7 DEF Suffix, p

(* A suffix has no more stamps left after a cutoff.                        *)
LEMMA PrunedShorter ==
  ASSUME NEW s \in Seq(Stamps), NEW c \in Int, NEW d \in Int
  PROVE  Len(Pruned(Pruned(s, c), d)) <= Len(Pruned(s, d))
<1> DEFINE f == FirstCurrent(s, c)
           p == Pruned(s, c)
           h == FirstCurrent(p, d)
           e == FirstCurrent(s, d)
<1>1. f \in 1..(Len(s) + 1) /\ Len(s) \in Nat
  BY FirstCurrentIs
<1>2. /\ p \in Seq(Stamps)
      /\ Len(p) = Len(s) + 1 - f
      /\ \A i \in 1..Len(p) : p[i] = s[i + f - 1]
  BY PrunedIs
<1>3. /\ e \in 1..(Len(s) + 1)
      /\ \A j \in 1..(e - 1) : s[j] <= d
      /\ Len(Pruned(s, d)) = Len(s) + 1 - e
  BY FirstCurrentIs, PrunedIs
<1> HIDE DEF p
<1>4. /\ h \in 1..(Len(p) + 1)
      /\ h <= Len(p) => p[h] > d
      /\ Len(Pruned(p, d)) = Len(p) + 1 - h
  BY <1>2, FirstCurrentIs, PrunedIs
<1> HIDE DEF f, h, e
<1>5. e <= h + f - 1
  <2>1. CASE h = Len(p) + 1
    BY <1>1, <1>2, <1>3, <2>1
  <2>2. CASE h <= Len(p)
    <3>1. h + f - 1 \in 1..Len(s) /\ s[h + f - 1] > d
      BY <1>1, <1>2, <1>4, <2>2
    <3>2. s[h + f - 1] \in Int
      BY <3>1, StampIsNat
    <3>3. ~ (h + f - 1 \in 1..(e - 1))
      BY <1>3, <3>1, <3>2
    <3> QED
      BY <1>1, <1>3, <3>1, <3>3
  <2> QED
    BY <1>2, <1>4, <2>1, <2>2
<1> QED
  BY <1>1, <1>2, <1>3, <1>4, <1>5 DEF p

-----------------------------------------------------------------------------
(* What is left of the stamps s of a key after pruning, once or twice.     *)
Later(c, s) ==
    /\ c \in Seq(Stamps)
    /\ Len(c) <= Len(s)
    /\ c # <<>> => s # <<>> /\ s[1] <= c[1]
    /\ \A d \in Int : Len(Pruned(c, d)) <= Len(Pruned(s, d))

LEMMA PrunedLater ==
  ASSUME NEW s \in Seq(Stamps), NEW c \in Int
  PROVE  Later(Pruned(s, c), s)
<1> DEFINE f == FirstCurrent(s, c)
           p == Pruned(s, c)
<1>1. /\ f \in 1..(Len(s) + 1)
      /\ \A j \in 1..(f - 1) : s[j] <= c
  BY FirstCurrentIs
<1>2. /\ p \in Seq(Stamps)
      /\ Len(p) = Len(s) + 1 - f
      /\ \A i \in 1..Len(p) : p[i] = s[i + f - 1]
  BY PrunedIs
<1>3. \A d \in Int : Len(Pruned(p, d)) <= Len(Pruned(s, d))
  BY PrunedShorter
<1>4. p # <<>> => p[1] > c
  BY PrunedHead
<1> HIDE DEF f, p
<1>5. Len(p) <= Len(s)
  BY <1>1, <1>2, StampIsNat
<1>6. ASSUME p # <<>> PROVE s # <<>> /\ s[1] <= p[1]
  <2>1. Len(p) \in Nat \ {0} /\ p[1] \in Nat
    BY <1>2, <1>6, EmptySeq, StampIsNat
  <2>2. Len(s) \in Nat \ {0} /\ s[1] \in Nat
    BY <1>5, <2>1, StampIsNat
  <2>3. CASE f = 1
    BY <1>2, <2>1, <2>2, <2>3, EmptySeq
  <2>4. CASE f > 1
    BY <1>1, <1>4, <1>6, <2>1, <2>2, <2>4, EmptySeq
  <2> QED
    BY <1>1, <2>3, <2>4
<1> QED
  BY <1>2, <1>3, <1>5, <1>6 DEF Later, p

LEMMA LaterTransitive ==
  ASSUME NEW s \in Seq(Stamps), NEW t, NEW u, Later(t, s), Later(u, t)
  PROVE  Later(u, s)
<1>1. t \in Seq(Stamps) /\ u \in Seq(Stamps)
  BY DEF Later
<1>2. Len(u) <= Len(s)
  BY <1>1, StampIsNat DEF Later
<1>3. ASSUME u # <<>> PROVE s # <<>> /\ s[1] <= u[1]
  <2>1. t # <<>> /\ s # <<>> /\ s[1] <= t[1] /\ t[1] <= u[1]
    BY <1>3 DEF Later
  <2>2. s[1] \in Nat /\ t[1] \in Nat /\ u[1] \in Nat
    <3>1. \A v \in {s, t, u} : Len(v) \in Nat \ {0}
      BY <1>1, <1>3, <2>1, EmptySeq
    <3>2. \A v \in {s, t, u} : 1 \in 1..Len(v)
      BY <3>1
    <3> QED
      BY <1>1, <3>2, StampIsNat
  <2> QED
    BY <2>1, <2>2
<1>4. ASSUME NEW d \in Int
      PROVE  Len(Pruned(u, d)) <= Len(Pruned(s, d))
  <2>1. /\ Len(Pruned(u, d)) <= Len(Pruned(t, d))
        /\ Len(Pruned(t, d)) <= Len(Pruned(s, d))
    BY DEF Later
  <2>2. /\ Len(Pruned(u, d)) \in Nat
        /\ Len(Pruned(t, d)) \in Nat
        /\ Len(Pruned(s, d)) \in Nat
    BY <1>1, PrunedIs, StampIsNat
  <2> QED
    BY <2>1, <2>2
<1> QED
  BY <1>1, <1>2, <1>3, <1>4 DEF Later

LEMMA LaterItself ==
  ASSUME NEW s \in Seq(Stamps)
  PROVE  Later(s, s)
<1>1. \A d \in Int : Len(Pruned(s, d)) \in Nat
  BY PrunedIs, StampIsNat
<1>2. s # <<>> => s[1] \in Nat
  <2> SUFFICES ASSUME s # <<>> PROVE s[1] \in Nat
    OBVIOUS
  <2>1. 1 \in 1..Len(s)
    BY EmptySeq
  <2> QED
    BY <2>1, StampIsNat
<1>3. \A d \in Int : Len(Pruned(s, d)) <= Len(Pruned(s, d))
  BY <1>1
<1>4. Len(s) <= Len(s)
  BY StampIsNat
<1>5. s # <<>> => s[1] <= s[1]
  BY <1>2
<1> QED
  BY <1>3, <1>4, <1>5 DEF Later

-----------------------------------------------------------------------------
(* What allow works on: cleanup and its rules only drop leading stamps     *)
(* that are outside the window of their key.                               *)

LEMMA KeyFacts ==
  ASSUME NEW k \in Keys
  PROVE  /\ Limit[k] \in Nat \ {0}
         /\ Window[k] \in Nat \ {0}
         /\ Window[k] <= MaxWindow
         /\ MaxWindow \in Nat \ {0}
         /\ CleanupInterval \in Nat \ {0}
         /\ Delay \in Nat
         /\ Delay < MaxWindow
BY RulesAssumption, TimesAssumption

LEMMA TypeFacts ==
  ASSUME LimiterTypeOK, NEW k \in Keys
  PROVE  /\ attempts[k] \in Seq(Stamps)
         /\ granted[k] \in Seq(Stamps)
         /\ clock \in Nat
         /\ nextCleanup \in Nat
         /\ Len(attempts[k]) <= Limit[k]
<1>1. Stamps \subseteq Nat
  BY DEF Stamps
<1> QED
  BY <1>1 DEF LimiterTypeOK, Stamps

LEMMA SweptIs ==
  ASSUME LimiterTypeOK, NEW now \in Stamps, now <= clock, NEW k \in Keys
  PROVE  /\ Later(Swept(now)[k], attempts[k])
         /\ AttemptsKept => Suffix(Swept(now)[k], granted[k], clock - Window[k])
         /\ nextCleanup <= now /\ Swept(now)[k] # <<>> =>
               Swept(now)[k][1] > now - MaxWindow
<1>1. now \in Nat
  BY DEF Stamps
<1>2. AttemptsKept => Suffix(attempts[k], granted[k], clock - Window[k])
  <2> SUFFICES ASSUME AttemptsKept
               PROVE  Suffix(attempts[k], granted[k], clock - Window[k])
    OBVIOUS
  <2>1. PICK n \in 0..Len(granted[k]) :
           /\ Len(attempts[k]) = Len(granted[k]) - n
           /\ \A i \in 1..Len(attempts[k]) : attempts[k][i] = granted[k][i + n]
           /\ \A i \in 1..n : granted[k][i] + Window[k] <= clock
    BY DEF AttemptsKept, Kept
  <2>2. Len(granted[k]) \in Nat /\ \A i \in 1..Len(granted[k]) : granted[k][i] \in Nat
    BY TypeFacts, StampIsNat
  <2>3. \A i \in 1..n : granted[k][i] <= clock - Window[k]
    <3> TAKE i \in 1..n
    <3>1. i \in 1..Len(granted[k])
      BY <2>2
    <3>2. granted[k][i] \in Nat /\ granted[k][i] + Window[k] <= clock
      BY <2>1, <2>2, <3>1
    <3> QED
      BY <3>2, TypeFacts, KeyFacts
  <2> QED
    BY <2>1, <2>3 DEF Suffix
<1>3. CASE now < nextCleanup
  <2>1. Swept(now)[k] = attempts[k]
    BY <1>3 DEF Swept
  <2>2. ~ (nextCleanup <= now)
    BY <1>1, <1>3, TypeFacts
  <2> QED
    BY <1>2, <2>1, <2>2, LaterItself, TypeFacts
<1>4. CASE ~ (now < nextCleanup)
  <2>1. Swept(now)[k] = Pruned(attempts[k], now - MaxWindow)
    BY <1>4 DEF Swept
  <2>2. now - MaxWindow \in Int /\ now - MaxWindow <= clock - Window[k]
    BY <1>1, TypeFacts, KeyFacts
  <2>3. clock - Window[k] \in Int
    BY TypeFacts, KeyFacts
  <2> QED
    <3>1. Later(Swept(now)[k], attempts[k])
      BY <2>1, <2>2, PrunedLater, TypeFacts
    <3>2. AttemptsKept => Suffix(Swept(now)[k], granted[k], clock - Window[k])
      BY <1>2, <2>1, <2>2, <2>3, PrunedSuffix, TypeFacts
    <3>3. Swept(now)[k] # <<>> => Swept(now)[k][1] > now - MaxWindow
      BY <2>1, <2>2, PrunedHead, TypeFacts
    <3> QED
      BY <3>1, <3>2, <3>3
<1> QED
  BY <1>3, <1>4

LEMMA CurrentIs ==
  ASSUME LimiterTypeOK, NEW now \in Stamps, now <= clock, NEW keys \in SUBSET Keys,
         NEW k \in Keys
  PROVE  LET c == Current(now, keys)[k]
         IN  /\ Later(c, attempts[k])
             /\ AttemptsKept => Suffix(c, granted[k], clock - Window[k])
             /\ nextCleanup <= now /\ c # <<>> => c[1] > now - MaxWindow
<1> DEFINE s == Swept(now)[k]
           c == Current(now, keys)[k]
<1>1. now \in Nat /\ now - Window[k] \in Int /\ now - Window[k] <= clock - Window[k]
  BY KeyFacts, TypeFacts DEF Stamps
<1>2. /\ Later(s, attempts[k])
      /\ AttemptsKept => Suffix(s, granted[k], clock - Window[k])
      /\ nextCleanup <= now /\ s # <<>> => s[1] > now - MaxWindow
  BY SweptIs
<1>3. s \in Seq(Stamps)
  BY <1>2 DEF Later
<1>4. c = IF k \in keys THEN Pruned(s, now - Window[k]) ELSE s
  BY DEF Current
<1> HIDE DEF s, c
<1>5. clock - Window[k] \in Int
  BY TypeFacts, KeyFacts
<1>6. CASE k \in keys
  <2>1. c = Pruned(s, now - Window[k])
    BY <1>4, <1>6
  <2>2. Later(c, s)
    BY <1>1, <1>3, <2>1, PrunedLater
  <2>3. Later(c, attempts[k])
    BY <1>2, <2>2, LaterTransitive, TypeFacts
  <2>4. AttemptsKept => Suffix(c, granted[k], clock - Window[k])
    BY <1>1, <1>2, <1>3, <1>5, <2>1, PrunedSuffix, TypeFacts
  <2>5. ASSUME nextCleanup <= now, c # <<>>
        PROVE  c[1] > now - MaxWindow
    <3>1. s # <<>> /\ s[1] <= c[1] /\ s[1] > now - MaxWindow
      BY <1>2, <2>2, <2>5 DEF Later
    <3>2. Len(s) \in Nat \ {0} /\ Len(c) \in Nat \ {0} /\ c \in Seq(Stamps)
      BY <1>3, <2>2, <2>5, <3>1, EmptySeq DEF Later
    <3>3. s[1] \in Nat /\ c[1] \in Nat
      BY <1>3, <3>2, StampIsNat
    <3> QED
      BY <1>1, <3>1, <3>3, KeyFacts
  <2> QED
    BY <2>3, <2>4, <2>5 DEF c
<1>7. CASE k \notin keys
  BY <1>2, <1>4, <1>7 DEF c
<1> QED
  BY <1>6, <1>7

-----------------------------------------------------------------------------
(* The time a refused request is told: when the oldest stamps of all keys  *)
(* that are full have left their windows.                                  *)

LEMMA ServedFacts ==
  ASSUME LimiterTypeOK, ArrivedLately, NEW r \in Callers, arrived[r] # Nobody
  PROVE  /\ arrived[r].stamp \in Stamps
         /\ arrived[r].stamp <= clock
         /\ clock <= arrived[r].stamp + Delay
         /\ arrived[r].keys \in RuleSets
         /\ arrived[r].keys \in SUBSET Keys
<1>1. arrived[r] \in [stamp : 0..MaxTime, keys : RuleSets]
  BY DEF LimiterTypeOK
<1> QED
  BY <1>1, RulesAssumption DEF ArrivedLately, Stamps

LEMMA FullHead ==
  ASSUME LimiterTypeOK, NEW now \in Stamps, now <= clock, NEW keys \in SUBSET Keys,
         NEW k \in Full(now, keys)
  PROVE  /\ Current(now, keys)[k] # <<>>
         /\ Current(now, keys)[k][1] \in 0..MaxTime
<1> DEFINE c == Current(now, keys)[k]
<1>1. k \in Keys /\ Len(c) >= Limit[k]
  BY DEF Full
<1>2. c \in Seq(Stamps)
  BY <1>1, CurrentIs DEF Later
<1> HIDE DEF c
<1>3. Len(c) \in Nat \ {0}
  BY <1>1, <1>2, KeyFacts, StampIsNat
<1>4. c # <<>> /\ 1 \in 1..Len(c)
  BY <1>2, <1>3, EmptySeq
<1>5. c[1] \in Stamps
  BY <1>2, <1>4, ElementOfSeq
<1> QED
  BY <1>4, <1>5 DEF c, Stamps

LEMMA RetryAtIs ==
  ASSUME LimiterTypeOK, NEW now \in Stamps, now <= clock, NEW keys \in SUBSET Keys,
         Full(now, keys) # {}
  PROVE  /\ RetryAt(now, keys) \in Nat
         /\ \A k \in Full(now, keys) :
               Current(now, keys)[k][1] + Window[k] <= RetryAt(now, keys)
<1> DEFINE E(k) == Current(now, keys)[k][1] + Window[k]
           S == {E(k) : k \in Full(now, keys)}
<1>1. ASSUME NEW k \in Full(now, keys)
      PROVE  E(k) \in Nat /\ E(k) <= MaxTime + MaxWindow
  <2>1. k \in Keys /\ Current(now, keys)[k][1] \in 0..MaxTime
    BY FullHead DEF Full
  <2> QED
    BY <2>1, KeyFacts, TimesAssumption
<1>2. RetryAt(now, keys) = Max(S)
  BY DEF RetryAt
<1> HIDE DEF E
<1>3. S \in SUBSET Nat /\ S # {} /\ \A x \in S : x <= MaxTime + MaxWindow
  BY <1>1
<1>4. MaxTime + MaxWindow \in Nat
  BY TimesAssumption
<1> HIDE DEF S
<1>5. Max(S) \in S /\ \A x \in S : x <= Max(S)
  BY <1>3, <1>4, MaxIs
<1>6. \A k \in Full(now, keys) : E(k) <= Max(S)
  BY <1>5 DEF S
<1> QED
  BY <1>2, <1>3, <1>5, <1>6 DEF E

-----------------------------------------------------------------------------
(* The effect of one request on one key.                                   *)

LEMMA AllowEffect ==
  ASSUME NEW r \in Callers, NEW k \in Keys, Allow(r)
  PROVE  LET now  == arrived[r].stamp
             keys == arrived[r].keys
         IN  /\ attempts'[k] = IF k \in keys
                               THEN Append(Current(now, keys)[k], now)
                               ELSE Current(now, keys)[k]
             /\ granted'[k] = IF k \in keys THEN Append(granted[k], now)
                                             ELSE granted[k]
             /\ k \in keys => ~ (Len(Current(now, keys)[k]) >= Limit[k])
BY DEF Allow, Full

LEMMA RefuseEffect ==
  ASSUME NEW r \in Callers, NEW k \in Keys, Refuse(r)
  PROVE  /\ attempts'[k] = Current(arrived[r].stamp, arrived[r].keys)[k]
         /\ granted'[k] = granted[k]
BY DEF Refuse

LEMMA AppendSuffix ==
  ASSUME NEW c \in Seq(Stamps), NEW g \in Seq(Stamps), NEW b \in Int,
         NEW e \in Stamps, Suffix(c, g, b)
  PROVE  Suffix(Append(c, e), Append(g, e), b)
<1> DEFINE p == Append(c, e)
           h == Append(g, e)
<1>1. PICK n \in 0..Len(g) : /\ Len(c) = Len(g) - n
                             /\ \A i \in 1..Len(c) : c[i] = g[i + n]
                             /\ \A i \in 1..n : g[i] <= b
  BY DEF Suffix
<1>2. /\ Len(p) = Len(c) + 1
      /\ \A i \in 1..Len(c) : p[i] = c[i]
      /\ p[Len(c) + 1] = e
  BY AppendProperties
<1>3. /\ Len(h) = Len(g) + 1
      /\ \A i \in 1..Len(g) : h[i] = g[i]
      /\ h[Len(g) + 1] = e
  BY AppendProperties
<1>4. Len(c) \in Nat /\ Len(g) \in Nat
  BY StampIsNat
<1> HIDE DEF p, h
<1>5. n \in 0..Len(h) /\ Len(p) = Len(h) - n
  BY <1>1, <1>2, <1>3, <1>4
<1>6. \A i \in 1..Len(p) : p[i] = h[i + n]
  <2> TAKE i \in 1..Len(p)
  <2>1. CASE i = Len(c) + 1
    <3>1. i + n = Len(g) + 1
      BY <1>1, <1>4, <2>1
    <3> QED
      BY <1>2, <1>3, <2>1, <3>1
  <2>2. CASE i <= Len(c)
    <3>1. i \in 1..Len(c) /\ i + n \in 1..Len(g)
      BY <1>1, <1>4, <2>2
    <3> QED
      BY <1>1, <1>2, <1>3, <3>1
  <2> QED
    BY <1>2, <1>4, <2>1, <2>2
<1>7. \A i \in 1..n : h[i] <= b
  <2> TAKE i \in 1..n
  <2>1. i \in 1..Len(g)
    BY <1>1, <1>4
  <2> QED
    BY <1>1, <1>3, <2>1
<1> QED
  BY <1>5, <1>6, <1>7 DEF Suffix, p, h

-----------------------------------------------------------------------------
(* The inductive invariant, part by part.                                  *)

LEMMA InitHolds == InitLimiter => IInv /\ WindowKept /\ RetryHonest
<1> SUFFICES ASSUME InitLimiter PROVE IInv /\ WindowKept /\ RetryHonest
  OBVIOUS
<1>1. LimiterTypeOK
  BY KeyFacts, TimesAssumption DEF InitLimiter, LimiterTypeOK
<1>2. ArrivedLately
  BY DEF InitLimiter, ArrivedLately
<1>3. AttemptsKept
  BY DEF InitLimiter, AttemptsKept, Kept
<1>4. HeadsFresh
  BY TimesAssumption DEF InitLimiter, HeadsFresh
<1>5. WindowKept
  BY KeyFacts DEF InitLimiter, WindowKept
<1>6. RetryHonest
  BY DEF InitLimiter, RetryHonest
<1> QED
  BY <1>1, <1>2, <1>3, <1>4, <1>5, <1>6 DEF IInv

LEMMA ServeStep ==
  ASSUME IInv, NEW r \in Callers, Serve(r)
  PROVE  /\ arrived[r] # Nobody
         /\ clock' \in 0..MaxTime
         /\ arrived' \in [Callers ->
                             {Nobody} \cup [stamp : 0..MaxTime, keys : RuleSets]]
         /\ nextCleanup' \in Nat
         /\ nextCleanup' <= clock' + CleanupInterval
         /\ ArrivedLately'
<1>1. arrived[r] # Nobody /\ clock' = clock
  BY DEF Serve
<1>2. clock' \in 0..MaxTime
  BY <1>1 DEF IInv, LimiterTypeOK
<1>3. arrived' \in [Callers ->
                      {Nobody} \cup [stamp : 0..MaxTime, keys : RuleSets]]
  BY DEF Serve, IInv, LimiterTypeOK
<1>4. \A q \in Callers : arrived'[q] # Nobody => arrived'[q] = arrived[q]
  BY DEF Serve, IInv, LimiterTypeOK
<1>5. ArrivedLately'
  BY <1>1, <1>4 DEF IInv, ArrivedLately
<1>6. nextCleanup' \in Nat /\ nextCleanup' <= clock' + CleanupInterval
  <2>1. arrived[r].stamp \in Stamps /\ arrived[r].stamp <= clock
    BY <1>1, ServedFacts DEF IInv
  <2>2. CASE nextCleanup' = nextCleanup
    BY <1>1, <2>2 DEF IInv, LimiterTypeOK, HeadsFresh
  <2>3. CASE nextCleanup' = arrived[r].stamp + CleanupInterval
    BY <1>1, <2>1, <2>3, TimesAssumption DEF IInv, LimiterTypeOK, Stamps
  <2> QED
    BY <2>2, <2>3 DEF Serve
<1> QED
  BY <1>1, <1>2, <1>3, <1>5, <1>6

(* The clean-up time is in step with the oldest stamp allow leaves.        *)
LEMMA CleanupStep ==
  ASSUME IInv, NEW r \in Callers, Serve(r), NEW k \in Keys
  PROVE  LET c == Current(arrived[r].stamp, arrived[r].keys)[k]
         IN  c # <<>> => /\ nextCleanup' <= c[1] + MaxWindow + CleanupInterval
                         /\ arrived[r].stamp < c[1] + MaxWindow + CleanupInterval
<1> DEFINE now == arrived[r].stamp
           c == Current(now, arrived[r].keys)[k]
<1> SUFFICES ASSUME c # <<>>
             PROVE  /\ nextCleanup' <= c[1] + MaxWindow + CleanupInterval
                    /\ now < c[1] + MaxWindow + CleanupInterval
  OBVIOUS
<1>1. /\ now \in Stamps
      /\ now \in Nat
      /\ now <= clock
      /\ arrived[r].keys \in SUBSET Keys
  BY ServeStep, ServedFacts DEF IInv, Stamps
<1>2. /\ c \in Seq(Stamps)
      /\ attempts[k] # <<>> /\ attempts[k][1] <= c[1]
      /\ nextCleanup <= now => c[1] > now - MaxWindow
  BY <1>1, CurrentIs DEF IInv, Later
<1>3. nextCleanup' = IF now < nextCleanup THEN nextCleanup
                     ELSE now + CleanupInterval
  BY DEF Serve
<1>4. nextCleanup <= attempts[k][1] + MaxWindow + CleanupInterval
  BY <1>2 DEF IInv, HeadsFresh
<1>5. \A t \in Seq(Stamps) : t # <<>> => t[1] \in Nat
  <2> TAKE t \in Seq(Stamps)
  <2> HAVE t # <<>>
  <2>1. 1 \in 1..Len(t)
    BY EmptySeq
  <2> QED
    BY <2>1, StampIsNat
<1>6. c[1] \in Nat /\ attempts[k][1] \in Nat /\ nextCleanup \in Nat
  BY <1>2, <1>5, TypeFacts DEF IInv
<1>7. MaxWindow \in Nat /\ CleanupInterval \in Nat \ {0}
  BY TimesAssumption
<1> HIDE DEF now, c
<1>8. CASE now < nextCleanup
  <2>1. nextCleanup' = nextCleanup
    BY <1>3, <1>8
  <2> QED
    BY <1>1, <1>2, <1>4, <1>6, <1>7, <1>8, <2>1
<1>9. CASE ~ (now < nextCleanup)
  <2>1. nextCleanup' = now + CleanupInterval
    BY <1>3, <1>9
  <2>2. c[1] > now - MaxWindow
    BY <1>1, <1>2, <1>6, <1>9
  <2> QED
    BY <1>1, <1>6, <1>7, <2>1, <2>2
<1> QED
  BY <1>8, <1>9

(* What both outcomes of allow keep, told apart by granted and told.       *)
LEMMA KeyStep ==
  ASSUME IInv, NEW r \in Callers, Allow(r) \/ Refuse(r), NEW k \in Keys
  PROVE  /\ attempts'[k] \in Seq(Stamps)
         /\ granted'[k] \in Seq(Stamps)
         /\ Len(attempts'[k]) <= Limit[k]
         /\ Suffix(attempts'[k], granted'[k], clock - Window[k])
         /\ attempts'[k] # <<>> =>
               /\ nextCleanup' <= attempts'[k][1] + MaxWindow + CleanupInterval
               /\ arrived[r].stamp < attempts'[k][1] + MaxWindow + CleanupInterval
<1> DEFINE now == arrived[r].stamp
           keys == arrived[r].keys
           c == Current(now, keys)[k]
<1>1. Serve(r)
  BY DEF Allow, Refuse
<1>2. now \in Stamps /\ now <= clock /\ clock <= now + Delay /\ keys \in SUBSET Keys
  BY <1>1, ServeStep, ServedFacts DEF IInv
<1>3. /\ Later(c, attempts[k])
      /\ Suffix(c, granted[k], clock - Window[k])
  BY <1>2, CurrentIs DEF IInv
<1>4. /\ attempts[k] \in Seq(Stamps) /\ granted[k] \in Seq(Stamps)
      /\ clock \in Nat /\ nextCleanup' \in Nat
      /\ nextCleanup' <= clock + CleanupInterval
      /\ Len(attempts[k]) <= Limit[k]
      /\ clock - Window[k] \in Int
  <2>1. clock' = clock
    BY <1>1 DEF Serve
  <2>2. nextCleanup' \in Nat /\ nextCleanup' <= clock + CleanupInterval
    BY <1>1, <2>1, ServeStep
  <2>3. clock \in Nat /\ clock - Window[k] \in Int
    BY TypeFacts, KeyFacts DEF IInv
  <2> QED
    BY <2>2, <2>3, TypeFacts DEF IInv
<1>5. c \in Seq(Stamps) /\ Len(c) \in Nat /\ Len(c) <= Len(attempts[k])
  BY <1>3, StampIsNat DEF Later
<1>6. c # <<>> => /\ nextCleanup' <= c[1] + MaxWindow + CleanupInterval
                  /\ now < c[1] + MaxWindow + CleanupInterval
  BY <1>1, CleanupStep
<1>7. CASE attempts'[k] = c /\ granted'[k] = granted[k]
  <2>1. Len(c) <= Limit[k]
    BY <1>4, <1>5, KeyFacts, StampIsNat
  <2> HIDE DEF c
  <2> QED
    BY <1>3, <1>4, <1>5, <1>6, <1>7, <2>1
<1>8. CASE /\ Allow(r) /\ k \in keys
  <2>1. /\ attempts'[k] = Append(c, now)
        /\ granted'[k] = Append(granted[k], now)
        /\ ~ (Len(c) >= Limit[k])
    BY <1>8, AllowEffect
  <2> HIDE DEF c, now
  <2>2. /\ Append(c, now) \in Seq(Stamps)
        /\ Len(Append(c, now)) = Len(c) + 1
        /\ \A i \in 1..Len(c) : Append(c, now)[i] = c[i]
        /\ Append(c, now)[Len(c) + 1] = now
    BY <1>2, <1>5, AppendProperties
  <2>3. Append(granted[k], now) \in Seq(Stamps)
    BY <1>2, <1>4, AppendProperties
  <2>4. Len(c) + 1 <= Limit[k]
    BY <1>5, <2>1, KeyFacts
  <2>5. Suffix(Append(c, now), Append(granted[k], now), clock - Window[k])
    BY <1>2, <1>3, <1>4, <1>5, AppendSuffix
  <2>6. /\ nextCleanup' <= Append(c, now)[1] + MaxWindow + CleanupInterval
        /\ now < Append(c, now)[1] + MaxWindow + CleanupInterval
    <3>1. CASE c = <<>>
      <4>1. Append(c, now)[1] = now
        BY <2>2, <3>1
      <4>2. now \in Nat
        BY <1>2 DEF Stamps
      <4> QED
        BY <1>2, <1>4, <4>1, <4>2, KeyFacts
    <3>2. CASE c # <<>>
      <4>1. 1 \in 1..Len(c)
        BY <1>5, <3>2, EmptySeq
      <4> QED
        BY <1>6, <2>2, <3>2, <4>1
    <3> QED
      BY <3>1, <3>2
  <2> QED
    BY <2>1, <2>2, <2>3, <2>4, <2>5, <2>6 DEF now
<1>9. Allow(r) /\ k \notin keys => attempts'[k] = c /\ granted'[k] = granted[k]
  BY AllowEffect
<1>10. Refuse(r) => attempts'[k] = c /\ granted'[k] = granted[k]
  BY RefuseEffect
<1> HIDE DEF c, now, keys
<1> QED
  BY <1>7, <1>8, <1>9, <1>10 DEF now

LEMMA ToldStep ==
  ASSUME IInv, NEW r \in Callers, Allow(r) \/ Refuse(r)
  PROVE  told' \in [RuleSets -> Nat \cup {Never}]
<1>1. told \in [RuleSets -> Nat \cup {Never}]
  BY DEF IInv, LimiterTypeOK
<1>2. CASE Allow(r)
  BY <1>1, <1>2 DEF Allow
<1>3. CASE Refuse(r)
  <2> DEFINE keys == arrived[r].keys
             t == RetryAt(arrived[r].stamp, keys)
             old == told[keys]
  <2>1. keys \in RuleSets /\ t \in Nat
    BY <1>3, ServeStep, ServedFacts, RetryAtIs DEF Refuse, IInv
  <2> HIDE DEF t
  <2>2. old \in Nat \cup {Never}
    BY <1>1, <2>1
  <2> HIDE DEF old
  <2>3. old # Never => Min({old, t}) \in Nat
    BY <2>1, <2>2 DEF Min
  <2>4. told' = [told EXCEPT ![keys] = IF old = Never THEN t ELSE Min({old, t})]
    BY <1>3 DEF Refuse, t, old
  <2> QED
    BY <1>1, <2>1, <2>3, <2>4
<1> QED
  BY <1>2, <1>3

LEMMA InvariantStep == IInv /\ [NextLimiter]_limiterVars => IInv'
<1> SUFFICES ASSUME IInv, [NextLimiter]_limiterVars PROVE IInv'
  OBVIOUS
<1>1. clock \in Nat /\ clock \in 0..MaxTime
  BY DEF IInv, LimiterTypeOK
<1>2. ASSUME NEW r \in Callers, NEW keys \in RuleSets, Arrive(r, keys)
      PROVE  IInv'
  <2> USE <1>2 DEF Arrive
  <2>1. arrived' \in [Callers ->
                       {Nobody} \cup [stamp : 0..MaxTime, keys : RuleSets]]
    BY <1>1 DEF IInv, LimiterTypeOK
  <2>2. LimiterTypeOK'
    BY <2>1 DEF IInv, LimiterTypeOK
  <2>3. \A q \in Callers : arrived'[q] =
           IF q = r THEN [stamp |-> clock, keys |-> keys] ELSE arrived[q]
    BY DEF IInv, LimiterTypeOK
  <2>4. clock <= clock /\ clock <= clock + Delay
    BY <1>1, TimesAssumption
  <2>5. ArrivedLately'
    BY <2>3, <2>4 DEF IInv, ArrivedLately
  <2>6. AttemptsKept' /\ HeadsFresh'
    BY DEF IInv, AttemptsKept, Kept, HeadsFresh
  <2> QED
    BY <2>2, <2>5, <2>6 DEF IInv
<1>3. ASSUME NEW r \in Callers, Allow(r) \/ Refuse(r)
      PROVE  IInv'
  <2>1. Serve(r) /\ clock' = clock
    BY <1>3 DEF Allow, Refuse, Serve
  <2>2. DOMAIN attempts' = Keys /\ attempts' = [k \in Keys |-> attempts'[k]]
    BY <1>3 DEF Allow, Refuse, Current
  <2>3. DOMAIN granted' = Keys /\ granted' = [k \in Keys |-> granted'[k]]
    BY <1>3 DEF Allow, Refuse, IInv, LimiterTypeOK
  <2>4. attempts' \in [Keys -> Seq(Stamps)] /\ granted' \in [Keys -> Seq(Stamps)]
    BY <1>3, <2>2, <2>3, KeyStep
  <2>5. LimiterTypeOK'
    BY <1>3, <2>1, <2>4, KeyStep, ServeStep, ToldStep DEF LimiterTypeOK, Stamps
  <2>6. ASSUME NEW k \in Keys PROVE Kept(k)'
    <3> DEFINE a == attempts'[k]
               g == granted'[k]
    <3>1. Suffix(a, g, clock - Window[k]) /\ g \in Seq(Stamps)
      BY <1>3, KeyStep
    <3> HIDE DEF a, g
    <3>2. PICK n \in 0..Len(g) : /\ Len(a) = Len(g) - n
                                 /\ \A i \in 1..Len(a) : a[i] = g[i + n]
                                 /\ \A i \in 1..n : g[i] <= clock - Window[k]
      BY <3>1 DEF Suffix
    <3>3. \A i \in 1..n : g[i] + Window[k] <= clock
      <4> TAKE i \in 1..n
      <4>1. g[i] \in Nat /\ g[i] <= clock - Window[k]
        BY <3>1, <3>2, StampIsNat
      <4> QED
        BY <1>1, <4>1, KeyFacts
    <3> QED
      BY <2>1, <3>2, <3>3 DEF Kept, a, g
  <2>7. HeadsFresh'
    BY <1>3, <2>1, KeyStep, ServeStep DEF HeadsFresh
  <2> QED
    BY <2>1, <2>5, <2>6, <2>7, ServeStep DEF IInv, AttemptsKept
<1>4. ASSUME NEW k \in ResetKeys, Reset(k)
      PROVE  IInv'
  <2> USE <1>4 DEF Reset
  <2>1. \A l \in Keys : /\ attempts'[l] = IF l = k THEN <<>> ELSE attempts[l]
                        /\ granted'[l] = IF l = k THEN <<>> ELSE granted[l]
    BY DEF IInv, LimiterTypeOK
  <2>2. /\ attempts' \in [Keys -> Seq(0..MaxTime)]
        /\ granted' \in [Keys -> Seq(0..MaxTime)]
    <3>1. <<>> \in Seq(0..MaxTime)
      BY EmptySeq
    <3> QED
      BY <3>1 DEF IInv, LimiterTypeOK
  <2>3. \A l \in Keys : Len(attempts'[l]) <= Limit[l]
    BY <2>1, KeyFacts DEF IInv, LimiterTypeOK
  <2>4. LimiterTypeOK'
    BY <2>2, <2>3 DEF IInv, LimiterTypeOK
  <2>5. ASSUME NEW l \in Keys PROVE Kept(l)'
    <3>1. CASE l = k
      BY <2>1, <3>1 DEF Kept
    <3>2. CASE l # k
      BY <2>1, <3>2 DEF Kept, IInv, AttemptsKept
    <3> QED
      BY <3>1, <3>2
  <2>6. ArrivedLately' /\ HeadsFresh'
    BY <2>1 DEF IInv, ArrivedLately, HeadsFresh
  <2> QED
    BY <2>4, <2>5, <2>6 DEF IInv, AttemptsKept
<1>5. ASSUME Tick PROVE IInv'
  <2> USE <1>5 DEF Tick
  <2>1. clock' = clock + 1 /\ clock' \in 0..MaxTime
    BY <1>1, TimesAssumption
  <2>2. LimiterTypeOK'
    BY <2>1 DEF IInv, LimiterTypeOK
  <2>3. ASSUME NEW r \in Callers, arrived[r] # Nobody
        PROVE  arrived[r].stamp <= clock + 1 /\ clock + 1 <= arrived[r].stamp + Delay
    <3>1. arrived[r].stamp \in Nat /\ arrived[r].stamp <= clock
      BY <2>3, ServedFacts DEF IInv, Stamps
    <3>2. clock < arrived[r].stamp + Delay
      BY <2>3
    <3> QED
      BY <1>1, <3>1, <3>2, TimesAssumption
  <2>4. ArrivedLately'
    BY <2>1, <2>3 DEF ArrivedLately
  <2>5. ASSUME NEW k \in Keys PROVE Kept(k)'
    <3>1. PICK n \in 0..Len(granted[k]) :
             /\ Len(attempts[k]) = Len(granted[k]) - n
             /\ \A i \in 1..Len(attempts[k]) : attempts[k][i] = granted[k][i + n]
             /\ \A i \in 1..n : granted[k][i] + Window[k] <= clock
      BY DEF IInv, AttemptsKept, Kept
    <3>2. \A i \in 1..n : granted[k][i] + Window[k] <= clock'
      <4> TAKE i \in 1..n
      <4>1. granted[k][i] \in Nat
        BY TypeFacts, StampIsNat DEF IInv
      <4> QED
        BY <1>1, <2>1, <3>1, <4>1, KeyFacts
    <3> QED
      BY <3>1, <3>2 DEF Kept
  <2>6. HeadsFresh'
    <3>1. nextCleanup \in Nat /\ nextCleanup <= clock + CleanupInterval
      BY DEF IInv, HeadsFresh, LimiterTypeOK
    <3>2. nextCleanup <= (clock + 1) + CleanupInterval
      BY <1>1, <3>1, TimesAssumption
    <3> QED
      BY <2>1, <3>2 DEF IInv, HeadsFresh
  <2> QED
    BY <2>2, <2>4, <2>5, <2>6 DEF IInv, AttemptsKept
<1>6. CASE UNCHANGED limiterVars
  BY <1>6 DEF limiterVars, IInv, LimiterTypeOK, ArrivedLately, AttemptsKept, Kept, HeadsFresh
<1> QED
  BY <1>2, <1>3, <1>4, <1>5, <1>6, RulesAssumption DEF NextLimiter

-----------------------------------------------------------------------------
(* The properties.                                                         *)

LEMMA WindowStep ==
  IInv /\ WindowKept /\ [NextLimiter]_limiterVars => WindowKept'
<1> SUFFICES ASSUME IInv, WindowKept, [NextLimiter]_limiterVars,
                    NEW k \in Keys, NEW j \in DOMAIN (granted'[k]), j > Limit[k]
             PROVE  granted'[k][j - Limit[k]] + Window[k] <= granted'[k][j] + Delay
  BY DEF WindowKept
<1> DEFINE g == granted[k]
<1>1. g \in Seq(Stamps) /\ Len(g) \in Nat /\ DOMAIN g = 1..Len(g)
  BY TypeFacts, LenProperties DEF IInv
<1>2. Limit[k] \in Nat \ {0} /\ Window[k] \in Nat /\ Delay \in Nat
  BY KeyFacts
<1>3. CASE granted'[k] = g
  BY <1>3 DEF WindowKept
<1>4. ASSUME NEW r \in Callers, Allow(r), k \in arrived[r].keys
      PROVE  granted'[k][j - Limit[k]] + Window[k] <= granted'[k][j] + Delay
  <2> DEFINE now == arrived[r].stamp
             c == Current(now, arrived[r].keys)[k]
  <2>1. arrived[r] # Nobody
    BY <1>4 DEF Allow, Serve
  <2>2. /\ now \in Stamps /\ now \in Nat /\ clock <= now + Delay
        /\ clock \in Nat /\ now <= clock
        /\ arrived[r].keys \in SUBSET Keys
    BY <2>1, ServedFacts, TypeFacts DEF IInv, Stamps
  <2>3. c \in Seq(Stamps) /\ Suffix(c, g, clock - Window[k])
    BY <2>2, CurrentIs DEF IInv, Later
  <2>4. granted'[k] = Append(g, now) /\ ~ (Len(c) >= Limit[k])
    BY <1>4, AllowEffect
  <2> HIDE DEF c, now, g
  <2>5. PICK n \in 0..Len(g) : /\ Len(c) = Len(g) - n
                               /\ \A i \in 1..n : g[i] <= clock - Window[k]
    BY <2>3 DEF Suffix
  <2>6. /\ Append(g, now) \in Seq(Stamps)
        /\ Len(Append(g, now)) = Len(g) + 1
        /\ \A i \in 1..Len(g) : Append(g, now)[i] = g[i]
        /\ Append(g, now)[Len(g) + 1] = now
    BY <1>1, <2>2, AppendProperties
  <2>7. j \in 1..(Len(g) + 1)
    BY <2>4, <2>6, LenProperties
  <2>8. j - Limit[k] \in 1..Len(g)
    BY <1>1, <1>2, <2>7
  <2>9. g[j - Limit[k]] \in Nat
    BY <1>1, <2>8, StampIsNat
  <2>10. CASE j = Len(g) + 1
    <3>1. j - Limit[k] \in 1..n
      BY <1>1, <1>2, <2>3, <2>4, <2>5, <2>7, <2>8, <2>10, StampIsNat
    <3>2. g[j - Limit[k]] <= clock - Window[k]
      BY <2>5, <3>1
    <3>3. g[j - Limit[k]] + Window[k] <= now + Delay
      BY <1>2, <2>2, <2>9, <3>2
    <3> QED
      BY <2>4, <2>6, <2>8, <2>10, <3>3
  <2>11. CASE j \in 1..Len(g)
    <3>1. g[j - Limit[k]] + Window[k] <= g[j] + Delay
      BY <1>1, <2>11 DEF WindowKept, g
    <3> QED
      BY <2>4, <2>6, <2>8, <2>11, <3>1
  <2> QED
    BY <1>1, <2>7, <2>10, <2>11
<1>5. CASE granted'[k] = <<>>
  <2>1. DOMAIN (granted'[k]) = 1..0
    BY <1>5
  <2> QED
    BY <2>1
<1>6. granted'[k] = g \/ granted'[k] = <<>>
        \/ \E r \in Callers : Allow(r) /\ k \in arrived[r].keys
  <2>1. ASSUME NEW r \in Callers, Allow(r), k \notin arrived[r].keys
        PROVE  granted'[k] = g
    BY <2>1, AllowEffect
  <2>2. ASSUME NEW l \in ResetKeys, Reset(l)
        PROVE  granted'[k] = g \/ granted'[k] = <<>>
    BY <2>2 DEF Reset, IInv, LimiterTypeOK
  <2>3. granted' = granted => granted'[k] = g
    OBVIOUS
  <2> HIDE DEF g
  <2> QED
    BY <2>1, <2>2, <2>3 DEF NextLimiter, Arrive, Refuse, Tick, limiterVars
<1> QED
  BY <1>3, <1>4, <1>5, <1>6

LEMMA RetryStep ==
  IInv /\ RetryHonest /\ [NextLimiter]_limiterVars => RetryHonest'
<1> SUFFICES ASSUME IInv, RetryHonest, [NextLimiter]_limiterVars,
                    NEW K \in RuleSets, told'[K] # Never, NEW k \in K
             PROVE  Len(Pruned(attempts'[k], told'[K] - Window[k])) < Limit[k]
  BY DEF RetryHonest
<1>1. k \in Keys /\ K \in SUBSET Keys
  BY RulesAssumption
<1>2. told \in [RuleSets -> Nat \cup {Never}]
  BY DEF IInv, LimiterTypeOK
<1>3. ASSUME told[K] # Never
      PROVE  /\ told[K] - Window[k] \in Int
             /\ Len(Pruned(attempts[k], told[K] - Window[k])) \in Nat
             /\ Len(Pruned(attempts[k], told[K] - Window[k])) < Limit[k]
  <2>1. told[K] - Window[k] \in Int
    BY <1>1, <1>2, <1>3, KeyFacts
  <2>2. Len(Pruned(attempts[k], told[K] - Window[k])) \in Nat
    BY <1>1, <2>1, PrunedIs, StampIsNat, TypeFacts DEF IInv
  <2> QED
    BY <1>3, <2>1, <2>2 DEF RetryHonest
<1>4. ASSUME NEW c, Later(c, attempts[k]), told[K] # Never
      PROVE  Len(Pruned(c, told[K] - Window[k])) < Limit[k]
  <2>1. Len(Pruned(c, told[K] - Window[k])) \in Nat
    BY <1>3, <1>4, PrunedIs, StampIsNat DEF Later
  <2>2. Len(Pruned(c, told[K] - Window[k]))
           <= Len(Pruned(attempts[k], told[K] - Window[k]))
    BY <1>3, <1>4 DEF Later
  <2> QED
    BY <1>1, <1>3, <1>4, <2>1, <2>2, KeyFacts
<1>5. CASE attempts' = attempts /\ told' = told
  BY <1>3, <1>5
<1>6. ASSUME NEW r \in Callers, Allow(r)
      PROVE  Len(Pruned(attempts'[k], told'[K] - Window[k])) < Limit[k]
  <2> DEFINE c == Current(arrived[r].stamp, arrived[r].keys)[k]
  <2>1. told'[K] = told[K] /\ k \notin arrived[r].keys
    BY <1>6 DEF Allow
  <2>2. attempts'[k] = c
    BY <1>1, <1>6, <2>1, AllowEffect
  <2>3. Later(c, attempts[k])
    BY <1>1, <1>6, ServedFacts, CurrentIs DEF IInv, Allow, Serve
  <2> QED
    BY <1>4, <2>1, <2>2, <2>3
<1>7. ASSUME NEW r \in Callers, Refuse(r)
      PROVE  Len(Pruned(attempts'[k], told'[K] - Window[k])) < Limit[k]
  <2> DEFINE now == arrived[r].stamp
             keys == arrived[r].keys
             c == Current(now, keys)[k]
             t == RetryAt(now, keys)
             old == told[K]
  <2>1. attempts'[k] = c
    BY <1>1, <1>7, RefuseEffect
  <2>2. /\ now \in Stamps /\ now <= clock
        /\ keys \in SUBSET Keys /\ keys \in RuleSets
        /\ Full(now, keys) # {}
    BY <1>7, ServedFacts DEF IInv, Refuse, Serve
  <2>3. Later(c, attempts[k]) /\ c \in Seq(Stamps)
    BY <1>1, <2>2, CurrentIs DEF IInv, Later
  <2>4. t \in Nat
    BY <2>2, RetryAtIs DEF IInv
  <2>5. ASSUME K = keys
        PROVE  Len(Pruned(c, t - Window[k])) < Limit[k]
    <3> DEFINE d == t - Window[k]
               f == FirstCurrent(c, d)
    <3>1. d \in Int
      BY <1>1, <2>4, KeyFacts
    <3>2. /\ f \in 1..(Len(c) + 1)
          /\ f <= Len(c) => c[f] > d
          /\ Len(Pruned(c, d)) = Len(c) + 1 - f
      BY <2>3, <3>1, FirstCurrentIs, PrunedIs
    <3>3. Len(c) \in Nat /\ Len(c) <= Limit[k]
      <4>1. Len(attempts[k]) \in Nat /\ Len(attempts[k]) <= Limit[k]
        BY <1>1, StampIsNat, TypeFacts DEF IInv
      <4>2. Len(c) \in Nat /\ Len(c) <= Len(attempts[k])
        BY <2>3, StampIsNat DEF Later
      <4> QED
        BY <1>1, <4>1, <4>2, KeyFacts
    <3>4. Len(c) >= Limit[k] => /\ c[1] \in Nat
                                /\ c[1] + Window[k] <= t
      <4> SUFFICES ASSUME Len(c) >= Limit[k]
                   PROVE  c[1] \in Nat /\ c[1] + Window[k] <= t
        OBVIOUS
      <4>1. k \in Full(now, keys)
        BY <2>5 DEF Full
      <4>2. c[1] \in Nat
        BY <2>2, <4>1, FullHead DEF IInv
      <4> QED
        BY <2>2, <4>1, <4>2, RetryAtIs DEF IInv
    <3> HIDE DEF c, t, f
    <3>5. Len(c) >= Limit[k] => f # 1
      BY <1>1, <2>4, <3>2, <3>3, <3>4, KeyFacts
    <3> QED
      BY <1>1, <3>2, <3>3, <3>5, KeyFacts
  <2> HIDE DEF c, t
  <2>6. told'[K] = IF K = keys
                   THEN IF old = Never THEN t ELSE Min({old, t})
                   ELSE old
    BY <1>2, <1>7 DEF Refuse, t
  <2>7. old \in Nat \cup {Never}
    BY <1>2
  <2>8. old # Never => Min({old, t}) \in {old, t}
    BY <2>4, <2>7 DEF Min
  <2>9. old # Never => Len(Pruned(c, old - Window[k])) < Limit[k]
    BY <1>4, <2>3
  <2> QED
    BY <2>1, <2>5, <2>6, <2>8, <2>9
<1>8. ASSUME NEW l \in ResetKeys, Reset(l)
      PROVE  Len(Pruned(attempts'[k], told'[K] - Window[k])) < Limit[k]
  <2>1. told' = told
    BY <1>8 DEF Reset
  <2>2. CASE k # l
    <3>1. attempts'[k] = attempts[k]
      BY <1>1, <1>8, <2>2 DEF Reset, IInv, LimiterTypeOK
    <3> QED
      BY <1>3, <2>1, <3>1
  <2>3. CASE k = l
    <3>1. attempts'[k] = <<>>
      BY <1>1, <1>8, <2>3 DEF Reset, IInv, LimiterTypeOK
    <3>2. <<>> \in Seq(Stamps) /\ Len(<<>>) = 0
      BY EmptySeq
    <3>3. ASSUME NEW d \in Int PROVE Len(Pruned(<<>>, d)) = 0
      <4>1. FirstCurrent(<<>>, d) \in 1..(0 + 1)
        BY <3>2, FirstCurrentIs
      <4>2. Len(Pruned(<<>>, d)) = 0 + 1 - FirstCurrent(<<>>, d)
        BY <3>2, PrunedIs
      <4> QED
        BY <4>1, <4>2
    <3>4. told'[K] - Window[k] \in Int
      BY <1>3, <2>1
    <3> QED
      BY <1>1, <2>1, <3>1, <3>3, <3>4, KeyFacts
  <2> QED
    BY <2>2, <2>3
<1> QED
  BY <1>5, <1>6, <1>7, <1>8 DEF NextLimiter, Arrive, Tick, limiterVars

LEMMA ForgottenStep ==
  ASSUME IInv, [NextLimiter]_limiterVars
  PROVE  [\A r \in Callers : arrived[r] # Nobody /\ arrived'[r] = Nobody =>
            \A k \in Keys : attempts'[k] # <<>> =>
               arrived[r].stamp < attempts'[k][1] + MaxWindow + CleanupInterval]_limiterVars
<1> SUFFICES ASSUME NEW r \in Callers, arrived[r] # Nobody, arrived'[r] = Nobody,
                    NEW k \in Keys, attempts'[k] # <<>>
             PROVE  arrived[r].stamp < attempts'[k][1] + MaxWindow + CleanupInterval
  OBVIOUS
<1>1. arrived \in [Callers -> {Nobody} \cup [stamp : 0..MaxTime, keys : RuleSets]]
  BY DEF IInv, LimiterTypeOK
<1>2. ASSUME NEW q \in Callers, NEW keys \in RuleSets, Arrive(q, keys)
      PROVE  FALSE
  <2>1. arrived'[r] = IF r = q THEN [stamp |-> clock, keys |-> keys] ELSE arrived[r]
    BY <1>1, <1>2 DEF Arrive
  <2>2. r = q
    BY <2>1
  <2> QED
    BY <1>2, <2>2 DEF Arrive
<1>3. ASSUME NEW q \in Callers, Serve(q), q # r
      PROVE  FALSE
  BY <1>1, <1>3 DEF Serve
<1>4. CASE Allow(r) \/ Refuse(r)
  BY <1>4, KeyStep
<1>5. arrived' # arrived
  OBVIOUS
<1>6. ~ Tick /\ ~ UNCHANGED limiterVars /\ \A l \in ResetKeys : ~ Reset(l)
  BY <1>5 DEF Tick, Reset, limiterVars
<1>7. ASSUME NEW q \in Callers, Allow(q) \/ Refuse(q)
      PROVE  Allow(r) \/ Refuse(r)
  BY <1>3, <1>7 DEF Allow, Refuse
<1> QED
  BY <1>2, <1>4, <1>6, <1>7 DEF NextLimiter

-----------------------------------------------------------------------------
LEMMA Invariant == SpecLimiter => []IInv
BY InitHolds, InvariantStep, PTL DEF SpecLimiter

(* The limiter holds exactly the stamps a rule may still count, in the     *)
(* order allow recorded them, and never more of a key than its limit.      *)
THEOREM AttemptsAlwaysKept == SpecLimiter => [](LimiterTypeOK /\ AttemptsKept)
<1>1. IInv => LimiterTypeOK /\ AttemptsKept
  BY DEF IInv
<1> QED
  BY <1>1, Invariant, PTL

(* README.md: allow admits at most Limit requests of a key in any window,  *)
(* but for the delay between reading the clock and taking the lock.        *)
THEOREM WindowAlwaysKept == SpecLimiter => []WindowKept
BY Invariant, InitHolds, WindowStep, PTL DEF SpecLimiter

(* Retry-After is kept: refused requests use up nothing.                   *)
THEOREM RetryAlwaysHonest == SpecLimiter => []RetryHonest
BY Invariant, InitHolds, RetryStep, PTL DEF SpecLimiter

(* No key stays in memory for long after its last request.                 *)
THEOREM StaleAlwaysForgotten == SpecLimiter => StaleForgotten
BY Invariant, ForgottenStep, PTL DEF SpecLimiter, StaleForgotten
=============================================================================
