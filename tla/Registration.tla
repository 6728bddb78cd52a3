---------------------------- MODULE Registration ----------------------------
(***************************************************************************)
(* Registered users confirm their address by a link they are mailed        *)
(* (routes/registration.go, routes/email_verification.go): they may ask    *)
(* for another one, links expire, mails are late or lost, and users are    *)
(* deleted and register again.  Times are ages, in ticks of a quarter of   *)
(* an hour or more.  verification_sent_at holds the time of day of the     *)
(* process's zone; the driver reads it back as UTC.                        *)
(***************************************************************************)
EXTENDS Integers

CONSTANTS
    Users,         \* user names with their addresses
    Links,         \* tokens; one is used again when all traces of it are gone
    Interval,      \* verificationResendInterval
    Duration,      \* verificationTokenDuration
    Zones,         \* possible offsets of the process's zone from UTC
    NoLink

ASSUME AgesAssumption ==
    /\ Interval \in Nat \ {0} /\ Duration \in Nat
    /\ Zones \subseteq Int
    /\ \A z \in Zones : Interval + z <= Duration + 1
ASSUME NoLinkAssumption == NoLink \notin Links

VARIABLES
    zone,
    user,          \* "none", "unverified" or "verified"
    token,         \* verification_token
    age,           \* since verification_sent_at
    letter,        \* the mail of each link
    madeAgo,       \* since it was made; only properties read it
    latest,        \* made for the user since they registered; as well
    turnedDown     \* the last request brought no link; as well

linkVars == <<letter, madeAgo, latest>>
registrationVars == <<zone, user, token, age, linkVars, turnedDown>>

Ages == 0 .. Duration + 1   \* older ones make no difference

Older(a) == IF a + 1 \in Ages THEN a + 1 ELSE a

(* Written and compared in the zone, by the database.                      *)
ValidAnyTime(u) == token[u] # NoLink   \* a mutant: without verification_sent_at
Valid(u) == token[u] # NoLink /\ age[u] <= Duration

SentOnce(u) == token[u] # NoLink   \* a mutant: SentAt.Valid alone

(* Read back as UTC and compared with the clock.                           *)
TooSoon(u) == age[u] < Interval + zone

-----------------------------------------------------------------------------
(* The row has a new link, and the handler queues a mail with it.          *)
Made(u, l) ==
    /\ letter[l] = "none"
    /\ \A v \in Users : token[v] # l
    /\ token' = [token EXCEPT ![u] = l]
    /\ age' = [age EXCEPT ![u] = 0]
    /\ letter' = [letter EXCEPT ![l] = "sent"]
    /\ madeAgo' = [madeAgo EXCEPT ![l] = 0]
    /\ latest' = [latest EXCEPT ![u] = l]
    /\ turnedDown' = [turnedDown EXCEPT ![u] = FALSE]

(* A name or an address that is taken changes nothing.                     *)
RegisterUser(u, l) ==
    /\ user[u] = "none"
    /\ user' = [user EXCEPT ![u] = "unverified"]
    /\ Made(u, l)
    /\ UNCHANGED zone

(* requestVerification holds the row from its SELECT to its COMMIT.        *)
RequestVerification(u, l) ==
    /\ user[u] = "unverified"
    /\ ~ TooSoon(u)
    /\ Made(u, l)
    /\ UNCHANGED <<zone, user>>

RequestRefused(u) ==
    /\ user[u] = "unverified"
    /\ TooSoon(u)
    /\ turnedDown' = [turnedDown EXCEPT ![u] = TRUE]
    /\ UNCHANGED <<zone, user, token, age, linkVars>>

(* The page behind a link only looks; its button confirms.                 *)
ConfirmEmail(u, l) ==
    /\ user[u] = "unverified"
    /\ letter[l] = "arrived"
    /\ token[u] = l
    /\ Valid(u)
    /\ user' = [user EXCEPT ![u] = "verified"]
    /\ token' = [token EXCEPT ![u] = NoLink]
    /\ age' = [age EXCEPT ![u] = 0]
    /\ UNCHANGED <<zone, linkVars, turnedDown>>

DeleteUser(u) ==
    /\ user[u] # "none"
    /\ user' = [user EXCEPT ![u] = "none"]
    /\ token' = [token EXCEPT ![u] = NoLink]
    /\ age' = [age EXCEPT ![u] = 0]
    /\ latest' = [latest EXCEPT ![u] = NoLink]
    /\ turnedDown' = [turnedDown EXCEPT ![u] = FALSE]
    /\ UNCHANGED <<zone, letter, madeAgo>>

-----------------------------------------------------------------------------
(* Mails.                                                                  *)
Becomes(l, state) ==
    /\ letter' = [letter EXCEPT ![l] = state]
    /\ UNCHANGED <<zone, user, token, age, madeAgo, latest, turnedDown>>

Arrive(l) == letter[l] = "sent" /\ Becomes(l, "arrived")

(* The process ends before it is queued, or its delivery fails.            *)
Lose(l) == letter[l] = "sent" /\ Becomes(l, "lost")

(* An old mail is thrown away.                                             *)
Discard(l) ==
    /\ letter[l] \in {"arrived", "lost"}
    /\ \A u \in Users : token[u] # l
    /\ letter' = [letter EXCEPT ![l] = "none"]
    /\ madeAgo' = [madeAgo EXCEPT ![l] = 0]
    /\ latest' = [u \in Users |-> IF latest[u] = l THEN NoLink ELSE latest[u]]
    /\ UNCHANGED <<zone, user, token, age, turnedDown>>

(* Every mail is here or lost in the end, and is thrown away.              *)
Settle(l) == Arrive(l) \/ Lose(l) \/ Discard(l)

Tick ==
    /\ age' = [u \in Users |-> IF user[u] = "unverified" THEN Older(age[u]) ELSE 0]
    /\ madeAgo' = [l \in Links |-> IF letter[l] = "none" THEN 0 ELSE Older(madeAgo[l])]
    /\ UNCHANGED <<zone, user, token, letter, latest, turnedDown>>

InitRegistration ==
    /\ zone \in Zones
    /\ user = [u \in Users |-> "none"]
    /\ token = [u \in Users |-> NoLink]
    /\ age = [u \in Users |-> 0]
    /\ letter = [l \in Links |-> "none"]
    /\ madeAgo = [l \in Links |-> 0]
    /\ latest = [u \in Users |-> NoLink]
    /\ turnedDown = [u \in Users |-> FALSE]

NextRegistration ==
    \/ \E u \in Users, l \in Links :
          RegisterUser(u, l) \/ RequestVerification(u, l) \/ ConfirmEmail(u, l)
    \/ \E u \in Users : RequestRefused(u) \/ DeleteUser(u)
    \/ \E l \in Links : Settle(l)
    \/ Tick

SpecRegistration == InitRegistration /\ [][NextRegistration]_registrationVars

(* A user who is waiting asks again when that is due; time and again the   *)
(* newest mail arrives before it expires, and is used before that.         *)
Asks(u) == \E l \in Links : RequestVerification(u, l)
ArrivesInTime(u) == Valid(u) /\ Arrive(token[u])
Confirms(u) == \E l \in Links : ConfirmEmail(u, l)

LinksFairness ==
    /\ WF_registrationVars(Tick)
    /\ \A l \in Links : WF_registrationVars(Settle(l))
    /\ \A u \in Users :
          /\ WF_registrationVars(Asks(u))
          /\ SF_registrationVars(ArrivesInTime(u))
          /\ SF_registrationVars(Confirms(u))

-----------------------------------------------------------------------------
(* Properties.                                                             *)

(* Only the last link made since a user registered confirms the address,   *)
(* and only while it is valid, wherever the server is.                     *)
LatestLinkConfirms ==
    [][\A u \in Users : user[u] = "unverified" /\ user'[u] = "verified"
          => /\ latest[u] # NoLink
             /\ letter[latest[u]] = "arrived"
             /\ madeAgo[latest[u]] <= Duration]_registrationVars

(* However often a user asks too soon, and whichever mails are lost or     *)
(* late: who keeps asking is confirmed in the end.                         *)
ConfirmedInTheEnd ==
    \A u \in Users : user[u] = "unverified" ~> user[u] # "unverified"

(* README.md: a link can be requested again once the interval has passed,  *)
(* and not before.                                                         *)
ResentWhenDue ==
    [][\A u \in Users : user[u] = "unverified" /\ user'[u] = "unverified" =>
          /\ token'[u] # token[u] => age[u] >= Interval
          /\ turnedDown'[u] /\ ~ turnedDown[u] => age[u] < Interval]_registrationVars
=============================================================================
