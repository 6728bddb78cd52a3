-------------------------- MODULE MCAccountSharing --------------------------
(***************************************************************************)
(* The users of accounts and the limiter in front of the forms, one of     *)
(* them in each behaviour.  Limiter: two user names signing in from one    *)
(* address, whose keys have windows of different lengths, as those of      *)
(* different endpoints do.                                                 *)
(***************************************************************************)
EXTENDS AccountSharing, RateLimiter, TLC

CONSTANTS ip, alice, bob

VARIABLE subject

allVars == <<subject, vars, limiterVars>>

InitAll ==
    /\ subject \in {"sharing", "limiter"}
    /\ Init /\ InitLimiter

NextAll ==
    /\ UNCHANGED subject
    /\ \/ subject = "sharing" /\ Next /\ UNCHANGED limiterVars
       \/ subject = "limiter" /\ NextLimiter /\ UNCHANGED vars

SpecAll == InitAll /\ [][NextAll]_allVars

OwnerViewer == {"owner", "viewer"}

SignIns == {{ip, alice}, {ip, bob}}
Limits  == ip :> 2 @@ alice :> 1 @@ bob :> 1
Windows == ip :> 2 @@ alice :> 3 @@ bob :> 2

(* Users that are not administrators are interchangeable; they are also    *)
(* the callers of the limiter.                                             *)
Symmetry == Permutations(Users \ Admins)
=============================================================================
