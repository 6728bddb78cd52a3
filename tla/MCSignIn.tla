------------------------------ MODULE MCSignIn ------------------------------
(* One user with up to two signed-in sessions and a reset token sent       *)
(* earlier, and two requests.                                              *)
EXTENDS SignIn, TLC

CONSTANTS u1, s1, s2, s3, t1, t2, t3, r1, r2

AllKinds == {"page", "logout", "login", "change", "reset", "request", "block",
             "unblock", "delete"}
Changes  == {"login", "change"}

TwoSessions == s1 :> u1 @@ s2 :> u1
OneSession  == s1 :> u1
SentToken   == t1 :> u1

Symmetry == Permutations(Requests)
=============================================================================
