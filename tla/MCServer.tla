------------------------------ MODULE MCServer ------------------------------
(* Two requests, each with an e-mail, one with a refresh; a slot and a job. *)
EXTENDS Server

CONSTANTS r1, r2, j1
=============================================================================
