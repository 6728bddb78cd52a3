---------------------------- MODULE MCOperations ----------------------------
(***************************************************************************)
(* The exchange rates of the processes and their deployments, one of the   *)
(* two in each behaviour: they share no state.                             *)
(***************************************************************************)
EXTENDS ExchangeRates, Deployment

VARIABLE subject

vars == <<subject, ratesVars, allVars>>

(* The part that is not the subject stays in one initial state.  The       *)
(* binary installed first is the older one, the database is no newer and   *)
(* no rate is stored yet.                                                  *)
Init ==
    /\ InitRates /\ InitDeployment
    /\ stored = 0
    /\ schema.build <= version[Old]
    /\ \A m \in Numbers : version[Old] <= m
    /\ \/ /\ subject = "rates"
          /\ \A b \in Binaries : version[b] = version[Old]
          /\ ~ schema.exists
          /\ broken = {}
       \/ subject = "releases"

Next ==
    /\ UNCHANGED subject
    /\ \/ subject = "rates" /\ NextRates /\ UNCHANGED allVars
       \/ subject = "releases" /\ NextDeployment /\ UNCHANGED ratesVars

(* With the fairness of FairRates and of FairDeployment, each for its part. *)
Spec ==
    /\ Init /\ [][Next]_vars
    /\ WF_ratesVars(subject = "rates" /\ LoaderStep)
    /\ SF_ratesVars(subject = "rates" /\ WorkerStep)
    /\ \A s \in Sessions : WF_allVars(subject = "releases" /\ SessionStep(s))
=============================================================================
