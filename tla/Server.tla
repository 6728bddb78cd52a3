------------------------------- MODULE Server -------------------------------
(***************************************************************************)
(* The process from serving to its exit (runApplication in server.go) and  *)
(* what runs beside requests: queued e-mails (routes/email_log.go), daily  *)
(* jobs (background_jobs.go) and refreshes of the exchange rate that       *)
(* requests start (util/rates.go).  All of them use the database, which is *)
(* closed last.                                                            *)
(***************************************************************************)
EXTENDS FiniteSets, Naturals

CONSTANTS
    Requests,      \* each runs once, and may queue an e-mail
    Refreshing,    \* those that may start a refresh
    Jobs,          \* of the background scheduler
    Slots          \* maxConcurrentEmails

ASSUME SlotsAssumption == Slots \in Nat \ {0}

VARIABLES
    cancelled,     \* the process was told to stop: runApplication's ctx
    main,          \* where runApplication is
    gaveUp,        \* what it went on without: "server", "requests", "emails"
    handler,       \* of each request
    mail,          \* the goroutine of the e-mail a request queued
    holders,       \* e-mails that hold a slot
    delivery,      \* the goroutine that talks to the SMTP server
    outcome,       \* what the goroutine of an e-mail knows of its delivery
    event,         \* status in admin_events
    job,           \* goroutine of each job
    jobsStopped,   \* the scheduler's own ctx
    accepting,     \* refreshes may be started
    refresh,       \* the goroutine of the refresh a request started
    open           \* the database is

mailVars == <<mail, holders, delivery, outcome, event>>
jobVars == <<job, jobsStopped>>
refreshVars == <<accepting, refresh>>
mainVars == <<cancelled, main, gaveUp, open>>
vars == <<cancelled, main, gaveUp, handler, mail, holders, delivery, outcome,
          event, job, jobsStopped, accepting, refresh, open>>

Exited == main = "exited"

-----------------------------------------------------------------------------
(* Requests.                                                               *)

(* Shutdown lets no connection start a request; a listener that failed     *)
(* leaves the connections it accepted.                                     *)
StartRequest(r) ==
    /\ ~ Exited
    /\ main = "serving" \/ "server" \in gaveUp
    /\ handler[r] = "none"
    /\ handler' = [handler EXCEPT ![r] = "running"]
    /\ UNCHANGED <<mainVars, mailVars, jobVars, refreshVars>>

(* queueTrackedEmail.                                                      *)
QueueMail(r) ==
    /\ ~ Exited
    /\ handler[r] = "running"
    /\ mail[r] = "none"
    /\ mail' = [mail EXCEPT ![r] = "queued"]
    /\ UNCHANGED <<mainVars, handler, holders, delivery, outcome, event,
                   jobVars, refreshVars>>

AlwaysAccepted == TRUE   \* a mutant: without the check of accepting
Accepted == accepting

(* RefreshExchangeRatesAsync.                                              *)
RefreshAsync(r) ==
    /\ ~ Exited
    /\ r \in Refreshing
    /\ handler[r] = "running"
    /\ refresh[r] = "none"
    /\ Accepted
    /\ refresh' = [refresh EXCEPT ![r] = "running"]
    /\ UNCHANGED <<mainVars, handler, mailVars, jobVars, accepting>>

FinishRequest(r) ==
    /\ ~ Exited
    /\ handler[r] = "running"
    /\ handler' = [handler EXCEPT ![r] = "done"]
    /\ UNCHANGED <<mainVars, mailVars, jobVars, refreshVars>>

(* RefreshExchangeRates: its request and statements observe ctx.           *)
FinishRefresh(r) ==
    /\ ~ Exited
    /\ refresh[r] = "running"
    /\ refresh' = [refresh EXCEPT ![r] = "done"]
    /\ UNCHANGED <<mainVars, handler, mailVars, jobVars, accepting>>

-----------------------------------------------------------------------------
(* The e-mail of request r.                                                *)

SlotFree == Cardinality(holders) < Slots

TakeSlot(r) ==
    /\ ~ Exited
    /\ mail[r] = "queued"
    /\ SlotFree
    /\ holders' = holders \cup {r}
    /\ mail' = [mail EXCEPT ![r] = "started"]
    /\ UNCHANGED <<mainVars, handler, delivery, outcome, event, jobVars,
                   refreshVars>>

KeptOnError(r) == holders   \* a mutant: released only after a delivery
Released(r) == holders \ {r}

(* The insertion of the event, which fails once the database is closed and *)
(* may fail before.                                                        *)
RecordMail(r) ==
    /\ ~ Exited
    /\ mail[r] = "started"
    /\ open
    /\ event' = [event EXCEPT ![r] = "smtp_pending"]
    /\ mail' = [mail EXCEPT ![r] = "delivering"]
    /\ delivery' = [delivery EXCEPT ![r] = "running"]
    /\ UNCHANGED <<mainVars, handler, holders, outcome, jobVars, refreshVars>>

GiveUpMail(r) ==
    /\ ~ Exited
    /\ mail[r] = "started"
    /\ mail' = [mail EXCEPT ![r] = "done"]
    /\ holders' = Released(r)
    /\ UNCHANGED <<mainVars, handler, delivery, outcome, event, jobVars,
                   refreshVars>>

(* deliverWithSMTP; it may go on after its time limit.                     *)
Deliver(r, result) ==
    /\ ~ Exited
    /\ delivery[r] = "running"
    /\ delivery' = [delivery EXCEPT ![r] = result]
    /\ UNCHANGED <<mainVars, handler, mail, holders, outcome, event, jobVars,
                   refreshVars>>

Learn(r, status) ==
    /\ ~ Exited
    /\ mail[r] = "delivering"
    /\ mail' = [mail EXCEPT ![r] = "recording"]
    /\ outcome' = [outcome EXCEPT ![r] = status]
    /\ UNCHANGED <<mainVars, handler, holders, delivery, event, jobVars,
                   refreshVars>>

LearnResult(r) ==
    \/ delivery[r] = "accepted" /\ Learn(r, "smtp_accepted")
    \/ delivery[r] = "failed" /\ Learn(r, "smtp_unconfirmed")

NoError == "smtp_accepted"   \* a mutant: the time limit is no error
TimeoutStatus == "smtp_unconfirmed"

DeliveryTimeout(r) == Learn(r, TimeoutStatus)

FinishMail(r, status) ==
    /\ ~ Exited
    /\ mail[r] = "recording"
    /\ event' = [event EXCEPT ![r] = status]
    /\ mail' = [mail EXCEPT ![r] = "done"]
    /\ outcome' = [outcome EXCEPT ![r] = "none"]
    /\ holders' = holders \ {r}
    /\ UNCHANGED <<mainVars, handler, delivery, jobVars, refreshVars>>

UpdateEvent(r) == open /\ FinishMail(r, outcome[r])
FailUpdate(r)  == FinishMail(r, event[r])

-----------------------------------------------------------------------------
(* The scheduler's goroutine of a job; it runs once at the start.          *)

JobsCancelled == cancelled \/ jobsStopped

JobStep(j, from, to) ==
    /\ ~ Exited
    /\ job[j] = from
    /\ job' = [job EXCEPT ![j] = to]
    /\ UNCHANGED <<mainVars, handler, mailVars, jobsStopped, refreshVars>>

FinishJob(j) ==
    JobStep(j, "running", IF JobsCancelled THEN "ended" ELSE "waiting")
StartJob(j)  == JobStep(j, "waiting", "running")

OnlyTimer == FALSE   \* a mutant: select without ctx.Done
Woken == JobsCancelled

LeaveJob(j) == Woken /\ JobStep(j, "waiting", "ended")

-----------------------------------------------------------------------------
(* runApplication.                                                         *)

Signal ==
    /\ ~ Exited
    /\ ~ cancelled
    /\ cancelled' = TRUE
    /\ UNCHANGED <<main, gaveUp, open, handler, mailVars, jobVars, refreshVars>>

MainStep(from, to) ==
    /\ main = from
    /\ main' = to
    /\ UNCHANGED <<cancelled, handler, mailVars>>

Unfinished == \E r \in Requests : handler[r] = "running"

(* Start returns an error: nobody waits for the requests it served.        *)
ServerFails ==
    /\ MainStep("serving", "mails")
    /\ gaveUp' = gaveUp \cup {"server"}
    /\ UNCHANGED <<open, jobVars, refreshVars>>

BeginShutdown ==
    /\ cancelled
    /\ MainStep("serving", "shutdown")
    /\ UNCHANGED <<gaveUp, open, jobVars, refreshVars>>

Shutdown ==
    /\ ~ Unfinished
    /\ MainStep("shutdown", "mails")
    /\ UNCHANGED <<gaveUp, open, jobVars, refreshVars>>

ShutdownTimeout ==
    /\ Unfinished
    /\ MainStep("shutdown", "mails")
    /\ gaveUp' = gaveUp \cup {"requests"}
    /\ UNCHANGED <<open, jobVars, refreshVars>>

Counted(r) == mail[r] \notin {"none", "done"}

WaitForEmails ==
    /\ \A r \in Requests : ~ Counted(r)
    /\ MainStep("mails", "jobs")
    /\ UNCHANGED <<gaveUp, open, jobVars, refreshVars>>

WaitTimeout ==
    /\ \E r \in Requests : Counted(r)
    /\ MainStep("mails", "jobs")
    /\ gaveUp' = gaveUp \cup {"emails"}
    /\ UNCHANGED <<open, jobVars, refreshVars>>

StopJobs ==
    /\ MainStep("jobs", "jobsEnd")
    /\ jobsStopped' = TRUE
    /\ UNCHANGED <<gaveUp, open, job, refreshVars>>

JobsEnded ==
    /\ \A j \in Jobs : job[j] = "ended"
    /\ MainStep("jobsEnd", "refreshes")
    /\ UNCHANGED <<gaveUp, open, jobVars, refreshVars>>

StopRefreshes ==
    /\ MainStep("refreshes", "refreshesEnd")
    /\ accepting' = FALSE
    /\ UNCHANGED <<gaveUp, open, jobVars, refresh>>

RefreshesEnded ==
    /\ \A r \in Requests : refresh[r] # "running"
    /\ MainStep("refreshesEnd", "close")
    /\ UNCHANGED <<gaveUp, open, jobVars, refreshVars>>

CloseDatabase ==
    /\ MainStep("close", "return")
    /\ open' = FALSE
    /\ UNCHANGED <<gaveUp, jobVars, refreshVars>>

Exit ==
    /\ MainStep("return", "exited")
    /\ UNCHANGED <<gaveUp, open, jobVars, refreshVars>>

-----------------------------------------------------------------------------
Init ==
    /\ cancelled = FALSE /\ main = "serving" /\ gaveUp = {} /\ open = TRUE
    /\ handler = [r \in Requests |-> "none"]
    /\ mail = [r \in Requests |-> "none"] /\ holders = {}
    /\ delivery = [r \in Requests |-> "none"]
    /\ outcome = [r \in Requests |-> "none"]
    /\ event = [r \in Requests |-> "none"]
    /\ job = [j \in Jobs |-> "running"] /\ jobsStopped = FALSE
    /\ accepting = TRUE
    /\ refresh = [r \in Requests |-> "none"]

MailStep(r) ==
    \/ TakeSlot(r) \/ RecordMail(r) \/ GiveUpMail(r)
    \/ LearnResult(r) \/ DeliveryTimeout(r) \/ UpdateEvent(r) \/ FailUpdate(r)

RequestStep(r) ==
    \/ StartRequest(r) \/ QueueMail(r) \/ RefreshAsync(r) \/ FinishRequest(r)
    \/ \E result \in {"accepted", "failed"} : Deliver(r, result)

EndJob(j) == FinishJob(j) \/ LeaveJob(j)

MainProgress ==
    \/ BeginShutdown \/ Shutdown \/ ShutdownTimeout \/ WaitForEmails \/ WaitTimeout
    \/ StopJobs \/ JobsEnded \/ StopRefreshes \/ RefreshesEnded \/ CloseDatabase
    \/ Exit

Next ==
    \/ \E r \in Requests : RequestStep(r) \/ MailStep(r) \/ FinishRefresh(r)
    \/ \E j \in Jobs : EndJob(j) \/ StartJob(j)
    \/ Signal \/ ServerFails \/ MainProgress

Spec == Init /\ [][Next]_vars

(* Goroutines are scheduled, time limits run out, and what observes ctx    *)
(* returns; nothing makes a request end, a delivery answer or a day pass.  *)
FairSpec ==
    /\ Spec
    /\ \A r \in Requests : WF_vars(MailStep(r)) /\ WF_vars(FinishRefresh(r))
    /\ \A j \in Jobs : WF_vars(EndJob(j))
    /\ WF_vars(MainProgress)

-----------------------------------------------------------------------------
(* The types of the variables; e-mails hold at most Slots slots            *)
(* (emailSlots, a channel of that capacity).                               *)
TypeOK ==
    /\ cancelled \in BOOLEAN /\ jobsStopped \in BOOLEAN
    /\ accepting \in BOOLEAN /\ open \in BOOLEAN
    /\ main \in {"serving", "shutdown", "mails", "jobs", "jobsEnd", "refreshes",
                 "refreshesEnd", "close", "return", "exited"}
    /\ gaveUp \in SUBSET {"server", "requests", "emails"}
    /\ handler \in [Requests -> {"none", "running", "done"}]
    /\ mail \in [Requests -> {"none", "queued", "started", "delivering",
                             "recording", "done"}]
    /\ holders \in SUBSET Requests /\ Cardinality(holders) <= Slots
    /\ delivery \in [Requests -> {"none", "running", "accepted", "failed"}]
    /\ outcome \in [Requests -> {"none", "smtp_accepted", "smtp_unconfirmed"}]
    /\ event \in [Requests -> {"none", "smtp_pending", "smtp_accepted",
                              "smtp_unconfirmed"}]
    /\ job \in [Jobs -> {"running", "waiting", "ended"}]
    /\ refresh \in [Requests -> {"none", "running", "done"}]

(* When the database is closed, no job and no refresh runs, neither do     *)
(* requests unless Shutdown gave up on them or the listener failed, nor    *)
(* queued e-mails unless one of the waits ended early: what README.md:105  *)
(* says of jobs, for everything that uses the database.                    *)
ClosedWhenQuiet ==
    ~ open =>
        /\ \A j \in Jobs : job[j] = "ended"
        /\ \A r \in Requests : refresh[r] # "running"
        /\ gaveUp \subseteq {"emails"} => ~ Unfinished
        /\ gaveUp = {} => \A r \in Requests : ~ Counted(r)

(* An event says smtp_accepted only if the SMTP server took the message,   *)
(* however late, and a message it is still asked to take has not been      *)
(* reported as accepted (README.md:142).                                   *)
AcceptedMeansSent ==
    \A r \in Requests : event[r] = "smtp_accepted" => delivery[r] = "accepted"

(* Whatever deliveries and statements do, a queued e-mail gets its slot    *)
(* and ends, or the process does (queueTrackedEmail).                      *)
EmailsAnswered ==
    \A r \in Requests : mail[r] = "queued" ~> (mail[r] = "done" \/ Exited)

(* A process that was told to stop, or whose listener failed, exits, with  *)
(* requests and deliveries that never end and jobs between two runs.       *)
ShutdownEnds == (cancelled \/ main # "serving") ~> Exited
=============================================================================
