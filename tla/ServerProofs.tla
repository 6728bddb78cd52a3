---------------------------- MODULE ServerProofs ----------------------------
(***************************************************************************)
(* Proofs for any requests, jobs and slots: nothing uses the database when *)
(* it is closed, types and slots, and what an event says of its delivery.  *)
(*                                                                         *)
(* ClosedWhenQuiet is not inductive: each wait of runApplication ends when *)
(* what it waits for is gone, and Stages says that none of it comes back   *)
(* until the database is closed.                                           *)
(***************************************************************************)
EXTENDS Server, FiniteSetTheorems, TLAPS

AfterMails     == {"jobs", "jobsEnd", "refreshes", "refreshesEnd", "close",
                   "return", "exited"}
AfterJobs      == {"refreshes", "refreshesEnd", "close", "return", "exited"}
AfterAccepting == {"refreshesEnd", "close", "return", "exited"}
AfterRefreshes == {"close", "return", "exited"}
AfterClose     == {"return", "exited"}

(* The requests were waited for.                                           *)
Waited == gaveUp \subseteq {"emails"}

RequestsOver  == main \notin {"serving", "shutdown"} /\ Waited => ~ Unfinished
EmailsOver    == main \in AfterMails /\ gaveUp = {} => \A r \in Requests : ~ Counted(r)
JobsOver      == main \in AfterJobs => \A j \in Jobs : job[j] = "ended"
NoneAccepted  == main \in AfterAccepting => ~ accepting
RefreshesOver == main \in AfterRefreshes => \A r \in Requests : refresh[r] # "running"
ClosedLast    == ~ open => main \in AfterClose

Arrays ==
    /\ handler = [r \in Requests |-> handler[r]]
    /\ mail = [r \in Requests |-> mail[r]]
    /\ job = [j \in Jobs |-> job[j]]
    /\ refresh = [r \in Requests |-> refresh[r]]

Stages ==
    /\ Arrays
    /\ RequestsOver /\ EmailsOver /\ JobsOver /\ NoneAccepted
    /\ RefreshesOver /\ ClosedLast

LEMMA InitStages == Init => Stages
BY DEF Init, Stages, Arrays, RequestsOver, EmailsOver, JobsOver, NoneAccepted,
       RefreshesOver, ClosedLast, AfterMails, AfterJobs, AfterAccepting,
       AfterRefreshes, AfterClose, Unfinished, Counted

(* A request in progress keeps EmailsOver from applying, and accepting     *)
(* keeps RefreshesOver from it.                                            *)
LEMMA RequestKeeps ==
    ASSUME Stages, NEW r \in Requests, RequestStep(r)
    PROVE  Stages'
<1> USE DEF Stages, Arrays, RequestsOver, EmailsOver, JobsOver, NoneAccepted,
            RefreshesOver, ClosedLast, AfterMails, AfterJobs, AfterAccepting,
            AfterRefreshes, AfterClose, Unfinished, Counted, Waited, mainVars,
            mailVars, jobVars, refreshVars
<1>1. CASE StartRequest(r)
  <2>1. main = "serving" \/ ~ Waited
    BY <1>1 DEF StartRequest
  <2> QED
    BY <1>1, <2>1 DEF StartRequest
<1>2. CASE QueueMail(r)
  <2>1. Unfinished
    BY <1>2 DEF QueueMail
  <2> QED
    BY <1>2, <2>1 DEF QueueMail
<1>3. CASE RefreshAsync(r)
  <2>1. main \notin AfterRefreshes
    BY <1>3 DEF RefreshAsync, Accepted
  <2> QED
    BY <1>3, <2>1 DEF RefreshAsync
<1>4. CASE FinishRequest(r)
  BY <1>4 DEF FinishRequest
<1>5. ASSUME NEW result \in {"accepted", "failed"}, Deliver(r, result)
      PROVE  Stages'
  BY <1>5 DEF Deliver
<1> QED
  BY <1>1, <1>2, <1>3, <1>4, <1>5 DEF RequestStep

(* The goroutine of an e-mail is done only once.                           *)
LEMMA MailKeeps ==
    ASSUME Stages, NEW r \in Requests, MailStep(r)
    PROVE  Stages'
<1> USE DEF Stages, Arrays, RequestsOver, EmailsOver, JobsOver, NoneAccepted,
            RefreshesOver, ClosedLast, Unfinished, Counted, Waited, mainVars,
            jobVars, refreshVars
<1>1. UNCHANGED <<mainVars, handler, jobVars, refreshVars>>
  BY DEF MailStep, TakeSlot, RecordMail, GiveUpMail, LearnResult, DeliveryTimeout,
         Learn, UpdateEvent, FailUpdate, FinishMail
<1>2. /\ mail[r] \notin {"none", "done"}
      /\ \E to \in {"started", "delivering", "recording", "done"} :
            mail' = [mail EXCEPT ![r] = to]
  BY DEF MailStep, TakeSlot, RecordMail, GiveUpMail, LearnResult, DeliveryTimeout,
         Learn, UpdateEvent, FailUpdate, FinishMail
<1> QED
  BY <1>1, <1>2

LEMMA TaskKeeps ==
    ASSUME Stages,
           \/ \E r \in Requests : FinishRefresh(r)
           \/ \E j \in Jobs : EndJob(j) \/ StartJob(j)
           \/ Signal
    PROVE  Stages'
<1> USE DEF Stages, Arrays, RequestsOver, EmailsOver, JobsOver, NoneAccepted,
            RefreshesOver, ClosedLast, Unfinished, Counted, Waited, mainVars,
            mailVars, jobVars, refreshVars
<1>1. ASSUME NEW r \in Requests, FinishRefresh(r) PROVE Stages'
  BY <1>1 DEF FinishRefresh
<1>2. ASSUME NEW j \in Jobs, EndJob(j) \/ StartJob(j) PROVE Stages'
  <2>1. UNCHANGED <<mainVars, handler, mailVars, jobsStopped, refreshVars>>
    BY <1>2 DEF EndJob, StartJob, FinishJob, LeaveJob, JobStep
  <2>2. /\ job[j] \in {"running", "waiting"}
        /\ \E to \in {"running", "waiting", "ended"} : job' = [job EXCEPT ![j] = to]
    BY <1>2 DEF EndJob, StartJob, FinishJob, LeaveJob, JobStep
  <2> QED
    BY <2>1, <2>2
<1>3. CASE Signal
  BY <1>3 DEF Signal
<1> QED
  BY <1>1, <1>2, <1>3

(* Each wait ends with what the next stages rely on.                       *)
LEMMA MainKeeps ==
    ASSUME Stages, ServerFails \/ MainProgress
    PROVE  Stages'
<1> USE DEF Stages, Arrays, RequestsOver, EmailsOver, JobsOver, NoneAccepted,
            RefreshesOver, ClosedLast, AfterMails, AfterJobs, AfterAccepting,
            AfterRefreshes, AfterClose, Unfinished, Counted, Waited, MainStep,
            mailVars, jobVars, refreshVars
<1>1. CASE ServerFails
  BY <1>1 DEF ServerFails
<1>2. CASE BeginShutdown
  BY <1>2 DEF BeginShutdown
<1>3. CASE Shutdown
  BY <1>3 DEF Shutdown
<1>4. CASE ShutdownTimeout
  BY <1>4 DEF ShutdownTimeout
<1>5. CASE WaitForEmails
  BY <1>5 DEF WaitForEmails
<1>6. CASE WaitTimeout
  BY <1>6 DEF WaitTimeout
<1>7. CASE StopJobs
  BY <1>7 DEF StopJobs
<1>8. CASE JobsEnded
  BY <1>8 DEF JobsEnded
<1>9. CASE StopRefreshes
  BY <1>9 DEF StopRefreshes
<1>10. CASE RefreshesEnded
  BY <1>10 DEF RefreshesEnded
<1>11. CASE CloseDatabase
  BY <1>11 DEF CloseDatabase
<1>12. CASE Exit
  BY <1>12 DEF Exit
<1> QED
  BY <1>1, <1>2, <1>3, <1>4, <1>5, <1>6, <1>7, <1>8, <1>9, <1>10, <1>11, <1>12
     DEF MainProgress

LEMMA StagesKept == Spec => []Stages
<1>1. ASSUME Stages, [Next]_vars PROVE Stages'
  <2>1. CASE Next
    BY <1>1, <2>1, RequestKeeps, MailKeeps, TaskKeeps, MainKeeps DEF Next
  <2>2. CASE UNCHANGED vars
    BY <1>1, <2>2 DEF vars, Stages, Arrays, RequestsOver, EmailsOver, JobsOver,
                      NoneAccepted, RefreshesOver, ClosedLast, Unfinished,
                      Counted, Waited
  <2> QED
    BY <1>1, <2>1, <2>2
<1> QED
  BY <1>1, InitStages, PTL DEF Spec

(* Whatever the requests, e-mails, jobs and refreshes do, and whichever    *)
(* wait runs out: runApplication closes the database under nothing but     *)
(* what it gave up on.                                                     *)
THEOREM AlwaysClosedWhenQuiet == Spec => []ClosedWhenQuiet
<1>1. Stages => ClosedWhenQuiet
  BY DEF Stages, RequestsOver, EmailsOver, JobsOver, RefreshesOver, ClosedLast,
         ClosedWhenQuiet, AfterMails, AfterJobs, AfterRefreshes, AfterClose,
         Waited
<1> QED
  BY <1>1, StagesKept, PTL
-----------------------------------------------------------------------------
(* TypeOK needs that the e-mails with a slot are finitely many, or there   *)
(* would be nothing to compare with Slots.                                 *)
Typed == TypeOK /\ IsFiniteSet(holders)

LEMMA HoldersKept ==
    ASSUME Typed, [Next]_vars
    PROVE  /\ holders' \in SUBSET Requests
           /\ IsFiniteSet(holders')
           /\ Cardinality(holders') <= Slots
<1>1. CASE holders' = holders
  BY <1>1 DEF Typed, TypeOK
<1>2. ASSUME NEW r \in Requests, holders' = holders \cup {r}, SlotFree
      PROVE  /\ IsFiniteSet(holders')
             /\ Cardinality(holders') <= Slots
  <2>1. /\ IsFiniteSet(holders')
        /\ Cardinality(holders') \in {Cardinality(holders), Cardinality(holders) + 1}
    BY <1>2, FS_AddElement DEF Typed
  <2> QED
    BY <1>2, <2>1, FS_CardinalityType, SlotsAssumption DEF Typed, SlotFree
<1>3. ASSUME NEW r \in Requests, holders' = holders \ {r}
      PROVE  /\ IsFiniteSet(holders')
             /\ Cardinality(holders') <= Slots
  <2>1. /\ IsFiniteSet(holders')
        /\ Cardinality(holders') <= Cardinality(holders)
    BY <1>3, FS_Subset DEF Typed
  <2> QED
    BY <2>1, FS_CardinalityType, SlotsAssumption DEF Typed, TypeOK
<1>4. \/ holders' = holders
      \/ \E r \in Requests : holders' = holders \cup {r} /\ SlotFree
      \/ \E r \in Requests : holders' = holders \ {r}
  BY DEF Next, RequestStep, MailStep, EndJob, MainProgress, StartRequest,
         QueueMail, RefreshAsync, FinishRequest, Deliver, TakeSlot, RecordMail,
         GiveUpMail, Released, LearnResult, DeliveryTimeout, Learn, UpdateEvent,
         FailUpdate, FinishMail, FinishRefresh, StartJob, FinishJob, LeaveJob,
         JobStep, Signal, ServerFails, BeginShutdown, Shutdown, ShutdownTimeout,
         WaitForEmails, WaitTimeout, StopJobs, JobsEnded, StopRefreshes,
         RefreshesEnded, CloseDatabase, Exit, MainStep, mailVars, vars
<1> QED
  BY <1>1, <1>2, <1>3, <1>4 DEF Typed, TypeOK

LEMMA TypesKept ==
    ASSUME Typed, [Next]_vars
    PROVE  TypeOK'
<1>0. /\ holders' \in SUBSET Requests
      /\ Cardinality(holders') <= Slots
  BY HoldersKept
<1> USE DEF Typed, TypeOK
<1>1. ASSUME NEW r \in Requests, RequestStep(r) PROVE TypeOK'
  <2> USE DEF mainVars, mailVars, jobVars, refreshVars
  <2>1. CASE StartRequest(r)
    BY <1>0, <2>1 DEF StartRequest
  <2>2. CASE QueueMail(r)
    BY <1>0, <2>2 DEF QueueMail
  <2>3. CASE RefreshAsync(r)
    BY <1>0, <2>3 DEF RefreshAsync
  <2>4. CASE FinishRequest(r)
    BY <1>0, <2>4 DEF FinishRequest
  <2>5. ASSUME NEW result \in {"accepted", "failed"}, Deliver(r, result)
        PROVE  TypeOK'
    BY <1>0, <2>5 DEF Deliver
  <2> QED
    BY <1>1, <2>1, <2>2, <2>3, <2>4, <2>5 DEF RequestStep
<1>2. ASSUME NEW r \in Requests, MailStep(r) PROVE TypeOK'
  <2> USE DEF mainVars, jobVars, refreshVars
  <2>1. CASE TakeSlot(r)
    BY <1>0, <2>1 DEF TakeSlot
  <2>2. CASE RecordMail(r)
    BY <1>0, <2>2 DEF RecordMail
  <2>3. CASE GiveUpMail(r)
    BY <1>0, <2>3 DEF GiveUpMail
  <2>4. CASE LearnResult(r) \/ DeliveryTimeout(r)
    <3>1. PICK status \in {"smtp_accepted", "smtp_unconfirmed"} : Learn(r, status)
      BY <2>4 DEF LearnResult, DeliveryTimeout, TimeoutStatus
    <3> QED
      BY <1>0, <3>1 DEF Learn
  <2>5. CASE UpdateEvent(r) \/ FailUpdate(r)
    <3>1. PICK status \in {"smtp_pending", "smtp_accepted", "smtp_unconfirmed", "none"} :
             FinishMail(r, status)
      BY <2>5 DEF UpdateEvent, FailUpdate
    <3> QED
      BY <1>0, <3>1 DEF FinishMail
  <2> QED
    BY <1>2, <2>1, <2>2, <2>3, <2>4, <2>5 DEF MailStep
<1>3. ASSUME NEW r \in Requests, FinishRefresh(r) PROVE TypeOK'
  BY <1>0, <1>3 DEF FinishRefresh, mainVars, mailVars, jobVars
<1>4. ASSUME NEW j \in Jobs, EndJob(j) \/ StartJob(j) PROVE TypeOK'
  <2>1. PICK from, to \in {"running", "waiting", "ended"} : JobStep(j, from, to)
    BY <1>4 DEF EndJob, StartJob, FinishJob, LeaveJob
  <2> QED
    BY <1>0, <2>1 DEF JobStep, mainVars, mailVars, refreshVars
<1>5. CASE Signal
  BY <1>0, <1>5 DEF Signal, mailVars, jobVars, refreshVars
<1>6. CASE ServerFails \/ MainProgress
  <2>1. UNCHANGED <<cancelled, handler, mailVars, job, refresh>>
    BY <1>6 DEF ServerFails, MainProgress, BeginShutdown, Shutdown, ShutdownTimeout,
          WaitForEmails, WaitTimeout, StopJobs, JobsEnded, StopRefreshes, RefreshesEnded,
          CloseDatabase, Exit, MainStep, jobVars, refreshVars
  <2>2. /\ main' \in {"mails", "shutdown", "jobs", "jobsEnd", "refreshes", "refreshesEnd",
                      "close", "return", "exited"}
        /\ \/ gaveUp' = gaveUp
           \/ \E what \in {"server", "requests", "emails"} : gaveUp' = gaveUp \cup {what}
    BY <1>6 DEF ServerFails, MainProgress, BeginShutdown, Shutdown, ShutdownTimeout,
          WaitForEmails, WaitTimeout, StopJobs, JobsEnded, StopRefreshes, RefreshesEnded,
          CloseDatabase, Exit, MainStep
  <2>3. /\ jobsStopped' \in {jobsStopped, TRUE}
        /\ accepting' \in {accepting, FALSE} /\ open' \in {open, FALSE}
    BY <1>6 DEF ServerFails, MainProgress, BeginShutdown, Shutdown, ShutdownTimeout,
          WaitForEmails, WaitTimeout, StopJobs, JobsEnded, StopRefreshes, RefreshesEnded,
          CloseDatabase, Exit, MainStep, jobVars, refreshVars
  <2> QED
    BY <1>0, <2>1, <2>2, <2>3 DEF mailVars
<1>7. CASE UNCHANGED vars
  BY <1>0, <1>7 DEF vars
<1> QED
  BY <1>1, <1>2, <1>3, <1>4, <1>5, <1>6, <1>7 DEF Next

LEMMA InitTyped == Init => Typed
<1> SUFFICES ASSUME Init PROVE Typed
  OBVIOUS
<1>1. holders = {}
  BY DEF Init
<1>2. IsFiniteSet(holders) /\ Cardinality(holders) <= Slots
  BY <1>1, FS_EmptySet, SlotsAssumption
<1> QED
  BY <1>1, <1>2 DEF Init, Typed, TypeOK

(* All variables keep their types, and never more than Slots e-mails hold  *)
(* a slot (emailSlots).                                                    *)
THEOREM TypeCorrect == Spec => []TypeOK
<1>1. Init => Typed
  BY InitTyped
<1>2. Typed /\ [Next]_vars => Typed'
  BY HoldersKept, TypesKept DEF Typed
<1>3. Typed => TypeOK
  BY DEF Typed
<1> QED
  BY <1>1, <1>2, <1>3, PTL DEF Spec

-----------------------------------------------------------------------------
(* An event is written from what the goroutine of the e-mail learnt, and   *)
(* an e-mail is handed to the SMTP server once, before it learns anything: *)
(* a late answer cannot take back what was learnt.                         *)
Honest ==
    \A r \in Requests :
        /\ mail[r] \in {"none", "queued", "started"} => delivery[r] = "none"
        /\ "smtp_accepted" \in {outcome[r], event[r]} => delivery[r] = "accepted"

LEMMA HonestKept ==
    ASSUME Typed, Honest, [Next]_vars
    PROVE  Honest'
<1>1. ASSUME UNCHANGED mailVars PROVE Honest'
  BY <1>1 DEF Honest, mailVars
<1>2. ASSUME NEW r \in Requests, QueueMail(r) PROVE Honest'
  BY <1>2 DEF QueueMail, Honest, Typed, TypeOK
<1>3. ASSUME NEW r \in Requests, NEW result \in {"accepted", "failed"}, Deliver(r, result)
      PROVE  Honest'
  BY <1>3 DEF Deliver, Honest, Typed, TypeOK
<1>4. ASSUME NEW r \in Requests, MailStep(r) PROVE Honest'
  <2> USE DEF Honest, Typed, TypeOK
  <2>1. CASE TakeSlot(r)
    BY <2>1 DEF TakeSlot
  <2>2. CASE RecordMail(r)
    BY <2>2 DEF RecordMail
  <2>3. CASE GiveUpMail(r)
    BY <2>3 DEF GiveUpMail
  <2>4. CASE LearnResult(r) \/ DeliveryTimeout(r)
    BY <2>4 DEF LearnResult, DeliveryTimeout, TimeoutStatus, Learn
  <2>5. CASE UpdateEvent(r) \/ FailUpdate(r)
    BY <2>5 DEF UpdateEvent, FailUpdate, FinishMail
  <2> QED
    BY <1>4, <2>1, <2>2, <2>3, <2>4, <2>5 DEF MailStep
<1>5. \/ UNCHANGED mailVars
      \/ \E r \in Requests :
            \/ QueueMail(r) \/ MailStep(r)
            \/ \E result \in {"accepted", "failed"} : Deliver(r, result)
  BY DEF Next, RequestStep, StartRequest, RefreshAsync, FinishRequest, FinishRefresh, EndJob,
         StartJob, FinishJob, LeaveJob, JobStep, Signal, ServerFails, MainProgress,
         BeginShutdown, Shutdown, ShutdownTimeout, WaitForEmails, WaitTimeout, StopJobs,
         JobsEnded, StopRefreshes, RefreshesEnded, CloseDatabase, Exit, MainStep, mailVars,
         vars
<1> QED
  BY <1>1, <1>2, <1>3, <1>4, <1>5

(* The log of e-mails says smtp_accepted only of messages that the SMTP    *)
(* server took, whatever times out, answers late or cannot be recorded.    *)
THEOREM EventsAreTrue == Spec => []AcceptedMeansSent
<1>1. Init => Typed /\ Honest
  BY InitTyped DEF Init, Honest
<1>2. Typed /\ Honest /\ [Next]_vars => (Typed /\ Honest)'
  BY HoldersKept, TypesKept, HonestKept DEF Typed
<1>3. Honest => AcceptedMeansSent
  BY DEF Honest, AcceptedMeansSent
<1> QED
  BY <1>1, <1>2, <1>3, PTL DEF Spec
=============================================================================
