---------------------------- MODULE BrowserProofs ----------------------------
(***************************************************************************)
(* Proofs about the code in the browser and the links it is sent, for any  *)
(* number of builds, forms, users, links and durations, in any zone, and   *)
(* however often the dialog for bills is opened.  The parts share no       *)
(* state; each has its invariant.                                          *)
(***************************************************************************)
EXTENDS ServiceWorker, Scanner, Confirmation, Registration, FiniteSetTheorems, TLAPS

-----------------------------------------------------------------------------
(* The service worker.  A file that is not of the build in its URL was     *)
(* asked for by a page that is older than the server, so that build was    *)
(* replaced before; this holds for what a page was shown, for what is in a *)
(* cache and for what is still on its way into one.                        *)

Files == [url : Builds, file : Builds]

WorkerTyped ==
    /\ served \in Builds
    /\ openPage \in Builds \cup {None}
    /\ worker \in Builds \cup {None}
    /\ nextWorker \in [build : Builds \cup {None},
                       step : {"none", "installing", "installed", "activating"}]
    /\ nextWorker.step # "none" => nextWorker.build \in Builds
    /\ caches \in [Builds -> [offline : BOOLEAN, files : SUBSET Files]]
    /\ answered # Nothing => answered \in [worker : Builds, url : Builds, file : Builds]

Known(b) == b = served \/ b \in replaced

Right(url, file) == file = url \/ url \in replaced

WorkerInv ==
    /\ WorkerTyped
    /\ openPage # None => Known(openPage)
    /\ answered # Nothing => Right(answered.url, answered.file)
    /\ \A b \in Builds : \A f \in caches[b].files : Right(f.url, f.file)
    /\ fileShown.build # None => Right(fileShown.build, fileShown.file)

SpecWorker == InitWorker /\ [][NextWorker]_workerVars

-----------------------------------------------------------------------------
LEMMA WorkerInit == InitWorker => WorkerInv
BY BuildsAssumption DEF InitWorker, WorkerInv, WorkerTyped, Empty, NoWorker, Nothing

(* Files and caches are as they were, and no build is less known.          *)
LEMMA WorkerKeeps ==
    ASSUME WorkerInv, WorkerTyped', UNCHANGED <<caches, answered, fileShown>>,
           replaced \subseteq replaced',
           (openPage # None => Known(openPage))'
    PROVE  WorkerInv'
BY DEF WorkerInv, Right

LEMMA WorkerStep == WorkerInv /\ [NextWorker]_workerVars => WorkerInv'
<1> SUFFICES ASSUME WorkerInv, [NextWorker]_workerVars PROVE WorkerInv'
  OBVIOUS
<1> USE BuildsAssumption
<1>1. ASSUME NEW b \in Builds, Deploy(b) PROVE WorkerInv'
  <2>1. WorkerTyped'
    BY <1>1 DEF Deploy, WorkerInv, WorkerTyped
  <2>2. (openPage # None => Known(openPage))' /\ replaced \subseteq replaced'
    BY <1>1 DEF Deploy, WorkerInv, Known
  <2> QED BY <1>1, <2>1, <2>2, WorkerKeeps DEF Deploy
<1>2. CASE Connect
  BY <1>2, WorkerKeeps DEF Connect, WorkerInv, WorkerTyped, Known
<1>3. CASE Open
  BY <1>3, WorkerKeeps DEF Open, WorkerInv, WorkerTyped, Known
<1>4. CASE Register
  BY <1>4, WorkerKeeps DEF Register, WorkerInv, WorkerTyped, Known
<1>5. CASE FromCache
  <2>1. PICK f \in caches[worker].files : f.url = openPage /\ Show(f.file)
    BY <1>5 DEF FromCache, Cached, Url
  <2>2. worker \in Builds /\ Right(f.url, f.file)
    BY <1>5, <2>1 DEF FromCache, WorkerInv, WorkerTyped
  <2>3. fileShown'.build = openPage /\ fileShown'.file = f.file
    BY <2>1 DEF Show
  <2> QED BY <1>5, <2>1, <2>2, <2>3 DEF FromCache, WorkerInv, WorkerTyped, Known, Right
<1>6. CASE FromServer
  <2>1. openPage \in Builds /\ served \in Builds /\ Right(openPage, served)
    BY <1>6 DEF FromServer, WorkerInv, WorkerTyped, Known, Right
  <2>2. fileShown'.build = openPage /\ fileShown'.file = served
    BY <1>6 DEF FromServer, Show
  <2>3. \/ answered' = Nothing
        \/ worker \in Builds
           /\ answered' = [worker |-> worker, url |-> openPage, file |-> served]
    BY <1>6 DEF FromServer, Url, WorkerInv, WorkerTyped
  <2>4. WorkerTyped'
    BY <1>6, <2>1, <2>3 DEF FromServer, WorkerInv, WorkerTyped
  <2> QED BY <1>6, <2>1, <2>2, <2>3, <2>4 DEF FromServer, WorkerInv, Known, Right
<1>7. CASE Put
  <2>1. /\ answered \in [worker : Builds, url : Builds, file : Builds]
        /\ Right(answered.url, answered.file)
    BY <1>7 DEF Put, WorkerInv, WorkerTyped
  <2>2. \A b \in Builds : /\ caches'[b] \in [offline : BOOLEAN, files : SUBSET Files]
                          /\ \A f \in caches'[b].files : Right(f.url, f.file)
    <3> SUFFICES ASSUME NEW b \in Builds
                 PROVE  /\ caches'[b] \in [offline : BOOLEAN, files : SUBSET Files]
                        /\ \A f \in caches'[b].files : Right(f.url, f.file)
      OBVIOUS
    <3>1. CASE caches'[b] = caches[b]
      BY <3>1 DEF WorkerInv, WorkerTyped
    <3>2. CASE b = answered.worker /\ caches'[b] # caches[b]
      <4> DEFINE new == [url |-> answered.url, file |-> answered.file]
      <4>1. new \in Files /\ Right(new.url, new.file)
        BY <2>1 DEF Files
      <4>2. caches'[b] = [caches[b] EXCEPT !.files =
                             {f \in @ : f.url # answered.url} \cup {new}]
        BY <1>7, <3>2 DEF Put, WorkerInv, WorkerTyped
      <4>3. caches[b] \in [offline : BOOLEAN, files : SUBSET Files]
        BY DEF WorkerInv, WorkerTyped
      <4> HIDE DEF new
      <4>4. /\ caches'[b].offline = caches[b].offline
            /\ caches'[b].files = {f \in caches[b].files : f.url # answered.url} \cup {new}
            /\ caches'[b] \in [offline : BOOLEAN, files : SUBSET Files]
        BY <4>1, <4>2, <4>3
      <4> QED BY <4>1, <4>4 DEF WorkerInv
    <3> QED BY <1>7, <3>1, <3>2 DEF Put, WorkerInv, WorkerTyped
  <2>3. caches' = [b \in Builds |-> caches'[b]]
    BY <1>7 DEF Put, WorkerInv, WorkerTyped
  <2>4. WorkerTyped'
    <3>1. caches' \in [Builds -> [offline : BOOLEAN, files : SUBSET Files]]
      BY <2>2, <2>3
    <3> QED BY <1>7, <3>1 DEF Put, WorkerInv, WorkerTyped
  <2> QED BY <1>7, <2>2, <2>4 DEF Put, WorkerInv, Known, Right
<1>8. CASE Install
  <2>1. nextWorker.build \in Builds
    BY <1>8 DEF Install, WorkerInv, WorkerTyped
  <2>2. \A b \in Builds : caches'[b].files = caches[b].files
    BY <1>8, <2>1 DEF Install, WorkerInv, WorkerTyped
  <2>3. caches' \in [Builds -> [offline : BOOLEAN, files : SUBSET Files]]
    BY <1>8, <2>1 DEF Install, WorkerInv, WorkerTyped
  <2>5. WorkerTyped'
    BY <1>8, <2>1, <2>3 DEF Install, WorkerInv, WorkerTyped
  <2> QED BY <1>8, <2>2, <2>5 DEF Install, WorkerInv, Known, Right
<1>9. CASE InstallFails
  BY <1>9, WorkerKeeps DEF InstallFails, WorkerInv, WorkerTyped, Known, NoWorker
<1>10. CASE TakeOver
  <2>2. WorkerTyped'
    BY <1>10 DEF TakeOver, WorkerInv, WorkerTyped
  <2> QED BY <1>10, <2>2, WorkerKeeps DEF TakeOver, WorkerInv, Known
<1>11. CASE CleanUp
  <2>1. Empty \in [offline : BOOLEAN, files : SUBSET Files] /\ Empty.files = {}
    BY DEF Empty
  <2>2. WorkerTyped'
    BY <1>11, <2>1 DEF CleanUp, NoWorker, WorkerInv, WorkerTyped
  <2>3. \A b \in Builds : caches'[b].files \subseteq caches[b].files
    BY <1>11, <2>1 DEF CleanUp
  <2> QED BY <1>11, <2>2, <2>3 DEF CleanUp, WorkerInv, Known, Right
<1>12. CASE UNCHANGED workerVars
  BY <1>12, WorkerKeeps DEF workerVars, WorkerInv, WorkerTyped, Known
<1> QED
  BY <1>1, <1>2, <1>3, <1>4, <1>5, <1>6, <1>7, <1>8, <1>9, <1>10, <1>11, <1>12 DEF NextWorker

(* While a build runs for the first time its pages get its own files,      *)
(* with any number of builds, workers, lost connections and late writes    *)
(* to caches.                                                              *)
THEOREM AlwaysRefreshes == SpecWorker => []DeploymentRefreshes
<1>1. WorkerInv => DeploymentRefreshes
  BY BuildsAssumption DEF WorkerInv, WorkerTyped, DeploymentRefreshes, Right
<1> QED BY <1>1, WorkerInit, WorkerStep, PTL DEF SpecWorker

-----------------------------------------------------------------------------
(* The dialog for bills.                                                   *)

OnScreen == scanDialog \in {"shown", "hiding"}

ScannerTyped ==
    /\ session \in 0..MaxSessions
    /\ asked \in SUBSET (1..session)
    /\ starting \in SUBSET (1..session)
    /\ frames \in [CameraSessions -> {"off", "due", "reading"}]
    /\ scanDialog \in {"hidden", "showing", "shown", "hiding"}
    /\ scanDialog = "showing" => session + 2 <= MaxSessions
    /\ OnScreen => session + 1 <= MaxSessions

(* Only the session of the dialog on the screen has a stream.              *)
OneStream ==
    /\ live \subseteq {camera} \ {0}
    /\ camera # 0 => camera = session /\ OnScreen
    /\ session \in asked => camera = 0 /\ OnScreen
    /\ session \in starting => camera = session
    /\ \A s \in CameraSessions : frames[s] # "off" /\ s = session => camera = s

(* A session waits for its camera, then for its video, then for frames,    *)
(* and has filled the form only after these.                               *)
InTurn ==
    /\ asked \cap starting = {}
    /\ \A s \in CameraSessions :
          frames[s] # "off" => s <= session /\ s \notin asked /\ s \notin starting
    /\ filled # 0 => /\ filled \in 1..session
                     /\ filled \notin asked /\ filled \notin starting
                     /\ frames[filled] = "off"

ScannerInv == ScannerTyped /\ OneStream /\ InTurn

SpecScanner == InitScanner /\ [][NextScanner]_scannerVars

LEMMA ScannerInit == InitScanner => ScannerInv
BY MaxSessionsAssumption
   DEF InitScanner, ScannerInv, ScannerTyped, OneStream, InTurn, OnScreen, CameraSessions

LEMMA ScannerStep == ScannerInv /\ [NextScanner]_scannerVars => ScannerInv'
<1> SUFFICES ASSUME ScannerInv, [NextScanner]_scannerVars PROVE ScannerInv'
  OBVIOUS
<1> USE MaxSessionsAssumption
    DEF ScannerInv, ScannerTyped, OneStream, InTurn, OnScreen, CameraSessions
<1>1. CASE ShowDialog
  BY <1>1 DEF ShowDialog
<1>2. CASE DialogShown
  BY <1>2 DEF DialogShown
<1>3. CASE CloseDialog
  BY <1>3 DEF CloseDialog, Hide
<1>4. CASE DialogHidden
  BY <1>4 DEF DialogHidden
<1>5. ASSUME NEW s \in CameraSessions, CameraGranted(s) PROVE ScannerInv'
  <2>1. CASE s # session
    BY <1>5, <2>1 DEF CameraGranted, StillTheSession
  <2>2. CASE s = session
    <3>1. ScannerTyped'
      BY <1>5, <2>2 DEF CameraGranted, StillTheSession
    <3>2. live = {} /\ live' = {s} /\ camera' = s
      BY <1>5, <2>2 DEF CameraGranted, StillTheSession
    <3>3. OneStream'
      BY <1>5, <2>2, <3>2 DEF CameraGranted, StillTheSession
    <3>4. InTurn'
      <4>1. asked' \cap starting' = {}
        BY <1>5, <2>2 DEF CameraGranted, StillTheSession
      <4>2. filled # s /\ filled' = filled /\ frames' = frames /\ frames[s] = "off"
        BY <1>5 DEF CameraGranted
      <4>3. \A t \in CameraSessions : t # s =>
               (t \in asked' => t \in asked) /\ (t \in starting' => t \in starting)
        BY <1>5, <2>2 DEF CameraGranted, StillTheSession
      <4> QED BY <1>5, <4>1, <4>2, <4>3 DEF CameraGranted
    <3> QED BY <3>1, <3>3, <3>4
  <2> QED BY <2>1, <2>2
<1>6. ASSUME NEW s \in CameraSessions, CameraRefused(s) PROVE ScannerInv'
  BY <1>6 DEF CameraRefused
<1>7. ASSUME NEW s \in CameraSessions, VideoPlays(s) PROVE ScannerInv'
  BY <1>7 DEF VideoPlays
<1>8. ASSUME NEW s \in CameraSessions, VideoFails(s) PROVE ScannerInv'
  BY <1>8 DEF VideoFails
<1>9. ASSUME NEW s \in CameraSessions, FrameDue(s) PROVE ScannerInv'
  BY <1>9 DEF FrameDue
<1>10. ASSUME NEW s \in CameraSessions, FrameHasNoBill(s) PROVE ScannerInv'
  BY <1>10 DEF FrameHasNoBill, Again
<1>11. ASSUME NEW s \in CameraSessions, FrameHasBill(s) PROVE ScannerInv'
  BY <1>11 DEF FrameHasBill, StillTheSession, Hide
<1>12. CASE DetectorLoads \/ DetectorFails \/ ImageChosen \/ ImageHasNoBill
  BY <1>12 DEF DetectorLoads, DetectorFails, ImageChosen, ImageHasNoBill
<1>13. CASE ImageHasBill
  BY <1>13 DEF ImageHasBill, Hide
<1>14. CASE UNCHANGED scannerVars
  BY <1>14 DEF scannerVars
<1> QED
  BY <1>1, <1>2, <1>3, <1>4, <1>5, <1>6, <1>7, <1>8, <1>9, <1>10, <1>11, <1>12,
     <1>13, <1>14
  DEF NextScanner, DialogStep, CameraStep

(* No camera runs behind a hidden dialog, and never two, however often it  *)
(* is opened and closed while cameras and videos are awaited.              *)
THEOREM CameraStops == SpecScanner => []CameraOff
<1>1. ScannerInv => CameraOff
  <2> SUFFICES ASSUME ScannerInv PROVE CameraOff
    OBVIOUS
  <2>1. scanDialog = "hidden" => live = {}
    BY DEF ScannerInv, OneStream, OnScreen
  <2>2. live = {} \/ live = {camera}
    BY DEF ScannerInv, OneStream
  <2>3. Cardinality({}) = 0 /\ Cardinality({camera}) = 1
    BY FS_EmptySet, FS_Singleton
  <2> QED BY <2>1, <2>2, <2>3 DEF CameraOff
<1> QED BY <1>1, ScannerInit, ScannerStep, PTL DEF SpecScanner

(* A bill that was read from a frame fills the form while the dialog of    *)
(* that frame is on the screen.                                            *)
THEOREM FillsFromOwnDialog == SpecScanner => OwnDialog
<1> DEFINE Own == \A s \in CameraSessions :
       frames[s] = "reading" /\ frames'[s] = "off" /\ filled' = s =>
          scanDialog \in {"shown", "hiding"} /\ camera = s
<1>1. ScannerInv /\ [NextScanner]_scannerVars => [Own]_scannerVars
  <2> SUFFICES ASSUME ScannerInv, [NextScanner]_scannerVars,
                      NEW s \in CameraSessions,
                      frames[s] = "reading", frames'[s] = "off", filled' = s
               PROVE  scanDialog \in {"shown", "hiding"} /\ camera = s
    OBVIOUS
  <2>1. filled # s /\ s # 0 /\ (s = session => camera = s /\ OnScreen)
    BY DEF ScannerInv, OneStream, InTurn, CameraSessions
  <2>2. PICK t \in CameraSessions : FrameHasBill(t) /\ filled' = t
    BY <2>1 DEF NextScanner, DialogStep, CameraStep, ShowDialog, DialogShown,
       CloseDialog, DialogHidden, CameraGranted, CameraRefused, VideoPlays, VideoFails,
       FrameDue, FrameHasNoBill, FrameHasBill, DetectorLoads, DetectorFails,
       ImageChosen, ImageHasNoBill, ImageHasBill, scannerVars
  <2>3. s = session
    BY <2>1, <2>2 DEF FrameHasBill, StillTheSession
  <2> QED BY <2>1, <2>3 DEF OnScreen
<1> QED BY <1>1, ScannerInit, ScannerStep, PTL DEF SpecScanner, OwnDialog

-----------------------------------------------------------------------------
(* The dialog that confirms: what is pending is what it asks for, and was  *)
(* not confirmed since.                                                    *)

ConfirmationInv ==
    /\ pendingForm \in PageForms \cup {NoPageForm}
    /\ pendingForm # NoPageForm => asksFor = pendingForm /\ pendingForm \in unconfirmed
    /\ submitted \in Seq(PageForms)

SpecConfirmation == InitConfirmation /\ [][NextConfirmation]_confirmationVars

LEMMA ConfirmationStep ==
    ConfirmationInv /\ [NextConfirmation]_confirmationVars => ConfirmationInv'
<1> SUFFICES ASSUME ConfirmationInv, [NextConfirmation]_confirmationVars
             PROVE  ConfirmationInv'
  OBVIOUS
<1> USE DEF ConfirmationInv
<1>1. ASSUME NEW f \in PageForms, SubmitHeldBack(f) PROVE ConfirmationInv'
  BY <1>1 DEF SubmitHeldBack, Pending
<1>2. CASE ConfirmationShown \/ Cancel
  BY <1>2 DEF ConfirmationShown, Cancel
<1>3. CASE Confirm
  BY <1>3 DEF Confirm, PendingNoMore
<1>4. CASE ConfirmationHidden
  BY <1>4 DEF ConfirmationHidden
<1>5. CASE UNCHANGED confirmationVars
  BY <1>5 DEF confirmationVars
<1> QED BY <1>1, <1>2, <1>3, <1>4, <1>5 DEF NextConfirmation

(* The dialog submits the form it asks about, once for each time the form  *)
(* was held back, for any forms and clicks while it fades.                 *)
THEOREM SubmitsWhatItAsked == SpecConfirmation => ConfirmedOnce
<1>1. InitConfirmation => ConfirmationInv
  BY DEF InitConfirmation, ConfirmationInv
<1> DEFINE Once == submitted' # submitted =>
       submitted'[Len(submitted')] = asksFor /\ asksFor \in unconfirmed
<1>2. ConfirmationInv /\ [NextConfirmation]_confirmationVars => [Once]_confirmationVars
  <2> SUFFICES ASSUME ConfirmationInv, [NextConfirmation]_confirmationVars,
                      submitted' # submitted
               PROVE  submitted'[Len(submitted')] = asksFor /\ asksFor \in unconfirmed
    OBVIOUS
  <2>1. Confirm
    BY DEF NextConfirmation, SubmitHeldBack, ConfirmationShown, Cancel,
       ConfirmationHidden, confirmationVars
  <2>2. submitted'[Len(submitted')] = pendingForm
    BY <2>1 DEF Confirm, ConfirmationInv
  <2> QED BY <2>1, <2>2 DEF Confirm, ConfirmationInv
<1> QED BY <1>1, <1>2, ConfirmationStep, PTL DEF SpecConfirmation, ConfirmedOnce

-----------------------------------------------------------------------------
(* Registration.  The row and the newest mail agree while a user waits:    *)
(* no other action touches the mail of a link that a row still names.      *)

RegistrationTyped ==
    /\ user \in [Users -> {"none", "unverified", "verified"}]
    /\ token \in [Users -> Links \cup {NoLink}]
    /\ age \in [Users -> Ages]
    /\ letter \in [Links -> {"none", "sent", "arrived", "lost"}]
    /\ madeAgo \in [Links -> Ages]
    /\ latest \in [Users -> Links \cup {NoLink}]
    /\ turnedDown \in [Users -> BOOLEAN]

(* A user who waits has the newest link in the row, and its age.           *)
Waits(u) ==
    /\ token[u] \in Links
    /\ latest[u] = token[u]
    /\ letter[token[u]] # "none"
    /\ age[u] = madeAgo[token[u]]

Agree == \A u \in Users :
    IF user[u] = "unverified" THEN Waits(u) ELSE token[u] = NoLink

(* Two rows never name one link.                                           *)
Apart == \A u, v \in Users : token[u] = token[v] /\ token[u] # NoLink => u = v

RegistrationInv == RegistrationTyped /\ Agree /\ Apart

-----------------------------------------------------------------------------
LEMMA ZeroIsAge == 0 \in Ages
BY AgesAssumption DEF Ages

LEMMA OlderIsAge == ASSUME NEW a \in Ages PROVE Older(a) \in Ages
BY DEF Older

LEMMA RegistrationInit == InitRegistration => RegistrationInv
BY ZeroIsAge, NoLinkAssumption DEF InitRegistration, RegistrationInv, RegistrationTyped, Agree, Apart

(* A new link is one that no row names.                                    *)
LEMMA MadeKeeps ==
    ASSUME RegistrationInv, NEW u \in Users, NEW l \in Links, Made(u, l),
           user' = [user EXCEPT ![u] = "unverified"]
    PROVE  RegistrationInv'
<1>1. RegistrationTyped'
  BY ZeroIsAge DEF Made, RegistrationInv, RegistrationTyped
<1>2. Agree'
  <2> SUFFICES ASSUME NEW v \in Users
               PROVE  (IF user[v] = "unverified" THEN Waits(v) ELSE token[v] = NoLink)'
    BY DEF Agree
  <2>1. CASE v = u
    BY <2>1 DEF Made, RegistrationInv, RegistrationTyped, Waits
  <2>2. CASE v # u
    BY <2>2 DEF Made, RegistrationInv, RegistrationTyped, Agree, Waits
  <2> QED BY <2>1, <2>2
<1>3. Apart'
  BY DEF Made, RegistrationInv, RegistrationTyped, Apart
<1> QED BY <1>1, <1>2, <1>3 DEF RegistrationInv

(* A mail goes on its way.                                                 *)
LEMMA BecomesKeeps ==
    ASSUME RegistrationInv, NEW l \in Links, NEW state \in {"arrived", "lost"}, Becomes(l, state)
    PROVE  RegistrationInv'
<1>1. RegistrationTyped'
  BY DEF Becomes, RegistrationInv, RegistrationTyped
<1>2. Agree'
  BY DEF Becomes, RegistrationInv, RegistrationTyped, Agree, Waits
<1>3. Apart'
  BY DEF Becomes, RegistrationInv, Apart
<1> QED BY <1>1, <1>2, <1>3 DEF RegistrationInv

LEMMA RegistrationStep == RegistrationInv /\ [NextRegistration]_registrationVars => RegistrationInv'
<1> SUFFICES ASSUME RegistrationInv, [NextRegistration]_registrationVars PROVE RegistrationInv'
  OBVIOUS
<1>1. ASSUME NEW u \in Users, NEW l \in Links, RegisterUser(u, l) PROVE RegistrationInv'
  BY <1>1, MadeKeeps DEF RegisterUser
<1>2. ASSUME NEW u \in Users, NEW l \in Links, RequestVerification(u, l) PROVE RegistrationInv'
  <2>1. user' = [user EXCEPT ![u] = "unverified"]
    BY <1>2 DEF RequestVerification, RegistrationInv, RegistrationTyped
  <2> QED BY <1>2, <2>1, MadeKeeps DEF RequestVerification
<1>3. ASSUME NEW u \in Users, NEW l \in Links, ConfirmEmail(u, l) PROVE RegistrationInv'
  <2>1. RegistrationTyped'
    BY <1>3, ZeroIsAge DEF ConfirmEmail, linkVars, RegistrationInv, RegistrationTyped
  <2>2. Agree' /\ Apart'
    BY <1>3 DEF ConfirmEmail, linkVars, RegistrationInv, RegistrationTyped, Agree, Waits, Apart
  <2> QED BY <2>1, <2>2 DEF RegistrationInv
<1>4. ASSUME NEW u \in Users, RequestRefused(u) PROVE RegistrationInv'
  BY <1>4 DEF RequestRefused, linkVars, RegistrationInv, RegistrationTyped, Agree, Waits, Apart
<1>5. ASSUME NEW u \in Users, DeleteUser(u) PROVE RegistrationInv'
  <2>1. RegistrationTyped'
    BY <1>5, ZeroIsAge DEF DeleteUser, RegistrationInv, RegistrationTyped
  <2>2. Agree' /\ Apart'
    BY <1>5 DEF DeleteUser, RegistrationInv, RegistrationTyped, Agree, Waits, Apart
  <2> QED BY <2>1, <2>2 DEF RegistrationInv
<1>6. ASSUME NEW l \in Links, Settle(l) PROVE RegistrationInv'
  <2>1. CASE Arrive(l) \/ Lose(l)
    BY <2>1, BecomesKeeps DEF Arrive, Lose
  <2>2. CASE Discard(l)
    <3>1. RegistrationTyped'
      BY <2>2, ZeroIsAge DEF Discard, RegistrationInv, RegistrationTyped
    <3>2. Agree'
      BY <2>2 DEF Discard, RegistrationInv, RegistrationTyped, Agree, Waits
    <3>3. Apart'
      BY <2>2 DEF Discard, RegistrationInv, Apart
    <3> QED BY <3>1, <3>2, <3>3 DEF RegistrationInv
  <2> QED BY <1>6, <2>1, <2>2 DEF Settle
<1>7. CASE Tick
  <2>1. RegistrationTyped'
    BY <1>7, ZeroIsAge, OlderIsAge DEF Tick, RegistrationInv, RegistrationTyped
  <2>2. Agree'
    BY <1>7 DEF Tick, RegistrationInv, RegistrationTyped, Agree, Waits
  <2>3. Apart'
    BY <1>7 DEF Tick, RegistrationInv, Apart
  <2> QED BY <2>1, <2>2, <2>3 DEF RegistrationInv
<1>8. CASE UNCHANGED registrationVars
  BY <1>8 DEF registrationVars, linkVars, RegistrationInv, RegistrationTyped, Agree, Waits, Apart
<1> QED BY <1>1, <1>2, <1>3, <1>4, <1>5, <1>6, <1>7, <1>8 DEF NextRegistration

(* While a user waits, the row names the newest link, whatever is asked    *)
(* for, lost, late or thrown away, and no two rows name the same one.      *)
THEOREM RowsAgree == SpecRegistration => []RegistrationInv
BY RegistrationInit, RegistrationStep, PTL DEF SpecRegistration

(* Only the newest link of a user confirms, only after its mail arrived    *)
(* and while it is valid, in any zone.                                     *)
THEOREM OnlyLatestConfirms == SpecRegistration => LatestLinkConfirms
<1> DEFINE Confirmed(u) ==
        user[u] = "unverified" /\ user'[u] = "verified"
            => /\ latest[u] # NoLink
               /\ letter[latest[u]] = "arrived"
               /\ madeAgo[latest[u]] <= Duration
<1>1. ASSUME RegistrationInv, NextRegistration PROVE \A u \in Users : Confirmed(u)
  <2> SUFFICES ASSUME NEW u \in Users, user[u] = "unverified", user'[u] = "verified"
               PROVE  /\ latest[u] # NoLink
                      /\ letter[latest[u]] = "arrived"
                      /\ madeAgo[latest[u]] <= Duration
    OBVIOUS
  <2>1. \A v \in Users, l \in Links : ~ RegisterUser(v, l) /\ ~ RequestVerification(v, l)
    BY <1>1 DEF RegisterUser, RequestVerification, RegistrationInv, RegistrationTyped
  <2>2. \A v \in Users : ~ RequestRefused(v) /\ ~ DeleteUser(v)
    BY <1>1 DEF RequestRefused, DeleteUser, RegistrationInv, RegistrationTyped
  <2>3. ~ Tick /\ \A l \in Links : ~ Settle(l)
    BY DEF Tick, Settle, Arrive, Lose, Discard, Becomes
  <2>4. PICK v \in Users, l \in Links : ConfirmEmail(v, l)
    BY <1>1, <2>1, <2>2, <2>3 DEF NextRegistration
  <2>5. v = u
    BY <1>1, <2>4 DEF ConfirmEmail, RegistrationInv, RegistrationTyped
  <2> QED BY <1>1, <2>4, <2>5, NoLinkAssumption DEF ConfirmEmail, Valid, RegistrationInv, Agree, Waits
<1>2. RegistrationInv /\ [NextRegistration]_registrationVars
      => [\A u \in Users : Confirmed(u)]_registrationVars
  BY <1>1
<1> QED BY <1>2, RowsAgree, PTL DEF SpecRegistration, LatestLinkConfirms
=============================================================================
