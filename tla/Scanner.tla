------------------------------- MODULE Scanner -------------------------------
(***************************************************************************)
(* The dialog that fills a new post from the QR code of a bill             *)
(* (static/js/app.js): the camera, the detector, the images, and the       *)
(* coroutines that wait for them while the dialog comes and goes.          *)
(*                                                                         *)
(* A dialog of Bootstrap fades: it ignores show and hide while it does,    *)
(* and tells of them by its shown and hidden events.                       *)
(***************************************************************************)
EXTENDS FiniteSets, Naturals

CONSTANTS
    MaxSessions,   \* bound on session
    MaxImages      \* bound on images that are read at a time

ASSUME MaxSessionsAssumption == MaxSessions \in Nat

VARIABLES
    scanDialog,    \* "hidden", "showing", "shown" or "hiding"
    session,       \* the last of them; earlier ones are over
    asked,         \* sessions that wait for getUserMedia
    live,          \* sessions whose camera stream runs
    camera,        \* the session of stream, 0 for null
    starting,      \* sessions that wait for video.play
    frames,        \* scanFrames of a session: "off", "due", or "reading"
    detector,      \* detectorPromise
    images,        \* number of images in scanImage
    filled         \* the session whose frame filled the form last, 0 for none

scannerVars == <<scanDialog, session, asked, live, camera, starting, frames,
                 detector, images, filled>>

CameraSessions == 1..MaxSessions

-----------------------------------------------------------------------------
(* The dialog.                                                             *)

ShowDialog ==
    /\ scanDialog = "hidden"
    /\ session + 2 <= MaxSessions
    /\ scanDialog' = "showing"
    /\ UNCHANGED <<session, asked, live, camera, starting, frames, detector, images, filled>>

(* shown.bs.modal: startCamera, where the browser has cameras.             *)
DialogShown ==
    /\ scanDialog = "showing"
    /\ scanDialog' = "shown"
    /\ session' = session + 1
    /\ asked' \in {asked, asked \cup {session'}}
    /\ UNCHANGED <<live, camera, starting, frames, detector, images, filled>>

Hide == scanDialog' = IF scanDialog = "shown" THEN "hiding" ELSE scanDialog

CloseDialog ==
    /\ scanDialog = "shown"
    /\ Hide
    /\ UNCHANGED <<session, asked, live, camera, starting, frames, detector, images, filled>>

(* hidden.bs.modal: stopCamera.                                            *)
DialogHidden ==
    /\ scanDialog = "hiding"
    /\ scanDialog' = "hidden"
    /\ session' = session + 1
    /\ live' = live \ {camera}
    /\ camera' = 0
    /\ UNCHANGED <<asked, starting, frames, detector, images, filled>>

-----------------------------------------------------------------------------
(* startCamera, after its two awaits.                                      *)

AnySession(s)    == TRUE   \* a mutant: current !== session is not checked
StillTheSession(s) == s = session

CameraGranted(s) ==
    /\ s \in asked
    /\ asked' = asked \ {s}
    /\ IF StillTheSession(s)
       THEN /\ live' = live \cup {s}
            /\ camera' = s
            /\ starting' = starting \cup {s}
       ELSE UNCHANGED <<live, camera, starting>>
    /\ UNCHANGED <<scanDialog, session, frames, detector, images, filled>>

CameraRefused(s) ==
    /\ s \in asked
    /\ asked' = asked \ {s}
    /\ UNCHANGED <<scanDialog, session, live, camera, starting, frames, detector,
                   images, filled>>

VideoPlays(s) ==
    /\ s \in starting
    /\ starting' = starting \ {s}
    /\ frames' = [frames EXCEPT ![s] = "due"]
    /\ UNCHANGED <<scanDialog, session, asked, live, camera, detector, images, filled>>

VideoFails(s) ==
    /\ s \in starting
    /\ starting' = starting \ {s}
    /\ UNCHANGED <<scanDialog, session, asked, live, camera, frames, detector, images, filled>>

-----------------------------------------------------------------------------
(* getDetector: the promise is kept, also one that was rejected.           *)

Wanted == detector' = IF detector = "none" THEN "loading" ELSE detector

DetectorLoads ==
    /\ detector = "loading"
    /\ detector' = "ready"
    /\ UNCHANGED <<scanDialog, session, asked, live, camera, starting, frames, images, filled>>

DetectorFails ==
    /\ detector = "loading"
    /\ detector' = "failed"
    /\ UNCHANGED <<scanDialog, session, asked, live, camera, starting, frames, images, filled>>

-----------------------------------------------------------------------------
(* scanFrames: once in 200 ms, until the session is over or a bill is read.*)

(* A video without data yet is asked again, like one without a code.       *)
FrameDue(s) ==
    /\ frames[s] = "due"
    /\ IF s = session
       THEN frames' = [frames EXCEPT ![s] = "reading"] /\ Wanted
       ELSE frames' = [frames EXCEPT ![s] = "off"] /\ UNCHANGED detector
    /\ UNCHANGED <<scanDialog, session, asked, live, camera, starting, images, filled>>

GivesUp  == "off"   \* a mutant: return after a code that is no bill
Again    == "due"

FrameHasNoBill(s) ==
    /\ frames[s] = "reading"
    /\ detector \in {"ready", "failed"}
    /\ frames' = [frames EXCEPT ![s] =
                     IF detector = "ready" /\ s # session THEN "off" ELSE Again]
    /\ UNCHANGED <<scanDialog, session, asked, live, camera, starting, detector, images, filled>>

(* applyCodes fills the form and hides the dialog.                         *)
FrameHasBill(s) ==
    /\ frames[s] = "reading"
    /\ detector = "ready"
    /\ frames' = [frames EXCEPT ![s] = "off"]
    /\ IF StillTheSession(s) THEN filled' = s /\ Hide ELSE UNCHANGED <<filled, scanDialog>>
    /\ UNCHANGED <<session, asked, live, camera, starting, detector, images>>

-----------------------------------------------------------------------------
(* scanImage belongs to no session: a file that was chosen, perhaps after  *)
(* the dialog closed, or one pasted into it.                               *)

ImageChosen ==
    /\ session > 0 \/ scanDialog # "hidden"
    /\ images < MaxImages
    /\ images' = images + 1
    /\ Wanted
    /\ UNCHANGED <<scanDialog, session, asked, live, camera, starting, frames, filled>>

ImageHasNoBill ==
    /\ images > 0
    /\ detector \in {"ready", "failed"}
    /\ images' = images - 1
    /\ UNCHANGED <<scanDialog, session, asked, live, camera, starting, frames, detector, filled>>

ImageHasBill ==
    /\ images > 0
    /\ detector = "ready"
    /\ images' = images - 1
    /\ filled' = 0
    /\ Hide
    /\ UNCHANGED <<session, asked, live, camera, starting, frames, detector>>

-----------------------------------------------------------------------------
InitScanner ==
    /\ scanDialog = "hidden"
    /\ session = 0
    /\ asked = {}
    /\ live = {}
    /\ camera = 0
    /\ starting = {}
    /\ frames = [s \in CameraSessions |-> "off"]
    /\ detector = "none"
    /\ images = 0
    /\ filled = 0

DialogStep == ShowDialog \/ DialogShown \/ CloseDialog \/ DialogHidden

CameraStep(s) ==
    \/ CameraGranted(s) \/ CameraRefused(s) \/ VideoPlays(s) \/ VideoFails(s)
    \/ FrameDue(s) \/ FrameHasNoBill(s) \/ FrameHasBill(s)

NextScanner ==
    \/ DialogStep
    \/ \E s \in CameraSessions : CameraStep(s)
    \/ DetectorLoads \/ DetectorFails
    \/ ImageChosen \/ ImageHasNoBill \/ ImageHasBill

(* Timers run, the detector loads or fails, and a frame shows the bill     *)
(* again and again while the user holds it before the camera.              *)
ScannerFairness ==
    /\ WF_scannerVars(DetectorLoads \/ DetectorFails)
    /\ \A s \in CameraSessions :
          /\ WF_scannerVars(FrameDue(s)) /\ WF_scannerVars(FrameHasNoBill(s))
          /\ SF_scannerVars(FrameHasBill(s))

-----------------------------------------------------------------------------
(* Properties.                                                             *)

(* The camera does not outlive its dialog: whatever is granted, starts or  *)
(* is closed while another of them is awaited, no stream runs once the     *)
(* dialog is hidden, and at most one before.                               *)
CameraOff ==
    /\ scanDialog = "hidden" => live = {}
    /\ Cardinality(live) <= 1

(* A frame fills the form only while the dialog it was scanned for is on   *)
(* the screen, though the code was awaited from the detector meanwhile.    *)
OwnDialog ==
    [][\A s \in CameraSessions : frames[s] = "reading" /\ frames'[s] = "off" /\ filled' = s =>
          scanDialog \in {"shown", "hiding"} /\ camera = s]_scannerVars

(* A bill before the camera is read in the end, whatever other codes came  *)
(* before it, unless the user closes the dialog or no detector loads.      *)
BillTaken ==
    \A s \in CameraSessions :
        frames[s] = "due" /\ s = session ~> s # session \/ filled = s \/ detector = "failed"
=============================================================================
