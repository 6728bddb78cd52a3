----------------------------- MODULE Confirmation -----------------------------
(***************************************************************************)
(* The dialog that confirms deletions and changes by administrators        *)
(* (static/js/app.js): one for all the forms of a page, which remembers    *)
(* the form it was opened for.  The dialog fades as in Scanner.            *)
(***************************************************************************)
EXTENDS Naturals, Sequences

CONSTANTS
    PageForms,     \* forms of the page with a confirmation
    NoPageForm,    \* null
    MaxRequests    \* bound on submissions that are tried

ASSUME NoPageFormAssumption == NoPageForm \notin PageForms

VARIABLES
    confirmation,  \* "hidden", "showing", "shown" or "hiding"
    pendingForm,
    asksFor,       \* the form whose title, message and button it shows
    tried,         \* number of submissions that were held back
    unconfirmed,   \* history: forms held back since the dialog was hidden last
    submitted      \* forms that were submitted, in this order

confirmationVars == <<confirmation, pendingForm, asksFor, tried, unconfirmed, submitted>>

FirstPending(f) ==   \* a mutant: a form that is pending stays so
    IF pendingForm = NoPageForm THEN f ELSE pendingForm
Pending(f) == f

(* A submission is held back; the dialog asks for it, and shows unless it  *)
(* fades.  While it shows, its backdrop keeps the other forms away.        *)
SubmitHeldBack(f) ==
    /\ confirmation \in {"hidden", "hiding"}
    /\ tried < MaxRequests
    /\ tried' = tried + 1
    /\ pendingForm' = Pending(f)
    /\ asksFor' = f
    /\ unconfirmed' = unconfirmed \cup {f}
    /\ confirmation' = IF confirmation = "hidden" THEN "showing" ELSE confirmation
    /\ UNCHANGED submitted

ConfirmationShown ==
    /\ confirmation = "showing"
    /\ confirmation' = "shown"
    /\ UNCHANGED <<pendingForm, asksFor, tried, unconfirmed, submitted>>

PendingNoMore == NoPageForm

(* A click on the button, which fades with the dialog.                     *)
Confirm ==
    /\ confirmation # "hidden"
    /\ pendingForm # NoPageForm
    /\ pendingForm' = PendingNoMore
    /\ confirmation' = IF confirmation = "shown" THEN "hiding" ELSE confirmation
    /\ submitted' = Append(submitted, pendingForm)
    /\ unconfirmed' = unconfirmed \ {pendingForm}
    /\ UNCHANGED <<asksFor, tried>>

Cancel ==
    /\ confirmation = "shown"
    /\ confirmation' = "hiding"
    /\ UNCHANGED <<pendingForm, asksFor, tried, unconfirmed, submitted>>

ConfirmationHidden ==
    /\ confirmation = "hiding"
    /\ confirmation' = "hidden"
    /\ pendingForm' = NoPageForm
    /\ unconfirmed' = {}
    /\ UNCHANGED <<asksFor, tried, submitted>>

InitConfirmation ==
    /\ confirmation = "hidden"
    /\ pendingForm = NoPageForm
    /\ asksFor = NoPageForm
    /\ tried = 0
    /\ unconfirmed = {}
    /\ submitted = <<>>

NextConfirmation ==
    \/ \E f \in PageForms : SubmitHeldBack(f)
    \/ ConfirmationShown \/ Confirm \/ Cancel \/ ConfirmationHidden

-----------------------------------------------------------------------------
(* Properties.                                                             *)

(* What is submitted is the form the dialog asks about, and once for every *)
(* time it was held back, also if the button is pressed twice or while the *)
(* dialog fades and another form is tried.                                 *)
ConfirmedOnce ==
    [][submitted' # submitted =>
          /\ submitted'[Len(submitted')] = asksFor
          /\ asksFor \in unconfirmed]_confirmationVars
=============================================================================
