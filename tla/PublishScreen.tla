---------------------------- MODULE PublishScreen ----------------------------
(***************************************************************************)
(* AddProductViewController.didtapTambah: the screen a product is published *)
(* from.  A tap uploads the picture, then calls insertProduct, whose up to  *)
(* four completions (one per head) all come back to the same screen: each   *)
(* dismisses "the" presented controller, a success also the spinner.        *)
(* Composes ProductInsert with the upload (StorageManager) and the screen.  *)
(***************************************************************************)
EXTENDS ProductInsert

CONSTANT Screens   \* instances of AddProductViewController

VARIABLES
    screenOf,  \* [Products -> Screens]: each tap on a screen makes a product id
    upload,    \* [Products -> Uploads]
    stored,    \* products whose picture is in the storage bucket
    page,      \* [Screens -> Pages]
    spinner,   \* screens whose spinner is shown
    alert      \* screens with an alert on top

\* No tap yet; the picture has no PNG data; putData under way; downloadURL
\* under way; insertProduct called; reported as failed; the process ended.
Uploads == {"none", "noData", "putting", "fetching", "inserting", "failed", "dead"}

\* Not opened yet; on screen; popped by the back button; dismissed; ended with
\* its process.
Pages == {"away", "open", "popped", "dismissed", "gone"}

screenVars == <<screenOf, upload, stored, page, spinner, alert>>
allVars == <<vars, screenVars>>

Published(s) == {p \in Products : screenOf[p] = s}
OpenOn(d) ==
    {s \in Screens : page[s] = "open" /\ \E p \in Published(s) : form[p].dev = d}

\* The form of the third tab: always there, never presented, without a category.
InTab(s) == \E p \in Published(s) : form[p].cat = NoCategory

\* The forms in the navigation controller presented over the tabs: at most one.
Modal(d) == {s \in OpenOn(d) : ~ InTab(s)}

ScreenInit ==
    /\ Init
    /\ screenOf \in [Products -> Screens]
    /\ \A p, q \in Products : screenOf[p] = screenOf[q] => form[p] = form[q]
    /\ upload = [p \in Products |-> "none"]
    /\ stored = {}
    /\ page = [s \in Screens |-> IF InTab(s) THEN "open" ELSE "away"]
    /\ spinner = {}
    /\ alert = {}

-----------------------------------------------------------------------------
(* The user *)

\* A category is chosen: the form of p is pushed.
Open(p) ==
    /\ alive[form[p].dev]
    /\ page[screenOf[p]] = "away"
    /\ Modal(form[p].dev) = {}
    /\ OpenOn(form[p].dev) \cap alert = {}
    /\ page' = [page EXCEPT ![screenOf[p]] = "open"]
    /\ UNCHANGED <<vars, screenOf, upload, stored, spinner, alert>>

\* An alert covers everything, a spinner its own form, and a presented form the
\* one in the tab.
Touchable(p) ==
    /\ page[screenOf[p]] = "open"
    /\ screenOf[p] \notin spinner
    /\ OpenOn(form[p].dev) \cap alert = {}
    /\ InTab(screenOf[p]) => Modal(form[p].dev) = {}

\* A tap on "Tambah" with everything filled in: show the spinner, make an id
\* and hand the picture to the storage; nothing if it has no PNG data.
Tap(p) ==
    /\ Touchable(p)
    /\ upload[p] = "none"
    /\ spinner' = spinner \cup {screenOf[p]}
    /\ \E stage \in {"putting", "noData"} : upload' = [upload EXCEPT ![p] = stage]
    /\ UNCHANGED <<vars, screenOf, stored, page, alert>>

\* A tap with nobody signed in or no picture chosen only shows an alert.
TapRefused(p) ==
    /\ Touchable(p)
    /\ alert' = alert \cup {screenOf[p]}
    /\ UNCHANGED <<vars, screenOf, upload, stored, page, spinner>>

CloseAlert(s) ==
    /\ s \in alert
    /\ alert' = alert \ {s}
    /\ UNCHANGED <<vars, screenOf, upload, stored, page, spinner>>

\* The back button is in the navigation bar, outside the view the spinner covers.
Back(s) ==
    /\ page[s] = "open"
    /\ \E d \in Devices : s \in Modal(d) /\ OpenOn(d) \cap alert = {}
    /\ page' = [page EXCEPT ![s] = "popped"]
    /\ spinner' = spinner \ {s}
    /\ UNCHANGED <<vars, screenOf, upload, stored, alert>>

-----------------------------------------------------------------------------
(* StorageManager.uploadProductPicture *)

Stored(p) ==
    /\ upload[p] = "putting"
    /\ stored' = stored \cup {p}
    /\ upload' = [upload EXCEPT ![p] = "fetching"]
    /\ UNCHANGED <<vars, screenOf, page, spinner, alert>>

\* putData or downloadURL fails: an alert, unless the screen is gone or (in the
\* tab) a presented controller is in the way, and the spinner goes.
UploadFails(p) ==
    /\ upload[p] \in {"putting", "fetching"}
    /\ upload' = [upload EXCEPT ![p] = "failed"]
    /\ \/ /\ page[screenOf[p]] = "open"
          /\ InTab(screenOf[p]) => Modal(form[p].dev) = {}
          /\ alert' = alert \cup {screenOf[p]}
       \/ /\ page[screenOf[p]] # "open" \/ InTab(screenOf[p])
          /\ UNCHANGED alert
    /\ spinner' = spinner \ {screenOf[p]}
    /\ UNCHANGED <<vars, screenOf, stored, page>>

\* Mutant of Uploaded: the product is inserted without waiting for the URL.
UploadedEarly(p) ==
    /\ upload[p] = "putting"
    /\ Begin(p)
    /\ upload' = [upload EXCEPT ![p] = "inserting"]
    /\ UNCHANGED <<screenOf, stored, page, spinner, alert>>

\* The URL of the stored picture is there: insertProduct is called.
Uploaded(p) ==
    /\ upload[p] = "fetching"
    /\ Begin(p)
    /\ upload' = [upload EXCEPT ![p] = "inserting"]
    /\ UNCHANGED <<screenOf, stored, page, spinner, alert>>

-----------------------------------------------------------------------------
(* insertProduct's completions *)

TakeDown(screens) ==
    /\ page' = [s \in Screens |-> IF s \in screens THEN "dismissed" ELSE page[s]]
    /\ alert' = alert \ screens

\* navigationController?.dismiss takes down an alert if one is presented, else
\* the presented screen.
Dismiss(s) ==
    IF s \in alert THEN alert' = alert \ {s} /\ UNCHANGED page
    ELSE TakeDown({s})

\* Mutants of Success: the spinner stays; the screen stays.
SuccessSpinning(s) == Dismiss(s) /\ UNCHANGED spinner
SuccessStaying(s) == spinner' = spinner \ {s} /\ UNCHANGED <<page, alert>>

Success(s) == Dismiss(s) /\ spinner' = spinner \ {s}

\* The alert is presented, and the dismissal that follows at once takes it down
\* again or is refused while it is being presented.  Under a presented form the
\* alert of the form in the tab is refused, and that other form is dismissed.
Failure(s, over) ==
    IF InTab(s) /\ over # {} THEN TakeDown(over) /\ spinner' = spinner \ over
    ELSE /\ \/ alert' = alert \ {s}
            \/ s \notin alert /\ alert' = alert \cup {s}
         /\ UNCHANGED <<page, spinner>>

\* completion(success) on a screen that is shown.  A popped or dismissed one has no
\* navigation controller to dismiss and cannot present an alert.
Report(p, success) ==
    /\ CASE page[screenOf[p]] # "open" -> UNCHANGED <<page, spinner, alert>>
         [] page[screenOf[p]] = "open" /\ success -> Success(screenOf[p])
         [] page[screenOf[p]] = "open" /\ ~success ->
               Failure(screenOf[p], Modal(form[p].dev))
    /\ UNCHANGED <<screenOf, upload, stored>>

UserNotFound(p) == UserMissing(p) /\ Report(p, FALSE)

Completed(d) ==
    /\ Completion(d)
    /\ LET put == Head(pending[d]) IN Report(put.by[1], put.fate = "ok")

-----------------------------------------------------------------------------
\* The process ends with every screen that is open and every upload under way.
ScreensEnd(d) ==
    /\ page' = [s \in Screens |-> IF s \in OpenOn(d) THEN "gone" ELSE page[s]]
    /\ spinner' = spinner \ OpenOn(d)
    /\ alert' = alert \ OpenOn(d)
    /\ upload' = [p \in Products |->
          IF form[p].dev = d /\ upload[p] \in {"putting", "fetching"}
          THEN "dead" ELSE upload[p]]
    /\ UNCHANGED <<screenOf, stored>>

Ends(d) ==
    /\ \/ Kill(d)
       \/ \E p \in Products : form[p].dev = d /\ NoCategoryException(p)
    /\ ScreensEnd(d)

\* Steps of the insertion no screen hears of.
Silent ==
    /\ \/ \E p \in Products :
             \/ \E h \in ReadHeads : Raise(p, h)
             \/ UserFound(p)
             \/ \E h \in ListHeads : ListRead(p, h)
       \/ \E d \in Devices : Server(d) \/ LoseQueue(d) \/ ConnectionLost(d) \/ Refresh(d)
    /\ UNCHANGED screenVars

ScreenNext ==
    \/ \E p \in Products :
          \/ Open(p) \/ Tap(p) \/ TapRefused(p)
          \/ Stored(p) \/ UploadFails(p) \/ Uploaded(p)
          \/ UserNotFound(p)
    \/ \E s \in Screens : CloseAlert(s) \/ Back(s)
    \/ \E d \in Devices : Completed(d) \/ Ends(d)
    \/ Silent

ScreenSpec == ScreenInit /\ [][ScreenNext]_allVars

\* The storage answers, the main queue runs and the connection makes progress;
\* nothing is assumed of the user.
Storage(d) == \E p \in Products :
    form[p].dev = d /\ (Stored(p) \/ UploadFails(p) \/ Uploaded(p))

Insertion(d) == \E p \in Products :
    /\ form[p].dev = d
    /\ \/ UserNotFound(p)
       \/ NoCategoryException(p) /\ ScreensEnd(d)
       \/ /\ UNCHANGED screenVars
          /\ \/ UserFound(p)
             \/ \E h \in ListHeads : ListRead(p, h)

Progress(d) ==
    \/ Completed(d)
    \/ /\ UNCHANGED screenVars
       /\ \/ \E p \in Products, h \in ReadHeads : form[p].dev = d /\ Raise(p, h)
          \/ Server(d) \/ LoseQueue(d)

FairScreenSpec ==
    /\ ScreenSpec
    /\ \A d \in Devices : WF_allVars(Storage(d)) /\ WF_allVars(Insertion(d))
                          /\ WF_allVars(Progress(d))
-----------------------------------------------------------------------------
(* Properties *)

\* Every variable keeps its type, the insertion's under the screen's steps too.
ScreenTypeOK ==
    /\ TypeOK
    /\ screenOf \in [Products -> Screens]
    /\ upload \in [Products -> Uploads]
    /\ stored \in SUBSET Products
    /\ page \in [Screens -> Pages]
    /\ spinner \in SUBSET {s \in Screens : page[s] = "open"}
    /\ alert \in SUBSET {s \in Screens : page[s] = "open"}

\* A product that any list shows, also by way of another product's write, has a
\* picture in the storage.
PictureFirst ==
    \A n \in ListNodes : Listed(n) \subseteq stored

\* The form in the tab failed under a form presented over it.
FailedUnderneath(s) ==
    \E q \in Products : \E p \in Published(s) :
        /\ InTab(screenOf[q])
        /\ head[q]["user"] = "notFound"
        /\ form[q].dev = form[p].dev

\* A screen is only dismissed once its product's own node is in the database,
\* whichever of the completions comes first, unless that write was denied or it
\* was the form in the tab that failed.
DismissedMeansRecorded ==
    \A s \in Screens : page[s] = "dismissed" =>
        \/ FailedUnderneath(s)
        \/ \E p \in Published(s) : tree[p].there \/ <<p, "id">> \in denied

\* A write of one of the screen's products was denied.
DeniedOn(s) == \E p \in Published(s) : \E h \in Heads : <<p, h>> \in denied

\* Trying again on the same screen never publishes twice: of the products one
\* screen made, at most one reaches a list, unless a write of one of them was
\* denied: its alert takes the dismissal that a success meant for the screen.
RetryPublishesOnce ==
    \A p, q \in Products : \A m, n \in ListNodes :
        /\ screenOf[p] = screenOf[q]
        /\ p \in Listed(m) /\ q \in Listed(n)
        => p = q \/ DeniedOn(screenOf[p])

\* What leaves the spinner on a screen for good: a picture without PNG data, a
\* user that is not found, four writes of which none succeeds.
NothingSucceeds(p) ==
    \/ upload[p] = "noData"
    \/ head[p]["user"] = "notFound"
    \/ \A h \in Heads : head[p][h] = "failed"

\* The spinner of a screen that stays open goes in the end, unless nothing
\* succeeds.
SpinnerEnds ==
    \A s \in Screens :
        s \in spinner ~> s \notin spinner \/ \E p \in Published(s) : NothingSucceeds(p)
=============================================================================
