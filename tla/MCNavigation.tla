---------------------------- MODULE MCNavigation ----------------------------
(***************************************************************************)
(* Instances of Navigation, in one run: a hasty user, who navigates while  *)
(* another navigation is under way and uses the buttons of the browser; a  *)
(* patient one, who navigates longer, but waits for each screen and keeps  *)
(* to the buttons of the screens; and one who waits and uses those of the  *)
(* browser as well.                                                        *)
(***************************************************************************)
EXTENDS Navigation

CONSTANTS signin, oauth, reset, legal, SignInView, ResetView, LegalView

\* Two URLs have one view.
Routes == [url \in {signin, oauth, reset, legal} |->
    IF url = reset THEN ResetView ELSE IF url = legal THEN LegalView ELSE SignInView]

VARIABLE user   \* "hasty", "patient" or "browsing"

HastyStep == made' <= 2 /\ Len(views') <= 3

\* The views that send the user elsewhere in this step.
Redirecting ==
    {i \in Created : views[i].is = "rendering" /\ i \in DOMAIN views' /\ views'[i].is = "navigated"}

WaitingStep ==
    /\ made' # made =>
          /\ history' # history
          /\ IF Redirecting = {} THEN Settled
             ELSE \A j \in Created \ Redirecting : views[j].is # "rendering"
    /\ back' > back => Settled
    /\ place' # place /\ made' = made => back' < back \/ Settled

PatientStep ==
    /\ WaitingStep
    /\ place' # place /\ made' = made => back' < back

BrowsingStep == WaitingStep /\ made' <= 2 /\ Len(views') <= 4

MCInit == Init /\ user \in {"hasty", "patient", "browsing"}

MCNext ==
    /\ Next
    /\ user' = user
    /\ CASE user = "hasty"    -> HastyStep
         [] user = "patient"  -> PatientStep
         [] user = "browsing" -> BrowsingStep

MCSpec ==
    /\ MCInit
    /\ [][MCNext]_<<vars, user>>
    /\ \A i \in 1..MaxViews : WF_<<vars, user>>(RenderingEnds(i) /\ user' = user)

\* A patient user has the data of the view and of the URL (router.js:217); one
\* who waits, whatever buttons he uses, has the view of the URL.
ScreensAgree ==
    /\ user # "hasty" => ScreenIsOfTheUrl
    /\ user = "patient" => DataIsOfTheView /\ DataIsThere

\* "ditch the current view's model, go back to the previous view's model."
\* (src/app/scripts/lib/router.js:282), for a patient user.
PatientBackFindsPreviousModel ==
    [][user = "patient" /\ back' = back + 1 => Top(viewModels') \in {0, history[place - back - 1].data}]_<<vars, user>>

\* The stack of models and the history are kept in step by hand
\* (router.js:215-217, 282-287), and a view that stays has its model filled
\* (app.js:104): for a patient user they stay in step. The buttons of the
\* browser move the history alone, and a hasty user overtakes both.
PatientHistoryAgrees == []ScreensAgree /\ PatientBackFindsPreviousModel

=============================================================================
