--------------------------------- MODULE Page ---------------------------------
(***************************************************************************)
(* A screen with a form: the messages it shows (views/base), its inputs,   *)
(* their validation and the submit (views/form), the decorators around the *)
(* submit (one at a time, the notice of a slow answer, the progress        *)
(* indicator), tooltips on refused inputs and legible passwords.           *)
(*                                                                         *)
(* One screen is shown at a time; an error may be passed on to the next.   *)
(* Besides the submit a screen may have a link that makes the screen again *)
(* with what the server has now (`refresh').                               *)
(***************************************************************************)
EXTENDS FormInputs, FiniteSets

CONSTANTS
    Scenarios,   \* the set-ups the run explores
    MaxSubmits,  \* bound: submits
    MaxEdits     \* bound: changes of inputs, and refreshes

ASSUME BoundsAssumption == MaxSubmits \in Nat \ {0} /\ MaxEdits \in Nat

\* Every input of the templates that takes a password has the class `password', by
\* which it is found also while it is legible (elements/password-input.js).
ASSUME ScenariosAssumption ==
    \A s \in Scenarios :
        /\ s.inputs \in Seq([type : STRING, mark : Marks, required : BOOLEAN])
        /\ \A i \in DOMAIN s.inputs : s.inputs[i].type = "password" => s.inputs[i].mark = "password"
        /\ DOMAIN s.texts = DOMAIN s.inputs
        /\ s.passed \in {"none", "passed"} /\ s.success \in BOOLEAN

VARIABLES
    setup,    \* what the run is about
    view,     \* the screen and its messages
    form,     \* its inputs
    task,     \* the operations under way
    spinner,  \* the progress indicator of each button
    request,  \* the submit: the notice of a slow answer, what was sent
    tips,     \* the tooltips, and the listeners they left behind
    log       \* the errors reported, with the steps counted

pageVars == <<setup, view, form, task, spinner, request, tips, log>>

Inputs == DOMAIN setup.inputs

Operations == {"submit", "refresh", "again"}   \* `refresh' may be asked for twice

Button(op) == IF op = "submit" THEN "submit" ELSE "link"

(***************************************************************************)
(* Errors.  The objects that live on are the one the last screen passed    *)
(* and the one of each submit; an error made on the spot is reported once. *)
(***************************************************************************)
Answer(n) == IF n = 1 THEN "first answer" ELSE "later answer"

Errors == {"passed", "first answer", "later answer"}

\* No error at all is an unexpected one.
NormalizeError(err) == IF err = "none" THEN "UNEXPECTED_ERROR" ELSE err

\* The error goes to Sentry and the metrics once, whichever screen it is on.
LogError(l, err) ==
    IF NormalizeError(err) \in Errors \cap l.logged THEN l
    ELSE [l EXCEPT !.reported = [e \in Errors |-> @[e] + IF NormalizeError(err) = e THEN 1 ELSE 0],
                   !.logged = @ \cup (Errors \cap {NormalizeError(err)})]

(***************************************************************************)
(* Messages.  Hiding one leaves its text in place.                         *)
(***************************************************************************)
HideError(v) == [v EXCEPT !.errorVisible = FALSE]

HideSuccess(v) == [v EXCEPT !.successVisible = FALSE]

DisplaySuccess(v) == [HideError(v) EXCEPT !.successVisible = TRUE]

DisplayError(v, err) ==
    IF ~v.errorsEnabled THEN v ELSE [HideSuccess(v) EXCEPT !.error = NormalizeError(err), !.errorVisible = TRUE]

\* What displayError reports; while the page is left nothing is.
Displayed(l, v, err) == IF v.errorsEnabled THEN LogError(l, err) ELSE l

DisableErrors(v) == [v EXCEPT !.errorsEnabled = FALSE]

\* A text in a template is escaped; markup in it is reported.
Translate(l, text) == IF text = "html" THEN LogError(l, "HTML_WILL_BE_ESCAPED") ELSE l

\* Markup is left alone; a variable whose name does not say so is reported.
UnsafeTranslate(l, text) == IF text = "variable" THEN LogError(l, "UNSAFE_INTERPOLATION_VARIABLE_NAME") ELSE l

TitleFromView(base, title, sub) ==
    CASE title # "" /\ sub # "" -> <<title, sub>>
      [] title # "" /\ sub = "" -> <<title>>
      [] title = "" /\ sub # "" -> <<base, sub>>
      [] OTHER                  -> <<base>>

\* Links beside each other are stacked when one would not fit its share.
StackWideLinks(widths, container) ==
    \E i \in DOMAIN widths : widths[i] >= container \div Len(widths)

(***************************************************************************)
(* The progress indicator of a button: how many operations it stands for,  *)
(* the timers to show and to remove it, and whether it is shown, which     *)
(* disables the button.                                                    *)
(***************************************************************************)
NoSpinner == [count |-> 0, show |-> FALSE, remove |-> FALSE, shown |-> FALSE]

Start(s) ==
    IF s.count > 0 THEN [s EXCEPT !.count = @ + 1]
    ELSE IF s.remove THEN [s EXCEPT !.count = 1, !.remove = FALSE]
    ELSE [s EXCEPT !.count = 1, !.show = TRUE]

\* Mutant: the indicator that is about to be shown is not called off.
DoneButShown(s) ==
    IF s.count = 0 THEN s
    ELSE IF s.count > 1 THEN [s EXCEPT !.count = @ - 1] ELSE [s EXCEPT !.count = 0, !.remove = TRUE]

Done(s) ==
    IF s.count = 0 THEN s
    ELSE IF s.count > 1 THEN [s EXCEPT !.count = @ - 1]
    ELSE IF s.show THEN [s EXCEPT !.count = 0, !.show = FALSE, !.shown = FALSE]
    ELSE [s EXCEPT !.count = 0, !.remove = TRUE]

ShowIndicator(s) == [s EXCEPT !.show = FALSE, !.shown = TRUE]

RemoveIndicator(s) == [s EXCEPT !.remove = FALSE, !.shown = FALSE]

(***************************************************************************)
(* Inputs.                                                                 *)
(***************************************************************************)
\* A shown password is an input of type `text'.
Element(i) ==
    [type |-> IF i \in form.legible THEN "text" ELSE setup.inputs[i].type,
     mark |-> setup.inputs[i].mark, required |-> setup.inputs[i].required]

Passwords == {i \in Inputs : setup.inputs[i].type = "password"}

GetFormValues(texts) == [i \in Inputs |-> Val(Element(i), texts[i])]

RefusedInputs(texts) == {i \in Inputs : Validate(Element(i), texts[i]) # "none"}

\* Mutant: the first input is enough.
IsFirstValid(texts) == Validate(Element(1), texts[1]) = "none"

IsValid(texts) == RefusedInputs(texts) = {}

\* Errors are shown one at a time.
FirstRefused(texts) == CHOOSE i \in RefusedInputs(texts) : \A j \in RefusedInputs(texts) : i <= j

IsFormEnabled == ~spinner["submit"].shown

\* The button to show a password comes with its first character and stays.
AddShowPasswordLabel(labels, texts) == labels \cup {i \in Passwords : RawLength(texts[i]) > 0}

\* One button may be for all the passwords of the form.
GetAffectedPasswordInputs(i) == IF setup.synchronized THEN Passwords ELSE {i}

HideVisiblePasswords(f) == [f EXCEPT !.legible = {}]

DetectFormValueChanges(f, texts) == GetFormValues(texts) # f.previous

(***************************************************************************)
(* Tooltips.                                                               *)
(***************************************************************************)
ShownTips == {tip \in tips : tip.shown}

\* The tooltips that go, with the marks of their inputs.
DestroyTips(f, gone) == [f EXCEPT !.marked = @ \ {tip.el : tip \in gone}]

\* beforeDestroy takes the listener for `change' off, not the one for keys.
AfterDestroy(all, gone) == (all \ gone) \cup {[tip EXCEPT !.shown = FALSE] : tip \in gone}

OneVisibleOfType(all) == {tip \in all : tip.shown}

NewTip(i, texts) == [n |-> Cardinality(tips) + 1, el |-> i, original |-> texts[i], shown |-> TRUE]

\* The input refused gets a tooltip, which hides the one before.
ShowValidationError(i) ==
    /\ tips' = AfterDestroy(tips, OneVisibleOfType(tips)) \cup {NewTip(i, form.texts)}
    /\ form' = [DestroyTips(HideVisiblePasswords(form), OneVisibleOfType(tips)) EXCEPT !.marked = @ \cup {i}]

(***************************************************************************)
(* Screens.                                                                *)
(***************************************************************************)
FreshView(error) ==
    [life |-> "rendered", errorsEnabled |-> TRUE, error |-> "none", errorVisible |-> FALSE,
     successVisible |-> FALSE, success |-> error = "none" /\ setup.success, passed |-> error,
     navigated |-> FALSE, stacked |-> FALSE, focus |-> "none", title |-> TitleFromView("accounts", setup.title, "")]

NewForm ==
    LET f == [texts |-> [i \in Inputs |-> setup.texts[i]], previous |-> <<>>, engaged |-> FALSE, marked |-> {},
              labels |-> {}, legible |-> {}, held |-> FALSE]
    IN  [f EXCEPT !.previous = [i \in Inputs |-> Val(setup.inputs[i], setup.texts[i])],
                  !.labels = {i \in Passwords : RawLength(setup.texts[i]) > 0}]

NoTask == [phase |-> "idle", old |-> FALSE]

\* `notice' is the text of the notice of a slow answer, known to the submit that showed it.
NoRequest == [asked |-> 0, working |-> FALSE, notice |-> FALSE, edited |-> FALSE, refused |-> {}]

Phases == {"idle", "delay", "before", "work", "pause", "end", "halted", "lost"}

PageInit ==
    /\ setup \in Scenarios
    /\ view = FreshView(setup.passed)
    /\ form = NewForm
    /\ task = [op \in Operations |-> NoTask]
    /\ spinner = [b \in {"submit", "link"} |-> NoSpinner]
    /\ tips = {}
    /\ request = NoRequest
    /\ log = Translate(UnsafeTranslate(
                [reported |-> [e \in Errors |-> IF e = setup.passed THEN 1 ELSE 0], logged |-> {setup.passed} \ {"none"},
                 submits |-> 0, edits |-> 0],
                setup.text), setup.text)

\* displayStatusMessages: what the screen before passed on is shown once, an error last.
DisplayStatusMessages ==
    /\ view' = LET v == IF view.success THEN DisplaySuccess([view EXCEPT !.success = FALSE]) ELSE view
               IN  [(IF v.passed # "none" THEN DisplayError([v EXCEPT !.passed = "none"], v.passed) ELSE v)
                       EXCEPT !.life = "shown", !.stacked = StackWideLinks(setup.links, 100),
                              !.focus = IF setup.autofocus /\ ~setup.touch THEN "waits" ELSE "none"]
    /\ log' = IF view.passed # "none" THEN Displayed(log, view, view.passed) ELSE log

AfterVisible ==
    /\ view.life = "rendered"
    /\ DisplayStatusMessages
    /\ UNCHANGED <<setup, form, task, spinner, request, tips>>

\* Tried every 50 ms until the element can be seen.
FocusAutofocusElement ==
    /\ view.life = "shown" /\ view.focus = "waits"
    /\ view' = [view EXCEPT !.focus = "placed"]
    /\ UNCHANGED <<setup, form, task, spinner, request, tips, log>>

\* The window is about to be left.
BeforeUnload ==
    /\ setup.leaves /\ view.errorsEnabled
    /\ view' = DisableErrors(view)
    /\ UNCHANGED <<setup, form, task, spinner, request, tips, log>>

IsSubmitting == task["submit"].phase # "idle"

\* onFormChange: a message goes when the user goes on, not while a submit is under way.
OnFormChange(texts) ==
    IF DetectFormValueChanges(form, texts) /\ ~IsSubmitting THEN HideSuccess(HideError(view)) ELSE view

Changed(f, texts) ==
    [f EXCEPT !.texts = texts, !.previous = GetFormValues(texts),
              !.engaged = @ \/ (DetectFormValueChanges(form, texts) /\ ~IsSubmitting),
              !.labels = AddShowPasswordLabel(@, texts)]

\* The listeners for keys, also of tooltips long gone, whose input has another text.
CloseIfInvalidElementValueHasChanged(i, texts) == {tip \in tips : tip.el = i /\ tip.original # texts[i]}

\* A key in an input, which changes its text or not.
Key(i) ==
    /\ view.life = "shown" /\ log.edits < MaxEdits
    /\ \E t \in setup.typed[i] \cup {form.texts[i]} :
          \E texts \in {[form.texts EXCEPT ![i] = t]} :
             \E gone \in {CloseIfInvalidElementValueHasChanged(i, texts)} :
                /\ t # form.texts[i] \/ gone # {}
                /\ form' = Changed(DestroyTips(form, gone), texts)
                /\ tips' = tips \ gone
                /\ view' = OnFormChange(texts)
                /\ request' = [request EXCEPT !.edited = TRUE]
                /\ log' = [log EXCEPT !.edits = @ + 1]
    /\ UNCHANGED <<setup, task, spinner>>

\* A text pasted with the mouse; the input is left, so that it `changes'.
Paste(i) ==
    /\ view.life = "shown" /\ log.edits < MaxEdits
    /\ \E t \in setup.typed[i] \ {form.texts[i]} :
          \E texts \in {[form.texts EXCEPT ![i] = t]} :
             \E gone \in {{tip \in ShownTips : tip.el = i}} :
                /\ form' = Changed(DestroyTips(form, gone), texts)
                /\ tips' = AfterDestroy(tips, gone)
                /\ view' = OnFormChange(texts)
                /\ request' = [request EXCEPT !.edited = TRUE]
                /\ log' = [log EXCEPT !.edits = @ + 1]
    /\ UNCHANGED <<setup, task, spinner>>

(***************************************************************************)
(* Legible passwords, while the button is pressed.                         *)
(***************************************************************************)
ShowPassword(f, i) == [f EXCEPT !.legible = @ \cup GetAffectedPasswordInputs(i), !.held = TRUE]

OnShowPasswordMouseDown(i) ==
    /\ view.life = "shown" /\ i \in form.labels /\ ~form.held
    /\ form' = ShowPassword(form, i)
    /\ UNCHANGED <<setup, view, task, spinner, request, tips, log>>

\* The listener on the window is taken off with the first release.
MouseUp ==
    /\ form.held
    /\ form' = [HideVisiblePasswords(form) EXCEPT !.held = FALSE]
    /\ UNCHANGED <<setup, view, task, spinner, request, tips, log>>

(***************************************************************************)
(* The submit.                                                             *)
(***************************************************************************)
\* Otherwise the promise is rejected: `submit already in progress'.
AllowOnlyOneSubmit == ~IsSubmitting

\* submitStart, then either a refusal, nothing while the button is disabled, or the submit starts.
ValidateAndSubmit ==
    /\ view.life = "shown" /\ ~view.navigated /\ log.submits < MaxSubmits
    /\ AllowOnlyOneSubmit
    /\ log' = [log EXCEPT !.submits = @ + 1]
    /\ IF ~IsValid(form.texts)
         THEN /\ ShowValidationError(FirstRefused(form.texts))
              /\ view' = HideError(view)
              /\ UNCHANGED <<task, spinner, request>>
         ELSE /\ form' = HideVisiblePasswords(form)
              /\ IF IsFormEnabled
                   THEN /\ task' = [task EXCEPT !["submit"] = [NoTask EXCEPT !.phase = "delay"]]
                        /\ spinner' = [spinner EXCEPT !["submit"] = Start(@)]
                        /\ request' = [request EXCEPT !.working = TRUE, !.notice = FALSE, !.edited = FALSE]
                   ELSE UNCHANGED <<task, spinner, request>>
              /\ UNCHANGED <<view, tips>>
    /\ UNCHANGED setup

\* Ten seconds, and no answer yet.
NotifyDelayedRequest ==
    /\ request.working
    /\ view' = DisplayError(view, "WORKING")
    /\ request' = [request EXCEPT !.working = FALSE, !.notice = view.errorsEnabled]
    /\ UNCHANGED <<setup, form, task, spinner, tips, log>>

\* The indicator's timer, which is dropped with the indicator.
DelayEnds(op) ==
    /\ task[op].phase = "delay"
    /\ task' = [task EXCEPT ![op].phase = IF op = "submit" THEN "before" ELSE "work"]
    /\ UNCHANGED <<setup, view, form, spinner, request, tips, log>>

\* beforeSubmit has agreed: the values are read now.
BeforeSubmitAgrees ==
    /\ task["submit"].phase = "before"
    /\ task' = [task EXCEPT !["submit"].phase = "work"]
    /\ request' = [request EXCEPT !.asked = @ + 1, !.refused = RefusedInputs(form.texts)]
    /\ UNCHANGED <<setup, view, form, spinner, tips, log>>

BeforeSubmitDeclines ==
    /\ task["submit"].phase = "before"
    /\ task' = [task EXCEPT !["submit"].phase = "pause"]
    /\ UNCHANGED <<setup, view, form, spinner, request, tips, log>>

\* What the screen shows is the operation's own indicator, unless it was made again since.
DoneWith(op) == IF task[op].old THEN spinner ELSE [spinner EXCEPT ![Button(op)] = Done(@)]

\* Mutant: only a success allows another submit.
StaysSubmitting == "stuck"

SubmitFailed == "idle"

ClearWorkingTimeout(r) == [r EXCEPT !.working = FALSE]

\* The error is shown and thrown on; nothing waits for it but the end of the submit.
SubmitFails ==
    /\ task["submit"].phase \in {"before", "work"}
    /\ \E err \in {Answer(log.submits)} :
          /\ view' = DisplayError(view, err)
          /\ log' = Displayed(log, view, err)
    /\ spinner' = DoneWith("submit")
    /\ request' = [ClearWorkingTimeout(request) EXCEPT !.asked = IF task["submit"].phase = "work" THEN @ - 1 ELSE @]
    /\ task' = [task EXCEPT !["submit"] = [NoTask EXCEPT !.phase = SubmitFailed]]
    /\ UNCHANGED <<setup, form, tips>>

SubmitSucceeds ==
    /\ task["submit"].phase = "work"
    /\ task' = [task EXCEPT !["submit"].phase = "pause"]
    /\ request' = [request EXCEPT !.asked = @ - 1]
    /\ UNCHANGED <<setup, view, form, spinner, tips, log>>

\* The browser takes over, the promise is never kept: the form stays as it is.
SubmitHalts ==
    /\ setup.halts /\ task["submit"].phase = "work"
    /\ task' = [task EXCEPT !["submit"].phase = "halted"]
    /\ request' = [request EXCEPT !.asked = @ - 1]
    /\ UNCHANGED <<setup, view, form, spinner, tips, log>>

\* The answer is an error that another screen is to show.
NavigateWithError ==
    /\ setup.elsewhere /\ task["submit"].phase = "work" /\ ~view.navigated
    /\ view' = [view EXCEPT !.navigated = TRUE, !.passed = Answer(log.submits)]
    /\ log' = LogError(log, Answer(log.submits))
    /\ task' = [task EXCEPT !["submit"].phase = "pause"]
    /\ request' = [request EXCEPT !.asked = @ - 1]
    /\ UNCHANGED <<setup, form, spinner, tips>>

\* The notice goes when it is still what the screen says.
PauseEnds(op) ==
    /\ task[op].phase = "pause"
    /\ spinner' = DoneWith(op)
    /\ IF op = "submit"
         THEN /\ task' = [task EXCEPT ![op].phase = "end"]
              /\ request' = ClearWorkingTimeout(request)
              /\ view' = IF request.notice /\ view.error = "WORKING" THEN HideError(view) ELSE view
         ELSE /\ task' = [task EXCEPT ![op] = NoTask]
              /\ UNCHANGED <<request, view>>
    /\ UNCHANGED <<setup, form, tips, log>>

\* afterSubmit is called with no result, so that it never halts the form.
AfterSubmit ==
    /\ task["submit"].phase = "end"
    /\ task' = [task EXCEPT !["submit"] = NoTask]
    /\ UNCHANGED <<setup, view, form, spinner, request, tips, log>>

(***************************************************************************)
(* The screen made again, its child views and their timers destroyed.      *)
(***************************************************************************)
DestroyChildViews(op) ==
    CASE task[op].phase \in {"delay", "pause"} -> [task[op] EXCEPT !.phase = "lost"]
      [] task[op].phase \in {"before", "work"} -> [task[op] EXCEPT !.old = TRUE]
      [] OTHER                                 -> task[op]

Refresh(op) ==
    /\ setup.refreshes /\ view.life = "shown" /\ ~view.navigated
    /\ ~spinner["link"].shown /\ task[op].phase = "idle" /\ log.edits < MaxEdits
    /\ task' = [task EXCEPT ![op].phase = "delay"]
    /\ spinner' = [spinner EXCEPT !["link"] = Start(@)]
    /\ log' = [log EXCEPT !.edits = @ + 1]
    /\ UNCHANGED <<setup, view, form, request, tips>>

Rerender(op) ==
    /\ op # "submit" /\ task[op].phase = "work"
    /\ task' = [o \in Operations |-> IF o = op THEN [phase |-> "pause", old |-> TRUE] ELSE DestroyChildViews(o)]
    /\ spinner' = [b \in {"submit", "link"} |-> NoSpinner]
    /\ tips' = {}
    /\ form' = [NewForm EXCEPT !.engaged = form.engaged, !.held = form.held]
    /\ view' = [HideSuccess(HideError(view)) EXCEPT !.error = "none"]
    /\ request' = [request EXCEPT !.edited = TRUE]
    /\ UNCHANGED <<setup, log>>

RefreshFails(op) ==
    /\ op # "submit" /\ task[op].phase = "work"
    /\ task' = [task EXCEPT ![op] = NoTask]
    /\ spinner' = DoneWith(op)
    /\ UNCHANGED <<setup, view, form, request, tips, log>>

\* The next screen takes its place; what is left of the old one changes nothing on it.
NextPage ==
    /\ view.navigated
    /\ view' = FreshView(view.passed)
    /\ form' = NewForm
    /\ task' = [op \in Operations |-> NoTask]
    /\ spinner' = [b \in {"submit", "link"} |-> NoSpinner]
    /\ request' = NoRequest
    /\ tips' = {}
    /\ UNCHANGED <<setup, log>>

Show(b) ==
    /\ spinner[b].show
    /\ spinner' = [spinner EXCEPT ![b] = ShowIndicator(@)]
    /\ UNCHANGED <<setup, view, form, task, request, tips, log>>

Hide(b) ==
    /\ spinner[b].remove
    /\ spinner' = [spinner EXCEPT ![b] = RemoveIndicator(@)]
    /\ UNCHANGED <<setup, view, form, task, request, tips, log>>

Timers ==
    \/ NotifyDelayedRequest \/ FocusAutofocusElement
    \/ \E op \in Operations : DelayEnds(op) \/ PauseEnds(op)
    \/ AfterSubmit
    \/ \E b \in {"submit", "link"} : Show(b) \/ Hide(b)

Answers ==
    \/ BeforeSubmitAgrees \/ BeforeSubmitDeclines
    \/ SubmitFails \/ SubmitSucceeds \/ SubmitHalts \/ NavigateWithError
    \/ \E op \in Operations : Rerender(op) \/ RefreshFails(op)

User ==
    \/ \E i \in Inputs : Key(i) \/ Paste(i)
    \/ \E i \in Passwords : OnShowPasswordMouseDown(i)
    \/ MouseUp \/ BeforeUnload \/ ValidateAndSubmit
    \/ \E op \in {"refresh", "again"} : Refresh(op)

PageNext == Timers \/ Answers \/ User \/ AfterVisible \/ NextPage

\* Timers fire, requests are answered or time out, screens are shown.
Fairness ==
    /\ WF_pageVars(AfterVisible \/ NextPage)
    /\ \A op \in Operations : WF_pageVars(DelayEnds(op)) /\ WF_pageVars(PauseEnds(op)) /\ WF_pageVars(Rerender(op) \/ RefreshFails(op))
    /\ WF_pageVars(AfterSubmit)
    /\ WF_pageVars(BeforeSubmitAgrees \/ BeforeSubmitDeclines \/ (task["submit"].phase = "before" /\ SubmitFails))
    /\ WF_pageVars(task["submit"].phase = "work" /\ (SubmitFails \/ SubmitSucceeds \/ SubmitHalts \/ NavigateWithError))
    /\ \A b \in {"submit", "link"} : WF_pageVars(Show(b)) /\ WF_pageVars(Hide(b))

PageSpec == PageInit /\ [][PageNext]_pageVars /\ Fairness

(***************************************************************************)
(* Properties.                                                             *)
(***************************************************************************)
(* Every part has its type; no more inputs, operations or errors are met than the screen has. *)
PageTypeOK ==
    /\ setup \in Scenarios
    /\ view.life \in {"rendered", "shown"} /\ view.focus \in {"none", "waits", "placed"}
    /\ view.error \in Errors \cup {"none", "WORKING", "UNEXPECTED_ERROR"} /\ view.passed \in Errors \cup {"none"}
    /\ {view.errorsEnabled, view.errorVisible, view.success, view.successVisible, view.navigated, view.stacked}
          \subseteq BOOLEAN
    /\ DOMAIN form.texts = Inputs /\ form.marked \subseteq Inputs /\ form.legible \subseteq Passwords
    /\ form.labels \subseteq Passwords /\ {form.engaged, form.held} \subseteq BOOLEAN
    /\ \A op \in Operations : task[op].phase \in Phases /\ task[op].old \in BOOLEAN
    /\ \A b \in DOMAIN spinner : spinner[b].count \in 0..2
    /\ request.asked \in 0..1 /\ request.refused \subseteq Inputs
    /\ {tip.el : tip \in tips} \subseteq Inputs
    /\ log.submits \in 0..MaxSubmits /\ log.edits \in 0..MaxEdits /\ log.logged \subseteq Errors

(* A form has never two submits on their way, whatever keys and timers come between (allow_only_one_submit.js:17). *)
OneSubmitAtOnce == request.asked <= 1

(* What is sent was valid when it was sent, unless the user changed it between the check and the sending *)
(* (form.js:194, 230). *)
SentIsValidated == request.asked > 0 /\ ~request.edited => request.refused = {}

(* A button stands for work: it is disabled, or about to be, exactly while an operation counts on it, or about to be *)
(* enabled again; a new operation never loses its indicator to the removal of the last (progress_indicator.js:52). *)
SpinnerTellsWork ==
    \A b \in DOMAIN spinner :
        /\ (spinner[b].count > 0) = ((spinner[b].show \/ spinner[b].shown) /\ ~spinner[b].remove)
        /\ spinner[b].remove => spinner[b].shown

(* "Still working" is only said of a submit that is under way, or while the page is left (notify_delayed_request.js:28). *)
WorkingOnlyWhileWorking ==
    view.errorVisible /\ view.error = "WORKING" => task["submit"].phase # "idle" \/ ~view.errorsEnabled

(* A screen never says that something went well and failed (base.js:36, 80). *)
ErrorOrSuccess == ~(view.errorVisible /\ view.successVisible)

(* An error is reported once, though a screen shows it, passes it on, and the next shows it (base.js:692). *)
ReportedOnce == \A err \in Errors : log.reported[err] <= 1

(* An input is marked invalid only while its tooltip says why, and one tooltip is shown (one-visible-of-type-mixin.js:42). *)
MarkedInputIsExplained ==
    /\ Cardinality(ShownTips) <= 1
    /\ \A i \in form.marked : \E tip \in ShownTips : tip.el = i

(* A password can be read only while the button to show it is pressed (password-mixin.js:110). *)
LegibleWhileHeld == form.legible # {} => form.held

(* A submit ends, with its answer or because the browser took over; only a screen made again may lose it. *)
SubmitEnds ==
    task["submit"].phase \in {"delay", "before", "work", "pause", "end"}
        ~> task["submit"].phase \in {"idle", "halted", "lost"}

\* One submit at a time, of inputs that were checked (form.js:155, 194).
SubmitIsSound == PageTypeOK /\ OneSubmitAtOnce /\ SentIsValidated

\* What the screen shows, the indicator, the notices, the errors, the tooltips and
\* the password, is what is going on, though timers of each change it.
ScreenTellsTheState ==
    /\ SpinnerTellsWork
    /\ WorkingOnlyWhileWorking
    /\ ErrorOrSuccess
    /\ ReportedOnce
    /\ MarkedInputIsExplained
    /\ LegibleWhileHeld

=============================================================================
