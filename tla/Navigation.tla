---------------------------- MODULE Navigation ----------------------------
(***************************************************************************)
(* Moving between the screens of the single page application: the router  *)
(* (lib/router.js) with its stack of view models beside the history of the *)
(* browser, and AppView.showView (views/app.js), which creates views and   *)
(* renders them asynchronously.                                            *)
(*                                                                         *)
(* A page of the history is a URL and the number of the navigation that    *)
(* brought it there, which also names the data passed with it and the      *)
(* model the data is put into; 0 is a page that was not navigated to. Of a *)
(* model the set of pages is kept whose data was set in it. Child views,   *)
(* and the one view that is always made anew (`force'), are left out.      *)
(***************************************************************************)
EXTENDS Naturals, Sequences

CONSTANTS
    View,           \* the classes of views
    Url,            \* the routes
    ViewOf,         \* the view of each route; several may have the same
    Lazy,           \* the views whose code is imported when it is first needed
    First,          \* the URL the application starts with
    Hasty,          \* whether one navigates while another is under way
    BrowserButtons, \* whether the browser's own back and forward are used
    SameUrl,        \* whether one navigates to the URL one is at
    MaxNavigations, \* how often one navigates
    MaxViews        \* how many views a page creates

ASSUME NavigationAssumption ==
    /\ ViewOf \in [Url -> View]
    /\ Lazy \subseteq View /\ First \in Url /\ ViewOf[First] \notin Lazy
    /\ {Hasty, BrowserButtons, SameUrl} \subseteq BOOLEAN
    /\ MaxNavigations \in Nat /\ MaxViews \in Nat \ {0}

VARIABLES
    history,        \* of the browser
    place,          \* the page one is at
    back,           \* history.back() called and not arrived yet
    canGoBack,      \* in sessionStorage
    made,           \* navigations made
    viewModels,     \* _viewModelStack
    attributes,     \* the pages whose data each model has
    loading,        \* pages whose view is being imported
    views,          \* the views created, the destroyed ones included
    current,        \* _currentView, or 0
    shown           \* the view in the DOM, or 0: nothing or the error page

browser == <<history, place, back>>
app == <<attributes, loading, views, current, shown>>
vars == <<browser, canGoBack, made, viewModels, app>>

Data == 0..MaxNavigations
Page == [url : Url, data : Data]

\* A model is made for each navigation, or for a view when there is none.
Model == 1..(MaxNavigations + MaxViews)
Own(i) == MaxNavigations + i

Instance == [page : Page, model : Model, alive : BOOLEAN, canGoBack : BOOLEAN,
             is : {"rendering", "navigated", "shown", "refused", "failed"}]
Created == DOMAIN views

NewView(page, model) ==
    [page |-> page, model |-> model, alive |-> TRUE, canGoBack |-> canGoBack,
     is |-> "rendering"]

Init ==
    /\ history = <<[url |-> First, data |-> 0]>> /\ place = 1 /\ back = 0
    /\ canGoBack = FALSE
    /\ made = 0 /\ viewModels = <<>>
    /\ attributes = [m \in Model |-> {}]
    /\ loading = {}
    /\ views = <<NewView([url |-> First, data |-> 0], Own(1))>>
    /\ current = 1 /\ shown = 0

Settled ==
    back = 0 /\ loading = {} /\ \A i \in Created : views[i].is \in {"shown", "refused", "failed"}

-----------------------------------------------------------------------------
\* getCurrentViewModel
Top(models) == IF models = <<>> THEN 0 ELSE models[Len(models)]

\* showView, with the views as they are in vs and the models in attrs: a view
\* of the same class stays, and the data is merged into the model it has; any
\* other is destroyed and replaced. The model is the one on top of the stack
\* at this moment.
ShowView(vs, page, models, attrs) ==
    LET same == current # 0 /\ ViewOf[vs[current].page.url] = ViewOf[page.url]
        left == IF current = 0 THEN vs ELSE [vs EXCEPT ![current].alive = FALSE]
        new  == Len(vs) + 1
        model == IF models = <<>> THEN Own(new) ELSE Top(models)
    IN  /\ Len(vs) < MaxViews
        /\ views' = IF same THEN [vs EXCEPT ![current].page = page]
                    ELSE Append(left, NewView(page, model))
        /\ current' = IF same THEN current ELSE new
        /\ attributes' = IF same /\ models # <<>>
                         THEN [attrs EXCEPT ![vs[current].model] = @ \cup attrs[Top(models)]]
                         ELSE attrs
        /\ UNCHANGED shown

\* The handler of a route: the view's code is there, or is imported first.
Route(vs, page, models, attrs) ==
    \/ /\ ViewOf[page.url] \notin Lazy
       /\ ShowView(vs, page, models, attrs)
       /\ UNCHANGED loading
    \/ /\ ViewOf[page.url] \in Lazy
       /\ loading' = loading \cup {page}
       /\ views' = vs /\ attributes' = attrs
       /\ UNCHANGED <<current, shown>>

Imported(page) ==
    /\ page \in loading
    /\ loading' = loading \ {page}
    /\ ShowView(views, page, viewModels, attributes)
    /\ UNCHANGED <<browser, canGoBack, made, viewModels>>

-----------------------------------------------------------------------------
\* Mutant: a model that should be replaced is pushed.
AlwaysPush(replace) == Append(viewModels, made + 1)

Pushed(replace) ==
    IF replace /\ viewModels # <<>>
    THEN [viewModels EXCEPT ![Len(viewModels)] = made + 1]
    ELSE Append(viewModels, made + 1)

\* navigate: the model is made and pushed in any case; Backbone follows the
\* route only if the URL changes.
Navigate(vs, url, replace) ==
    LET page == [url |-> url, data |-> made + 1]
        attrs == [attributes EXCEPT ![made + 1] = {page}]
    IN  /\ made < MaxNavigations
        /\ made' = made + 1
        /\ viewModels' = Pushed(replace)
        /\ \/ /\ SameUrl /\ url = history[place].url
              /\ views' = vs /\ attributes' = attrs
              /\ UNCHANGED <<history, place, loading, current, shown>>
           \/ /\ url # history[place].url
              /\ history' = IF replace THEN [history EXCEPT ![place] = page]
                            ELSE Append(SubSeq(history, 1, place), page)
              /\ place' = IF replace THEN place ELSE place + 1
              /\ Route(vs, page, Pushed(replace), attrs)
        /\ UNCHANGED <<back, canGoBack>>

\* A link, a form or a timer. AppView listens to the links itself: those of a
\* view that has been destroyed and is still in the DOM work as well. The
\* error page has none.
Go(url, replace) ==
    /\ shown # 0
    /\ Hasty \/ Settled
    /\ Navigate(views, url, replace)

\* beforeRender or checkAuthorization sends the user to a view of another
\* class, also when the view has been destroyed meanwhile.
Redirect(i, url) ==
    /\ views[i].is = "rendering"
    /\ ViewOf[url] # ViewOf[views[i].page.url]
    /\ Hasty \/ \A j \in Created \ {i} : views[j].is # "rendering"
    /\ Navigate([views EXCEPT ![i].is = "navigated"], url, FALSE)

\* Mutant: the current view is kept, whoever refuses.
RefusedStaysCurrent(i) ==
    /\ views[i].is = "navigated"
    /\ views' = [views EXCEPT ![i].is = "refused", ![i].alive = FALSE]
    /\ UNCHANGED <<browser, canGoBack, made, viewModels, attributes, loading, current, shown>>

\* Mutant: a refusal forgets the view that is shown.
RefusedDropsCurrent(i) ==
    /\ views[i].is = "navigated"
    /\ views' = [views EXCEPT ![i].is = "refused", ![i].alive = FALSE]
    /\ current' = 0
    /\ UNCHANGED <<browser, canGoBack, made, viewModels, attributes, loading, shown>>

\* render resolves to false
Refused(i) ==
    /\ views[i].is = "navigated"
    /\ views' = [views EXCEPT ![i].is = "refused", ![i].alive = FALSE]
    /\ current' = IF current = i THEN 0 ELSE current
    /\ UNCHANGED <<browser, canGoBack, made, viewModels, attributes, loading, shown>>

\* render resolves to true: nobody asks whether the view is still wanted.
Rendered(i) ==
    /\ views[i].is = "rendering"
    /\ views' = [views EXCEPT ![i].is = "shown"]
    /\ shown' = i
    /\ canGoBack' = TRUE
    /\ UNCHANGED <<browser, made, viewModels, attributes, loading, current>>

\* render rejects: fatalError writes the error page, whatever is shown, and
\* the view is neither destroyed nor forgotten.
RenderFails(i) ==
    /\ views[i].is \in {"rendering", "navigated"}
    /\ views' = [views EXCEPT ![i].is = "failed"]
    /\ shown' = 0
    /\ UNCHANGED <<browser, canGoBack, made, viewModels, attributes, loading, current>>

-----------------------------------------------------------------------------
\* BackMixin.back and navigateBack; the data it may bring is for the page one
\* goes back to. Going back from the first page leaves the application.
Back(i) ==
    /\ i = shown /\ views[i].alive /\ views[i].canGoBack
    /\ Hasty \/ Settled
    /\ place > back + 1
    /\ views' = [views EXCEPT ![i].canGoBack = FALSE]
    /\ viewModels' = IF viewModels = <<>> THEN <<>> ELSE SubSeq(viewModels, 1, Len(viewModels) - 1)
    /\ back' = back + 1
    /\ UNCHANGED <<history, place, canGoBack, made, attributes, loading, current, shown>>

\* checkUrl of Backbone: a page with the URL of the last one is not routed to.
Traverse(to) ==
    /\ to \in DOMAIN history
    /\ place' = to
    /\ \/ /\ history[to].url = history[place].url
          /\ UNCHANGED app
       \/ /\ history[to].url # history[place].url
          /\ Route(views, history[to], viewModels, attributes)
    /\ UNCHANGED <<history, canGoBack, made, viewModels>>

\* history.back() arrives.
PopState ==
    /\ back > 0
    /\ back' = back - 1
    /\ Traverse(place - 1)

\* The browser's buttons.
BrowserTraverses(to) ==
    /\ BrowserButtons
    /\ Hasty \/ Settled
    /\ to \in {place - 1, place + 1}
    /\ Traverse(to)
    /\ UNCHANGED back

\* The page is loaded again: the history and the session storage remain.
Reload ==
    /\ ViewOf[history[place].url] \notin Lazy
    /\ viewModels' = <<>> /\ attributes' = [m \in Model |-> {}]
    /\ views' = <<NewView(history[place], Own(1))>>
    /\ current' = 1 /\ shown' = 0
    /\ loading' = {} /\ back' = 0
    /\ UNCHANGED <<history, place, canGoBack, made>>

Next ==
    \/ \E url \in Url, replace \in BOOLEAN : Go(url, replace)
    \/ \E i \in Created, url \in Url : Redirect(i, url)
    \/ \E i \in Created : Refused(i)
    \/ \E i \in Created : Rendered(i)
    \/ \E i \in Created : RenderFails(i)
    \/ \E page \in loading : Imported(page)
    \/ \E i \in Created : Back(i)
    \/ PopState
    \/ \E to \in DOMAIN history : BrowserTraverses(to)
    \/ Reload

Spec == Init /\ [][Next]_vars

\* Rendering ends.
RenderingEnds(i) == i \in Created /\ (Refused(i) \/ Rendered(i) \/ RenderFails(i))

FairSpec == Spec /\ \A i \in 1..MaxViews : WF_vars(RenderingEnds(i))

-----------------------------------------------------------------------------
TypeOK ==
    /\ history \in Seq(Page) /\ place \in DOMAIN history
    /\ back \in Nat /\ canGoBack \in BOOLEAN
    /\ made \in Data /\ viewModels \in Seq(Data \ {0})
    /\ attributes \in [Model -> SUBSET Page]
    /\ loading \subseteq Page
    /\ views \in Seq(Instance) /\ Len(views) <= MaxViews
    /\ current \in Created \cup {0} /\ shown \in Created \cup {0}

\* Whatever order navigations, redirections and renderings take, the view the
\* application holds is the only one that is not destroyed: none is leaked,
\* and no destroyed one is taken for the one to keep (the comment on #3187 in
\* showView).
AliveIsCurrent ==
    \A i \in Created : views[i].alive <=> i = current

\* The application does not hold on to a view that never comes: a current view
\* is written into the page, gives way to another one, or its rendering ends
\* with the error page in place of whatever was shown. Such a view stays the
\* current one (app.js:154): a route of its class would not render it again.
CurrentIsWritten ==
    \A i \in 1..MaxViews :
        current = i ~> (current # i \/ views[i].is \in {"shown", "failed"})

\* The view that is shown when nothing is under way is that of the URL.
ScreenIsOfTheUrl ==
    Settled /\ shown # 0 => views[shown].page.url = history[place].url

\* No view has data that was meant for a page of another view. Several URLs of
\* one view share its model (app.js:104).
DataIsOfTheView ==
    \A i \in Created : \A page \in attributes[views[i].model] :
        ViewOf[page.url] = ViewOf[views[i].page.url]

\* "Navigate to `url` using `nextViewData` as the data for the view's model."
\* (src/app/scripts/lib/router.js:217): the view that is shown has data that
\* was meant for its URL, if the stack has any since the page was loaded.
DataIsThere ==
    Settled /\ shown # 0 /\ viewModels # <<>> =>
        \E page \in attributes[views[shown].model] : page.url = history[place].url

=============================================================================
